SPECIFICATION FairSpec
CONSTANTS
  UnitsPerMs = 1
  Exec = {e1}
  Limit = 1
  Additional = 1
  MaxIterations = 1
  MaxExtra = 1
  MaxGen = 3
  MaxCalls = 1
  MaxTime = 2
PROPERTY DeadlineIsEnforced
CHECK_DEADLOCK FALSE

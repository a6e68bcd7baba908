SPECIFICATION Spec
CONSTANTS
  UnitsPerMs = 1
  Exec = {e1}
  Limit = 2
  Additional = 1
  MaxIterations = 1
  MaxExtra = 1
  MaxGen = 2
  MaxCalls = 2
  MaxTime = 3
INVARIANT UpdateNeverBlocks
CHECK_DEADLOCK FALSE

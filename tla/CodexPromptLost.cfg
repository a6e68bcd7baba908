SPECIFICATION Spec
CONSTANTS
  MaxCalls = 2
  ConnCount = 3
  Attempts = 2
  ContinueLimit = 1
  MaxFaults <- MCNoFaults
INVARIANT ContinuesInterruptedTurns
CHECK_DEADLOCK FALSE

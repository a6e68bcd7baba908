SPECIFICATION Spec
CONSTANTS
  Last = 3
  Planning = 1
  Implementation = 2
  Judge = 3
  Callers = {p1}
  Snapshots <- MCReopened
INVARIANT WaitingCanStart
CHECK_DEADLOCK FALSE

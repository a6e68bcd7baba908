SPECIFICATION Spec
CONSTANTS
  TuiCount = 2
  DaemonCount = 2
  Scenarios <- MCScenarios
  Cap = 1
INVARIANT TypeOK
INVARIANT NeverTwice
INVARIANT NothingVanishes
PROPERTY Reconnects
\* All TUIs may have quit.
CHECK_DEADLOCK FALSE

SPECIFICATION Spec
CONSTANTS
  Procs = {p1, p2}
  Findings = {f1, f2}
  MaxLegacy = 2
  MaxCycles = 2
  MaxReports = 2
  MaxCommands = 3
  MaxDeaths = 1
SYMMETRY Symmetry
INVARIANT TypeOK
INVARIANT AdoptionsAreBalanced
INVARIANT DeferredIsKept
INVARIANT EndedCycleHoldsNoTodo
INVARIANT LegacyLineOnce
INVARIANT LegacyLineIsKept
INVARIANT ProjectionIsCurrent
PROPERTY AdvancesAfterProjection
PROPERTY ImplementsLifecycle
CHECK_DEADLOCK FALSE

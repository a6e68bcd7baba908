SPECIFICATION Spec
CONSTANTS
  UnitsPerMs = 1
  Exec = {e1, e2}
  Limit = 1
  Additional = 1
  MaxIterations = 1
  MaxExtra = 1
  MaxGen = 3
  MaxCalls = 1
  MaxTime = 2
SYMMETRY Symmetry
INVARIANT TypeOK
INVARIANT NeverOvercharged
INVARIANT RevokedTokensAreStale
INVARIANT ActiveIsWatched
INVARIANT EscalatedStopsClock
PROPERTY GenerationIsOneAttempt
PROPERTY SpentNeedsIncrease
CHECK_DEADLOCK FALSE

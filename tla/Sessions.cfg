SPECIFICATION Spec
CONSTANTS
  a = a
  b = b
  Tuis = {a, b}
  Sessions = {s1, s2}
  Stored = {s1}
  None = None
  TTL = 1
  Hasty = {}
  Budgets <- MCBudgets
INVARIANT TypeOK
INVARIANT LeaseIsHeld
INVARIANT PendingIsCleanedUp
INVARIANT NoLeaseLeftBehind
\* All commands of the budget may have been given.
CHECK_DEADLOCK FALSE

SPECIFICATION Spec
CONSTANTS
  Owner = {n1, s1, p1}
  NoOwner = NoOwner
  Normal = {n1, p1}
  Probing = {p1}
  Key = {k1, k2}
  DailyLimit = 2
  ReservedLimit = 1
  LastDay = 2
  MaxGeneration = 2
INVARIANTS TypeOK BudgetHeld ChargedOnce PaidIsCharged LedgerExact
SYMMETRY Symmetry
CHECK_DEADLOCK FALSE

SPECIFICATION Spec
CONSTANTS
  Run = {r1}
  Item = {i1}
  Slots = 1
  NoPlan = NoPlan
  MaxAttempts = 2
INVARIANTS ResearchNowAvailable
CHECK_DEADLOCK FALSE

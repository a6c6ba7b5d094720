SPECIFICATION Spec
CONSTANTS
  Provider = {p1, p2, p3}
  Payg = {p1}
  ProviderLimit = 2
  MaxAttempts = 2
  MaxGeneration = 1
INVARIANTS RearmNormalizes
SYMMETRY Symmetry
CHECK_DEADLOCK FALSE

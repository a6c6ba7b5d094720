SPECIFICATION Spec
CONSTANTS
  Windowed = FALSE
  LastDay = 2
  MaxMishaps = 2
  Windows = {0, 1, 2, 3, 4, 5, 6, 7, 8}
INVARIANTS NotLost
CHECK_DEADLOCK FALSE

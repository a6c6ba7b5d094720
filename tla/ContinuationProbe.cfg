SPECIFICATION FairSpec
CONSTANTS
  Windowed = TRUE
  LastDay = 2
  MaxMishaps = 2
  Windows = {0, 1, 2, 3, 4, 5, 6, 7}
INVARIANTS NotLost
PROPERTIES EventuallyValidated
CHECK_DEADLOCK FALSE

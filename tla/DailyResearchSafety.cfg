SPECIFICATION Spec
CONSTANTS
  Run = {r1}
  Item = {i1, i2}
  Slots = 3
  NoPlan = NoPlan
  MaxAttempts = 3
INVARIANTS TypeOK ProgressIsPrefix JobDoneRunDone
PROPERTIES ImplementsFanOut NoRegression ImplementsLifecycle
CHECK_DEADLOCK FALSE

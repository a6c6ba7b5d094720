SPECIFICATION Spec
CONSTANTS
  Upload = {u1, u2}
  MaxRun = 2
  MaxAttempts = 2
  MaxVersion = 2
  MaxRunning = 1
  Note = {n1, n2}
  Sender = {s1, s2}
  Digest = {d1, d2}
  DigestLimit = 2
INVARIANTS CompletedIsWhole ScoresSound ChoicesSound TalliesSound BusinessSound HoldBlocks DeliveredWasTold
CHECK_DEADLOCK FALSE

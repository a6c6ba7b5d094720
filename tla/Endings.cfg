SPECIFICATION FairSpec
CONSTANTS
  Job = {j1}
  DailyJob = {j1}
  Worker = {w1}
  NoWorker = NoWorker
  MaxAttempts = 2
  ClaimLimit = 1
  MaxOrphans = 1
  Caller = {c1, c2, c3}
  Retries = 2
  MaxChanges = 2
INVARIANTS CallsInBounds NothingLeft
PROPERTIES EventuallySettled CallsEnd
CHECK_DEADLOCK FALSE

SPECIFICATION Spec
CONSTANTS
  Job = {j1}
  DailyJob = {j1}
  Worker = {w1, w2}
  NoWorker = NoWorker
  MaxAttempts = 2
  ClaimLimit = 1
  MaxOrphans = 1
INVARIANTS TypeOK EpochsFence ReportedIsCompleted
PROPERTIES ImplementsLifecycle OnlyHolderCheckpoints
SYMMETRY Symmetry

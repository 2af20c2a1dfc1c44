\* Two rows for one piece of work, three processes, crashes and lost leases.
CONSTANTS
  JobIds = {"A", "B"}
  Workers = {w1, w2, w3}
  Types = {"normalize"}
  Keys = {"k"}
  NoKey = NoKey
  NoWorker = NoWorker
  NoJob = NoJob
  TypeOf <- TwinsTypeOf
  KeyOf <- TwinsKeyOf
  PriorityOf <- TwinsPriorityOf
  MaxAttempts <- TwinsMaxAttempts
  Serves <- ServesOf
  Registered <- RegisteredOf
  Drains = {}
  Older = {}
  Lease = 1
  MaxBackoff = 1
  ReclaimLimit = 1
SPECIFICATION Spec
SYMMETRY SymWorkers
INVARIANTS
  TypeOK
  NoDuplicateLiveJobs
  RunningRowHasItsWorker
  AttemptsWithinBudget
PROPERTIES
  OnlyTheClaimHolderSettles
  KeepsLifecycle
  KeepsHandout
CHECK_DEADLOCK FALSE

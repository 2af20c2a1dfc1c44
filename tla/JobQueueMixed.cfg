\* Two kinds of work, a service without the extract handler and a drain, under fairness.
CONSTANTS
  JobIds = {"A", "C"}
  Workers = {"service", "drain"}
  Types = {"normalize", "extract"}
  Keys = {"k"}
  NoKey = NoKey
  NoWorker = NoWorker
  NoJob = NoJob
  TypeOf <- MixedTypeOf
  KeyOf <- MixedKeyOf
  PriorityOf <- MixedPriorityOf
  MaxAttempts <- MixedMaxAttempts
  Serves <- ServesOf
  Registered <- RegisteredOf
  Drains = {"drain"}
  Older = {"service"}
  Lease = 1
  MaxBackoff = 1
  ReclaimLimit = 2
SPECIFICATION FairSpec
PROPERTIES
  EveryJobSettles
CHECK_DEADLOCK FALSE

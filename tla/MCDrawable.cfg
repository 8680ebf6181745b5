SPECIFICATION FairSpec
CONSTANTS
  Policies = {"Sync", "SyncOnSubmit", "PreAcquire", "Async"}
  MaxPresents = 5
  Ahead = 3
  MaxResizes = 2
  MayNil = TRUE
  MaySkip = TRUE
  MayReject = TRUE
INVARIANTS
  DrawablesAccounted
  PrefetchCurrent
PROPERTIES
  FulfilledOnce
  SyncEncoderReturns
CHECK_DEADLOCK FALSE

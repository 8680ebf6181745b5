SPECIFICATION Spec
CONSTANTS
  Policies = {"PreAcquire"}
  MaxPresents = 3
  Ahead = 2
  MaxResizes = 1
  MayNil = FALSE
  MaySkip = FALSE
  MayReject = FALSE
INVARIANTS
  PrefetchFresh
CHECK_DEADLOCK FALSE

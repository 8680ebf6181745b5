SPECIFICATION Spec
CONSTANTS
  Policies = {"Async"}
  MaxPresents = 4
  Ahead = 2
  MaxResizes = 2
  MayNil = FALSE
  MaySkip = FALSE
  MayReject = FALSE
INVARIANTS
  StashAccepted
CHECK_DEADLOCK FALSE

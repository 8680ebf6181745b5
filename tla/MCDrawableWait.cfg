SPECIFICATION FairSpec
CONSTANTS
  Policies = {"Async"}
  MaxPresents = 4
  Ahead = 1
  MaxResizes = 2
  MayNil = FALSE
  MaySkip = TRUE
  MayReject = FALSE
PROPERTIES
  EncoderReturns
CHECK_DEADLOCK FALSE

SPECIFICATION FairSpec
CONSTANTS
  Policies = {"Default", "PresentCompletion"}
  Latencies = {1}
  BackBuffers = {1}
  DefaultLatency = 3
  MaxLatency = 4
  MaxQueued = 3
  Kinds = {"paced"}
  MayFailEncode = TRUE
  MayEnd = FALSE
  MaxChunks = 3
PROPERTIES
  AppReturns
CHECK_DEADLOCK FALSE

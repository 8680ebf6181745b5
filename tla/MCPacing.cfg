SPECIFICATION FairSpec
CONSTANTS
  Policies = {"Default", "AfterAcquire", "Completion", "PresentCompletion", "Deferred", "Disabled"}
  Latencies = {0, 2}
  BackBuffers = {1}
  DefaultLatency = 2
  MaxLatency = 3
  MaxQueued = 2
  Kinds = {"paced", "direct"}
  MayFailEncode = TRUE
  MayEnd = TRUE
  MaxChunks = 3
INVARIANTS
  BoundariesSound
  CompletionAccounting
PROPERTIES
  PacedReturns
CHECK_DEADLOCK FALSE

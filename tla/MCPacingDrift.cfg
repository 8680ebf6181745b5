SPECIFICATION Spec
CONSTANTS
  Policies = {"PresentCompletion"}
  Latencies = {2}
  BackBuffers = {1}
  DefaultLatency = 3
  MaxLatency = 4
  MaxQueued = 3
  Kinds = {"direct"}
  MayFailEncode = FALSE
  MayEnd = FALSE
  MaxChunks = 3
INVARIANTS
  OrdinalCorrespondence
CHECK_DEADLOCK FALSE

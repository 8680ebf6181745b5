SPECIFICATION Spec
CONSTANTS
  SlotCount = 2
  ReceiptCount = 1
  SessionSources = 0
  MaxSeqId = 1
INVARIANTS
  JoinRetiresCallbacks
CHECK_DEADLOCK FALSE

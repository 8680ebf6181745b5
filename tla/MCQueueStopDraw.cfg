SPECIFICATION Spec
CONSTANTS
  SlotCount = 2
  ReceiptCount = 1
  SessionSources = 0
  MaxSeqId = 1
INVARIANTS
  CurrentSlotEnsured
CHECK_DEADLOCK FALSE

SPECIFICATION Spec
CONSTANTS
  SlotCount = 3
  ReceiptCount = 1
  SessionSources = 0
  MaxSeqId = 2
INVARIANTS
  InlineCompletes
CHECK_DEADLOCK FALSE

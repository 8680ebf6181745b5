SPECIFICATION FairSpec
CONSTANTS
  SlotCount = 3
  ReceiptCount = 1
  SessionSources = 2
  MaxSeqId = 3
INVARIANTS
  NoSpuriousPoison
  PipelineExact
PROPERTIES
  ClientReturns
  CompletesInOrder
CHECK_DEADLOCK FALSE

SPECIFICATION FairSpec
CONSTANTS
  SlotCount = 3
  ReceiptCount = 1
  SessionSources = 0
  MaxSeqId = 3
INVARIANTS
  UnboundNeverEncoded
  MapObservesDraw
  NoLostWakeup
PROPERTIES
  NoPublishAfterStop
  NobodyStuck
  CompletesEventually
CHECK_DEADLOCK FALSE

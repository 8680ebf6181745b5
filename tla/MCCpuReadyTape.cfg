SPECIFICATION Spec
CONSTANTS
  SourceSlotCount = 3
  PageCount = 4
  MaxPagesPerSource = 2
  ReadyFifoCount = 2
  CompatibilityPayloadCount = 2
  HighWaterSources = 3
  LowWaterSources = 1
  HighWaterPages = 4
  LowWaterPages = 2
  HighWaterReady = 2
  LowWaterReady = 1
  MaxArenaBatchSources = 2
  MaxAllocation = 4
  MaxSeqId = 4
INVARIANTS
  TypeOK
  PagesExact
  PublicationNeverRefused
  PublicationOrder
  IdentityUnique
  GroupLeavesTogether
  EmptyTapeAdmits
CHECK_DEADLOCK FALSE

SPECIFICATION Spec
CHECK_DEADLOCK FALSE
CONSTANTS
    LeaseLimit = 1
    EventCapacity = 32
    Ranges = TRUE
    MayStop = TRUE
    MaxSources = 2
    MaxChunk = 2
    MaxControls = 2
    MaxTeardowns = 2
    MaxWaits = 1
INVARIANTS
    ReleaseCovers
    AckNeverRejected
    TransportExact
PROPERTY ReleasesReturn

SPECIFICATION Spec
CHECK_DEADLOCK FALSE
CONSTANTS
    LeaseLimit = 1
    EventCapacity = 32
    Ranges = TRUE
    MayStop = FALSE
    MaxSources = 2
    MaxChunk = 2
    MaxControls = 0
    MaxTeardowns = 2
    MaxWaits = 0
INVARIANT TeardownsComplete

SPECIFICATION Spec
CHECK_DEADLOCK FALSE
CONSTANTS
    LeaseLimit = 1
    EventCapacity = 32
    Ranges = TRUE
    MayStop = FALSE
    MaxSources = 2
    MaxChunk = 2
    MaxControls = 1
    MaxTeardowns = 1
    MaxWaits = 0
PROPERTY TerminalConsumes

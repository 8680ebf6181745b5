SPECIFICATION Spec
CONSTANTS
    Threads = {t1, t2}
    Buffers = {b}
    Queries = {q}
    Chunks <- InlineChunks
    SpanBytes = {1}
    Calls = {"Chunk", "Unlock"}
    MaxChunks = 2
    MaxBytes = 2
    MaxCalls = 3
    MayFail = FALSE
    MayStarve = FALSE
INVARIANT
    ReplaySerial

SPECIFICATION Spec
CONSTANTS
    Threads = {t1}
    Buffers = {b}
    Queries = {q}
    Chunks <- MixedChunks
    SpanBytes = {1}
    Calls = {"Chunk", "StateBlock", "Lock", "Unlock", "UnlockNoOverwrite", "Drain", "GetData"}
    MaxChunks = 2
    MaxBytes = 2
    MaxCalls = 5
    MayFail = TRUE
    MayStarve = TRUE
INVARIANTS
  ProgramOrder
  ReplaySerial

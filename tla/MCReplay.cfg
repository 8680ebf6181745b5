SPECIFICATION FairSpec
CONSTANTS
    Threads = {t1, t2}
    Buffers = {b}
    Queries = {q}
    Chunks <- OffloadChunks
    SpanBytes = {1, 3}
    Calls = {"Chunk", "StateBlock", "Lock", "Unlock", "UnlockNoOverwrite", "Drain", "GetData"}
    MaxChunks = 2
    MaxBytes = 2
    MaxCalls = 3
    MayFail = TRUE
    MayStarve = TRUE
INVARIANTS
  BooksExact
  OrdinalOrder
  DirectCallsCurrent
PROPERTIES
  NothingStuck
CHECK_DEADLOCK FALSE

SPECIFICATION FairSpec
CONSTANTS
    Flavours = {"dynamic", "managed", "plain"}
    Cells = {1, 2}
    Spans = {{1}, {2}}
    MaxWrites = 2
    MaxDraws = 2
    MaxSeq = 1
INVARIANTS
  DrawsReadWhatWasWritten
  LifetimeCovered
PROPERTIES
  BuffersProgress
CHECK_DEADLOCK FALSE

SPECIFICATION Spec
CONSTANTS
    Flavours = {"dynamic", "managed", "plain"}
    Cells = {1, 2}
    Spans = {{1}, {2}}
    MaxWrites = 3
    MaxDraws = 2
    MaxSeq = 1
INVARIANTS
  DrawsReadWhatWasWritten
  LifetimeCovered
CHECK_DEADLOCK FALSE

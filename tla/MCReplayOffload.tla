--------------------------- MODULE MCReplayOffload ---------------------------
(***************************************************************************)
(* Instances of ReplayOffload for TLC: which command chunks the recorder   *)
(* thread commits.  One byte is half of the byte bound; three exceed it.   *)
(***************************************************************************)
EXTENDS ReplayOffload

Chunk(res, bytes, inline) == [res |-> res, bytes |-> bytes, inline |-> inline]

\* A chunk that draws from every buffer and issues every query, and an
\* oversized chunk that touches neither.
OffloadChunks == {Chunk(Targets, 1, FALSE), Chunk({}, 3, FALSE)}

\* The same with a readback chunk, which is replayed on the calling thread.
MixedChunks == {Chunk(Targets, 1, FALSE), Chunk(Targets, 1, TRUE)}

InlineChunks == {Chunk(Targets, 1, TRUE)}
=============================================================================

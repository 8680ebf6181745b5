---------------------------- MODULE BufferVersions ----------------------------
(***************************************************************************)
(* Versions of a buffer's storage and the life of its record:              *)
(* src/src/dxmt9/dxmt9_resource_pool.{hpp,cpp}, the marking and mapping    *)
(* paths of dxmt9_command_queue.cpp, src/src/d3d9/core_buffer.cpp and the  *)
(* buffer entries of device_c_replay_offload.cpp.                          *)
(*                                                                         *)
(* One buffer, of one of three flavours:                                   *)
(*   "dynamic"  DEFAULT pool, dynamic usage: DISCARD renames the backing;  *)
(*   "managed"  MANAGED pool: a writable Unlock renames the backing;       *)
(*   "plain"    a single backing, the CPU waits for the GPU.               *)
(* The application draws from it, locks and unlocks it and drops it, the   *)
(* replay worker turns the commits into draws of the writing slot, the     *)
(* slots are published and complete in order.  Four things keep a backing  *)
(* from being written or freed too early and each covers a part of a       *)
(* draw's way: the recorder's flush, the residency of a committed chunk,   *)
(* the sequence stamps, and the references that chunks and mutations hold. *)
(*                                                                         *)
(* A step is one critical section of the queue mutex or of the buffer      *)
(* arena's lock, or one atomic access.  The content of a backing is one    *)
(* number for each cell: the number of the write that put it there.        *)
(***************************************************************************)
EXTENDS Naturals, Sequences, FiniteSets, Functions

CONSTANTS
    Flavours,   \* the flavours the buffer may be created with
    Cells,      \* the parts of the buffer that draws and locks tell apart
    Spans,      \* the sets of cells that a draw reads or a lock names
    MaxWrites,  \* bound: Lock/Unlock pairs
    MaxDraws,   \* bound: draws
    MaxSeq      \* bound: sequence numbers spent on sources of other buffers

ASSUME VersionConstants ==
    /\ Flavours \subseteq {"dynamic", "managed", "plain"}
    /\ IsFiniteSet(Cells) /\ Spans \subseteq (SUBSET Cells) \ {{}}
    /\ {MaxWrites, MaxDraws, MaxSeq} \subseteq Nat

VARIABLES
    flavour,   \* pool and usage of the buffer
    buf,       \* the pool's BufferRecord: [live, destroyPending, lastUsed,
               \*   ring, active, shadow]; a ring entry is [used, bytes]
    storage,   \* storage_ of the core Buffer, what the application sees
    app,       \* the application thread inside Lock/Unlock
    handle,    \* the application still holds its reference
    recorder,  \* draws recorded and not committed yet
    fifo,      \* replay tasks: committed chunks and managed mutations
    wpc, task, ticket,   \* the replay worker
    slot,      \* draws in the writing slot
    nextSeq,   \* nextSeqId_
    gpu,       \* published slots, oldest first
    completed, \* completedSeqId_
    finish,    \* the finish loop has a completion to reclaim for
    era,       \* history: DISCARD locks so far
    writes, drawn   \* counters for the bounds

avars == <<storage, app, handle, recorder, era, writes, drawn>>
wvars == <<wpc, task, ticket>>
qvars == <<slot, nextSeq, gpu, completed, finish>>
vars  == <<flavour, buf, avars, fifo, wvars, qvars>>

Blank  == [c \in Cells |-> 0]
NoCall == [pc |-> "idle", mode |-> "none", span |-> {}, seq |-> 0]
NoTask == [kind |-> "none", backing |-> 0]
Modes  == {"discard", "nooverwrite", "plain"}

Versioned == flavour # "plain"

----------------------------------------------------------------------------
(* The record. *)

\* Queued tasks and the one the worker has not let go of.
Held == Range(fifo) \cup (IF wpc = "idle" THEN {} ELSE {task})

\* replayResident: a task owns a share of the entry's replayResidency.
Resident(i) == \E t \in Held : t.backing = i

\* markStampUpper.
StampUpper(used, seq) == IF used < seq THEN seq ELSE used

\* applyBufferUseStamp, once for each use: a captured backing, or (0) whichever
\* is active.
Stamped(b, backings, seq) ==
    LET touched == {IF k = 0 THEN b.active ELSE k : k \in backings} IN
    IF ~b.live \/ backings = {} THEN b
    ELSE [b EXCEPT !.lastUsed = StampUpper(@, seq),
                   !.ring = [i \in DOMAIN b.ring |->
                       IF Versioned /\ i \in touched
                       THEN [used |-> StampUpper(b.ring[i].used, seq),
                             bytes |-> b.ring[i].bytes]
                       ELSE b.ring[i]]]

\* Mutant: a rotation looks at the stamp only, not at the captures of chunks and
\* mutations that have not been replayed.
IdleEntryUnleased(b, i, done) == b.ring[i].used <= done

\* An entry rotateBufferBacking may hand out.
IdleEntry(b, i, done) == b.ring[i].used <= done /\ ~Resident(i)

\* rotateBufferBacking: the active entry if it is idle, else the first idle one,
\* else a new allocation; it never waits.
Rotated(b, done) ==
    LET idle == {i \in DOMAIN b.ring : IdleEntry(b, i, done)}
    IN  IF b.active \in idle THEN b
        ELSE IF idle # {}
             THEN [b EXCEPT !.active = CHOOSE i \in idle : \A j \in idle : i <= j]
             ELSE [b EXCEPT !.ring = Append(@, [used |-> 0, bytes |-> Blank]),
                            !.active = Len(b.ring) + 1]

\* The bytes of span replace those of old.
Patched(old, new, span) == [c \in Cells |-> IF c \in span THEN new[c] ELSE old[c]]

\* A copy of storage_ into the active backing and the record's shadow.
Copied(b, span) ==
    [b EXCEPT !.ring[b.active].bytes = Patched(@, storage, span),
              !.shadow = Patched(@, storage, span)]

\* canReclaimRecord.
CanReclaim(b) == b.destroyPending /\ b.lastUsed <= completed

\* reclaimCompleted.
Reclaimed(b) == IF CanReclaim(b) THEN [b EXCEPT !.live = FALSE] ELSE b

\* markBufferDestroyAndGc, reached when the last reference to the core Buffer goes.
Destroyed(b) == Reclaimed([b EXCEPT !.destroyPending = TRUE])

Init ==
    /\ flavour \in Flavours
    /\ buf = [live |-> TRUE, destroyPending |-> FALSE, lastUsed |-> 0,
              ring |-> <<[used |-> 0, bytes |-> Blank]>>, active |-> 1,
              shadow |-> Blank]
    /\ storage = Blank /\ app = NoCall /\ handle = TRUE /\ recorder = <<>>
    /\ fifo = <<>> /\ wpc = "idle" /\ task = NoTask /\ ticket = 0
    /\ slot = <<>> /\ nextSeq = 1 /\ gpu = <<>> /\ completed = 0
    /\ finish = FALSE /\ era = 0 /\ writes = 0 /\ drawn = 0

----------------------------------------------------------------------------
(* The application thread. *)

Draws(seqs) == UNION {Range(s) : s \in seqs}

\* Draws the GPU has not finished, wherever they are.
Unfinished ==
    Draws({recorder, slot} \cup Range(gpu)
          \cup {t.draws : t \in {h \in Held : h.kind = "chunk"}})

\* A draw that reads some cells of the buffer, recorded on the PE side.
Draw(reads) ==
    /\ app.pc = "idle" /\ handle /\ drawn < MaxDraws
    /\ recorder' = Append(recorder, [backing |-> 0, era |-> era,
                                     reads |-> reads, want |-> storage])
    /\ drawn' = drawn + 1
    /\ UNCHANGED <<flavour, buf, storage, app, handle, era, writes, fifo,
                   wvars, qvars>>

\* The recorded draws as one task: captureChunkBufferBindings pins the backing
\* that is active now.
Sealed ==
    IF recorder = <<>> THEN fifo
    ELSE Append(fifo, [kind |-> "chunk", backing |-> buf.active,
                       draws |-> [i \in DOMAIN recorder |->
                           [recorder[i] EXCEPT !.backing = buf.active]]])

CommitChunk ==
    /\ app.pc = "idle" /\ recorder # <<>>
    /\ fifo' = Sealed /\ recorder' = <<>>
    /\ UNCHANGED <<flavour, buf, storage, app, handle, era, writes, drawn,
                   wvars, qvars>>

\* bufferLockRequiresHazardFlush.
LockFlushes(mode) == mode # "nooverwrite"

\* What D3DLOCK_NOOVERWRITE promises: no byte that a pending draw of the present
\* contents reads will be written.
PromiseKept(mode, span) ==
    mode = "nooverwrite" =>
        \A d \in Unfinished : d.era = era => d.reads \cap span = {}

\* Lock up to its fence: the recorder is flushed, the core buffer clears its
\* storage for a DISCARD.  A DISCARD lock starts at offset 0, so it is a lock of
\* everything.
Lock(mode, span) ==
    /\ app.pc = "idle" /\ handle /\ writes < MaxWrites
    /\ PromiseKept(mode, span)
    /\ app' = [pc |-> "fence", mode |-> mode, span |-> span, seq |-> 0]
    /\ fifo' = IF LockFlushes(mode) THEN Sealed ELSE fifo
    /\ recorder' = IF LockFlushes(mode) THEN <<>> ELSE recorder
    /\ storage' = IF mode = "discard" /\ flavour = "dynamic" THEN Blank ELSE storage
    /\ era' = IF mode = "discard" THEN era + 1 ELSE era
    /\ UNCHANGED <<flavour, buf, handle, writes, drawn, wvars, qvars>>

\* bufferLockClassBypassesReplay.
BypassesReplay ==
    \/ app.mode = "nooverwrite"
    \/ (app.mode = "discard" /\ flavour = "dynamic")

\* ReplayDrainLedger::pending of the buffer's target.
Pending == fifo # <<>> \/ wpc \notin {"idle", "settle"}

\* drainDeferredReplayForBufferLock.
LockFence ==
    /\ app.pc = "fence"
    /\ BypassesReplay \/ ~Pending
    /\ app' = [app EXCEPT !.pc = "map"]
    /\ UNCHANGED <<flavour, buf, storage, handle, recorder, era, writes, drawn,
                   fifo, wvars, qvars>>

\* mapWaitSeqId.
MapWaitSeq ==
    IF \/ app.mode = "nooverwrite" \/ flavour = "managed"
       \/ (app.mode = "discard" /\ flavour = "dynamic")
    THEN 0 ELSE buf.lastUsed

\* finalizeBufferMap.
Finalized(done) ==
    IF app.mode # "discard" \/ flavour = "managed" THEN buf
    ELSE LET b == IF flavour = "dynamic" THEN Rotated(buf, done) ELSE buf
         IN  [b EXCEPT !.ring[b.active].bytes = Blank, !.shadow = Blank]

\* The fast lane of mapBuffer takes no mutex: the completion watermark it read
\* may be behind when the arena is updated.
MapFast ==
    /\ app.pc = "map" /\ MapWaitSeq = 0
    /\ app' = [app EXCEPT !.pc = "finalize", !.seq = completed]
    /\ UNCHANGED <<flavour, buf, storage, handle, recorder, era, writes, drawn,
                   fifo, wvars, qvars>>

FinalizeFast ==
    /\ app.pc = "finalize"
    /\ buf' = Finalized(app.seq)
    /\ app' = [app EXCEPT !.pc = "locked", !.seq = 0]
    /\ UNCHANGED <<flavour, storage, handle, recorder, era, writes, drawn,
                   fifo, wvars, qvars>>

\* The stamps of prepareSlotForPublish: every draw of the slot, with its number.
SlotStamped == Stamped(buf, {d.backing : d \in Range(slot)}, nextSeq)

\* commitCurrentChunk with prepareSlotForPublish.
PublishWritingSlot ==
    /\ buf' = SlotStamped
    /\ gpu' = Append(gpu, slot) /\ slot' = <<>> /\ nextSeq' = nextSeq + 1
    /\ UNCHANGED <<completed, finish>>

\* Mutant: the wait is for the stamp, published or not.
CommittedWaitTargetUnclamped(seq, lastCommitted) == seq

\* committedSequenceWaitTarget.
CommittedWaitTarget(seq, lastCommitted) ==
    IF seq <= lastCommitted THEN seq ELSE lastCommitted

\* The slow lane of mapBuffer up to its wait: the chunk that the stamp belongs to
\* is published first; what is waited for is clamped to what was published.
MapSlow ==
    /\ app.pc = "map" /\ MapWaitSeq # 0
    /\ IF MapWaitSeq > nextSeq - 1 /\ slot # <<>>
       THEN PublishWritingSlot
       ELSE UNCHANGED <<buf, qvars>>
    /\ app' = [app EXCEPT !.pc = "wait",
                          !.seq = CommittedWaitTarget(MapWaitSeq, nextSeq' - 1)]
    /\ UNCHANGED <<flavour, storage, handle, recorder, era, writes, drawn,
                   fifo, wvars>>

MapWaited ==
    /\ app.pc = "wait" /\ app.seq <= completed
    /\ buf' = Finalized(completed)
    /\ app' = [app EXCEPT !.pc = "locked", !.seq = 0]
    /\ UNCHANGED <<flavour, storage, handle, recorder, era, writes, drawn,
                   fifo, wvars, qvars>>

\* The application fills the range it locked and calls Unlock.
Write ==
    /\ app.pc = "locked"
    /\ storage' = [c \in Cells |-> IF c \in app.span THEN writes + 1 ELSE storage[c]]
    /\ writes' = writes + 1
    /\ app' = [app EXCEPT !.pc = "unlock"]
    /\ UNCHANGED <<flavour, buf, handle, recorder, era, drawn, fifo, wvars, qvars>>

\* admitsManagedMutationOffload.
Offloaded == flavour = "managed" /\ app.mode = "plain"

\* offloadManagedBufferMutation: the backing is chosen now, the bytes are staged
\* and written when the worker reaches the task.
UnlockOffload ==
    /\ app.pc = "unlock" /\ Offloaded
    /\ buf' = Rotated(buf, completed)
    /\ fifo' = Append(fifo, [kind |-> "mutation", backing |-> buf'.active,
                             span |-> app.span, bytes |-> storage])
    /\ app' = NoCall
    /\ UNCHANGED <<flavour, storage, handle, recorder, era, writes, drawn,
                   wvars, qvars>>

\* managedMutationHazard: an upload may not pass a queued mutation.
MutationHazard == flavour = "managed" /\ Pending

\* drainDeferredReplayForBufferUnlock, then Buffer::unlock: a NOOVERWRITE range of
\* a dynamic buffer alone, otherwise all of storage_, which for a managed buffer
\* goes to a backing that is idle.
UnlockUpload ==
    /\ app.pc = "unlock" /\ ~Offloaded
    /\ (BypassesReplay /\ ~MutationHazard) \/ ~Pending
    /\ buf' = IF flavour = "dynamic" /\ app.mode = "nooverwrite"
              THEN Copied(buf, app.span)
              ELSE Copied(IF flavour = "managed" THEN Rotated(buf, completed) ELSE buf,
                          Cells)
    /\ app' = NoCall
    /\ UNCHANGED <<flavour, storage, handle, recorder, era, writes, drawn,
                   fifo, wvars, qvars>>

\* Mutant: the queued tasks hold no reference.
OnlyReferenceUncounted == recorder = <<>>

\* Nothing but the application's own reference is left: the recorder, the queued
\* chunks and the queued mutations each hold one.
OnlyReference == recorder = <<>> /\ Held = {}

\* The application's last Release.
Release ==
    /\ app.pc = "idle" /\ handle
    /\ handle' = FALSE
    /\ buf' = IF OnlyReference THEN Destroyed(buf) ELSE buf
    /\ UNCHANGED <<flavour, storage, app, recorder, era, writes, drawn, fifo,
                   wvars, qvars>>

----------------------------------------------------------------------------
(* The replay worker. *)

Pop ==
    /\ wpc = "idle" /\ fifo # <<>>
    /\ task' = Head(fifo) /\ fifo' = Tail(fifo)
    /\ wpc' = IF task'.kind = "chunk" THEN "ticket" ELSE "apply"
    /\ UNCHANGED <<flavour, buf, avars, ticket, qvars>>

\* markChunkResources: the ticket and the stamps without the queue mutex ...
ReadTicket ==
    /\ wpc = "ticket"
    /\ ticket' = nextSeq /\ wpc' = "stamp"
    /\ UNCHANGED <<flavour, buf, avars, fifo, task, qvars>>

StampLockFree ==
    /\ wpc = "stamp"
    /\ buf' = Stamped(buf, {0}, ticket) /\ wpc' = "restamp"
    /\ UNCHANGED <<flavour, avars, fifo, task, ticket, qvars>>

\* ... and restampIfTicketAdvancedLocked with it.
Restamp ==
    /\ wpc = "restamp"
    /\ buf' = IF nextSeq # ticket THEN Stamped(buf, {0}, nextSeq) ELSE buf
    /\ wpc' = "append" /\ ticket' = 0
    /\ UNCHANGED <<flavour, avars, fifo, task, qvars>>

\* The stamps of submitDrawRunBatch: the captured backing, then the record and
\* whatever is active.
DrawStamped == Stamped(buf, {task.backing, 0}, nextSeq)

\* One segment of submitDrawRunBatch: stamped and appended in one hold.
AppendDraw ==
    /\ wpc = "append" /\ task.draws # <<>>
    /\ buf' = DrawStamped
    /\ slot' = Append(slot, Head(task.draws))
    /\ task' = [task EXCEPT !.draws = Tail(@)]
    /\ UNCHANGED <<flavour, avars, fifo, wpc, ticket, nextSeq, gpu, completed, finish>>

\* A replay may emit no backend command at all, the resources marked or not.
EmitNothing ==
    /\ wpc = "append" /\ task.draws # <<>>
    /\ task' = [task EXCEPT !.draws = <<>>]
    /\ UNCHANGED <<flavour, buf, avars, fifo, wpc, ticket, qvars>>

\* applyManagedBufferMutation: the rest of the leased backing is copied from the
\* shadow, which then takes the patch.
Apply ==
    /\ wpc = "apply"
    /\ LET new == Patched(buf.shadow, task.bytes, task.span)
       IN  buf' = [buf EXCEPT !.ring[task.backing].bytes = new, !.shadow = new]
    /\ wpc' = "replayed"
    /\ UNCHANGED <<flavour, avars, fifo, task, ticket, qvars>>

\* publishReplayed / publishMutationReplayed.
PublishReplayed ==
    /\ wpc = "replayed" \/ (wpc = "append" /\ task.draws = <<>>)
    /\ wpc' = "settle"
    /\ UNCHANGED <<flavour, buf, avars, fifo, task, ticket, qvars>>

\* The captured backings and the references are let go, in that order; the
\* last reference destroys the buffer on this thread.
Settle ==
    /\ wpc = "settle"
    /\ wpc' = "idle" /\ task' = NoTask
    /\ buf' = IF ~handle /\ recorder = <<>> /\ fifo = <<>> THEN Destroyed(buf) ELSE buf
    /\ UNCHANGED <<flavour, avars, fifo, ticket, qvars>>

----------------------------------------------------------------------------
(* Publication and completion. *)

\* A chunk limit, a Present, another thread's map: the writing slot is published.
PublishSlot ==
    /\ slot # <<>>
    /\ PublishWritingSlot
    /\ UNCHANGED <<flavour, avars, fifo, wvars>>

\* A source that does not touch this buffer takes the next number.
PublishOther ==
    /\ slot = <<>> /\ nextSeq <= MaxSeq
    /\ PublishWritingSlot
    /\ UNCHANGED <<flavour, avars, fifo, wvars>>

\* drainCompletedSequence.
Complete ==
    /\ gpu # <<>> /\ ~finish
    /\ gpu' = Tail(gpu) /\ completed' = completed + 1 /\ finish' = TRUE
    /\ UNCHANGED <<flavour, buf, avars, fifo, wvars, slot, nextSeq>>

\* The finish loop's reclaim, after the retirement that unlocks the mutex.
Reclaim ==
    /\ finish
    /\ finish' = FALSE /\ buf' = Reclaimed(buf)
    /\ UNCHANGED <<flavour, avars, fifo, wvars, slot, nextSeq, gpu, completed>>

InCall ==
    \/ LockFence \/ MapFast \/ FinalizeFast \/ MapSlow \/ MapWaited
    \/ UnlockOffload \/ UnlockUpload

WorkerStep ==
    \/ Pop \/ ReadTicket \/ StampLockFree \/ Restamp \/ AppendDraw \/ EmitNothing
    \/ Apply \/ PublishReplayed \/ Settle

Next ==
    \/ \E reads \in Spans : Draw(reads)
    \/ CommitChunk
    \/ \E mode \in Modes, span \in Spans : mode # "discard" /\ Lock(mode, span)
    \/ Lock("discard", Cells)
    \/ InCall \/ Write \/ Release
    \/ WorkerStep
    \/ PublishSlot \/ PublishOther \/ Complete \/ Reclaim

Spec == Init /\ [][Next]_vars

\* The worker and the finish thread run, the GPU completes what it is given, and
\* a call that can go on does.  Nothing is assumed of the application, nor that
\* the writing slot is ever published.
FairSpec ==
    /\ Spec
    /\ WF_vars(InCall) /\ WF_vars(WorkerStep) /\ WF_vars(Complete) /\ WF_vars(Reclaim)

----------------------------------------------------------------------------
(* Properties. *)

Entry == [used : Nat, bytes : [Cells -> Nat]]
DrawRec == [backing : Nat, era : Nat, reads : Spans, want : [Cells -> Nat]]

\* Shapes of the state.
TypeOK ==
    /\ flavour \in Flavours
    /\ buf.ring \in Seq(Entry) /\ buf.active \in DOMAIN buf.ring
    /\ ~Versioned => Len(buf.ring) = 1
    /\ storage \in [Cells -> Nat]
    /\ app.pc \in {"idle", "fence", "map", "finalize", "wait", "locked", "unlock"}
    /\ wpc \in {"idle", "ticket", "stamp", "restamp", "append", "apply",
                "replayed", "settle"}
    /\ Unfinished \subseteq DrawRec
    /\ nextSeq = completed + Len(gpu) + 1

\* Whatever was locked, renamed, staged or uploaded since, the GPU finds in the
\* backing that a published draw captured the bytes the application had written
\* when it issued the draw.
DrawsReadWhatWasWritten ==
    \A s \in Range(gpu) : \A d \in Range(s) : \A c \in d.reads :
        buf.ring[d.backing].bytes[c] = d.want[c]

\* A record is not freed while anything can still reach it.
NoUseAfterFree ==
    ~buf.live => /\ ~handle /\ Held = {} /\ Unfinished = {}

\* A backing that a draw captured is never idle for a rotation until the draw is
\* done: its residency covers it up to the append, its stamp from there on, and
\* the stamp is at least the number the draw is published under.
StampsCoverDraws ==
    /\ \A i \in DOMAIN buf.ring : buf.ring[i].used <= buf.lastUsed
    /\ \A d \in Range(slot) : /\ buf.lastUsed >= nextSeq
                              /\ Versioned => buf.ring[d.backing].used >= nextSeq
    /\ \A i \in DOMAIN gpu : \A d \in Range(gpu[i]) :
           /\ buf.lastUsed >= completed + i
           /\ Versioned => buf.ring[d.backing].used >= completed + i

\* The two together: what keeps a draw's storage alive and its own.
LifetimeCovered == TypeOK /\ NoUseAfterFree /\ StampsCoverDraws

\* Lock and Unlock return, even when the sequence a mark used is never published,
\* and a destroyed record whose last sequence was published is reclaimed.
BuffersProgress ==
    /\ (app.pc \in {"fence", "map", "finalize", "wait"}) ~> (app.pc = "locked")
    /\ (app.pc = "unlock") ~> (app.pc = "idle")
    /\ (buf.destroyPending /\ buf.lastUsed < nextSeq) ~> ~buf.live
=============================================================================

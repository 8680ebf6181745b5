---------------------------- MODULE QueueLifecycle ----------------------------
(***************************************************************************)
(* The chunk ring and worker threads of dxmt9's command queue              *)
(* (QueueLifecycleController in dxmt9_queue.cpp, CommandQueue in           *)
(* dxmt9_command_queue.cpp).  A producer fills the open chunk and commits  *)
(* it under the next sequence number; the encode thread represents         *)
(* published chunks and submits command buffers; the completion watcher    *)
(* waits for the GPU and settles them in order; the finish thread advances *)
(* completedSeqId and reclaims the tape head.                              *)
(*                                                                         *)
(* Every piece of this state is guarded by the scheduling mutex: an action *)
(* is one hold of it.  Where the code drops the mutex (a condition         *)
(* variable, encoding, destruction of payload owners) there is a program   *)
(* counter.  A thread in "parked" sleeps on its condition variable until   *)
(* some action notifies it; spurious wakeups, and the extra encodeCv       *)
(* notifications that only feed diagnostics, are left out, so a lost       *)
(* wakeup cannot be hidden by them.                                        *)
(*                                                                         *)
(* Only compatibility (Legacy) sources are here; arena sources, groups and *)
(* pages are in CpuReadyTape.  A tape entry is found by its sequence       *)
(* number (0 while it is written).  With SessionSources = 0 the encoder is *)
(* runEncodeLoop, otherwise the session coordinator, whose choice of       *)
(* prefixes and of session boundaries is left open.                        *)
(***************************************************************************)
EXTENDS Integers, Sequences, FiniteSets, SequencesExt, FiniteSetsExt

CONSTANTS
  SlotCount,        \* kCommandChunkCount
  ReceiptCount,     \* entries of the post-encode completion ledger
  SessionSources,   \* kMaxEncodeSessionSources; 0: no session coordinator
  MaxSeqId          \* bound: sequence numbers in one behaviour

\* The session coordinator asserts that two chunks can be published.
ASSUME QueueConfig ==
  /\ SlotCount \in Nat \ {0, 1}
  /\ SessionSources > 0 => SlotCount > 2
  /\ ReceiptCount \in Nat \ {0}
  /\ SessionSources \in Nat
  /\ MaxSeqId \in Nat

InflightLimit   == SlotCount - 1          \* kMaxQueuedChunks
HighWaterReady  == SlotCount              \* of both queue tape configurations
LowWaterReady   == SlotCount \div 2
HighWaterSources == 2 * SlotCount

VARIABLES
  slots,            \* slots_: [state, seq] per control slot
  writeIndex,       \* writeIndex_
  writingSlot,      \* writingSlot_, NoSlot when empty
  payload,          \* the open chunk holds a command
  nextSeqId,        \* nextSeqId_; lastCommittedSeqId_ is one less
  tape,             \* resident sources, oldest first
  closed,           \* the tape's ready-pressure latch
  inflight,         \* inflightCount_
  completedSeqId,   \* completedSeqId_
  completedQueue,   \* completedSeqQueue_
  ledger,           \* postEncodeCompletionLedger_
  pending,          \* pendingCompletion_: the sources of each command buffer
  watching,         \* the command buffer the watcher waits for
  batch,            \* represented sources the encoder has still to encode
  session,          \* sources the open session retains
  stop,             \* stop_, pendingCompletionStop_ and the tape's stopped_
  poison,           \* first poison origin
  pc,               \* where each thread is
  job,              \* the call a client is in
  lastUsed,         \* a buffer's lastUsedSeqId
  drawn,            \* the last sequence that really draws from that buffer
  mapDrawn,         \* history: drawn when the mapper's call began
  parked            \* threads asleep on their condition variable

ringVars   == <<slots, writeIndex, writingSlot, payload, nextSeqId>>
tapeVars   == <<tape, closed>>
doneVars   == <<completedSeqId, completedQueue>>
encodeVars == <<batch, session>>
gpuVars    == <<pending, watching>>
useVars    == <<lastUsed, drawn>>
vars == <<ringVars, tapeVars, inflight, doneVars, ledger, gpuVars, encodeVars,
          stop, poison, pc, job, useVars, mapDrawn, parked>>

Clients == {"writer", "mapper"}
Workers == {"encoder", "watcher", "finish"}
NoSlot  == SlotCount
SlotIds == 0..(SlotCount - 1)
Everything == MaxSeqId + 1     \* what flushAndWait waits for
NoJob == [slot |-> NoSlot, seq |-> 0, want |-> 0, target |-> 0]
FreeSlot == [state |-> "Free", seq |-> 0]
FreeReceipt == [state |-> "Free", seq |-> 0]

lastCommittedSeqId == nextSeqId - 1

Init ==
  /\ slots = [i \in SlotIds |-> FreeSlot]
  /\ writeIndex = 0 /\ writingSlot = NoSlot /\ payload = FALSE
  /\ nextSeqId = 1
  /\ tape = <<>> /\ closed = FALSE
  /\ inflight = 0
  /\ completedSeqId = 0 /\ completedQueue = <<>>
  /\ ledger = [r \in 0..(ReceiptCount - 1) |-> FreeReceipt]
  /\ pending = <<>> /\ watching = <<>>
  /\ batch = <<>> /\ session = <<>>
  /\ stop = FALSE /\ poison = "none"
  /\ pc = [t \in Clients \cup Workers |-> IF t \in Clients THEN "run" ELSE "wait"]
  /\ job = [c \in Clients |-> NoJob]
  /\ lastUsed = 0 /\ drawn = 0 /\ mapDrawn = 0
  /\ parked = {}

-----------------------------------------------------------------------------
(* Condition variables. *)

\* Threads asleep on writeCv, encodeCv, finishCv and pendingCompletionCv.
WriteWaiters  == {c \in Clients : pc[c] \in {"ensureWait", "commitWait"}}
EncodeWaiters == {"encoder"}
FinishWaiters == {"finish"} \cup {c \in Clients : pc[c] = "seqWait"}
PendingWaiters == {"watcher"}

\* Mutant of LeftAsleep: the completion watcher is not told of a stop.
LeftAsleepWatcher == PendingWaiters

\* The waiters planSchedulingTerminalWake leaves asleep: none.
LeftAsleep == {}

\* poisonTapeFailureLocked: stop, keep the first origin, wake everyone.
Poison(origin) ==
  /\ stop' = TRUE
  /\ poison' = IF poison = "none" THEN origin ELSE poison
  /\ parked' = parked \cap LeftAsleep

\* An action that does not stop the queue: wake some, put some to sleep.
Wake(woken, asleep) ==
  /\ parked' = (parked \ woken) \cup asleep
  /\ UNCHANGED <<stop, poison>>

-----------------------------------------------------------------------------
(* The tape as the queue uses it. *)

Positions(state) == {i \in DOMAIN tape : tape[i].state = state}
ReadyReservations(t) ==
  Cardinality({i \in DOMAIN t : t[i].state \in {"Writing", "Ready", "Tentative"}})

\* The sources of seqs move to a state.
Moved(t, seqs, state) ==
  [i \in DOMAIN t |->
     IF t[i].seq \in seqs THEN [t[i] EXCEPT !.state = state] ELSE t[i]]

\* refreshAdmissionAfterRelease on the ready dimension.
StillClosed(t) ==
  IF stop THEN closed ELSE closed /\ ReadyReservations(t) > LowWaterReady

\* probeReserve answers Ready.  The source high water is never met: see TypeOK.
ProbeReady ==
  ~ closed /\ ReadyReservations(tape) < HighWaterReady
           /\ Len(tape) < HighWaterSources

IsHead(seq, state) ==
  tape # <<>> /\ Head(tape).seq = seq /\ Head(tape).state = state

Seqs(sources) == {sources[i].seq : i \in DOMAIN sources}

-----------------------------------------------------------------------------
(* The producer: drawing into the open chunk. *)

\* A draw into the open chunk stamps the buffer with the next sequence.
AppendOpen ==
  /\ pc["writer"] = "run" /\ writingSlot # NoSlot
  /\ payload' = TRUE
  /\ lastUsed' = nextSeqId /\ drawn' = nextSeqId
  /\ UNCHANGED <<slots, writeIndex, writingSlot, nextSeqId, tapeVars, inflight,
                 doneVars, ledger, gpuVars, encodeVars, stop, poison, pc, job,
                 mapDrawn, parked>>

\* Pre-marking: the buffer is stamped though no command may follow.
Mark ==
  /\ pc["writer"] = "run"
  /\ lastUsed' = nextSeqId
  /\ UNCHANGED <<ringVars, tapeVars, inflight, doneVars, ledger, gpuVars,
                 encodeVars, stop, poison, pc, job, drawn, mapDrawn, parked>>

\* The writer is in the loop of ensureWriterSlot: it has just called it, or has
\* been woken.  The loop does not look at writingSlot again.
InEnsureLoop ==
  \/ pc["writer"] = "run" /\ writingSlot = NoSlot /\ nextSeqId <= MaxSeqId
  \/ pc["writer"] = "ensureWait" /\ "writer" \notin parked

\* ensureWriterSlot reserves a source; the command is then appended or refused.
EnsureAcquire(accepted) ==
  /\ InEnsureLoop /\ ~ stop
  /\ ProbeReady /\ slots[writeIndex].state = "Free"
  /\ slots' = [slots EXCEPT ![writeIndex] = [state |-> "Writing", seq |-> 0]]
  /\ writingSlot' = writeIndex
  /\ payload' = accepted
  /\ tape' = Append(tape, [seq |-> 0, slot |-> writeIndex, state |-> "Writing",
                           bound |-> FALSE])
  /\ closed' = (closed \/ ReadyReservations(tape') >= HighWaterReady)
  /\ lastUsed' = IF accepted THEN nextSeqId ELSE lastUsed
  /\ drawn' = IF accepted THEN nextSeqId ELSE drawn
  /\ pc' = [pc EXCEPT !["writer"] = "run"]
  /\ UNCHANGED <<writeIndex, nextSeqId, inflight, doneVars, ledger, gpuVars,
                 encodeVars, stop, poison, job, mapDrawn, parked>>

\* No room: a refused probe latches the pressure and the writer sleeps.
EnsureWait ==
  /\ InEnsureLoop /\ ~ stop
  /\ ~ (ProbeReady /\ slots[writeIndex].state = "Free")
  /\ closed' = (closed \/ ReadyReservations(tape) >= HighWaterReady)
  /\ pc' = [pc EXCEPT !["writer"] = "ensureWait"]
  /\ Wake({}, {"writer"})
  /\ UNCHANGED <<ringVars, tape, inflight, doneVars, ledger, gpuVars,
                 encodeVars, job, useVars, mapDrawn>>

\* After stop ensureWriterSlot returns false.  submitDrawRunBatch looks at
\* stop_ and leaves; submitClear and its siblings go on to dereference the empty
\* writingSlot_, which is undefined behaviour.
EnsureStopped(outcome) ==
  /\ InEnsureLoop /\ stop
  /\ pc' = [pc EXCEPT !["writer"] = outcome]
  /\ UNCHANGED <<ringVars, tapeVars, inflight, doneVars, ledger, gpuVars,
                 encodeVars, stop, poison, job, useVars, mapDrawn, parked>>

-----------------------------------------------------------------------------
(* commitCurrentChunk, flushAndWait and the slow lane of mapBuffer. *)

\* Mutant of committedSequenceWaitTarget: the wait is not clamped.
UnclampedWaitTarget(want, committed) == want

\* A sequence that was only pre-marked may never be published.
committedSequenceWaitTarget(want, committed) == Min({want, committed})

\* What the call waits for once its commit is over: nothing for a present or a
\* chunk limit, the last committed sequence for a flush, the clamped stamp for a map.
WaitTarget(want, committed) ==
  IF want = Everything THEN committed
  ELSE committedSequenceWaitTarget(want, committed)

Returned(c) == IF c = "mapper" THEN "mapped" ELSE "run"

\* The rest of c's call, in the hold in which its commit has returned: wait for
\* the target on finishCv, having told the encoder, or return.
AfterCommit(c, want, committed, woken) ==
  LET target == WaitTarget(want, committed)
      waits  == target > completedSeqId /\ ~ stop
  IN /\ pc' = [pc EXCEPT ![c] = IF waits THEN "seqWait" ELSE Returned(c)]
     /\ job' = [job EXCEPT ![c] = IF waits THEN [NoJob EXCEPT !.target = target]
                                  ELSE NoJob]
     /\ IF waits THEN Wake(woken \cup EncodeWaiters, {c}) ELSE Wake(woken, {})

CommitRoom == inflight < InflightLimit

\* sealAndPublish of the open chunk and the bookkeeping that follows it.
Publish ==
  /\ slots' = [slots EXCEPT ![writingSlot] = [state |-> "Pending", seq |-> nextSeqId]]
  /\ nextSeqId' = nextSeqId + 1
  /\ writeIndex' = (writeIndex + 1) % SlotCount
  /\ writingSlot' = NoSlot /\ payload' = FALSE
  /\ inflight' = inflight + 1

\* The Writing entry becomes Ready under the next sequence; bound is whether
\* its query marker took the sequence.
PublishedTape(bound) ==
  [tape EXCEPT ![Len(tape)] =
     [seq |-> nextSeqId, slot |-> writingSlot, state |-> "Ready", bound |-> bound]]

CommitPublish(c, want) ==
  /\ tape' = PublishedTape(TRUE)
  /\ Publish
  /\ AfterCommit(c, want, nextSeqId, EncodeWaiters)

\* The source is published already when its query marker refuses the sequence:
\* ownership has moved, and the queue stops.
CommitUnbound(c) ==
  /\ tape' = PublishedTape(FALSE)
  /\ Publish
  /\ Poison("query")
  /\ pc' = [pc EXCEPT ![c] = Returned(c)]
  /\ job' = [job EXCEPT ![c] = NoJob]

\* An empty chunk is aborted: its tape entry is the newest.
CommitEmpty(c, want) ==
  /\ ~ payload
  /\ tape' = Front(tape) /\ closed' = StillClosed(tape')
  /\ slots' = [slots EXCEPT ![writingSlot] = FreeSlot]
  /\ writingSlot' = NoSlot
  /\ AfterCommit(c, want, lastCommittedSeqId, EncodeWaiters)
  /\ UNCHANGED <<writeIndex, payload, nextSeqId, inflight>>

\* The inflight cap: the client sleeps on writeCv and remembers the chunk.
CommitSleep(c, want) ==
  /\ payload /\ ~ stop /\ ~ CommitRoom
  /\ pc' = [pc EXCEPT ![c] = "commitWait"]
  /\ job' = [job EXCEPT ![c] = [slot |-> writingSlot, seq |-> nextSeqId,
                                want |-> want, target |-> 0]]
  /\ Wake({}, {c})
  /\ UNCHANGED <<ringVars, tapeVars, inflight>>

\* commitCurrentChunk entered with the mutex held.
CommitCurrentChunk(c, want) ==
  \/ /\ writingSlot = NoSlot
     /\ AfterCommit(c, want, lastCommittedSeqId, {})
     /\ UNCHANGED <<ringVars, tapeVars, inflight>>
  \/ /\ writingSlot # NoSlot
     /\ CommitEmpty(c, want)
  \/ /\ writingSlot # NoSlot
     /\ CommitSleep(c, want)
  \/ /\ writingSlot # NoSlot /\ payload /\ stop
     /\ AfterCommit(c, want, lastCommittedSeqId, {})
     /\ UNCHANGED <<ringVars, tapeVars, inflight>>
  \/ /\ writingSlot # NoSlot /\ payload /\ ~ stop /\ CommitRoom
     /\ CommitPublish(c, want) \/ CommitUnbound(c)
     /\ UNCHANGED closed

\* The writer commits the open chunk: a present or a chunk limit (want 0), or
\* flushAndWait (Everything).
Commit(want) ==
  /\ pc["writer"] = "run"
  /\ CommitCurrentChunk("writer", want)
  /\ UNCHANGED <<doneVars, ledger, gpuVars, encodeVars, useVars, mapDrawn>>

\* Mutant of MapCommits: a map never commits the chunk that draws its buffer.
MapNeverCommits(want) == FALSE

MapCommits(want) == want > lastCommittedSeqId

\* mapBuffer, slow lane: commit the chunk the buffer is stamped with, then wait.
Map ==
  /\ pc["mapper"] = "run" /\ lastUsed > 0
  /\ mapDrawn' = drawn
  /\ IF MapCommits(lastUsed)
     THEN CommitCurrentChunk("mapper", lastUsed)
     ELSE /\ AfterCommit("mapper", lastUsed, lastCommittedSeqId, {})
          /\ UNCHANGED <<ringVars, tapeVars, inflight>>
  /\ UNCHANGED <<doneVars, ledger, gpuVars, encodeVars, useVars>>

\* Mutant of CommitRefused: stop_ is not looked at after the wait.
CommitRefusedUnlessMoved(c) ==
  writingSlot # job[c].slot \/ nextSeqId # job[c].seq

\* After the wait: the queue stopped, or someone else committed the chunk.
CommitRefused(c) ==
  stop \/ writingSlot # job[c].slot \/ nextSeqId # job[c].seq

\* A client leaves the inflight wait of commitCurrentChunk, or sleeps again.
CommitWake(c) ==
  /\ pc[c] = "commitWait" /\ c \notin parked
  /\ \/ /\ ~ stop /\ ~ CommitRoom
        /\ Wake({}, {c})
        /\ UNCHANGED <<ringVars, tape, inflight, pc, job>>
     \/ /\ stop \/ CommitRoom
        /\ CommitRefused(c)
        /\ AfterCommit(c, job[c].want, lastCommittedSeqId, {})
        /\ UNCHANGED <<ringVars, tape, inflight>>
     \/ /\ stop \/ CommitRoom
        /\ ~ CommitRefused(c)
        /\ CommitPublish(c, job[c].want) \/ CommitUnbound(c)
  /\ UNCHANGED <<closed, doneVars, ledger, gpuVars, encodeVars, useVars, mapDrawn>>

\* waitForSequence: woken, return or sleep again.
SequenceWake(c) ==
  /\ pc[c] = "seqWait" /\ c \notin parked
  /\ IF stop \/ completedSeqId >= job[c].target
     THEN /\ pc' = [pc EXCEPT ![c] = Returned(c)]
          /\ job' = [job EXCEPT ![c] = NoJob]
          /\ UNCHANGED <<stop, poison, parked>>
     ELSE Wake({}, {c}) /\ UNCHANGED <<pc, job>>
  /\ UNCHANGED <<ringVars, tapeVars, inflight, doneVars, ledger, gpuVars,
                 encodeVars, useVars, mapDrawn>>

Unmap ==
  /\ pc["mapper"] = "mapped"
  /\ pc' = [pc EXCEPT !["mapper"] = "run"]
  /\ mapDrawn' = 0
  /\ UNCHANGED <<ringVars, tapeVars, inflight, doneVars, ledger, gpuVars,
                 encodeVars, stop, poison, job, useVars, parked>>

-----------------------------------------------------------------------------
(* The encode thread. *)

\* The ready FIFO and the reserved prefix before it: the residents in either
\* state lie together on the tape (TapeInStages), oldest first.
Span(state) ==
  LET at == Positions(state)
  IN IF at = {} THEN <<>> ELSE SubSeq(tape, Min(at), Max(at))

Ready == Span("Ready")
Tentative == Span("Tentative")

\* Sources a dequeue looks at.
Window == IF SessionSources = 0 THEN 1 ELSE SlotCount
Candidates == SubSeq(Ready, 1, Min({Window, Len(Ready)}))

\* Mutant of CandidatesValid: a source without its query binding is drained.
CandidatesOwned ==
  \A e \in ToSet(Candidates) :
    slots[e.slot] = [state |-> "Pending", seq |-> e.seq]

\* reserveReadySlotBatchPrefix looks at every candidate before it selects.
CandidatesValid ==
  \A e \in ToSet(Candidates) :
    /\ slots[e.slot] = [state |-> "Pending", seq |-> e.seq]
    /\ e.bound

\* Why a dequeue would refuse its candidates.
RefusalOrigin ==
  IF \E e \in ToSet(Candidates) : ~ e.bound THEN "query" ELSE "candidate"

EncoderAt(label) == pc["encoder"] = label /\ "encoder" \notin parked
EncoderGoes(label) == pc' = [pc EXCEPT !["encoder"] = label]

\* sequenceSubmissionRequested: a client waits for a sequence to complete.
SequenceRequested == \E c \in Clients : pc[c] = "seqWait"

\* Nothing to encode and no reason to end the open session: sleep on encodeCv.
EncodeWait ==
  /\ EncoderAt("wait") /\ ~ stop /\ Ready = <<>>
  /\ ~ (session # <<>> /\ SequenceRequested)
  /\ Wake({}, {"encoder"})
  /\ UNCHANGED <<ringVars, tapeVars, inflight, doneVars, ledger, gpuVars,
                 encodeVars, pc, job, useVars, mapDrawn>>

\* The loop ends once the stopped queue has drained; the session coordinator
\* may also leave with work Ready.  A retained session is submitted first.
EncodeExit ==
  /\ EncoderAt("wait") /\ stop /\ session = <<>>
  /\ Ready = <<>> \/ SessionSources > 0
  /\ EncoderGoes("exited")
  /\ UNCHANGED <<ringVars, tapeVars, inflight, doneVars, ledger, gpuVars,
                 encodeVars, stop, poison, job, useVars, mapDrawn, parked>>

\* A candidate is refused: fail-stop, and the loop ends.
EncodeRefuse ==
  /\ EncoderAt("wait") /\ session = <<>>
  /\ Ready # <<>> /\ ~ CandidatesValid
  /\ Poison(RefusalOrigin)
  /\ EncoderGoes("exited")
  /\ UNCHANGED <<ringVars, tapeVars, inflight, doneVars, ledger, gpuVars,
                 encodeVars, job, useVars, mapDrawn>>

\* commitReservedReadySlotBatch: the prefix is represented.
Represent(prefix) ==
  /\ tape' = Moved(tape, Seqs(prefix), "Represented")
  /\ closed' = StillClosed(tape')
  /\ slots' = [i \in SlotIds |->
       IF \E e \in ToSet(prefix) : e.slot = i
       THEN [slots[i] EXCEPT !.state = "Encoding"] ELSE slots[i]]
  /\ batch' = [i \in DOMAIN prefix |->
       [seq |-> prefix[i].seq, slot |-> prefix[i].slot, receipt |-> FALSE]]
  /\ EncoderGoes("encode")
  /\ Wake(WriteWaiters, {})
  /\ UNCHANGED <<writeIndex, writingSlot, payload, nextSeqId, inflight, doneVars,
                 ledger, gpuVars, session, job, useVars, mapDrawn>>

\* dequeueReadySlotBatchPrefix: reserve and commit in one hold.
Dequeue ==
  /\ SessionSources = 0
  /\ EncoderAt("wait") /\ Ready # <<>> /\ CandidatesValid
  /\ Represent(<<Head(Ready)>>)

\* Mutant of SessionResidentLimit: no publishable source is left to others.
SessionTakesAll == InflightLimit

\* sessionResidencyLimitForHysteresis: the sources a session may keep resident
\* leave one publishable source free.
SessionResidentLimit == Min({SlotCount, InflightLimit - 1})

\* The sources that still own their tape entry.
Resident(sources) == {x \in ToSet(sources) : ~ x.receipt}
ResidentSeqs(sources) == {x.seq : x \in Resident(sources)}

\* How many more sources the capacity lease and the session admit.
SessionRoom == Min({SessionResidentLimit - Cardinality(Resident(session)),
                    SessionSources - Len(session)})

\* reserveReadySlotBatchPrefix of the session coordinator: a prefix the session
\* has room for.
ReservePrefix(n) ==
  /\ SessionSources > 0
  /\ EncoderAt("wait") /\ CandidatesValid
  /\ n \in 1..Min({Len(Candidates), SessionRoom})
  /\ tape' = Moved(tape, Seqs(SubSeq(Ready, 1, n)), "Tentative")
  /\ EncoderGoes("window")
  /\ UNCHANGED <<ringVars, closed, inflight, doneVars, ledger, gpuVars,
                 encodeVars, stop, poison, job, useVars, mapDrawn, parked>>

CommitPrefix ==
  /\ EncoderAt("window")
  /\ Represent(Tentative)

\* restoreReservedReadySlotBatch: the prefix is Ready again, in its place.
RestorePrefix ==
  /\ EncoderAt("window")
  /\ tape' = Moved(tape, Seqs(Tentative), "Ready")
  /\ EncoderGoes("wait")
  /\ Wake(EncodeWaiters, {})
  /\ UNCHANGED <<ringVars, closed, inflight, doneVars, ledger, gpuVars,
                 encodeVars, job, useVars, mapDrawn>>

\* The encoder is done with the first source of its batch.
NextSource ==
  /\ batch' = Tail(batch)
  /\ EncoderGoes(IF Len(batch) > 1 THEN "encode" ELSE "wait")

\* What submit requires of a source: represented and owned by its slot, or
\* retired with its receipt Active.
Submittable(source) ==
  IF source.receipt
  THEN ledger[source.seq % ReceiptCount] = [state |-> "Active", seq |-> source.seq]
  ELSE /\ slots[source.slot] = [state |-> "Encoding", seq |-> source.seq]
       /\ \E i \in Positions("Represented") : tape[i].seq = source.seq

\* The ledger with the receipts of sources in another state.
Receipts(sources, state) ==
  [r \in DOMAIN ledger |->
     IF \E x \in ToSet(sources) : x.receipt /\ x.seq % ReceiptCount = r
     THEN [ledger[r] EXCEPT !.state = state] ELSE ledger[r]]

\* The command buffer and its sources are queued for the watcher.
HandOver(sources) ==
  /\ pending' = Append(pending, sources)
  /\ Wake(WriteWaiters \cup PendingWaiters, {})

\* submit: the sources are submitted, their slots free, the buffer handed over.
Submit(sources) ==
  /\ \A x \in ToSet(sources) : Submittable(x)
  /\ tape' = Moved(tape, ResidentSeqs(sources), "Submitted")
  /\ ledger' = Receipts(sources, "Submitted")
  /\ slots' = [i \in SlotIds |->
       IF \E x \in Resident(sources) : x.slot = i
       THEN FreeSlot ELSE slots[i]]
  /\ HandOver(sources)
  /\ UNCHANGED <<writeIndex, writingSlot, payload, nextSeqId, closed, inflight,
                 doneVars, watching, job, useVars, mapDrawn>>

\* submit refuses: fail-stop, the encode thread ends.
SubmitRefused(sources) ==
  /\ \E x \in ToSet(sources) : ~ Submittable(x)
  /\ Poison("submit")
  /\ EncoderGoes("exited")
  /\ UNCHANGED <<ringVars, tapeVars, inflight, doneVars, ledger, gpuVars,
                 encodeVars, job, useVars, mapDrawn>>

\* A command buffer was recorded for this source alone.
EncodeSubmit ==
  /\ EncoderAt("encode") /\ session = <<>>
  /\ \/ Submit(<<Head(batch)>>) /\ NextSource /\ UNCHANGED session
     \/ SubmitRefused(<<Head(batch)>>)

\* The encoder threw: fail-stop.
EncodeThrow ==
  /\ SessionSources = 0
  /\ EncoderAt("encode")
  /\ Poison("encode")
  /\ EncoderGoes("exited")
  /\ UNCHANGED <<ringVars, tapeVars, inflight, doneVars, ledger, gpuVars,
                 encodeVars, job, useVars, mapDrawn>>

\* Mutant of InlineInOrder: an inline completion overtakes the GPU.
InlineAnyOrder(seq) == TRUE

\* Every older sequence has completed, or is queued for the finish thread.
InlineInOrder(seq) == seq = completedSeqId + Len(completedQueue) + 1

\* An inline completion that fails: the plain loop ends, the coordinator drops
\* the source and goes on.
InlineFails(origin) ==
  /\ Poison(origin)
  /\ IF SessionSources = 0
     THEN EncoderGoes("exited") /\ UNCHANGED batch
     ELSE NextSource

\* completeInlineChunk up to the destruction of the payload's owners: there was
\* nothing to submit.  The source must be the tape's oldest resident.
InlineBegin ==
  /\ EncoderAt("encode") /\ session = <<>>
  /\ LET seq == Head(batch).seq IN
     \/ /\ ~ InlineInOrder(seq)
        /\ InlineFails("inlineOrder")
        /\ UNCHANGED <<slots, tape>>
     \/ /\ InlineInOrder(seq) /\ ~ IsHead(seq, "Represented")
        /\ InlineFails("inlineReclaim")
        /\ tape' = Moved(tape, {seq}, "Completed")
        /\ UNCHANGED slots
     \/ /\ InlineInOrder(seq) /\ IsHead(seq, "Represented")
        /\ tape' = Moved(tape, {seq}, "Reclaiming")
        /\ slots' = [slots EXCEPT ![Head(batch).slot] = FreeSlot]
        /\ EncoderGoes("inline")
        /\ UNCHANGED <<batch, stop, poison, parked>>
  /\ UNCHANGED <<writeIndex, writingSlot, payload, nextSeqId, closed, inflight,
                 doneVars, ledger, gpuVars, session, job, useVars, mapDrawn>>

\* The rest of completeInlineChunk: reclaimed, then visible as completed.
InlineFinish ==
  /\ EncoderAt("inline")
  /\ tape' = Tail(tape) /\ closed' = StillClosed(tape')
  /\ completedQueue' = Append(completedQueue, Head(batch).seq)
  /\ NextSource
  /\ Wake(WriteWaiters \cup EncodeWaiters \cup FinishWaiters, {})
  /\ UNCHANGED <<ringVars, inflight, completedSeqId, ledger, gpuVars, session,
                 job, useVars, mapDrawn>>

-----------------------------------------------------------------------------
(* The session coordinator: sources of several chunks in one command buffer. *)

\* The encoded source joins the open session.
EncodeRetain ==
  /\ EncoderAt("encode") /\ Len(session) < SessionSources
  /\ session' = Append(session, Head(batch))
  /\ NextSource
  /\ UNCHANGED <<ringVars, tapeVars, inflight, doneVars, ledger, gpuVars,
                 stop, poison, job, useVars, mapDrawn, parked>>

\* retireEncodedSourcePayload up to the destruction of the owners: the oldest
\* resident gives up its tape entry for a receipt, if one is free.
RetireBegin ==
  /\ EncoderAt("encode") /\ Len(session) < SessionSources
  /\ LET x == Head(batch) IN
     /\ IsHead(x.seq, "Represented")
     /\ ledger[x.seq % ReceiptCount].state = "Free"
     /\ ledger' = [ledger EXCEPT ![x.seq % ReceiptCount] =
                     [state |-> "Active", seq |-> x.seq]]
     /\ tape' = Moved(tape, {x.seq}, "Reclaiming")
     /\ slots' = [slots EXCEPT ![x.slot].state = "Retiring"]
     /\ session' = Append(session, x)
  /\ EncoderGoes("retire")
  /\ UNCHANGED <<writeIndex, writingSlot, payload, nextSeqId, closed, inflight,
                 doneVars, gpuVars, batch, stop, poison, job, useVars, mapDrawn,
                 parked>>

\* The rest of it: tape entry, slot and inflight credit are given back while
\* the GPU work is still to come.
RetireFinish ==
  /\ EncoderAt("retire")
  /\ tape' = Tail(tape) /\ closed' = StillClosed(tape')
  /\ slots' = [slots EXCEPT ![Head(batch).slot] = FreeSlot]
  /\ inflight' = inflight - 1
  /\ session' = [session EXCEPT ![Len(session)].receipt = TRUE]
  /\ NextSource
  /\ Wake(WriteWaiters \cup EncodeWaiters, {})
  /\ UNCHANGED <<writeIndex, writingSlot, payload, nextSeqId, doneVars, ledger,
                 gpuVars, job, useVars, mapDrawn>>

\* The coordinator must end the session: a client waits for a sequence, there is
\* no room for the next source, or the stopped queue has nothing else to add.
SessionDue ==
  \/ SequenceRequested
  \/ Ready # <<>> /\ (SessionRoom = 0 \/ ~ CandidatesValid)
  \/ stop /\ Ready = <<>>

\* submitPendingRecordLocked: the session ends in one command buffer, when it is
\* due or at a boundary of the rendering.
SubmitSession ==
  /\ EncoderAt("wait") \/ EncoderAt("encode")
  /\ session # <<>>
  /\ \/ Submit(session) /\ session' = <<>> /\ UNCHANGED <<batch, pc>>
     \/ SubmitRefused(session)

-----------------------------------------------------------------------------
(* The completion watcher. *)

WatcherAt(label) == pc["watcher"] = label /\ "watcher" \notin parked

WatchWait ==
  /\ WatcherAt("wait") /\ ~ stop /\ pending = <<>>
  /\ Wake({}, {"watcher"})
  /\ UNCHANGED <<ringVars, tapeVars, inflight, doneVars, ledger, gpuVars,
                 encodeVars, pc, job, useVars, mapDrawn>>

\* The watcher takes the oldest command buffer and waits for the GPU.
WatchPop ==
  /\ WatcherAt("wait") /\ pending # <<>>
  /\ watching' = Head(pending) /\ pending' = Tail(pending)
  /\ pc' = [pc EXCEPT !["watcher"] = "gpu"]
  /\ UNCHANGED <<ringVars, tapeVars, inflight, doneVars, ledger, encodeVars,
                 stop, poison, job, useVars, mapDrawn, parked>>

WatchExit ==
  /\ WatcherAt("wait") /\ stop /\ pending = <<>>
  /\ pc' = [pc EXCEPT !["watcher"] = "exited"]
  /\ UNCHANGED <<ringVars, tapeVars, inflight, doneVars, ledger, gpuVars,
                 encodeVars, stop, poison, job, useVars, mapDrawn, parked>>

\* The completed sources continue the completed sequence without a gap, and each
\* is submitted, on the tape or in the ledger.
Settleable ==
  \A i \in DOMAIN watching :
    /\ watching[i].seq = completedSeqId + Len(completedQueue) + i
    /\ IF watching[i].receipt
       THEN ledger[watching[i].seq % ReceiptCount]
              = [state |-> "Submitted", seq |-> watching[i].seq]
       ELSE \E k \in Positions("Submitted") : tape[k].seq = watching[i].seq

\* Mutant of SettleWakes: the finish thread is not told.
SettleWakesNobody == {}

SettleWakes == FinishWaiters

\* The GPU has finished the command buffer: callbacks, then settlement.
Settle ==
  /\ WatcherAt("gpu")
  /\ IF Settleable
     THEN /\ tape' = Moved(tape, ResidentSeqs(watching), "Completed")
          /\ ledger' = Receipts(watching, "Completed")
          /\ completedQueue' = completedQueue \o [i \in DOMAIN watching |-> watching[i].seq]
          /\ pc' = [pc EXCEPT !["watcher"] = "wait"]
          /\ Wake(SettleWakes, {})
     ELSE /\ Poison("completion")
          /\ pc' = [pc EXCEPT !["watcher"] = "exited"]
          /\ UNCHANGED <<tape, ledger, completedQueue>>
  /\ watching' = <<>>
  /\ UNCHANGED <<ringVars, closed, inflight, completedSeqId, pending, encodeVars,
                 job, useVars, mapDrawn>>

-----------------------------------------------------------------------------
(* The finish thread. *)

FinishAt(label) == pc["finish"] = label /\ "finish" \notin parked
FinishGoes(label) == pc' = [pc EXCEPT !["finish"] = label]

FinishWait ==
  /\ FinishAt("wait") /\ ~ stop /\ completedQueue = <<>>
  /\ Wake({}, {"finish"})
  /\ UNCHANGED <<ringVars, tapeVars, inflight, doneVars, ledger, gpuVars,
                 encodeVars, pc, job, useVars, mapDrawn>>

FinishExit ==
  /\ FinishAt("wait") /\ stop /\ completedQueue = <<>>
  /\ FinishGoes("exited")
  /\ UNCHANGED <<ringVars, tapeVars, inflight, doneVars, ledger, gpuVars,
                 encodeVars, stop, poison, job, useVars, mapDrawn, parked>>

\* Mutant of NothingToReclaim: an open chunk at the head is not recognised.
NothingToReclaimButOpen(t, seq) ==
  IF t = <<>> THEN TRUE ELSE Head(t).seq > seq

\* No resident at or below seq; the open chunk of the producer has no sequence.
NothingToReclaim(t, seq) ==
  IF t = <<>> THEN TRUE ELSE Head(t).seq > seq \/ Head(t).state = "Writing"

\* reclaimCompletedTapeHeadsThrough(seq) on a tape t, up to the point where it
\* drops the mutex.
ReclaimHeads(t, seq, woken) ==
  \/ /\ NothingToReclaim(t, seq)
     /\ tape' = t
     /\ FinishGoes("wait")
     /\ Wake(woken, {})
  \/ /\ ~ NothingToReclaim(t, seq)
     /\ Head(t).seq = seq /\ Head(t).state = "Completed"
     /\ tape' = Moved(t, {seq}, "Reclaiming")
     /\ FinishGoes("reclaim")
     /\ Wake(woken, {})
  \/ /\ ~ NothingToReclaim(t, seq)
     /\ Head(t).seq # seq \/ Head(t).state # "Completed"
     /\ tape' = t
     /\ Poison("reclaim")
     /\ FinishGoes("exited")

\* The inflight credit of seq went back when its payload retired.
CreditReleased(seq) ==
  ledger[seq % ReceiptCount] = [state |-> "Completed", seq |-> seq]

\* Mutant of DrainWakes: only sequence waiters are woken.
DrainWakesFinish == FinishWaiters

DrainWakes == FinishWaiters \cup WriteWaiters

\* drainCompletedSequence and the reclaim check that follows it.
Drain ==
  /\ FinishAt("wait") /\ completedQueue # <<>>
  /\ LET seq == Head(completedQueue) IN
     /\ completedQueue' = Tail(completedQueue)
     /\ completedSeqId' = Max({completedSeqId, seq})
     /\ IF CreditReleased(seq)
        THEN /\ ledger' = [ledger EXCEPT ![seq % ReceiptCount] = FreeReceipt]
             /\ UNCHANGED inflight
        ELSE /\ inflight' = Max({inflight - 1, 0})
             /\ UNCHANGED ledger
     /\ ReclaimHeads(tape, seq, DrainWakes)
  /\ UNCHANGED <<ringVars, closed, gpuVars, encodeVars, job, useVars, mapDrawn>>

\* The owners are destroyed: finishReclaim, and the next head is looked at.
FinishReclaim ==
  /\ FinishAt("reclaim")
  /\ ReclaimHeads(Tail(tape), completedSeqId, WriteWaiters \cup EncodeWaiters)
  /\ closed' = StillClosed(Tail(tape))
  /\ UNCHANGED <<ringVars, inflight, doneVars, ledger, gpuVars, encodeVars, job,
                 useVars, mapDrawn>>

-----------------------------------------------------------------------------

\* stopThreads: the device goes away.
StopThreads ==
  /\ ~ stop
  /\ stop' = TRUE
  /\ parked' = parked \cap LeftAsleep
  /\ UNCHANGED <<ringVars, tapeVars, inflight, doneVars, ledger, gpuVars,
                 encodeVars, poison, pc, job, useVars, mapDrawn>>

EnsureStep ==
  \/ \E accepted \in BOOLEAN : EnsureAcquire(accepted)
  \/ EnsureWait
  \/ \E outcome \in {"run", "undefined"} : EnsureStopped(outcome)

ClientWakes(c) == CommitWake(c) \/ SequenceWake(c)

EncodeStep ==
  \/ EncodeWait \/ EncodeExit \/ EncodeRefuse \/ Dequeue
  \/ \E n \in 1..SlotCount : ReservePrefix(n)
  \/ EncodeSubmit \/ EncodeRetain \/ RetireBegin \/ RetireFinish
  \/ InlineBegin \/ InlineFinish \/ EncodeThrow

WatchStep == WatchWait \/ WatchPop \/ WatchExit \/ Settle
FinishStep == FinishWait \/ FinishExit \/ Drain \/ FinishReclaim

Next ==
  \/ AppendOpen \/ Mark \/ EnsureStep
  \/ \E want \in {0, Everything} : Commit(want)
  \/ Map \/ Unmap
  \/ \E c \in Clients : ClientWakes(c)
  \/ EncodeStep \/ CommitPrefix \/ RestorePrefix \/ SubmitSession
  \/ WatchStep \/ FinishStep
  \/ StopThreads

Spec == Init /\ [][Next]_vars

\* A client that waits in ensureWriterSlot goes on.
EnsureResumes == pc["writer"] = "ensureWait" /\ EnsureStep

\* The operating system runs every thread that is not asleep, the GPU finishes
\* every command buffer, and the coordinator, which reserves a single source
\* after it restored a prefix, does not restore prefixes for ever.  Nobody has
\* to draw, commit, map, stop, or end a session that is not due.
Fairness ==
  /\ WF_vars(EnsureResumes)
  /\ \A c \in Clients : WF_vars(ClientWakes(c))
  /\ WF_vars(EncodeStep) /\ SF_vars(CommitPrefix)
  /\ WF_vars(SessionDue /\ SubmitSession)
  /\ WF_vars(WatchStep) /\ WF_vars(FinishStep)

FairSpec == Spec /\ Fairness

-----------------------------------------------------------------------------
(* Properties. *)

\* Every variable has its type; at most kMaxQueuedChunks chunks are in flight;
\* the tape stays below its source high water.
TypeOK ==
  /\ slots \in [SlotIds -> [state : {"Free", "Writing", "Pending", "Encoding",
                                     "Retiring"},
                            seq : 0..MaxSeqId]]
  /\ writeIndex \in SlotIds /\ writingSlot \in SlotIds \cup {NoSlot}
  /\ payload \in BOOLEAN /\ closed \in BOOLEAN /\ stop \in BOOLEAN
  /\ nextSeqId \in 1..(MaxSeqId + 1)
  /\ inflight \in 0..InflightLimit
  /\ completedSeqId \in 0..lastCommittedSeqId
  /\ Len(tape) < HighWaterSources
  /\ ReadyReservations(tape) <= HighWaterReady
  /\ Cardinality(Resident(session)) <= InflightLimit
  /\ lastUsed \in 0..(MaxSeqId + 1) /\ drawn \in 0..lastUsed
  /\ mapDrawn \in 0..MaxSeqId
  /\ parked \subseteq Clients \cup Workers

\* No check of the queue's own bookkeeping ever fails (poisonTapeFailureLocked):
\* submit, the settlement of a completion, the reclaim of the tape head and the
\* candidates of a dequeue find what the other threads left.  The queue stops
\* itself only for a refused query binding, a throwing encoder, or an inline
\* completion that came too early.
NoSpuriousPoison ==
  poison \in {"none", "query", "encode", "inlineOrder", "inlineReclaim"}

\* The encoder's batch; a source that retires is in the session already.
Batched == IF pc["encoder"] = "retire" THEN Tail(batch) ELSE batch

\* The sequences between publication and completedSeqId, by the queue or thread
\* that holds them, nearest to completion first.
Stages ==
  << ToSet(completedQueue), Seqs(watching),
     UNION {Seqs(pending[k]) : k \in DOMAIN pending},
     Seqs(session), Seqs(Batched), Seqs(Tentative), Seqs(Ready) >>

Ascending(sources) ==
  \A i, j \in DOMAIN sources : i < j => sources[i].seq < sources[j].seq
Before(older, younger) == \A a \in older, b \in younger : a < b

\* On the tape the ready residents are the youngest but for an open chunk, and
\* those of a reserved prefix come right before them, oldest first.
TapeInStages ==
  \A i, j \in DOMAIN tape : i < j =>
    /\ tape[i].state # "Writing"
    /\ tape[i].state = "Ready" => tape[j].state \in {"Ready", "Writing"}
    /\ tape[i].state = "Tentative" =>
         tape[j].state \in {"Tentative", "Ready", "Writing"}
    /\ tape[j].state = "Writing" \/ tape[i].seq < tape[j].seq

\* No published sequence is lost, duplicated or overtaken on its way through the
\* encoder, its session, the watcher and the finish thread, whatever prefix is
\* reserved or restored and whichever payload is retired early.  It holds through
\* a stop; after a poison the coordinator may drop the source that failed.
PipelineFifo ==
  poison = "none" =>
    /\ UNION {Stages[k] : k \in DOMAIN Stages}
         = (completedSeqId + 1)..lastCommittedSeqId
    /\ \A k, m \in DOMAIN Stages : k < m => Before(Stages[k], Stages[m])
    /\ \A i, j \in DOMAIN completedQueue :
         i < j => completedQueue[i] < completedQueue[j]
    /\ Ascending(watching) /\ Ascending(session) /\ Ascending(batch)
    /\ \A k, m \in DOMAIN pending :
         /\ Ascending(pending[k])
         /\ k < m => Before(Seqs(pending[k]), Seqs(pending[m]))
    /\ TapeInStages

\* The inflight credit of a sequence goes back exactly once: when its payload
\* retires after encoding, or else when the finish thread drains it.
InflightExact ==
  inflight = lastCommittedSeqId - completedSeqId
             - Cardinality({r \in DOMAIN ledger : ledger[r].state # "Free"})
             + (IF pc["encoder"] = "retire" THEN 1 ELSE 0)

\* The tape states in which a source's control slot is in a given state.
TapeStatesOf(slotState) ==
  CASE slotState = "Writing"  -> {"Writing"}
    [] slotState = "Pending"  -> {"Ready", "Tentative"}
    [] slotState = "Encoding" -> {"Represented"}
    [] slotState = "Retiring" -> {"Reclaiming"}

\* Control slots and tape agree: a slot that is not free belongs to exactly one
\* resident in the matching state, and a resident that has not been submitted
\* has its slot.  After a poison the source that failed keeps its slot.
SlotsMatchTape ==
  poison = "none" =>
  /\ \A i \in SlotIds : slots[i].state # "Free" =>
       Cardinality({k \in DOMAIN tape :
         /\ tape[k].slot = i /\ tape[k].seq = slots[i].seq
         /\ tape[k].state \in TapeStatesOf(slots[i].state)}) = 1
  /\ \A k \in DOMAIN tape :
       tape[k].state \in {"Writing", "Ready", "Tentative", "Represented"} =>
         /\ slots[tape[k].slot].state # "Free"
         /\ slots[tape[k].slot].seq = tape[k].seq

\* The pipeline as a whole: order, credits and slots agree at every step, also
\* between the two holds of a retirement.
PipelineExact == TypeOK /\ PipelineFifo /\ InflightExact /\ SlotsMatchTape

\* What a sleeping thread waits for has happened.
WaitOver(t) ==
  \/ stop
  \/ t = "encoder" /\ (Ready # <<>> \/ (session # <<>> /\ SequenceRequested))
  \/ t = "watcher" /\ pending # <<>>
  \/ t = "finish" /\ completedQueue # <<>>
  \/ t = "writer" /\ pc[t] = "ensureWait"
       /\ ProbeReady /\ slots[writeIndex].state = "Free"
  \/ t \in Clients /\ pc[t] = "commitWait" /\ CommitRoom
  \/ t \in Clients /\ pc[t] = "seqWait" /\ completedSeqId >= job[t].target

\* No thread sleeps through the event it waits for: the hold that makes a wait
\* predicate true also notifies its condition variable.  An inline completion
\* frees its slot one hold before it notifies.
NoLostWakeup ==
  pc["encoder"] = "inline" \/ \A t \in parked : ~ WaitOver(t)

\* A source whose query marker did not take its sequence stays Ready: even the
\* draining of a stopped queue never represents it.
UnboundNeverEncoded ==
  \A k \in DOMAIN tape : tape[k].state \in {"Writing", "Ready"} \/ tape[k].bound

\* When mapBuffer returns, every draw recorded from the buffer before the call
\* has completed on the GPU, or the queue has stopped.
MapObservesDraw ==
  pc["mapper"] = "mapped" => stop \/ completedSeqId >= mapDrawn

\* Once the queue has stopped no chunk is published any more, not even by a
\* client that was asleep in commitCurrentChunk.
NoPublishAfterStop == [][stop => nextSeqId' = nextSeqId]_vars

\* Every client that waits inside a call (for a chunk slot, for an inflight
\* credit, for a sequence) returns.
ClientReturns ==
  \A c \in Clients :
    pc[c] \in {"ensureWait", "commitWait", "seqWait"}
      ~> pc[c] \in {"run", "mapped", "undefined"}

\* Every committed sequence completes, unless the queue stops first.
CommittedCompletes ==
  \A n \in 1..MaxSeqId : nextSeqId > n ~> (completedSeqId >= n \/ stop)

Exited == \A w \in Workers : pc[w] = "exited"

\* stopThreads can join its three threads.
WorkersJoin == stop ~> Exited

\* Nobody is stuck: clients return, committed sequences complete, and a stopped
\* queue can be joined.
NobodyStuck == ClientReturns /\ CommittedCompletes /\ WorkersJoin

\* currentSlotUnlocked's stated precondition: the caller has ensured a slot.
CurrentSlotEnsured == pc["writer"] # "undefined"

\* An inline completion that is next in completion order completes.
InlineCompletes == poison # "inlineReclaim"

\* Joining all workers retires every callback: no command buffer is left that
\* was submitted and never settled.
JoinRetiresCallbacks == Exited => pending = <<>>
=============================================================================

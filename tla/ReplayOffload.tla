---------------------------- MODULE ReplayOffload ----------------------------
(***************************************************************************)
(* Commit-replay offload (src/src/d3d9/device_c_replay_offload.{hpp,cpp}). *)
(* Application threads append command chunks, state-block applies and      *)
(* managed-buffer mutations to a bounded FIFO; one worker replays them; a  *)
(* ledger of per-resource ordinals lets a direct call wait only for the    *)
(* work that touches its resource.                                         *)
(*                                                                         *)
(* Each step is one critical section of the queue mutex or of the ledger   *)
(* mutex, or one atomic access.  A condition variable is modelled by the   *)
(* set of its sleepers: a thread whose predicate is false goes to sleep    *)
(* and only a notification of that variable wakes it.                      *)
(*                                                                         *)
(* Chunk commits and state-block applies hold the recorder mutex of the    *)
(* device; buffer Lock/Unlock and Query::GetData do not, so they run       *)
(* concurrently with a commit on a D3DCREATE_MULTITHREADED device.         *)
(***************************************************************************)
EXTENDS Naturals, Sequences, FiniteSets, SequencesExt

CONSTANTS
    Threads,     \* application threads
    Buffers,     \* managed buffers (one ledger target each)
    Queries,     \* queries (one ledger target each)
    Chunks,      \* the command chunks: [res, bytes, inline]
    SpanBytes,   \* sizes a buffer mutation may stage
    Calls,       \* the bridge calls the application makes, by kind
    MaxChunks,   \* maxChunks_
    MaxBytes,    \* maxBytes_
    MaxCalls,    \* bound: how many bridge calls are made in all
    MayFail,     \* a replay may fail
    MayStarve    \* an allocation of a queue element or of staging may fail

Targets == Buffers \cup Queries

CallKinds == {"Chunk", "StateBlock", "Lock", "Unlock", "UnlockNoOverwrite",
              "Drain", "GetData"}

ASSUME OffloadConstants ==
    /\ MaxChunks \in Nat \ {0} /\ MaxBytes \in Nat /\ MaxCalls \in Nat
    /\ SpanBytes \subseteq Nat
    /\ Chunks \subseteq [res : SUBSET Targets, bytes : Nat, inline : BOOLEAN]
    /\ Calls \subseteq CallKinds
    /\ MayFail \in BOOLEAN /\ MayStarve \in BOOLEAN
    /\ Buffers \cap Queries = {}
    /\ Threads \cap {"nobody", "worker", "owner"} = {}

Nobody == "nobody"
Worker == "worker"
Idle   == [op |-> "none"]

VARIABLES
    queue,       \* queue_: items, reserved placeholders included
    queuedBytes, \* queuedBytes_
    inFlight,    \* inFlight_
    stop,        \* stop_ of the queue
    nextSeq,     \* ledger nextSeq_
    lastQueued,  \* lastQueuedSeq of each target
    lastReplayed,\* lastReplayedSeq of each target
    accepting, stopping, poisoned,   \* ledger flags under its mutex
    terminal,    \* terminalState_ (atomic)
    failed,      \* failed_ of the worker (atomic)
    wpc, witem,  \* the worker and the item it popped
    pc, arg,     \* each thread: where it is in its call, and its locals
    recorder,    \* holder of the recorder mutex
    asleep,      \* threads (or the worker) sleeping on a condition variable
    pollOrdinal, \* pollState->rawOrdinal of each query
    down,        \* how far ~D9CDevice has come
    calls,       \* bridge calls made so far
    issued,      \* history: recorder-ordered calls started so far
    effects,     \* history: the replays and direct applies, in order
    held         \* history: accepted ordinals whose retention is not released

qvars == <<queue, queuedBytes, inFlight, stop>>
lvars == <<nextSeq, lastQueued, lastReplayed, accepting, stopping, poisoned>>
wvars == <<failed, wpc, witem>>
tvars == <<pc, arg, recorder, calls, issued>>
hvars == <<pollOrdinal, effects, held>>
vars  == <<qvars, lvars, terminal, wvars, tvars, asleep, hvars, down>>

----------------------------------------------------------------------------
(* Queue elements. *)

Item(kind, seq, res, bytes, tick) ==
    [kind |-> kind, seq |-> seq, res |-> res, bytes |-> bytes, tick |-> tick]

\* ReplayQueueItem::placeholder(): a reserved, uncommitted element.
IsHole(item) == item.kind = "hole"

\* findReservationLocked: reservations are found by their ordinal here.
ReservationAt(seq) ==
    {i \in DOMAIN queue : IsHole(queue[i]) /\ queue[i].seq = seq}

Charge(q) ==
    LET sum[i \in 0..Len(q)] == IF i = 0 THEN 0 ELSE sum[i - 1] + q[i].bytes
    IN  sum[Len(q)]

\* Emptiness judged by the charge: a state-block apply weighs nothing.
FitsWhenUncharged(bytes) ==
    /\ Len(queue) < MaxChunks
    /\ queuedBytes = 0 \/ queuedBytes + bytes <= MaxBytes

\* admissible: the count always binds, the bytes unless the queue is empty.
Fits(bytes) ==
    /\ Len(queue) < MaxChunks
    /\ queue = <<>> \/ queuedBytes + bytes <= MaxBytes

\* A state-block apply is charged no bytes.
FitsCount(bytes) == Len(queue) < MaxChunks

\* The charge left once an element has gone.
Credit(bytes) == queuedBytes - bytes

LedgerAdmits == accepting /\ terminal = "Running"

----------------------------------------------------------------------------
(* Condition variables: who sleeps on which one is told by its pc. *)

SpaceWaiters  == {t \in Threads : pc[t] \in {"push", "reserve"}}
DrainWaiters  == {t \in Threads : pc[t] = "drainWait"} \cup {"owner"}
LedgerWaiters == {t \in Threads : pc[t] \in {"ledgerWait", "receiptWait"}}

Sleep(x) == x \notin asleep /\ asleep' = asleep \cup {x}

----------------------------------------------------------------------------
(* The outstanding work, for the history of what a fence must wait for. *)

Done == {effects[i].seq : i \in DOMAIN effects}

\* Accepted by the FIFO and not yet replayed.
Outstanding ==
    {queue[i].seq : i \in {j \in DOMAIN queue : ~IsHole(queue[j])}}
    \cup (IF wpc = "replay" THEN {witem.seq} ELSE {})

\* The same for one target; a chunk replayed inline counts too.
OutstandingOn(r) ==
    {queue[i].seq : i \in {j \in DOMAIN queue :
                               ~IsHole(queue[j]) /\ r \in queue[j].res}}
    \cup (IF wpc = "replay" /\ r \in witem.res THEN {witem.seq} ELSE {})
    \cup {arg[t].seq : t \in {u \in Threads : /\ pc[u] = "inline"
                                             /\ r \in arg[u].chunk.res}}

----------------------------------------------------------------------------
Init ==
    /\ queue = <<>> /\ queuedBytes = 0 /\ inFlight = FALSE /\ stop = FALSE
    /\ nextSeq = 1
    /\ lastQueued = [r \in Targets |-> 0]
    /\ lastReplayed = [r \in Targets |-> 0]
    /\ accepting = TRUE /\ stopping = FALSE /\ poisoned = FALSE
    /\ terminal = "Running" /\ failed = FALSE
    /\ wpc = "pop" /\ witem = Idle
    /\ pc = [t \in Threads |-> "idle"]
    /\ arg = [t \in Threads |-> Idle]
    /\ recorder = Nobody
    /\ asleep = {}
    /\ pollOrdinal = [q \in Queries |-> 0]
    /\ down = "up" /\ calls = 0 /\ issued = 0
    /\ effects = <<>> /\ held = {}

Goto(t, where) == pc' = [pc EXCEPT ![t] = where]

With(t, rec) == arg' = [arg EXCEPT ![t] = rec]

\* The call returns to the application; a recorder call drops its mutex.
Return(t) ==
    /\ Goto(t, "idle") /\ With(t, Idle)
    /\ recorder' = IF recorder = t THEN Nobody ELSE recorder
    /\ UNCHANGED <<calls, issued>>

Stay == UNCHANGED <<recorder, calls, issued>>

----------------------------------------------------------------------------
(* Entering a bridge call. *)

Enter(t, kind) ==
    /\ kind \in Calls /\ pc[t] = "idle" /\ down = "up" /\ calls < MaxCalls
    /\ calls' = calls + 1
    /\ UNCHANGED <<qvars, lvars, terminal, wvars, asleep, hvars, down>>

TakeRecorder(t) ==
    /\ recorder = Nobody /\ recorder' = t /\ issued' = issued + 1

NoRecorder == UNCHANGED <<recorder, issued>>

\* dxmt9c_device_commit_chunk: the offload lane refuses once the worker has
\* failed; a chunk with a synchronous read boundary takes the inline lane,
\* which first drains the FIFO.
CommitChunk(t, c) ==
    /\ Enter(t, "Chunk") /\ recorder = Nobody
    /\ IF c.inline
       THEN /\ TakeRecorder(t) /\ Goto(t, "drain")
            /\ With(t, [op |-> "Inline", chunk |-> c, tick |-> issued + 1,
                        need |-> Outstanding, seq |-> 0])
       ELSE IF failed
       THEN issued' = issued + 1 /\ UNCHANGED <<pc, arg, recorder>>
       ELSE /\ TakeRecorder(t) /\ Goto(t, "push")
            /\ With(t, [op |-> "Chunk", chunk |-> c, tick |-> issued + 1])

\* enqueueStateBlockApply, up to the push.
StateBlockApply(t) ==
    /\ Enter(t, "StateBlock") /\ recorder = Nobody
    /\ IF terminal # "Running" \/ failed \/ stop
       THEN issued' = issued + 1 /\ UNCHANGED <<pc, arg, recorder>>
       ELSE /\ TakeRecorder(t) /\ Goto(t, "push")
            /\ With(t, [op |-> "StateBlock", tick |-> issued + 1,
                        need |-> Outstanding,
                        chunk |-> [res |-> {}, bytes |-> 0]])

\* The application uses one buffer from one thread at a time.
Unshared(b) ==
    \A u \in Threads : pc[u] # "idle" /\ "buf" \in DOMAIN arg[u] => arg[u].buf # b

\* drainDeferredReplayForBufferLock, the classes that do not bypass replay.
Lock(t, b) ==
    /\ Enter(t, "Lock") /\ Unshared(b) /\ NoRecorder
    /\ Goto(t, IF terminal # "Running" THEN "drain" ELSE "pending")
    /\ With(t, [op |-> IF terminal # "Running" THEN "Lost" ELSE "Buffer",
                buf |-> b, need |-> OutstandingOn(b)])

\* drainDeferredReplayForBufferUnlock: a plain writable unlock is planned as
\* a deferred mutation while the worker is alive; any other unlock, and a
\* no-overwrite unlock while the buffer has pending work, is fenced.
Unlock(t, b, bytes) ==
    /\ Enter(t, "Unlock") /\ Unshared(b) /\ NoRecorder
    /\ IF terminal # "Running"
       THEN /\ Goto(t, "drain")
            /\ With(t, [op |-> "Lost", buf |-> b, need |-> {}])
       ELSE IF failed \/ stop
       THEN /\ Goto(t, "pending")
            /\ With(t, [op |-> "Buffer", buf |-> b, need |-> OutstandingOn(b)])
       ELSE /\ Goto(t, "reserve")
            /\ With(t, [op |-> "Mutation", buf |-> b, bytes |-> bytes, seq |-> 0])

UnlockNoOverwrite(t, b) ==
    /\ Enter(t, "UnlockNoOverwrite") /\ Unshared(b) /\ NoRecorder
    /\ Goto(t, IF terminal # "Running" THEN "drain" ELSE "pending")
    /\ With(t, [op |-> IF terminal # "Running" THEN "Lost" ELSE "Buffer",
                buf |-> b, need |-> OutstandingOn(b)])

\* The fence in front of every other direct bridge call.
DirectCall(t) ==
    /\ Enter(t, "Drain") /\ NoRecorder
    /\ Goto(t, "drain")
    /\ With(t, [op |-> "Direct", need |-> Outstanding])

\* pollQueryReceiptImpl: captureReceipt under the ledger mutex.  A query no
\* raw chunk has issued falls back to the global drain.
GetData(t, q) ==
    /\ Enter(t, "GetData") /\ NoRecorder
    /\ IF lastQueued[q] = 0
       THEN /\ Goto(t, "drain")
            /\ With(t, [op |-> "Direct", need |-> Outstanding])
       ELSE /\ Goto(t, "receiptWait")
            /\ With(t, [op |-> "Query", query |-> q, captured |-> lastQueued[q]])

----------------------------------------------------------------------------
(* The producers' side of the queue. *)

\* publishAcceptedLocked: the next ordinal, on every target of the chunk.
PublishAccepted(res) ==
    /\ nextSeq' = nextSeq + 1
    /\ lastQueued' = [r \in Targets |->
                          IF r \in res THEN nextSeq ELSE lastQueued[r]]

PublishMutationOverwrites(b, seq) == seq

\* publishMutationAcceptedLocked: the ordinal was fixed at the reservation,
\* so a later chunk may already have published a higher one.
PublishMutationAccepted(b, seq) ==
    IF seq > lastQueued[b] THEN seq ELSE lastQueued[b]

\* pushWithDisposition refused: the caller keeps the chunk and releases it.
\* A refused state-block apply falls back to drain and apply on this thread,
\* unless the queue or the ledger is terminal.
RejectPush(t) ==
    /\ IF arg[t].op = "StateBlock" /\ terminal = "Running" /\ ~failed /\ ~stop
       THEN Goto(t, "drain") /\ UNCHANGED arg /\ Stay
       ELSE Return(t)
    /\ UNCHANGED <<qvars, lvars, held, asleep>>

AcceptPush(t) ==
    LET c == arg[t].chunk IN
    /\ queue' = Append(queue, Item(arg[t].op, nextSeq, c.res, c.bytes, arg[t].tick))
    /\ queuedBytes' = queuedBytes + c.bytes
    /\ PublishAccepted(c.res)
    /\ held' = held \cup {nextSeq}
    /\ asleep' = asleep \ (LedgerWaiters \cup {Worker})
    /\ Return(t)
    /\ UNCHANGED <<inFlight, stop, lastReplayed, accepting, stopping, poisoned>>

\* pushWithDisposition / pushStateBlockApply under the queue mutex.
Push(t) ==
    /\ pc[t] = "push" /\ t \notin asleep
    /\ LET fits == IF arg[t].op = "StateBlock" THEN FitsCount(0)
                   ELSE Fits(arg[t].chunk.bytes) IN
       \/ /\ ~stop /\ ~fits
          /\ Sleep(t) /\ UNCHANGED <<qvars, lvars, tvars, held>>
       \/ stop /\ RejectPush(t)
       \/ ~stop /\ fits /\ ~LedgerAdmits /\ RejectPush(t)
       \/ ~stop /\ fits /\ MayStarve /\ RejectPush(t)
       \/ ~stop /\ fits /\ LedgerAdmits /\ AcceptPush(t)
    /\ UNCHANGED <<terminal, wvars, pollOrdinal, effects, down>>

\* reserveMutation: the placeholder takes its place and its ordinal.
Reserve(t) ==
    /\ pc[t] = "reserve" /\ t \notin asleep
    /\ \/ /\ ~stop /\ ~Fits(arg[t].bytes)
          /\ Sleep(t) /\ UNCHANGED <<qvars, nextSeq, tvars>>
       \/ /\ stop \/ (Fits(arg[t].bytes) /\ (~LedgerAdmits \/ MayStarve))
          /\ Return(t) /\ UNCHANGED <<qvars, nextSeq, asleep>>
       \/ /\ ~stop /\ Fits(arg[t].bytes) /\ LedgerAdmits
          /\ queue' = Append(queue, Item("hole", nextSeq, {}, arg[t].bytes, 0))
          /\ queuedBytes' = queuedBytes + arg[t].bytes
          /\ nextSeq' = nextSeq + 1
          /\ Goto(t, "rotate") /\ With(t, [arg[t] EXCEPT !.seq = nextSeq]) /\ Stay
          /\ UNCHANGED <<inFlight, stop, asleep>>
    /\ UNCHANGED <<lastQueued, lastReplayed, accepting, stopping, poisoned,
                   terminal, wvars, hvars, down>>

\* offloadManagedBufferMutation between reservation and commit: staging or
\* the rotation may fail, and the reservation is then released.
Rotate(t) ==
    /\ pc[t] = "rotate"
    /\ Goto(t, "commit") \/ (MayStarve /\ Goto(t, "unreserve"))
    /\ UNCHANGED <<qvars, lvars, terminal, wvars, arg, recorder, calls, issued,
                   asleep, hvars, down>>

ReleaseMutationSilent(t) ==
    /\ pc[t] = "unreserve"
    /\ IF ReservationAt(arg[t].seq) = {}
       THEN UNCHANGED <<queue, queuedBytes>>
       ELSE LET i == CHOOSE i \in ReservationAt(arg[t].seq) : TRUE IN
            /\ queue' = RemoveAt(queue, i)
            /\ queuedBytes' = Credit(queue[i].bytes)
    /\ Return(t)
    /\ UNCHANGED <<inFlight, stop, lvars, terminal, wvars, asleep, hvars, down>>

\* releaseMutation: the placeholder leaves the middle of the queue.
ReleaseMutation(t) ==
    /\ pc[t] = "unreserve"
    /\ IF ReservationAt(arg[t].seq) = {}
       THEN UNCHANGED <<queue, queuedBytes, asleep>>
       ELSE LET i == CHOOSE i \in ReservationAt(arg[t].seq) : TRUE IN
            /\ queue' = RemoveAt(queue, i)
            /\ queuedBytes' = Credit(queue[i].bytes)
            /\ asleep' = asleep \ (SpaceWaiters \cup DrainWaiters \cup {Worker})
    /\ Return(t)
    /\ UNCHANGED <<inFlight, stop, lvars, terminal, wvars, hvars, down>>

\* commitMutation: a reservation a drain has dropped drops its task too.
CommitMutation(t) ==
    /\ pc[t] = "commit"
    /\ IF ReservationAt(arg[t].seq) = {}
       THEN UNCHANGED <<queue, lastQueued, held, asleep>>
       ELSE LET i == CHOOSE i \in ReservationAt(arg[t].seq) : TRUE
                b == arg[t].buf IN
            /\ queue' = [queue EXCEPT ![i] =
                            Item("Mutation", arg[t].seq, {b}, arg[t].bytes, 0)]
            /\ lastQueued' = [lastQueued EXCEPT ![b] =
                                  PublishMutationAccepted(b, arg[t].seq)]
            /\ held' = held \cup {arg[t].seq}
            /\ asleep' = asleep \ (LedgerWaiters \cup {Worker})
    /\ Return(t)
    /\ UNCHANGED <<queuedBytes, inFlight, stop, nextSeq, lastReplayed, accepting,
                   stopping, poisoned, terminal, wvars, pollOrdinal, effects, down>>

----------------------------------------------------------------------------
(* Fences. *)

\* What follows the global drain: the lost device returns; the inline lane
\* ignores the answer and re-checks below; the others need a true answer.
AfterDrain(t, ok) ==
    IF arg[t].op = "Inline" THEN Goto(t, "inlineCheck") /\ UNCHANGED arg /\ Stay
    ELSE IF ok /\ arg[t].op # "Lost" THEN Goto(t, "inCall") /\ UNCHANGED arg /\ Stay
    ELSE Return(t)

DrainNoWait(t) ==
    /\ pc[t] = "drain"
    /\ IF terminal # "Running" THEN AfterDrain(t, FALSE)
       ELSE Goto(t, "drained") /\ UNCHANGED arg /\ Stay
    /\ UNCHANGED <<qvars, lvars, terminal, wvars, asleep, hvars, down>>

\* drainDeferredReplay: the terminal test and the depth probe.
Drain(t) ==
    /\ pc[t] = "drain"
    /\ IF terminal # "Running" THEN AfterDrain(t, FALSE)
       ELSE /\ Goto(t, IF queue = <<>> /\ ~inFlight THEN "drained" ELSE "drainWait")
            /\ UNCHANGED arg /\ Stay
    /\ UNCHANGED <<qvars, lvars, terminal, wvars, asleep, hvars, down>>

QuietQueueOnly == stop \/ queue = <<>>

\* waitDrained: stop-aware.
Quiet == stop \/ (queue = <<>> /\ ~inFlight)

WaitDrained(t) ==
    /\ pc[t] = "drainWait" /\ t \notin asleep
    /\ IF Quiet THEN Goto(t, "drained") /\ UNCHANGED asleep
       ELSE Sleep(t) /\ UNCHANGED pc
    /\ UNCHANGED <<qvars, lvars, terminal, wvars, arg, recorder, calls, issued,
                   hvars, down>>

\* The answer: the flags only ever rise, so one read of them stands for the
\* reads in sequence.
Drained(t) ==
    /\ pc[t] = "drained"
    /\ AfterDrain(t, ~stop /\ ~failed /\ terminal = "Running")
    /\ UNCHANGED <<qvars, lvars, terminal, wvars, asleep, hvars, down>>

\* ReplayDrainLedger::pending.
Pending(t) ==
    /\ pc[t] = "pending"
    /\ Goto(t, IF lastQueued[arg[t].buf] > lastReplayed[arg[t].buf]
               THEN "ledgerWait" ELSE "inCall")
    /\ UNCHANGED <<qvars, lvars, terminal, wvars, arg, recorder, calls, issued,
                   asleep, hvars, down>>

\* ReplayDrainLedger::wait: poisoned and stopped win over caught up, and both
\* end in the global drain and a lost device.
LedgerWait(t) ==
    /\ pc[t] = "ledgerWait" /\ t \notin asleep
    /\ IF poisoned \/ stopping
       THEN /\ Goto(t, "drain") /\ With(t, [arg[t] EXCEPT !.op = "Lost"])
            /\ UNCHANGED asleep
       ELSE IF lastQueued[arg[t].buf] <= lastReplayed[arg[t].buf]
       THEN Goto(t, "inCall") /\ UNCHANGED <<arg, asleep>>
       ELSE Sleep(t) /\ UNCHANGED <<pc, arg>>
    /\ Stay
    /\ UNCHANGED <<qvars, lvars, terminal, wvars, hvars, down>>

\* The provider call behind a fence, and the direct state-block apply.
FinishCall(t) ==
    /\ pc[t] = "inCall"
    /\ effects' = IF arg[t].op = "StateBlock"
                  THEN Append(effects, [seq |-> 0, tick |-> arg[t].tick, fifo |-> FALSE])
                  ELSE effects
    /\ Return(t)
    /\ UNCHANGED <<qvars, lvars, terminal, wvars, asleep, pollOrdinal, held, down>>

\* A direct apply that throws has an unknown effect and poisons the ledger.
ApplyThrows(t) ==
    /\ MayFail /\ pc[t] = "inCall" /\ arg[t].op = "StateBlock"
    /\ terminal' = "Failed"
    /\ asleep' = asleep \ LedgerWaiters
    /\ Goto(t, "poison")
    /\ UNCHANGED <<qvars, lvars, wvars, arg, recorder, calls, issued, hvars, down>>

----------------------------------------------------------------------------
(* Query receipts. *)

\* classifyReplayReceipt.
Classify(captured, q) ==
    IF terminal # "Running" \/ captured > lastQueued[q]
       \/ lastReplayed[q] > lastQueued[q] THEN "Failed"
    ELSE IF captured # lastQueued[q] THEN "Superseded"
    ELSE IF lastReplayed[q] >= captured THEN "Ready" ELSE "Pending"

\* waitReceipt.
ReceiptWait(t) ==
    /\ pc[t] = "receiptWait" /\ t \notin asleep
    /\ LET state == Classify(arg[t].captured, arg[t].query) IN
       \/ state = "Pending" /\ Sleep(t) /\ UNCHANGED <<pc, arg, recorder, calls, issued>>
       \/ /\ state \in {"Failed", "Superseded"} /\ Return(t) /\ UNCHANGED asleep
       \/ /\ state = "Ready" /\ Goto(t, "visit")
          /\ UNCHANGED <<arg, asleep>> /\ Stay
    /\ UNCHANGED <<qvars, lvars, terminal, wvars, hvars, down>>

\* visitReadyReceipt classifies again before it copies the query's snapshot;
\* a snapshot of another issue is not used and the poll drains globally.
VisitReady(t) ==
    /\ pc[t] = "visit"
    /\ IF Classify(arg[t].captured, arg[t].query) # "Ready" THEN Return(t)
       ELSE IF pollOrdinal[arg[t].query] # arg[t].captured
       THEN /\ Goto(t, "drain") /\ Stay
            /\ With(t, [op |-> "Mismatch", need |-> Outstanding])
       ELSE Goto(t, "poll") /\ UNCHANGED arg /\ Stay
    /\ UNCHANGED <<qvars, lvars, terminal, wvars, asleep, hvars, down>>

\* The backend poll and the last terminal check, which turn into the result.
PollReturns(t) ==
    /\ pc[t] = "poll" /\ Return(t)
    /\ UNCHANGED <<qvars, lvars, terminal, wvars, asleep, hvars, down>>

----------------------------------------------------------------------------
(* The inline lane, after its drain. *)

\* failed() and publishInline.
PublishInline(t) ==
    /\ pc[t] = "inlineCheck"
    /\ IF failed \/ ~LedgerAdmits
       THEN Return(t) /\ UNCHANGED <<lvars, held, asleep>>
       ELSE /\ PublishAccepted(arg[t].chunk.res)
            /\ held' = held \cup {nextSeq}
            /\ asleep' = asleep \ LedgerWaiters
            /\ Goto(t, "inline") /\ With(t, [arg[t] EXCEPT !.seq = nextSeq]) /\ Stay
            /\ UNCHANGED <<lastReplayed, accepting, stopping, poisoned>>
    /\ UNCHANGED <<qvars, terminal, wvars, pollOrdinal, effects, down>>

Replayed(res, seq) ==
    [r \in Targets |-> IF r \in res /\ seq > lastReplayed[r]
                       THEN seq ELSE lastReplayed[r]]

\* What replaying an item leaves behind: its place in the order of effects
\* and, for every query it issues, the ordinal of that issue.
Effect(item, fifo) ==
    /\ effects' = Append(effects, [seq |-> item.seq, tick |-> item.tick, fifo |-> fifo])
    /\ pollOrdinal' = [q \in Queries |->
                           IF q \in item.res THEN item.seq ELSE pollOrdinal[q]]

\* replayPlannedChunk on the calling thread succeeded.
InlineReplay(t) ==
    /\ pc[t] = "inline"
    /\ Effect(Item("Chunk", arg[t].seq, arg[t].chunk.res, 0, arg[t].tick), FALSE)
    /\ Goto(t, "inlineDone")
    /\ UNCHANGED <<qvars, lvars, terminal, wvars, arg, recorder, calls, issued,
                   asleep, held, down>>

\* publishReplayed, and the wrappers are released.
InlinePublish(t) ==
    /\ pc[t] = "inlineDone"
    /\ lastReplayed' = Replayed(arg[t].chunk.res, arg[t].seq)
    /\ held' = held \ {arg[t].seq}
    /\ asleep' = asleep \ LedgerWaiters
    /\ Return(t)
    /\ UNCHANGED <<qvars, nextSeq, lastQueued, accepting, stopping, poisoned,
                   terminal, wvars, pollOrdinal, effects, down>>

\* replayPlannedChunk failed: poison() publishes the failure first.
InlineFails(t) ==
    /\ MayFail /\ pc[t] = "inline"
    /\ terminal' = "Failed"
    /\ asleep' = asleep \ LedgerWaiters
    /\ Goto(t, "poison")
    /\ UNCHANGED <<qvars, lvars, wvars, arg, recorder, calls, issued, hvars, down>>

\* The rest of poison(), and the chunk's wrappers are released.
ThreadPoison(t) ==
    /\ pc[t] = "poison"
    /\ accepting' = FALSE /\ poisoned' = TRUE
    /\ held' = IF arg[t].op = "Inline" THEN held \ {arg[t].seq} ELSE held
    /\ asleep' = asleep \ LedgerWaiters
    /\ Return(t)
    /\ UNCHANGED <<qvars, nextSeq, lastQueued, lastReplayed, stopping, terminal,
                   wvars, pollOrdinal, effects, down>>

----------------------------------------------------------------------------
(* ReplayOffloadWorker::run. *)

\* A worker that skips placeholders to the first committed item.
PopPastHoles ==
    /\ wpc = "pop" /\ Worker \notin asleep
    /\ LET ready == {i \in DOMAIN queue : ~IsHole(queue[i])} IN
       \/ /\ ~stop /\ ready = {} /\ Sleep(Worker)
          /\ UNCHANGED <<qvars, wpc, witem>>
       \/ /\ stop /\ ready = {} /\ wpc' = "epilogue"
          /\ UNCHANGED <<qvars, witem, asleep>>
       \/ /\ ready # {}
          /\ LET i == CHOOSE i \in ready : \A j \in ready : i <= j IN
             /\ witem' = queue[i] /\ queue' = RemoveAt(queue, i)
             /\ queuedBytes' = Credit(queue[i].bytes)
          /\ inFlight' = TRUE /\ wpc' = "replay"
          /\ asleep' = asleep \ SpaceWaiters
          /\ UNCHANGED stop
    /\ UNCHANGED <<lvars, terminal, failed, tvars, hvars, down>>

\* pop: the worker never walks past a placeholder; it leaves its loop when
\* the queue is stopped and has nothing it may take.
Pop ==
    /\ wpc = "pop" /\ Worker \notin asleep
    /\ LET takeable == queue # <<>> /\ ~IsHole(queue[1]) IN
       \/ /\ ~stop /\ ~takeable /\ Sleep(Worker)
          /\ UNCHANGED <<qvars, wpc, witem>>
       \/ /\ stop /\ ~takeable /\ wpc' = "epilogue"
          /\ UNCHANGED <<qvars, witem, asleep>>
       \/ /\ takeable
          /\ witem' = Head(queue) /\ queue' = Tail(queue)
          /\ queuedBytes' = Credit(Head(queue).bytes)
          /\ inFlight' = TRUE /\ wpc' = "replay"
          /\ asleep' = asleep \ SpaceWaiters
          /\ UNCHANGED stop
    /\ UNCHANGED <<lvars, terminal, failed, tvars, hvars, down>>

Replay ==
    /\ wpc = "replay" /\ Effect(witem, TRUE) /\ wpc' = "publish"
    /\ UNCHANGED <<qvars, lvars, terminal, failed, witem, tvars, asleep, held, down>>

\* publishReplayed / publishMutationReplayed (nothing for a state block).
PublishReplayed ==
    /\ wpc = "publish" /\ wpc' = "release"
    /\ lastReplayed' = Replayed(witem.res, witem.seq)
    /\ asleep' = asleep \ LedgerWaiters
    /\ UNCHANGED <<qvars, nextSeq, lastQueued, accepting, stopping, poisoned,
                   terminal, failed, witem, tvars, hvars, down>>

\* The retention is released, then markReplayDone.
MarkReplayDone(next) ==
    /\ wpc' = next /\ witem' = Idle
    /\ held' = held \ {witem.seq}
    /\ inFlight' = FALSE
    /\ asleep' = asleep \ DrainWaiters
    /\ UNCHANGED <<queue, queuedBytes, stop, lvars, terminal, failed, tvars,
                   pollOrdinal, effects, down>>

ReplayDone == wpc = "release" /\ MarkReplayDone("pop")

\* Replay failed, perhaps after some of the item's records took effect:
\* publishFailure, failed_, poison, queue stop, release, markReplayDone.
ReplayFails ==
    /\ MayFail /\ wpc = "replay" /\ wpc' = "failing"
    /\ terminal' = "Failed"
    /\ \/ UNCHANGED pollOrdinal
       \/ pollOrdinal' = [q \in Queries |-> IF q \in witem.res THEN witem.seq
                                            ELSE pollOrdinal[q]]
    /\ asleep' = asleep \ LedgerWaiters
    /\ UNCHANGED <<qvars, lvars, failed, witem, tvars, effects, held, down>>

NoteFailed ==
    /\ wpc = "failing" /\ failed' = TRUE /\ wpc' = "poison"
    /\ UNCHANGED <<qvars, lvars, terminal, witem, tvars, asleep, hvars, down>>

Poison ==
    /\ wpc = "poison" /\ wpc' = "stopQueue"
    /\ accepting' = FALSE /\ poisoned' = TRUE
    /\ asleep' = asleep \ LedgerWaiters
    /\ UNCHANGED <<qvars, nextSeq, lastQueued, lastReplayed, stopping, terminal,
                   failed, witem, tvars, hvars, down>>

FailStop ==
    /\ wpc = "stopQueue" /\ wpc' = "abandon"
    /\ stop' = TRUE
    /\ asleep' = asleep \ (SpaceWaiters \cup DrainWaiters \cup {Worker})
    /\ UNCHANGED <<queue, queuedBytes, inFlight, lvars, terminal, failed, witem,
                   tvars, hvars, down>>

Abandon == wpc = "abandon" /\ MarkReplayDone("epilogue")

\* drainRemaining and releaseDrainedQueueItems.
DrainRemaining ==
    /\ held' = held \ {queue[i].seq : i \in DOMAIN queue}
    /\ queue' = <<>> /\ queuedBytes' = 0
    /\ asleep' = asleep \ (SpaceWaiters \cup DrainWaiters)

Epilogue ==
    /\ wpc = "epilogue" /\ wpc' = "exited" /\ DrainRemaining
    /\ UNCHANGED <<inFlight, stop, lvars, terminal, failed, witem, tvars,
                   pollOrdinal, effects, down>>

----------------------------------------------------------------------------
(* ~D9CDevice: no call is running; waitDrained, then the worker's stop(). *)

Teardown ==
    /\ \/ /\ down = "up" /\ \A t \in Threads : pc[t] = "idle"
          /\ down' = "drain" /\ UNCHANGED <<asleep, terminal, lvars, qvars, held>>
       \/ /\ down = "drain" /\ "owner" \notin asleep
          /\ IF Quiet THEN down' = "ledger" /\ UNCHANGED asleep
             ELSE Sleep("owner") /\ UNCHANGED down
          /\ UNCHANGED <<terminal, lvars, qvars, held>>
       \/ /\ down = "ledger" /\ down' = "queue"
          /\ terminal' = IF terminal = "Running" THEN "Stopped" ELSE terminal
          /\ accepting' = FALSE /\ stopping' = TRUE
          /\ asleep' = asleep \ LedgerWaiters
          /\ UNCHANGED <<nextSeq, lastQueued, lastReplayed, poisoned, qvars, held>>
       \/ /\ down = "queue" /\ down' = "join" /\ stop' = TRUE
          /\ asleep' = asleep \ (SpaceWaiters \cup DrainWaiters \cup {Worker})
          /\ UNCHANGED <<queue, queuedBytes, inFlight, terminal, lvars, held>>
       \/ /\ down = "join" /\ wpc = "exited" /\ down' = "gone" /\ DrainRemaining
          /\ UNCHANGED <<inFlight, stop, terminal, lvars>>
    /\ UNCHANGED <<wvars, tvars, pollOrdinal, effects>>

\* The device is gone.
Gone == down = "gone" /\ UNCHANGED vars

Call(t) ==
    \/ \E c \in Chunks : CommitChunk(t, c)
    \/ StateBlockApply(t)
    \/ \E b \in Buffers : Lock(t, b) \/ UnlockNoOverwrite(t, b)
    \/ \E b \in Buffers, n \in SpanBytes : Unlock(t, b, n)
    \/ DirectCall(t)
    \/ \E q \in Queries : GetData(t, q)

Step(t) ==
    \/ Push(t) \/ Reserve(t) \/ Rotate(t) \/ ReleaseMutation(t) \/ CommitMutation(t)
    \/ Drain(t) \/ WaitDrained(t) \/ Drained(t) \/ Pending(t) \/ LedgerWait(t)
    \/ FinishCall(t) \/ ReceiptWait(t) \/ VisitReady(t) \/ PollReturns(t)
    \/ PublishInline(t) \/ InlineReplay(t) \/ InlinePublish(t) \/ InlineFails(t)
    \/ ApplyThrows(t) \/ ThreadPoison(t)

Work ==
    \/ Pop \/ Replay \/ PublishReplayed \/ ReplayDone
    \/ ReplayFails \/ NoteFailed \/ Poison \/ FailStop \/ Abandon \/ Epilogue

Next ==
    \/ \E t \in Threads : Call(t) \/ Step(t)
    \/ Work \/ Teardown \/ Gone

Spec == Init /\ [][Next]_vars

\* Threads inside a call and the worker keep running; the
\* application need not make calls.
FairSpec ==
    /\ Spec
    /\ \A t \in Threads : WF_vars(Step(t))
    /\ WF_vars(Work)

----------------------------------------------------------------------------
(* Properties. *)

\* Every variable has its type.
TypeOK ==
    /\ queue \in Seq([kind : {"Chunk", "StateBlock", "Mutation", "hole"},
                      seq : Nat, res : SUBSET Targets, bytes : Nat, tick : Nat])
    /\ queuedBytes \in Nat /\ inFlight \in BOOLEAN /\ stop \in BOOLEAN
    /\ nextSeq \in 1..(MaxCalls + 1)
    /\ lastQueued \in [Targets -> Nat] /\ lastReplayed \in [Targets -> Nat]
    /\ {accepting, stopping, poisoned, failed} \subseteq BOOLEAN
    /\ terminal \in {"Running", "Stopped", "Failed"}
    /\ wpc \in {"pop", "replay", "publish", "release", "failing", "poison",
                "stopQueue", "abandon", "epilogue", "exited"}
    /\ DOMAIN pc = Threads /\ DOMAIN arg = Threads
    /\ recorder \in Threads \cup {Nobody}
    /\ asleep \subseteq Threads \cup {Worker, "owner"}
    /\ pollOrdinal \in [Queries -> Nat]
    /\ held \subseteq 1..MaxCalls

\* The FIFO stays within its bounds: the charge is exactly that of its
\* elements, placeholders included, the count never exceeds maxChunks_, and
\* the bytes exceed maxBytes_ only while one oversized item, at the head, is
\* the only charged one (the oversize escape of pushWithDisposition and
\* reserveMutation).
QueueBounded ==
    /\ queuedBytes = Charge(queue)
    /\ Len(queue) <= MaxChunks
    /\ queuedBytes > MaxBytes =>
           queue[1].bytes = queuedBytes

\* Replay order: chunks, state-block applies (deferred or, after a refused
\* push, applied on the calling thread) and inline chunks take effect in the
\* order in which the application made the calls, whatever the lanes.
ProgramOrder ==
    \A i, j \in DOMAIN effects :
        i < j /\ effects[i].tick # 0 /\ effects[j].tick # 0
            => effects[i].tick < effects[j].tick

\* The FIFO replays by ordinal: a mutation takes effect at the place its
\* reservation fixed, between the chunks accepted before and after it.
OrdinalOrder ==
    \A i, j \in DOMAIN effects :
        i < j /\ effects[i].fifo /\ effects[j].fifo
            => effects[i].seq < effects[j].seq

\* A direct call behind its fence (the global drain, the resource-scoped
\* lock and unlock fences, the fallback apply) runs only once everything it
\* had to wait for when it was made has been replayed: never after work that
\* a fail-stop threw away.
FenceHolds ==
    \A t \in Threads : pc[t] = "inCall" => arg[t].need \subseteq Done

\* A poll whose receipt is ready reads the very issue it captured: the
\* query's snapshot was written by the replay of that ordinal and by no later
\* one, although replay goes on while the poll waits.
ReceiptReadsCaptured ==
    \A t \in Threads :
        /\ pc[t] = "poll" => arg[t].captured \in Done
        /\ ~(pc[t] # "idle" /\ arg[t].op = "Mismatch")

\* A call that goes to the device directly finds the state its place in the
\* program asks for: all of the earlier work, and of a query no later issue.
DirectCallsCurrent == FenceHolds /\ ReceiptReadsCaptured

\* Retention: an accepted item's wrappers and leases are held exactly while
\* the item is queued, being replayed, or replayed inline; a worker that has
\* left its loop, cleanly or by fail-stop, leaves nothing behind.
RetentionExact ==
    /\ held = {queue[i].seq : i \in {j \in DOMAIN queue : ~IsHole(queue[j])}}
              \cup (IF witem = Idle THEN {} ELSE {witem.seq})
              \cup {arg[t].seq : t \in {u \in Threads :
                                            /\ pc[u] \in {"inline", "inlineDone", "poison"}
                                            /\ arg[u].op = "Inline"}}
    /\ wpc = "exited" => queue = <<>>

\* The books of the offload: charges, counts and retentions match the items that
\* are queued or being replayed, through refusals, failures and teardown.
BooksExact == TypeOK /\ QueueBounded /\ RetentionExact

\* An inline replay runs alone: everything accepted before it has been
\* replayed and the worker replays nothing meanwhile (the drain of the inline
\* lane, which is enough as long as one thread makes the calls).
ReplaySerial ==
    \A t \in Threads : pc[t] = "inline" =>
        wpc # "replay" /\ \A i \in DOMAIN queue : queue[i].seq > arg[t].seq

\* Every bridge call returns: no push, reservation, drain, ledger wait or
\* receipt wait sleeps for ever, through replay failure and fail-stop.
CallsReturn == \A t \in Threads : pc[t] # "idle" ~> pc[t] = "idle"

\* Every accepted item is settled: its retention is released by replay, by
\* the fail-stop or by teardown.  A reservation abandoned at the head must
\* not leave the worker asleep behind it.
AcceptedSettles == \A s \in 1..MaxCalls : s \in held ~> s \notin held

\* Nothing is stuck: callers return and accepted items settle.
NothingStuck == CallsReturn /\ AcceptedSettles
=============================================================================

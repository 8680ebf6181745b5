---------------------------- MODULE SessionRelease ----------------------------
(***************************************************************************)
(* Session release protocol (src/src/dxmt9/dxmt9_session_release.{hpp,cpp},*)
(* dxmt9_closed_prefix.hpp and its users in dxmt9_command_queue.cpp and    *)
(* dxmt9_command_queue_cpu_ready_session.cpp).                             *)
(*                                                                         *)
(* The encode coordinator carries one open session (a command buffer that  *)
(* successive sources join).  The replay thread reaches an ordered control *)
(* (query, readback, texture update), fixes a fence and posts an event; the*)
(* coordinator first represents every source up to the fence, then closes  *)
(* the pass or submits the session, then acknowledges.  Teardown posts one *)
(* terminal event.  A second thread may wait for a sequence to complete.   *)
(*                                                                         *)
(* Each action is one hold of the queue mutex, or what a thread does       *)
(* between two holds.  The index of a source in `sources` is its sequence  *)
(* id, its value the raw ordinal (replay ordinal of its chunk, 0 for none).*)
(* encodeCv_ and sessionReleaseCv_ are modelled by their sleepers.         *)
(***************************************************************************)
EXTENDS Naturals, Sequences, FiniteSetsExt

CONSTANTS
    LeaseLimit,    \* resident sources beyond which a first lease is denied
    EventCapacity, \* kMaxOrderedSessionReleaseEvents
    Ranges,        \* query::scopeRangesEnabled()
    MayStop,       \* the queue may be stopped
    MaxSources, MaxChunk, MaxControls, MaxTeardowns, MaxWaits   \* bounds

ASSUME ReleaseConstants ==
    /\ LeaseLimit \in Nat \ {0} /\ EventCapacity \in Nat \ {0}
    /\ Ranges \in BOOLEAN /\ MayStop \in BOOLEAN
    /\ \A n \in {MaxSources, MaxChunk, MaxControls, MaxTeardowns, MaxWaits} :
           n \in Nat

VARIABLES
    sources,    \* raw ordinals of the published sources
    writing,    \* the legacy writer holds recorded work
    chunk,      \* replay ordinal of the last chunk that did something here
    covered,    \* sessionReleaseCoveredSeqId_: sources selected so far
    coveredRaw, \* sessionReleaseCoveredRawOrdinal_
    submitted, completed, reclaimed,   \* prefixes of the sources
    moved,      \* the capacity generation moved during a lease wait
    session,    \* pendingRecord / pendingAdmission
    transport,  \* sessionReleaseState_
    witness,    \* closedPrefixCoordinator_: the receipt it holds
    coord,      \* the coordinator thread
    client,     \* the replay (or tearing-down) thread
    waiter,     \* target of the second thread's waitForSequence, 0 outside
    target,     \* producerSequenceWaitTargetSeqId_
    stop,       \* stop_
    asleep,     \* threads asleep on encodeCv_ or sessionReleaseCv_
    aborted,    \* abortCpuReadySessionFailOpen was called
    used        \* operations the bounds count

vars == <<sources, writing, chunk, covered, coveredRaw, submitted, completed,
          reclaimed, moved, session, transport, witness, coord, client, waiter,
          target, stop, asleep, aborted, used>>

gpuVars   == <<submitted, completed, reclaimed, moved>>
inputVars == <<sources, writing, chunk, used>>

Actions   == {"ClosePass", "SubmitSession", "SubmitAndWait"}
NoEvent   == [ordinal |-> 0, action |-> "ClosePass", raw |-> 0, seq |-> 0]
NoSession == [last |-> 0, raw |-> 0, pass |-> FALSE]
NoWitness == [ordinal |-> 0, raw |-> 0, published |-> 0]
Resting   == [pc |-> "run", action |-> "none", ordinal |-> 0, seq |-> 0,
              ok |-> FALSE]
AtTop     == [pc |-> "top", rel |-> NoEvent, then |-> "top", serial |-> FALSE]

Larger(a, b) == IF a > b THEN a ELSE b
Published    == Len(sources)
ReadyEmpty   == covered = Published
Open         == session # NoSession

Init ==
    /\ sources = <<>> /\ writing = FALSE /\ chunk = 1
    /\ covered = 0 /\ coveredRaw = 0
    /\ submitted = 0 /\ completed = 0 /\ reclaimed = 0 /\ moved = FALSE
    /\ session = NoSession
    /\ transport = [ordered |-> <<>>, terminal |-> NoEvent, next |-> 1,
                    acked |-> 0, lastRaw |-> 0, lastSeq |-> 0,
                    requested |-> FALSE]
    /\ witness = NoWitness
    /\ coord = AtTop /\ client = Resting /\ waiter = 0 /\ target = 0
    /\ stop = FALSE /\ asleep = {} /\ aborted = FALSE
    /\ used = [controls |-> 0, teardowns |-> 0, waits |-> 0]

-----------------------------------------------------------------------------
(* The transport.                                                          *)

HasPending == transport.ordered # <<>> \/ transport.terminal # NoEvent

\* Mutant: the terminal latch overtakes the queued events.
PeekTerminalFirst ==
    IF transport.terminal # NoEvent THEN transport.terminal
    ELSE IF transport.ordered = <<>> THEN NoEvent ELSE Head(transport.ordered)

PeekNext ==
    LET heads == {transport.terminal} \cup
                 (IF transport.ordered = <<>> THEN {}
                  ELSE {Head(transport.ordered)})
        live  == heads \ {NoEvent}
    IN  IF live = {} THEN NoEvent
        ELSE CHOOSE e \in live : \A f \in live : e.ordinal <= f.ordinal

IsTerminal(e) == e = transport.terminal

FenceCovered(e, rawCoverage) ==
    /\ e.raw = 0 \/ rawCoverage >= e.raw
    /\ e.seq = 0 \/ covered >= e.seq

ActionReady(e) ==
    /\ e # NoEvent
    /\ IF IsTerminal(e) THEN FenceCovered(e, coveredRaw)
                        ELSE e.seq = 0 \/ covered >= e.seq

FenceNotBefore(raw, seq) == raw >= transport.lastRaw /\ seq >= transport.lastSeq

Accepts(raw, seq) == ~transport.requested /\ FenceNotBefore(raw, seq)

NewEvent(action, raw, seq) ==
    [ordinal |-> transport.next, action |-> action, raw |-> raw, seq |-> seq]

\* tryPostOrdered, once it accepts.  A full ring would make the poster wait;
\* TransportExact shows it never fills.
Queued(e) ==
    [transport EXCEPT !.ordered = Append(@, e), !.next = @ + 1,
                      !.lastRaw = e.raw, !.lastSeq = e.seq]

\* requestTerminal, accepted: an unknown raw fence inherits the last one.
WithTerminal(seq) ==
    LET e == NewEvent("SubmitSession", transport.lastRaw,
                      Larger(seq, transport.lastSeq))
    IN  [transport EXCEPT !.terminal = e, !.next = @ + 1,
                          !.lastRaw = e.raw, !.lastSeq = e.seq,
                          !.requested = TRUE]

Acknowledged(t, e) ==
    IF e = t.terminal
    THEN [t EXCEPT !.terminal = NoEvent, !.acked = e.ordinal]
    ELSE [t EXCEPT !.ordered = Tail(@), !.acked = e.ordinal]

-----------------------------------------------------------------------------
(* The closed-prefix receipt.                                              *)

\* A receipt is issued only for the single ordered ClosePass, when the pass of
\* a live session was closed and the fence is everything published.
Certifies(e, closed) ==
    /\ Ranges /\ closed /\ ~stop /\ ~transport.requested
    /\ e.action = "ClosePass" /\ transport.ordered = <<e>>
    /\ Published = covered /\ e.seq = covered

Receipt(e) == [ordinal |-> e.ordinal, raw |-> e.raw, published |-> Published]

\* tryAcknowledgeReuse, with e just posted.
Reusable(e) ==
    /\ Ranges /\ witness # NoWitness /\ ~stop /\ ~transport.requested
    /\ witness.published = Published /\ covered = Published
    /\ transport.ordered = <<>>
    /\ transport.acked = witness.ordinal /\ e.ordinal = witness.ordinal + 1
    /\ e.raw >= witness.raw /\ e.seq = Published

-----------------------------------------------------------------------------
(* The replay thread.                                                      *)

Requested == target # 0

\* commitCurrentChunk: the recorded work becomes a source without raw ordinal.
Committed == IF writing THEN Append(sources, 0) ELSE sources

\* noteCpuReadyCapacityProgress: only a coordinator that was denied a lease
\* compares the generation.
CapacityMoves == moved' = (coord.pc = "lease")

CanRecord == Published + (IF writing THEN 1 ELSE 0) < MaxSources

\* The replay of chunk c publishes a source; a compatibility source carries no
\* raw ordinal.
Publish(c, raw) ==
    /\ client = Resting /\ ~stop /\ ~writing /\ CanRecord
    /\ chunk' = c
    /\ sources' = Append(sources, raw)
    /\ CapacityMoves
    /\ asleep' = asleep \ {"coord"}
    /\ UNCHANGED <<writing, covered, coveredRaw, submitted, completed,
                   reclaimed, session, transport, witness, coord, client,
                   waiter, target, stop, aborted, used>>

Draw ==
    /\ client = Resting /\ ~stop /\ ~writing /\ CanRecord
    /\ writing' = TRUE
    /\ UNCHANGED <<sources, chunk, covered, coveredRaw, gpuVars, session,
                   transport, witness, coord, client, waiter, target, stop,
                   asleep, aborted, used>>

Returned(action, seq, ok) ==
    [pc |-> "returned", action |-> action, ordinal |-> 0, seq |-> seq,
     ok |-> ok]

\* The publication half of an ordered control or of a teardown.
CommitWriting ==
    /\ sources' = Committed
    /\ writing' = FALSE
    /\ IF writing THEN CapacityMoves ELSE UNCHANGED moved

\* releaseCpuReadySessionBeforeOrderedControl up to its wait: commit the writer
\* (unless a query range retains it), fix the fence, post; the posted event is
\* acknowledged at once when a receipt still covers it (and no uniform is dirty).
Control(c, action, retain, clean) ==
    /\ client = Resting /\ ~stop /\ used.controls < MaxControls
    /\ retain => Ranges /\ action = "ClosePass"
    /\ used' = [used EXCEPT !.controls = @ + 1]
    /\ chunk' = c
    /\ IF retain THEN UNCHANGED <<sources, writing, moved>> ELSE CommitWriting
    /\ LET seq == Len(sources')
           e   == NewEvent(action, c, seq)
       IN  IF ~Accepts(c, seq)
           THEN /\ client' = Returned(action, seq, FALSE)
                /\ asleep' = IF sources' # sources THEN asleep \ {"coord"}
                                                   ELSE asleep
                /\ UNCHANGED <<transport, coveredRaw, witness>>
           ELSE /\ Len(transport.ordered) < EventCapacity
                /\ IF retain /\ clean /\ Reusable(e)
                   THEN /\ transport' = Acknowledged(Queued(e), e)
                        /\ coveredRaw' = Larger(coveredRaw, e.raw)
                        /\ witness' = Receipt(e)
                        /\ client' = Returned(action, seq, TRUE)
                        /\ UNCHANGED asleep
                   ELSE /\ transport' = Queued(e)
                        /\ client' = [pc |-> "ackWait", action |-> action,
                                      ordinal |-> e.ordinal, seq |-> seq,
                                      ok |-> FALSE]
                        /\ asleep' = (asleep \ {"coord"}) \cup {"client"}
                        /\ UNCHANGED <<coveredRaw, witness>>
    /\ UNCHANGED <<covered, submitted, completed, reclaimed, session, coord,
                   waiter, target, stop, aborted>>

\* waitForSequence, entered by the replay thread: register the target and wake
\* the coordinator.
EnterSequenceWait(next) ==
    /\ client' = [client EXCEPT !.pc = next]
    /\ target' = Larger(target, client.seq)
    /\ asleep' = asleep \ {"coord"}

\* Mutant: the acknowledgement of the event before is taken for one's own.
AckedThroughPrevious(ordinal) == transport.acked + 1 >= ordinal

AckedThrough(ordinal) == transport.acked >= ordinal

\* The wait for the acknowledgement, its predicate re-evaluated on a wake-up.
ControlAcked ==
    /\ client.pc = "ackWait" /\ "client" \notin asleep
    /\ IF ~stop /\ ~AckedThrough(client.ordinal)
       THEN asleep' = asleep \cup {"client"} /\ UNCHANGED <<client, target>>
       ELSE IF ~stop /\ client.action = "SubmitAndWait" /\ client.seq > completed
       THEN EnterSequenceWait("gpuWait")
       ELSE /\ client' = Returned(client.action, client.seq, ~stop)
            /\ UNCHANGED <<target, asleep>>
    /\ UNCHANGED <<inputVars, covered, coveredRaw, gpuVars, session, transport,
                   witness, coord, waiter, stop, aborted>>

\* The end of a sequence wait: the last waiter clears the target.
LeaveSequenceWait(othersWait) ==
    /\ target' = IF othersWait THEN target ELSE 0
    /\ asleep' = asleep \ {"coord"}

ControlCompleted ==
    /\ client.pc = "gpuWait" /\ (stop \/ completed >= client.seq)
    /\ LeaveSequenceWait(waiter # 0)
    /\ client' = Returned(client.action, client.seq, ~stop)
    /\ UNCHANGED <<inputVars, covered, coveredRaw, gpuVars, session, transport,
                   witness, coord, waiter, stop, aborted>>

Return ==
    /\ client.pc = "returned"
    /\ client' = Resting
    /\ UNCHANGED <<inputVars, covered, coveredRaw, gpuVars, session, transport,
                   witness, coord, waiter, target, stop, asleep, aborted>>

\* beginFinalWsiQuiescence, session lane: commit, stop the receipts, post the
\* terminal event (refused when an earlier one was already consumed) and wait.
Teardown ==
    /\ client = Resting /\ ~stop /\ used.teardowns < MaxTeardowns
    /\ used' = [used EXCEPT !.teardowns = @ + 1]
    /\ CommitWriting
    /\ witness' = NoWitness
    /\ LET seq == Len(sources')
       IN  IF transport.requested
           THEN /\ client' = Returned("Teardown", seq, FALSE)
                /\ asleep' = IF sources' # sources THEN asleep \ {"coord"}
                                                   ELSE asleep
                /\ UNCHANGED transport
           ELSE /\ transport' = WithTerminal(seq)
                /\ client' = [pc |-> "terminalWait", action |-> "Teardown",
                              ordinal |-> transport.next, seq |-> seq,
                              ok |-> FALSE]
                /\ asleep' = (asleep \ {"coord"}) \cup {"client"}
    /\ UNCHANGED <<chunk, covered, coveredRaw, submitted, completed, reclaimed,
                   session, coord, waiter, target, stop, aborted>>

TerminalAcked ==
    /\ client.pc = "terminalWait" /\ "client" \notin asleep
    /\ IF ~stop /\ transport.terminal # NoEvent
       THEN asleep' = asleep \cup {"client"} /\ UNCHANGED <<client, target>>
       ELSE IF ~stop /\ client.seq > completed
       THEN EnterSequenceWait("terminalGpuWait")
       ELSE /\ client' = [client EXCEPT !.pc = "drainWait"]
            /\ UNCHANGED <<target, asleep>>
    /\ UNCHANGED <<inputVars, covered, coveredRaw, gpuVars, session, transport,
                   witness, coord, waiter, stop, aborted>>

TerminalCompleted ==
    /\ client.pc = "terminalGpuWait" /\ (stop \/ completed >= client.seq)
    /\ LeaveSequenceWait(waiter # 0)
    /\ client' = [client EXCEPT !.pc = "drainWait"]
    /\ UNCHANGED <<inputVars, covered, coveredRaw, gpuVars, session, transport,
                   witness, coord, waiter, stop, aborted>>

TeardownDrained ==
    /\ client.pc = "drainWait"
    /\ stop \/ (ReadyEmpty /\ reclaimed = Published)
    /\ client' = Returned("Teardown", client.seq, ~stop)
    /\ UNCHANGED <<inputVars, covered, coveredRaw, gpuVars, session, transport,
                   witness, coord, waiter, target, stop, asleep, aborted>>

ClientNext ==
    \/ \E c \in chunk .. MaxChunk : \E raw \in {0, c} : Publish(c, raw)
    \/ Draw
    \/ \E c \in chunk .. MaxChunk, action \in Actions, retain, clean \in BOOLEAN :
           Control(c, action, retain, clean)
    \/ ControlAcked
    \/ ControlCompleted
    \/ Return
    \/ Teardown
    \/ TerminalAcked
    \/ TerminalCompleted
    \/ TeardownDrained

-----------------------------------------------------------------------------
(* The second thread: waitForSequence on a published source.               *)

WaitBegin(seq) ==
    /\ waiter = 0 /\ ~stop /\ used.waits < MaxWaits /\ completed < seq
    /\ waiter' = seq
    /\ target' = Larger(target, seq)
    /\ asleep' = asleep \ {"coord"}
    /\ used' = [used EXCEPT !.waits = @ + 1]
    /\ UNCHANGED <<sources, writing, chunk, covered, coveredRaw, gpuVars,
                   session, transport, witness, coord, client, stop, aborted>>

WaitEnd ==
    /\ waiter # 0 /\ (stop \/ completed >= waiter)
    /\ waiter' = 0
    /\ LeaveSequenceWait(client.pc \in {"gpuWait", "terminalGpuWait"})
    /\ UNCHANGED <<inputVars, covered, coveredRaw, gpuVars, session, transport,
                   witness, coord, client, stop, aborted>>

-----------------------------------------------------------------------------
(* The coordinator.                                                        *)

Goto(pc) == coord' = [AtTop EXCEPT !.pc = pc]

\* Mutant: the control's own raw ordinal is not counted as covered.
RawCoverageKept(e) == coveredRaw

\* The posting thread reached its raw control before it posted: once the action
\* has run, the raw fence counts as covered.
RawCoverage(e) == Larger(coveredRaw, e.raw)

\* acknowledge / acknowledgeClose; a refusal aborts the process.
Acknowledge(e, closed) ==
    LET rawCoverage == RawCoverage(e)
    IN  /\ coveredRaw' = rawCoverage
        /\ IF PeekNext = e /\ FenceCovered(e, rawCoverage)
           THEN /\ transport' = Acknowledged(transport, e)
                /\ witness' = IF Certifies(e, closed) THEN Receipt(e)
                                                      ELSE NoWitness
                /\ asleep' = asleep \ {"client"}
                /\ coord' = [AtTop EXCEPT !.pc = IF stop THEN "exited" ELSE "top"]
                /\ UNCHANGED aborted
           ELSE /\ aborted' = TRUE /\ Goto("exited")
                /\ UNCHANGED <<transport, witness, asleep>>

\* processNextReleaseLocked: the next event is ready.  A carried session is
\* closed or finalized outside the mutex; without one the event is acknowledged
\* in the same hold.
BeginRelease ==
    LET e == PeekNext
    IN  /\ coord.pc = "top" /\ ActionReady(e)
        /\ IF Open
           THEN /\ coord' = [AtTop EXCEPT
                                !.pc = IF e.action = "ClosePass" THEN "close"
                                                                 ELSE "finalize",
                                !.rel = e, !.then = "ack"]
                /\ witness' = NoWitness
                /\ UNCHANGED <<coveredRaw, transport, asleep, aborted>>
           ELSE Acknowledge(e, FALSE)
        /\ UNCHANGED <<inputVars, covered, gpuVars, session, client, waiter,
                       target, stop>>

\* The acknowledgement, under the mutex again, after the session was submitted or
\* after closeEncodeChunkSessionRenderPass closed its pass.
AckRelease ==
    /\ coord.pc \in {"close", "ack"}
    /\ session' = [session EXCEPT !.pass = @ /\ coord.pc # "close"]
    /\ Acknowledge(coord.rel, coord.pc = "close")
    /\ UNCHANGED <<inputVars, covered, gpuVars, client, waiter, target, stop>>

\* submitPendingRecordLocked after the finalization outside the mutex: the
\* session is submitted, the capacity lease released, the callbacks run unlocked.
Submit ==
    /\ coord.pc = "finalize"
    /\ submitted' = session.last
    /\ session' = NoSession
    /\ witness' = NoWitness
    /\ coord' = [coord EXCEPT !.pc = IF coord.then # "topOrExit" THEN coord.then
                                     ELSE IF stop THEN "exited" ELSE "top"]
    /\ UNCHANGED <<inputVars, covered, coveredRaw, completed, reclaimed, moved,
                   transport, client, waiter, target, stop, asleep, aborted>>

NoReleaseReady == coord.pc = "top" /\ ~ActionReady(PeekNext)

SubmitThen(next) == coord' = [AtTop EXCEPT !.pc = "finalize", !.then = next]

\* Post a release of the carried session; when the transport refuses (a younger
\* fence, or teardown requested) submit the session directly.
ReleaseSession(next) ==
    /\ IF Accepts(session.raw, session.last)
       THEN /\ Len(transport.ordered) < EventCapacity
            /\ transport' = Queued(NewEvent("SubmitSession", session.raw,
                                            session.last))
            /\ Goto("top")
       ELSE SubmitThen(next) /\ UNCHANGED transport
    /\ UNCHANGED <<inputVars, covered, coveredRaw, gpuVars, session, client,
                   waiter, target, stop, asleep, aborted>>

\* A producer's sequence wait obliges the coordinator to submit what it carries.
ReleaseForProducerWait ==
    /\ NoReleaseReady /\ Open /\ Requested
    /\ ReleaseSession("topOrExit")
    /\ witness' = IF transport' = transport THEN NoWitness ELSE witness

\* Mutant: the idle coordinator waits for Ready work and stop only.
IdleDoneReadyOnly == stop \/ ~ReadyEmpty

\* openSessionWaitDone, and the predicate of the idle wait.
ParkDone == stop \/ ~ReadyEmpty \/ HasPending \/ Requested
IdleDone == stop \/ ~ReadyEmpty \/ ActionReady(PeekNext)

SleepAs(pc, done) ==
    /\ Goto(pc)
    /\ asleep' = IF done THEN asleep ELSE asleep \cup {"coord"}

\* Nothing is Ready: park with the session open, or idle without one; a stopped
\* queue submits what it carries and the thread ends.
Rest ==
    /\ NoReleaseReady /\ ReadyEmpty /\ ~(Open /\ Requested)
    /\ IF Open
       THEN IF stop THEN SubmitThen("exited") /\ UNCHANGED asleep
                    ELSE SleepAs("park", ParkDone)
       ELSE IF stop THEN Goto("exited") /\ UNCHANGED asleep
                    ELSE SleepAs("idle", IdleDone)
    /\ UNCHANGED <<inputVars, covered, coveredRaw, gpuVars, session, transport,
                   witness, client, waiter, target, stop, aborted>>

\* A wake-up re-evaluates the predicate of the wait.
WakeUp ==
    /\ coord.pc \in {"park", "idle"} /\ "coord" \notin asleep
    /\ IF ~(IF coord.pc = "park" THEN ParkDone ELSE IdleDone)
       THEN asleep' = asleep \cup {"coord"} /\ UNCHANGED coord
       ELSE /\ Goto(IF coord.pc = "idle" /\ stop THEN "exited" ELSE "top")
            /\ UNCHANGED asleep
    /\ UNCHANGED <<inputVars, covered, coveredRaw, gpuVars, session, transport,
                   witness, client, waiter, target, stop, aborted>>

\* Selection.  A candidate beyond the next event's fence is refused.
FenceRefuses(seq) ==
    LET e == PeekNext
    IN  \/ e.seq # 0 /\ seq > e.seq
        \/ e.raw # 0 /\ sources[seq] # 0 /\ sources[seq] > e.raw

Selecting == NoReleaseReady /\ ~(Open /\ Requested) /\ ~ReadyEmpty

\* classifySessionAdmission: within a session the raw ordinals must increase.
Joinable(first, last) ==
    \A s \in first .. last :
        \A r \in {session.raw} \cup {sources[t] : t \in first .. s - 1} :
            sources[s] # 0 => sources[s] > r

Represent(last, next) ==
    /\ covered' = last
    /\ coveredRaw' = Max({coveredRaw} \cup {sources[s] : s \in covered + 1 .. last})
    /\ coord' = [AtTop EXCEPT !.pc = next]
    /\ witness' = NoWitness

LeaseDenied == ~Open /\ covered - reclaimed >= LeaseLimit

\* A prefix of the Ready sources joins (or starts) the session.
SelectJoined(last) ==
    /\ Selecting /\ ~coord.serial /\ ~LeaseDenied
    /\ \A s \in covered + 1 .. last : ~FenceRefuses(s)
    /\ Joinable(covered + 1, last)
    /\ Represent(last, "encode")
    /\ UNCHANGED <<inputVars, gpuVars, session, transport, client, waiter,
                   target, stop, asleep, aborted>>

\* An isolated head, or the exact head of the serial escape, runs on its own.
SelectAlone ==
    /\ Selecting /\ ~Open /\ ~FenceRefuses(covered + 1)
    /\ Represent(covered + 1, "encodeAlone")
    /\ UNCHANGED <<inputVars, gpuVars, session, transport, client, waiter,
                   target, stop, asleep, aborted>>

\* The head is incompatible with the carried session (key, caps, a pending
\* initializer, or a raw ordinal that does not increase): release the session.
SelectBlocked ==
    /\ Selecting /\ Open /\ ~FenceRefuses(covered + 1)
    /\ ReleaseSession("top")
    /\ witness' = NoWitness

\* The first lease is denied: wait for capacity.
SelectDenied ==
    /\ Selecting /\ ~coord.serial /\ LeaseDenied /\ ~FenceRefuses(covered + 1)
    /\ witness' = NoWitness
    /\ Goto(IF stop THEN "exited" ELSE "lease")
    /\ UNCHANGED <<inputVars, covered, coveredRaw, gpuVars, session, transport,
                   client, waiter, target, stop, asleep, aborted>>

\* classifyFirstLeaseCapacityWait on the denied head: retry when the capacity
\* generation moved, run an eligible (arena) head alone when a sequence wait
\* covers it.
LeaseWait(eligible) ==
    /\ coord.pc = "lease" /\ "coord" \notin asleep
    /\ IF stop THEN Goto("exited") /\ UNCHANGED asleep
       ELSE IF moved THEN Goto("top") /\ UNCHANGED asleep
       ELSE IF eligible /\ sources[covered + 1] # 0 /\ target >= covered + 1
       THEN /\ coord' = [AtTop EXCEPT !.serial = TRUE]
            /\ UNCHANGED asleep
       ELSE asleep' = asleep \cup {"coord"} /\ UNCHANGED coord
    /\ moved' = FALSE
    /\ UNCHANGED <<inputVars, covered, coveredRaw, submitted, completed,
                   reclaimed, session, transport, witness, client, waiter, target, stop, aborted>>

\* Nothing can be selected: the carried session is drained and the thread ends.
SelectNothing ==
    /\ Selecting /\ FenceRefuses(covered + 1)
    /\ IF Open THEN SubmitThen("exited") ELSE Goto("exited")
    /\ witness' = NoWitness
    /\ UNCHANGED <<inputVars, covered, coveredRaw, gpuVars, session, transport,
                   client, waiter, target, stop, asleep, aborted>>

\* The selected prefix is encoded outside the mutex.  It stays in the session,
\* whose pass may be left open, or ends with a present tail and is submitted.
EncodeJoined(tail, pass) ==
    /\ coord.pc = "encode"
    /\ IF tail
       THEN submitted' = covered /\ session' = NoSession
       ELSE /\ session' = [last |-> covered, pass |-> pass,
                           raw |-> Max({session.raw} \cup
                               {sources[s] : s \in Larger(session.last, submitted) + 1 .. covered})]
            /\ UNCHANGED submitted
    /\ Goto("top")
    /\ UNCHANGED <<inputVars, covered, coveredRaw, completed, reclaimed, moved,
                   transport, witness, client, waiter, target, stop, asleep,
                   aborted>>

EncodeAlone ==
    /\ coord.pc = "encodeAlone"
    /\ submitted' = covered
    /\ Goto("top")
    /\ UNCHANGED <<inputVars, covered, coveredRaw, completed, reclaimed, moved,
                   session, transport, witness, client, waiter, target, stop,
                   asleep, aborted>>

CoordNext ==
    \/ BeginRelease \/ AckRelease \/ Submit
    \/ ReleaseForProducerWait \/ Rest \/ WakeUp
    \/ \E last \in covered + 1 .. Published : SelectJoined(last)
    \/ SelectAlone \/ SelectBlocked \/ SelectDenied \/ SelectNothing
    \/ \E eligible \in BOOLEAN : LeaseWait(eligible)
    \/ \E tail, pass \in BOOLEAN : EncodeJoined(tail, pass)
    \/ EncodeAlone

-----------------------------------------------------------------------------
(* The GPU and the finish thread, and the stop.                            *)

Complete ==
    /\ completed < submitted
    /\ completed' = completed + 1
    /\ UNCHANGED <<inputVars, covered, coveredRaw, submitted, reclaimed, moved,
                   session, transport, witness, coord, client, waiter, target,
                   stop, asleep, aborted>>

Reclaim ==
    /\ reclaimed < completed
    /\ reclaimed' = reclaimed + 1
    /\ CapacityMoves
    /\ asleep' = asleep \ {"coord"}
    /\ UNCHANGED <<inputVars, covered, coveredRaw, submitted, completed,
                   session, transport, witness, coord, client, waiter, target,
                   stop, aborted>>

Stop ==
    /\ MayStop /\ ~stop
    /\ stop' = TRUE
    /\ witness' = NoWitness
    /\ asleep' = {}
    /\ UNCHANGED <<inputVars, covered, coveredRaw, gpuVars, session, transport,
                   coord, client, waiter, target, aborted>>

Next ==
    \/ ClientNext
    \/ \E seq \in 1 .. Published : WaitBegin(seq)
    \/ WaitEnd
    \/ CoordNext
    \/ Complete
    \/ Reclaim
    \/ Stop

\* Threads inside a call go on; nobody is obliged to start one.
Fairness ==
    /\ WF_vars(CoordNext)
    /\ WF_vars(ControlAcked \/ ControlCompleted \/ Return \/ TerminalAcked
               \/ TerminalCompleted \/ TeardownDrained)
    /\ WF_vars(WaitEnd)
    /\ WF_vars(Complete)
    /\ WF_vars(Reclaim)

Spec == Init /\ [][Next]_vars /\ Fairness

-----------------------------------------------------------------------------
(* Properties.                                                             *)

TypeOK ==
    LET Events == [ordinal : Nat, action : Actions, raw : 0 .. MaxChunk,
                   seq : 0 .. MaxSources]
    IN  /\ sources \in Seq(0 .. MaxChunk) /\ writing \in BOOLEAN
        /\ chunk \in 1 .. Larger(1, MaxChunk) /\ coveredRaw \in 0 .. MaxChunk
        /\ session \in [last : 0 .. MaxSources, raw : 0 .. MaxChunk,
                        pass : BOOLEAN]
        /\ transport.terminal \in Events
        /\ \A i \in DOMAIN transport.ordered : transport.ordered[i] \in Events
        /\ coord.rel \in Events /\ waiter \in 0 .. MaxSources
        /\ target \in 0 .. MaxSources
        /\ asleep \subseteq {"coord", "client"}

\* What a successful ordered control promises its caller when it returns: every
\* source recorded before it is represented, and the pass is closed, or the
\* sources are submitted, or complete; a teardown found every source reclaimed.
\* A control is refused only by a stopped queue or after a teardown.
ReleaseCovers ==
    client.pc = "returned" =>
        IF client.ok
        THEN /\ covered >= client.seq
             /\ client.action = "ClosePass" => ~session.pass
             /\ client.action = "SubmitSession" => submitted >= client.seq
             /\ client.action = "SubmitAndWait" => completed >= client.seq
             /\ client.action = "Teardown" => reclaimed = Published /\ ~Open
        ELSE stop \/ transport.requested

\* The acknowledgement the coordinator makes after it released the mutex never
\* meets another head, another fence or an uncovered one: the fail-open abort is
\* not reached.
AckNeverRejected == ~aborted

\* The transport stays a short FIFO of increasing fences; the event being served
\* stays its head while the mutex is released; the watermarks stay ordered, what
\* is represented and not submitted is the carried session (or being encoded);
\* a receipt implies that everything published is represented and the pass closed.
TransportExact ==
    LET q == transport.ordered
        t == transport.terminal
        pending == {q[i] : i \in DOMAIN q} \cup ({t} \ {NoEvent})
    IN  /\ TypeOK
        /\ Len(q) <= 2
        /\ \A e, f \in pending :
               e.ordinal < f.ordinal => e.raw <= f.raw /\ e.seq <= f.seq
        /\ \A e \in pending : /\ transport.acked < e.ordinal
                              /\ e.ordinal < transport.next
                              /\ e.seq <= Published /\ e.seq <= transport.lastSeq
        /\ \A i \in 1 .. Len(q) - 1 : q[i].ordinal < q[i + 1].ordinal
        /\ coord.rel # NoEvent => coord.rel = PeekNext
        /\ reclaimed <= completed /\ completed <= submitted
        /\ submitted <= covered /\ covered <= Published
        /\ (submitted < covered /\ coord.pc \notin {"encode", "encodeAlone"})
               => Open /\ session.last = covered
        /\ witness # NoWitness =>
               /\ witness.published <= covered /\ ~session.pass
               /\ coord.pc \notin {"encode", "encodeAlone"}

\* The next event refuses a published source by its raw ordinal.
RawCut == \E s \in covered + 1 .. Published :
             PeekNext.raw # 0 /\ sources[s] > PeekNext.raw

\* Whatever the coordinator was doing when they posted, the threads inside an
\* ordered control, a teardown or a sequence wait all get out (the calls are
\* bounded, so a call that hangs keeps the queue occupied for ever).  Excepted: a
\* teardown whose inherited raw fence lies behind a published source, see
\* TerminalConsumes.
ReleasesReturn == []<>(RawCut \/ (client.pc \in {"run", "returned"} /\ waiter = 0))

\* "The terminal event wakes the session coordinator, makes it consume every
\* source through this fixed sequence" (dxmt9_command_queue.cpp:9875-9877).
TerminalConsumes ==
    (transport.terminal # NoEvent)
        ~> (covered >= transport.terminal.seq \/ stop)

\* The destructor of a swap chain counts on its teardown to "Release the queue-local
\* Presenter binding before the Presenter itself disappears"
\* (src/src/d3d9/core_resources.cpp:429-430): only a stopped queue may refuse it.
TeardownsComplete ==
    (client.pc = "returned" /\ client.action = "Teardown" /\ ~client.ok) => stop

=============================================================================

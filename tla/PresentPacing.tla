---------------------------- MODULE PresentPacing ----------------------------
(***************************************************************************)
(* Frame latency.  A Present that the replay worker submits was paced      *)
(* before, by its ordinal, in the application's thread                     *)
(* (waitPresentOrdinalBoundary); a Present the application submits itself  *)
(* is paced afterwards, by its sequence (presentBoundary), at once or at   *)
(* the next Present.  Both wait for watermarks that the encoder            *)
(* (presentDequeuedSeqId_), the completion watcher                         *)
(* (completedPresentSeqQueue_) and the finish thread                       *)
(* (presentCompletedSeqId_, the completed ordinal) advance.                *)
(*                                                                         *)
(* Every action is one hold of the queue mutex, a condition variable wait  *)
(* is a guard: all notifiers of these waits hold the mutex.                *)
(***************************************************************************)
EXTENDS Integers, Sequences, FiniteSets, FiniteSetsExt

CONSTANTS
  Policies,        \* BoundaryPolicy values to start from
  Latencies,       \* maxFrameLatency values the application may have set
  BackBuffers,     \* backBufferCount values
  DefaultLatency,  \* kDefaultFrameLatency
  MaxLatency,      \* kMaxFrameLatency
  MaxQueued,       \* kMaxQueuedChunks
  Kinds,           \* the Presents of this instance: "paced", "direct"
  MayFailEncode,   \* may the encoder fail to produce a command buffer
  MayEnd,          \* may the replay worker fail, or the queue stop
  MaxChunks        \* bound: chunks committed

AllPolicies == {"Default", "AfterAcquire", "Completion", "PresentCompletion",
                "Deferred", "Disabled"}

ASSUME PacingAssumption ==
  /\ Policies \subseteq AllPolicies
  /\ Latencies \subseteq Nat /\ BackBuffers \subseteq Nat
  /\ DefaultLatency \in Nat \ {0} /\ MaxLatency \in Nat \ {0}
  /\ MaxQueued \in Nat \ {0} /\ MaxChunks \in Nat
  /\ Kinds \subseteq {"paced", "direct"}
  /\ MayFailEncode \in BOOLEAN /\ MayEnd \in BOOLEAN

VARIABLES
  policy, swap,      \* resolveBoundaryPolicyFromEnv, the SwapDesc fields below
  offload,           \* the replay queue: "draw" or "present" chunks
  failed,            \* ReplayOffloadWorker::failed_
  presentOrdinal,    \* D9CDevice::presentOrdinal
  chunks,            \* chunks of the queue by sequence: "draw", "paced", "direct"
  encoded,           \* the last sequence the encoder has handed over
  settled,           \* the last sequence in completedSeqQueue_
  completedSeqId,    \* completedSeqId_
  presentQueue,      \* completedPresentSeqQueue_
  dequeued,          \* presentDequeuedSeqId_
  presentCompleted,  \* presentCompletedSeqId_
  completedOrdinal,  \* PresentOrdinalGate::completedOrdinal
  deferredOrdinal,   \* PresentOrdinalGate::deferredTarget
  aborted,           \* PresentOrdinalGate::aborted
  deferredSeq,       \* deferredPresentBoundaryTargetSeqId_
  stop,              \* stop_
  app                \* the application's thread: [pc, target]

config == <<policy, swap>>
replayVars == <<offload, failed, presentOrdinal>>
queueVars == <<chunks, encoded, settled, completedSeqId, presentQueue>>
markVars == <<dequeued, presentCompleted, completedOrdinal>>
gateVars == <<deferredOrdinal, aborted, deferredSeq, stop>>
vars == <<config, replayVars, queueVars, markVars, gateVars, app>>

-----------------------------------------------------------------------------
(* The latency of a Present. *)

Clamp(n, low, high) == Min({Max({n, low}), high})

backBufferLatencyCap(count) == Min({Max({1, count}) + 1, MaxLatency})

\* Immediate presents of an application with the default keep one frame.
effectivePresentFrameLatency(latency, displaySync) ==
  IF ~displaySync /\ latency = DefaultLatency THEN 1 ELSE latency

cappedFrameLatency(latency, count, capEnabled) ==
  IF capEnabled THEN Min({latency, backBufferLatencyCap(count)}) ELSE latency

resolvedPresentFrameLatency ==
  cappedFrameLatency(
    effectivePresentFrameLatency(swap.maxFrameLatency, swap.displaySync),
    swap.backBufferCount, swap.capEnabled)

\* Mutant of BoundaryTarget: one frame more than the application allowed.
BoundaryTargetLoose(n) ==
  LET latency == Clamp(resolvedPresentFrameLatency, 1, MaxQueued) + 1
  IN IF n <= latency THEN 0 ELSE n - latency

\* presentBoundaryTargetSeqId and presentOrdinalBoundaryTarget: the same
\* arithmetic on a sequence and on an ordinal.
BoundaryTarget(n) ==
  LET latency == Clamp(resolvedPresentFrameLatency, 1, MaxQueued)
  IN IF n <= latency THEN 0 ELSE n - latency

\* planPresentOrdinalWait.
OrdinalPlan(n) ==
  CASE policy = "Disabled" -> [wait |-> 0, stored |-> deferredOrdinal]
    [] policy = "Deferred" ->
         [wait |-> deferredOrdinal,
          stored |-> Max({deferredOrdinal, BoundaryTarget(n + 1)})]
    [] OTHER -> [wait |-> BoundaryTarget(n), stored |-> deferredOrdinal]

-----------------------------------------------------------------------------
Init ==
  /\ policy \in Policies
  /\ swap \in [maxFrameLatency : Latencies, backBufferCount : BackBuffers,
               displaySync : BOOLEAN, capEnabled : BOOLEAN]
  /\ offload = <<>> /\ failed = FALSE /\ presentOrdinal = 0
  /\ chunks = <<>> /\ encoded = 0 /\ settled = 0 /\ completedSeqId = 0
  /\ presentQueue = <<>>
  /\ dequeued = 0 /\ presentCompleted = 0 /\ completedOrdinal = 0
  /\ deferredOrdinal = 0 /\ aborted = FALSE /\ deferredSeq = 0
  /\ stop = FALSE
  /\ app = [pc |-> "run", target |-> 0]

AppGoes(label, target) == app' = [pc |-> label, target |-> target]

\* A stopped queue takes no chunk, so the ordinal needs the bound as well.
AppRuns ==
  /\ app.pc = "run"
  /\ Len(chunks) + Len(offload) < MaxChunks /\ presentOrdinal < MaxChunks

\* commitCurrentChunk: a sequence needs an inflight credit.
Room == Len(chunks) - completedSeqId < MaxQueued

-----------------------------------------------------------------------------
(* The application: dxmt9c_device_commit_chunk with the offload on. *)

CommitDraw ==
  /\ AppRuns /\ ~failed
  /\ offload' = Append(offload, "draw")
  /\ UNCHANGED <<config, failed, presentOrdinal, queueVars, markVars, gateVars, app>>

\* The chunk is pushed before the ordinal wait: the worker may already replay it.
CommitPresent ==
  /\ AppRuns /\ ~failed /\ "paced" \in Kinds
  /\ offload' = Append(offload, "present")
  /\ presentOrdinal' = presentOrdinal + 1
  /\ AppGoes("pace", 0)
  /\ UNCHANGED <<config, failed, queueVars, markVars, gateVars>>

\* waitPresentOrdinalBoundary up to its wait.
PaceOrdinal ==
  /\ app.pc = "pace"
  /\ LET plan == OrdinalPlan(presentOrdinal)
         waits == plan.wait # 0 /\ ~aborted /\ completedOrdinal < plan.wait
     IN /\ deferredOrdinal' = plan.stored
        /\ IF waits THEN AppGoes("ordinalWait", plan.wait) ELSE AppGoes("run", 0)
  /\ UNCHANGED <<config, replayVars, queueVars, markVars, aborted, deferredSeq, stop>>

OrdinalWaitDone ==
  /\ app.pc = "ordinalWait"
  /\ stop \/ aborted \/ completedOrdinal >= app.target
  /\ AppGoes("run", 0)
  /\ UNCHANGED <<config, replayVars, queueVars, markVars, gateVars>>

\* dxmt9c_device_present, dxmt9c_swapchain_present: the replay queue is drained,
\* the Present is submitted by the application's own thread.
DirectPresent ==
  /\ AppRuns /\ ~failed /\ "direct" \in Kinds /\ offload = <<>>
  /\ AppGoes("submit", 0)
  /\ UNCHANGED <<config, replayVars, queueVars, markVars, gateVars>>

-----------------------------------------------------------------------------
(* submitPresent and the boundary after it. *)

DeferredReached == presentCompleted >= deferredSeq

\* drainDeferredPresentBoundary, which every Present runs under that policy.
DrainDeferred ==
  IF policy = "Deferred"
    THEN /\ stop \/ DeferredReached
         /\ deferredSeq' = IF DeferredReached THEN 0 ELSE deferredSeq
    ELSE UNCHANGED deferredSeq

SubmitDirect ==
  /\ app.pc = "submit"
  /\ DrainDeferred
  /\ AppGoes("publish", 0)
  /\ UNCHANGED <<config, replayVars, queueVars, markVars, deferredOrdinal,
                 aborted, stop>>

\* presentAndCommit; a stopped queue publishes nothing and paces nothing.
PublishDirect ==
  /\ app.pc = "publish" /\ (stop \/ Room)
  /\ IF stop
       THEN AppGoes("run", 0) /\ UNCHANGED chunks
       ELSE AppGoes("boundary", Len(chunks) + 1)
            /\ chunks' = Append(chunks, "direct")
  /\ UNCHANGED <<config, replayVars, encoded, settled, completedSeqId,
                 presentQueue, markVars, gateVars>>

\* presentBoundary's reachedBoundary.
ReachedBoundary(target) ==
  CASE policy = "PresentCompletion" -> presentCompleted >= target
    [] policy = "Completion" -> completedSeqId >= target
    [] policy \in {"Default", "AfterAcquire"} -> dequeued >= target
    [] OTHER -> TRUE

\* applyPublishedPresentBoundary: wait, store the target, or go on.
ApplyBoundary ==
  /\ app.pc = "boundary"
  /\ IF policy = "Deferred"
       THEN deferredSeq' = Max({deferredSeq, BoundaryTarget(app.target + 1)})
       ELSE UNCHANGED deferredSeq
  /\ stop \/ ReachedBoundary(BoundaryTarget(app.target))
  /\ AppGoes("run", 0)
  /\ UNCHANGED <<config, replayVars, queueVars, markVars, deferredOrdinal,
                 aborted, stop>>

-----------------------------------------------------------------------------
(* The replay worker. *)

\* The next chunk of the queue is replayed; its Present skips the boundary.
Replay ==
  /\ offload # <<>> /\ ~failed
  /\ stop \/ Room
  /\ IF Head(offload) = "present" THEN DrainDeferred ELSE UNCHANGED deferredSeq
  /\ chunks' = IF stop THEN chunks
               ELSE Append(chunks, IF Head(offload) = "present" THEN "paced"
                                   ELSE "draw")
  /\ offload' = Tail(offload)
  /\ UNCHANGED <<config, failed, presentOrdinal, encoded, settled, completedSeqId,
                 presentQueue, markVars, deferredOrdinal, aborted, stop, app>>

\* The fail-stop of the worker: what is queued is dropped, and
\* abortPresentOrdinalWaits releases the application.
ReplayFails ==
  /\ MayEnd /\ offload # <<>> /\ ~failed
  /\ failed' = TRUE /\ offload' = <<>>
  /\ aborted' = TRUE
  /\ UNCHANGED <<config, presentOrdinal, queueVars, markVars, deferredOrdinal,
                 deferredSeq, stop, app>>

-----------------------------------------------------------------------------
(* Encoder, completion watcher, finish thread. *)

IsPresent(seq) == chunks[seq] # "draw"

\* Mutant of Encode: a Present that is not dequeued by its sequence.
EncodeUnnoted ==
  /\ encoded < Len(chunks)
  /\ encoded' = encoded + 1
  /\ UNCHANGED <<config, replayVars, chunks, settled, completedSeqId,
                 presentQueue, markVars, gateVars, app>>

\* encodeChunk: notePresentDequeued, whether or not the Present can be encoded.
Encode ==
  /\ encoded < Len(chunks)
  /\ encoded' = encoded + 1
  /\ dequeued' = IF IsPresent(encoded + 1) THEN Max({dequeued, encoded + 1})
                                           ELSE dequeued
  /\ UNCHANGED <<config, replayVars, chunks, settled, completedSeqId,
                 presentQueue, presentCompleted, completedOrdinal, gateVars, app>>

\* No command buffer: the chunk is completed inline if it is next, without its
\* Present being noted anywhere; otherwise the queue is poisoned.
EncodeFails ==
  /\ MayFailEncode /\ encoded < Len(chunks)
  /\ encoded' = encoded + 1
  /\ IF settled = encoded
       THEN settled' = settled + 1 /\ UNCHANGED stop
       ELSE stop' = TRUE /\ UNCHANGED settled
  /\ UNCHANGED <<config, replayVars, chunks, completedSeqId, presentQueue,
                 markVars, deferredOrdinal, aborted, deferredSeq, app>>

\* appendCompletionSourcesToQueues for the oldest submission.
GpuCompletes ==
  /\ settled < encoded
  /\ settled' = settled + 1
  /\ presentQueue' = IF IsPresent(settled + 1) THEN Append(presentQueue, settled + 1)
                                               ELSE presentQueue
  /\ UNCHANGED <<config, replayVars, chunks, encoded, completedSeqId, markVars,
                 gateVars, app>>

\* Mutant of Due: the Presents are retired when the GPU has finished them.
DueEarly(seq) == presentQueue

\* The Presents popped from the front of the queue once completedSeqId has
\* reached seq.
Due(seq) ==
  LET n == CHOOSE n \in 0..Len(presentQueue) :
             /\ \A i \in 1..n : presentQueue[i] <= seq
             /\ n < Len(presentQueue) => presentQueue[n + 1] > seq
  IN SubSeq(presentQueue, 1, n)

\* drainCompletedSequence.
Finish ==
  /\ completedSeqId < settled
  /\ completedSeqId' = completedSeqId + 1
  /\ LET due == Due(completedSeqId + 1)
     IN /\ presentQueue' = SubSeq(presentQueue, Len(due) + 1, Len(presentQueue))
        /\ presentCompleted' = IF due = <<>> THEN presentCompleted
                               ELSE Max({presentCompleted, due[Len(due)]})
        /\ completedOrdinal' = completedOrdinal + Len(due)
  /\ UNCHANGED <<config, replayVars, chunks, encoded, settled, dequeued, gateVars,
                 app>>

StopQueue ==
  /\ MayEnd /\ ~stop
  /\ stop' = TRUE
  /\ UNCHANGED <<config, replayVars, queueVars, markVars, deferredOrdinal,
                 aborted, deferredSeq, app>>

AppStep ==
  PaceOrdinal \/ OrdinalWaitDone \/ SubmitDirect \/ PublishDirect \/ ApplyBoundary

Next ==
  \/ CommitDraw \/ CommitPresent \/ DirectPresent \/ AppStep
  \/ Replay \/ ReplayFails
  \/ Encode \/ EncodeFails \/ GpuCompletes \/ Finish
  \/ StopQueue

Spec == Init /\ [][Next]_vars

\* The threads run and the GPU finishes what it was given; nobody has to commit,
\* present, fail or stop.
Fairness ==
  WF_vars(AppStep) /\ WF_vars(Replay) /\ WF_vars(Encode \/ EncodeFails)
    /\ WF_vars(GpuCompletes) /\ WF_vars(Finish)

FairSpec == Spec /\ Fairness

-----------------------------------------------------------------------------
(* Properties. *)

\* Every variable has its type and the watermarks of the queue are ordered.
TypeOK ==
  /\ offload \in Seq({"draw", "present"}) /\ failed \in BOOLEAN
  /\ presentOrdinal \in Nat
  /\ chunks \in Seq({"draw", "paced", "direct"})
  /\ encoded \in 0..Len(chunks) /\ settled \in 0..encoded
  /\ completedSeqId \in 0..settled
  /\ presentQueue \in Seq(Nat)
  /\ dequeued \in 0..encoded /\ presentCompleted \in 0..completedSeqId
  /\ completedOrdinal \in Nat
  /\ deferredOrdinal \in Nat /\ deferredSeq \in Nat
  /\ aborted \in BOOLEAN /\ stop \in BOOLEAN
  /\ app \in [pc : {"run", "pace", "ordinalWait", "submit", "publish", "boundary"},
              target : Nat]

Allowed == Max({1, swap.maxFrameLatency})
Retired(kind) == {i \in 1..completedSeqId : chunks[i] = kind}

\* An application that presents through the replay worker only never runs more
\* Presents ahead of the GPU than the maximum frame latency it set, whatever
\* the policy, the back-buffer cap and the Immediate default make of it
\* (waitPresentOrdinalBoundary).
PacedLatencyBound ==
  app.pc = "run" /\ ~aborted /\ ~stop /\ policy # "Disabled"
      /\ (\A i \in DOMAIN chunks : chunks[i] # "direct")
    => presentOrdinal - Cardinality(Retired("paced")) <= Allowed

\* The same for a Present the application submits itself, counted on the
\* watermark its policy waits for (presentBoundary, drainDeferredPresentBoundary).
Watermark ==
  IF policy \in {"Default", "AfterAcquire"} THEN dequeued ELSE completedSeqId
DirectLatencyBound ==
  app.pc = "run" /\ ~stop /\ policy # "Disabled"
    => Cardinality({i \in DOMAIN chunks : chunks[i] = "direct" /\ i > Watermark})
         <= Allowed

\* A retired Present is counted once and in order: the present queue holds
\* Presents that are settled and not drained, each once and in sequence order,
\* and no ordinal is retired before its sequence (drainCompletedSequence's
\* assertion).
CompletionAccounting ==
  /\ TypeOK
  /\ \A i \in 1..(Len(presentQueue) - 1) : presentQueue[i] < presentQueue[i + 1]
  /\ \A i \in DOMAIN presentQueue :
       presentQueue[i] \in (completedSeqId + 1)..settled /\ IsPresent(presentQueue[i])
  /\ presentCompleted > 0 => IsPresent(presentCompleted)
  /\ completedOrdinal <= Cardinality(Retired("paced") \cup Retired("direct"))

\* No boundary waits for a Present that has not been submitted: the ordinal and
\* both deferred targets lie behind the last Present of their kind.
TargetsReachable ==
  /\ app.pc = "ordinalWait" => app.target < presentOrdinal
  /\ deferredOrdinal <= presentOrdinal
  /\ deferredSeq > 0 =>
       \E i \in DOMAIN chunks : chunks[i] = "direct" /\ i >= deferredSeq

\* A boundary neither lets the application run too far ahead nor waits for what
\* cannot come.
BoundariesSound == PacedLatencyBound /\ DirectLatencyBound /\ TargetsReachable

\* A thread that waits in a boundary comes back, through a failing replay
\* worker and a stop, as long as no Present went missing: one that was settled
\* without a command buffer and is counted nowhere.
Missing ==
  completedOrdinal + Len(presentQueue)
    < Cardinality({i \in 1..settled : IsPresent(i)})
PacedReturns == app.pc # "run" ~> (app.pc = "run" \/ Missing)

-----------------------------------------------------------------------------
(* What the repository's own specification of frame latency says, and the     *)
(* code does not do.                                                          *)

\* WaitEventuallyReturnsOrStops: a thread that waits in a boundary comes back.
AppReturns == app.pc # "run" ~> app.pc = "run"

\* PresentOrdinalCorrespondence: the completed ordinal never overtakes the
\* application's.
OrdinalCorrespondence == completedOrdinal <= presentOrdinal

\* PresentOrdinalWaitIsomorphism: for the newest Present of the queue, the
\* ordinal boundary is open exactly when the sequence boundary is.
Presents == {i \in DOMAIN chunks : IsPresent(i)}
PacingIsomorphic ==
  Presents # {} =>
    (completedOrdinal >= BoundaryTarget(Cardinality(Presents))
       <=> presentCompleted >= BoundaryTarget(Max(Presents)))
==============================================================================

--------------------------- MODULE QueueRefinement ---------------------------
(***************************************************************************)
(* QueueLifecycle implements OrderedCompletion: chunk ring, tape, ledger,  *)
(* sessions and the three worker threads are invisible to a caller except  *)
(* through the order of completions and the end of its waits.              *)
(***************************************************************************)
EXTENDS QueueLifecycle

\* The last sequence whose commands have executed: a sequence has executed once
\* the watcher, or the encoder for an empty one, has appended it to
\* completedSeqQueue_.
Executed == completedSeqId + Len(completedQueue)

\* The sequence each client waits for, 0 for none.
Waiting == [c \in Clients |-> IF pc[c] = "seqWait" THEN job[c].target ELSE 0]

\* The promise, as functions of the queue.
Ordered == INSTANCE OrderedCompletion WITH
  committed <- lastCommittedSeqId,
  executed  <- Executed,
  completed <- completedSeqId,
  waiting   <- Waiting,
  stopped   <- stop

\* Every step of the queue is a step of the promise or invisible: sequences are
\* committed, executed and completed in order, no caller waits for a sequence
\* that was never published, none returns before its sequence has completed,
\* and nothing is committed after a stop.
CompletesInOrder == Ordered!Spec

\* With the plain encode loop the queue also keeps the promise's liveness: what
\* is committed completes and every finished wait returns, unless it stops.
CompletesEventually == Ordered!FairSpec
==============================================================================

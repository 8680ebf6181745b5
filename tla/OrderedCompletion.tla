-------------------------- MODULE OrderedCompletion --------------------------
(***************************************************************************)
(* What the command queue promises its callers, without slots, tape,       *)
(* sessions or threads: sequences are committed one by one, executed and   *)
(* then completed in that order, and a caller that waits for a sequence    *)
(* (flushAndWait, waitForSequence) waits for one that was committed and    *)
(* returns when it has completed, or when the queue has stopped.           *)
(***************************************************************************)
EXTENDS Naturals

CONSTANT Clients      \* threads that call into the queue

VARIABLES
  committed,          \* lastCommittedSeqId_
  executed,           \* the last sequence whose commands have executed
  completed,          \* completedSeqId_
  waiting,            \* per client: the sequence it waits for, 0 for none
  stopped             \* stop_

vars == <<committed, executed, completed, waiting, stopped>>

Init ==
  /\ committed = 0 /\ executed = 0 /\ completed = 0
  /\ waiting = [c \in Clients |-> 0]
  /\ stopped = FALSE

\* commitCurrentChunk: the next sequence, and from then on its caller may wait
\* for any sequence that has not completed.
Commit(c, target) ==
  /\ ~ stopped /\ waiting[c] = 0
  /\ target = 0 \/ target \in (completed + 1)..(committed + 1)
  /\ committed' = committed + 1
  /\ waiting' = [waiting EXCEPT ![c] = target]
  /\ UNCHANGED <<executed, completed, stopped>>

\* A commit that finds the queue inconsistent stops it.
CommitAndStop ==
  /\ ~ stopped
  /\ committed' = committed + 1
  /\ stopped' = TRUE
  /\ UNCHANGED <<executed, completed, waiting>>

\* waitForSequence: never for a sequence that is not committed.
Wait(c, target) ==
  /\ ~ stopped /\ waiting[c] = 0
  /\ target \in (completed + 1)..committed
  /\ waiting' = [waiting EXCEPT ![c] = target]
  /\ UNCHANGED <<committed, executed, completed, stopped>>

Return(c) ==
  /\ waiting[c] # 0
  /\ stopped \/ completed >= waiting[c]
  /\ waiting' = [waiting EXCEPT ![c] = 0]
  /\ UNCHANGED <<committed, executed, completed, stopped>>

\* One command buffer may hold several sequences.
Execute ==
  /\ executed' \in (executed + 1)..committed
  /\ UNCHANGED <<committed, completed, waiting, stopped>>

Complete ==
  /\ completed < executed
  /\ completed' = completed + 1
  /\ stopped' \in {stopped, TRUE}
  /\ UNCHANGED <<committed, executed, waiting>>

Stop ==
  /\ ~ stopped /\ stopped' = TRUE
  /\ UNCHANGED <<committed, executed, completed, waiting>>

Next ==
  \/ \E c \in Clients :
       \/ \E target \in 0..(committed + 1) : Commit(c, target) \/ Wait(c, target)
       \/ Return(c)
  \/ CommitAndStop \/ Execute \/ Complete \/ Stop

Spec == Init /\ [][Next]_vars

\* As long as the queue runs, what is committed executes and completes; and a
\* caller whose wait is over returns.
Fairness ==
  /\ WF_vars(~ stopped /\ Execute)
  /\ WF_vars(~ stopped /\ Complete)
  /\ \A c \in Clients : WF_vars(Return(c))

FairSpec == Spec /\ Fairness
==============================================================================

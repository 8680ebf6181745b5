------------------------ MODULE PresentPacingProofs ------------------------
(***************************************************************************)
(* Proofs about present pacing: BoundariesSound and CompletionAccounting   *)
(* for every latency, back-buffer count, policy and number of chunks.      *)
(*                                                                         *)
(* The argument.  A boundary computes its target from the last Present and *)
(* the latency, so one that is passed puts the application within the      *)
(* latency, and a watermark only advances meanwhile (OrdinalPaced,         *)
(* DirectPaced).  Under the deferred policy the target that is stored is   *)
(* that of the next Present, which waits for it first: until then the      *)
(* latency is owed, and a stored target one frame short of it stands for   *)
(* the wait that is still to come (DirectDeferred).  The bound on the      *)
(* Presents that are paced by ordinal is about sequences, and the link     *)
(* between the two is that every retired ordinal stands for a drained      *)
(* Present (OrdinalCounted), because the queue the ordinals are popped     *)
(* from holds each settled Present once, in order, and none that is        *)
(* drained (QueueExact).                                                   *)
(***************************************************************************)
EXTENDS PresentPacing, FiniteSetTheorems, SequenceTheorems, TLAPS

-----------------------------------------------------------------------------
(* The inductive invariant. *)

ConfigOK ==
  /\ policy \in AllPolicies
  /\ swap \in [maxFrameLatency : Nat, backBufferCount : Nat,
               displaySync : BOOLEAN, capEnabled : BOOLEAN]

\* The number of frames both boundaries leave to the application.
Latency == Clamp(resolvedPresentFrameLatency, 1, MaxQueued)

\* The Presents the application submitted itself.
Directs == {i \in 1..Len(chunks) : chunks[i] = "direct"}

\* The present queue holds Presents that are settled and not drained, in order.
QueueExact ==
  /\ \A i, j \in 1..Len(presentQueue) : i < j => presentQueue[i] < presentQueue[j]
  /\ \A i \in 1..Len(presentQueue) :
       presentQueue[i] \in (completedSeqId + 1)..settled /\ IsPresent(presentQueue[i])
  /\ presentCompleted > 0 => IsPresent(presentCompleted)

\* Every ordinal that was retired stands for a drained Present.
OrdinalCounted ==
  completedOrdinal <= Cardinality({i \in 1..completedSeqId : IsPresent(i)})

\* The ordinal targets lie behind the last Present of the application.
OrdinalBehind ==
  /\ deferredOrdinal <= presentOrdinal
  /\ app.pc = "pace" => deferredOrdinal < presentOrdinal
  /\ app.pc = "ordinalWait" => app.target < presentOrdinal

\* An application that has left the ordinal boundary is within the latency, one
\* that waits there waits for enough, and the deferred target is that of the
\* next Present.
OrdinalPaced ==
  /\ policy # "Disabled" /\ ~ aborted /\ ~ stop =>
       /\ app.pc \notin {"pace", "ordinalWait"} =>
            presentOrdinal <= completedOrdinal + Latency
       /\ app.pc = "ordinalWait" => presentOrdinal <= app.target + Latency
  /\ policy = "Deferred" =>
       IF app.pc = "pace" THEN presentOrdinal <= deferredOrdinal + Latency
       ELSE presentOrdinal + 1 <= deferredOrdinal + Latency

\* The application is in the boundary of the Present it published last.
InBoundary(i) == app.pc = "boundary" /\ i = app.target
BoundaryLast ==
  app.pc = "boundary" =>
    app.target \in Directs /\ \A i \in Directs : i <= app.target

\* Every Present whose boundary is passed is within the latency.
DirectPaced ==
  ~ stop /\ policy \notin {"Disabled", "Deferred"} =>
    \A i \in Directs : InBoundary(i) \/ i <= Watermark + Latency

\* Under the deferred policy the latency is owed, until the next Present: the
\* stored target covers it, or it has been reached.
DirectDeferred ==
  ~ stop /\ policy = "Deferred" =>
    /\ \A i \in Directs : \/ InBoundary(i)
                          \/ i + 1 <= deferredSeq + Latency
                          \/ i + 1 <= completedSeqId + Latency
    /\ app.pc = "publish" => \A i \in Directs : i + 1 <= completedSeqId + Latency
    /\ Cardinality({i \in Directs : i > completedSeqId}) <= Latency

SeqReachable == deferredSeq > 0 => \E i \in Directs : i >= deferredSeq

PacingInv ==
  /\ TypeOK /\ ConfigOK
  /\ QueueExact /\ OrdinalCounted /\ OrdinalBehind /\ OrdinalPaced
  /\ BoundaryLast /\ DirectPaced /\ DirectDeferred /\ SeqReachable

-----------------------------------------------------------------------------
(* The arithmetic of the latency. *)

\* The larger and the smaller of two numbers.
LEMMA TwoNumbers ==
  ASSUME NEW a \in Int, NEW b \in Int
  PROVE  /\ Max({a, b}) = IF a >= b THEN a ELSE b
         /\ Min({a, b}) = IF a <= b THEN a ELSE b
<1>1. /\ \E x \in {a, b} : \A y \in {a, b} : x >= y
      /\ \E x \in {a, b} : \A y \in {a, b} : x <= y
  <2>1. CASE a >= b
    BY <2>1
  <2>2. CASE ~(a >= b)
    BY <2>2
  <2> QED
    BY <2>1, <2>2
<1>2. /\ Max({a, b}) \in {a, b} /\ \A y \in {a, b} : Max({a, b}) >= y
      /\ Min({a, b}) \in {a, b} /\ \A y \in {a, b} : Min({a, b}) <= y
  BY <1>1 DEF Max, Min
<1> QED
  BY <1>2

\* The latency is at least one frame and at most what the application allowed,
\* whatever the cap and the default make of it.
LEMMA LatencyBounds ==
  ASSUME ConfigOK
  PROVE  Latency \in Nat /\ Latency >= 1 /\ Latency <= Allowed /\ Allowed \in Nat
<1> DEFINE m == swap.maxFrameLatency
           e == effectivePresentFrameLatency(m, swap.displaySync)
           c == backBufferLatencyCap(swap.backBufferCount)
           r == resolvedPresentFrameLatency
<1>0. /\ m \in Nat /\ swap.backBufferCount \in Nat /\ MaxLatency \in Nat
      /\ MaxQueued \in Nat /\ MaxQueued >= 1
  BY PacingAssumption DEF ConfigOK
<1>1. Allowed = IF 1 >= m THEN 1 ELSE m
  BY <1>0, TwoNumbers, 1 \in Int, m \in Int DEF Allowed
<1>2. e \in Nat /\ e <= Allowed
  BY <1>0, <1>1 DEF effectivePresentFrameLatency
<1>3. c \in Int
  <2>1. Max({1, swap.backBufferCount}) \in Int
    BY <1>0, TwoNumbers, 1 \in Int, swap.backBufferCount \in Int
  <2> DEFINE x == Max({1, swap.backBufferCount}) + 1
  <2>2. x \in Int /\ MaxLatency \in Int
    BY <1>0, <2>1
  <2> HIDE DEF x
  <2>3. Min({x, MaxLatency}) \in Int
    BY <2>2, TwoNumbers
  <2> QED
    BY <2>3 DEF x, backBufferLatencyCap
<1>4. r \in Int /\ r <= Allowed
  <2>1. Min({e, c}) = IF e <= c THEN e ELSE c
    BY <1>2, <1>3, TwoNumbers, e \in Int
  <2>2. r = IF swap.capEnabled THEN Min({e, c}) ELSE e
    BY DEF resolvedPresentFrameLatency, cappedFrameLatency
  <2> HIDE DEF e, c, r
  <2>3. Allowed \in Int
    BY <1>0, <1>1
  <2> QED
    BY <1>2, <1>3, <2>1, <2>2, <2>3
<1> HIDE DEF r
<1>5. Max({r, 1}) = IF r >= 1 THEN r ELSE 1
  BY <1>4, TwoNumbers, 1 \in Int
<1> DEFINE y == Max({r, 1})
<1>6. y \in Int /\ y >= 1 /\ y <= Allowed /\ Allowed \in Nat
  BY <1>0, <1>1, <1>4, <1>5
<1> HIDE DEF y
<1>7. Min({y, MaxQueued}) = IF y <= MaxQueued THEN y ELSE MaxQueued
  BY <1>0, <1>6, TwoNumbers, MaxQueued \in Int
<1>8. Latency = Min({y, MaxQueued})
  BY DEF Latency, Clamp, r, y
<1> QED
  BY <1>0, <1>6, <1>7, <1>8

\* A boundary's target is the latency behind, and reaching it is being within
\* the latency.
LEMMA TargetBounds ==
  ASSUME ConfigOK, NEW n \in Nat
  PROVE  /\ BoundaryTarget(n) = IF n <= Latency THEN 0 ELSE n - Latency
         /\ BoundaryTarget(n) \in Nat
         /\ n <= BoundaryTarget(n) + Latency
         /\ n > 0 => BoundaryTarget(n) < n
<1>1. BoundaryTarget(n) = IF n <= Latency THEN 0 ELSE n - Latency
  BY DEF BoundaryTarget, Latency
<1> QED
  BY <1>1, LatencyBounds

-----------------------------------------------------------------------------
(* What a step leaves alone. *)

\* No step changes the policy or the swap chain's description.
LEMMA ConfigStep ==
  ASSUME ConfigOK, [Next]_vars
  PROVE  /\ UNCHANGED config /\ ConfigOK' /\ Latency' = Latency /\ Allowed' = Allowed
         /\ \A n : BoundaryTarget(n)' = BoundaryTarget(n)
<1>1. UNCHANGED config
  BY DEF Next, CommitDraw, CommitPresent, DirectPresent, AppStep, PaceOrdinal,
         OrdinalWaitDone, SubmitDirect, PublishDirect, ApplyBoundary, Replay,
         ReplayFails, Encode, EncodeFails, GpuCompletes, Finish, StopQueue, vars
<1> QED
  BY <1>1 DEF config, ConfigOK, Latency, Allowed, BoundaryTarget, resolvedPresentFrameLatency

\* Appending a chunk keeps the chunks before it.
LEMMA AppendChunk ==
  ASSUME TypeOK, NEW c \in {"draw", "paced", "direct"}, chunks' = Append(chunks, c)
  PROVE  /\ chunks' \in Seq({"draw", "paced", "direct"})
         /\ Len(chunks') = Len(chunks) + 1 /\ Len(chunks) \in Nat
         /\ \A i \in 1..Len(chunks) : chunks'[i] = chunks[i]
         /\ Directs' = IF c = "direct" THEN Directs \cup {Len(chunks) + 1} ELSE Directs
<1>1. chunks \in Seq({"draw", "paced", "direct"})
  BY DEF TypeOK
<1>2. /\ chunks' \in Seq({"draw", "paced", "direct"})
      /\ Len(chunks') = Len(chunks) + 1 /\ Len(chunks) \in Nat
      /\ \A i \in 1..Len(chunks) : chunks'[i] = chunks[i]
      /\ chunks'[Len(chunks) + 1] = c
  BY <1>1
<1>3. \A i : i \in 1..Len(chunks') <=> i \in 1..Len(chunks) \/ i = Len(chunks) + 1
  BY <1>2
<1>4. CASE c = "direct"
  <2>1. \A i : i \in Directs' <=> i \in Directs \/ i = Len(chunks) + 1
    BY <1>2, <1>3, <1>4 DEF Directs
  <2> QED
    BY <1>2, <1>4, <2>1
<1>5. CASE c # "direct"
  <2>1. \A i : i \in Directs' <=> i \in Directs
    BY <1>2, <1>3, <1>5 DEF Directs
  <2> QED
    BY <1>2, <1>5, <2>1
<1> QED
  BY <1>4, <1>5

\* The present queue and the completed ordinal when nothing is drained.
LEMMA QueueKept ==
  ASSUME TypeOK, QueueExact, OrdinalCounted,
         UNCHANGED <<presentQueue, completedSeqId, presentCompleted, completedOrdinal>>,
         settled' \in Nat, settled' >= settled,
         \A i \in 1..Len(chunks) : chunks'[i] = chunks[i]
  PROVE  QueueExact' /\ OrdinalCounted'
<1>1. /\ settled \in Nat /\ completedSeqId \in Nat /\ presentCompleted \in Nat
      /\ settled <= Len(chunks) /\ completedSeqId <= settled
      /\ presentCompleted <= completedSeqId /\ Len(chunks) \in Nat
  BY DEF TypeOK
<1>2. \A i \in 1..settled : IsPresent(i)' <=> IsPresent(i)
  BY <1>1 DEF IsPresent
<1>3. {i \in 1..completedSeqId : IsPresent(i)}' = {i \in 1..completedSeqId : IsPresent(i)}
  BY <1>1, <1>2
<1>4. OrdinalCounted'
  BY <1>3 DEF OrdinalCounted
<1>5. \A i \in 1..Len(presentQueue) :
        presentQueue[i] \in (completedSeqId + 1)..settled' /\ IsPresent(presentQueue[i])'
  <2> TAKE i \in 1..Len(presentQueue)
  <2>1. presentQueue[i] \in (completedSeqId + 1)..settled /\ IsPresent(presentQueue[i])
    BY DEF QueueExact
  <2>2. presentQueue[i] \in 1..settled
    BY <1>1, <2>1
  <2>3. presentQueue[i] \in (completedSeqId + 1)..settled'
    BY <1>1, <2>1
  <2> QED
    BY <1>2, <2>1, <2>2, <2>3 DEF IsPresent
<1>6. presentCompleted > 0 => IsPresent(presentCompleted)'
  BY <1>1, <1>2 DEF QueueExact, IsPresent
<1> QED
  BY <1>4, <1>5, <1>6 DEF QueueExact, IsPresent

\* Being within the latency of a Present the application submitted is kept: the
\* watermarks grow, and a deferred target is dropped only once it is reached.
LEMMA DirectKept ==
  ASSUME TypeOK, TypeOK', ConfigOK, BoundaryLast, DirectPaced, DirectDeferred, SeqReachable,
         policy' = policy, Latency' = Latency,
         Directs' = Directs, completedSeqId' >= completedSeqId, dequeued' >= dequeued,
         \/ app' = app
         \/ app.pc # "boundary" /\ app'.pc \notin {"publish", "boundary"},
         \/ deferredSeq' = deferredSeq
         \/ deferredSeq' = 0 /\ deferredSeq <= completedSeqId,
         stop => stop'
  PROVE  BoundaryLast' /\ DirectPaced' /\ DirectDeferred' /\ SeqReachable'
<1>0. /\ Latency \in Nat /\ completedSeqId \in Nat /\ completedSeqId' \in Nat
      /\ dequeued \in Nat /\ dequeued' \in Nat /\ deferredSeq \in Nat /\ deferredSeq' \in Nat
      /\ (\A i \in Directs : i \in Nat) /\ IsFiniteSet(Directs)
  <2>1. Latency \in Nat
    BY LatencyBounds
  <2>2. /\ completedSeqId \in Nat /\ completedSeqId' \in Nat /\ dequeued \in Nat
        /\ dequeued' \in Nat /\ deferredSeq \in Nat /\ deferredSeq' \in Nat
        /\ Len(chunks) \in Nat
    BY DEF TypeOK
  <2>3. IsFiniteSet(1..Len(chunks)) /\ Directs \subseteq 1..Len(chunks)
    BY <2>2, FS_Interval DEF Directs
  <2>4. \A i \in Directs : i \in Nat
    BY <2>2, <2>3
  <2>5. IsFiniteSet(Directs)
    BY <2>3, FS_Subset
  <2> QED
    BY <2>1, <2>2, <2>4, <2>5
<1>1. \A i \in Directs : InBoundary(i) => InBoundary(i)'
  BY DEF InBoundary
<1>2. BoundaryLast'
  BY DEF BoundaryLast
<1>3. DirectPaced'
  BY <1>0, <1>1 DEF DirectPaced, Watermark
<1>4. SeqReachable'
  BY DEF SeqReachable
<1>5. ASSUME ~ stop, policy = "Deferred"
      PROVE  /\ \A i \in Directs : \/ InBoundary(i)'
                                   \/ i + 1 <= deferredSeq' + Latency
                                   \/ i + 1 <= completedSeqId' + Latency
             /\ app'.pc = "publish" => \A i \in Directs : i + 1 <= completedSeqId' + Latency
             /\ Cardinality({i \in Directs : i > completedSeqId'}) <= Latency
  <2>1. \A i \in Directs : \/ InBoundary(i)'
                           \/ i + 1 <= deferredSeq' + Latency
                           \/ i + 1 <= completedSeqId' + Latency
    BY <1>0, <1>1, <1>5 DEF DirectDeferred
  <2>2. app'.pc = "publish" => \A i \in Directs : i + 1 <= completedSeqId' + Latency
    BY <1>0, <1>5 DEF DirectDeferred
  <2> DEFINE S == {i \in Directs : i > completedSeqId}
             T == {i \in Directs : i > completedSeqId'}
  <2>3. T \subseteq S
    BY <1>0
  <2>4. IsFiniteSet(S)
    BY <1>0, FS_Subset, S \subseteq Directs
  <2>5. Cardinality(T) <= Cardinality(S) /\ Cardinality(T) \in Nat /\ Cardinality(S) \in Nat
    BY <2>3, <2>4, FS_Subset, FS_CardinalityType
  <2>6. Cardinality(S) <= Latency
    BY <1>5 DEF DirectDeferred
  <2> HIDE DEF S, T
  <2>7. Cardinality(T) <= Latency
    BY <1>0, <2>5, <2>6
  <2> QED
    BY <2>1, <2>2, <2>7 DEF T
<1>6. DirectDeferred'
  <2>1. ASSUME ~ stop', policy' = "Deferred"
        PROVE  /\ \A i \in Directs : \/ InBoundary(i)'
                                     \/ i + 1 <= deferredSeq' + Latency
                                     \/ i + 1 <= completedSeqId' + Latency
               /\ app'.pc = "publish" => \A i \in Directs : i + 1 <= completedSeqId' + Latency
               /\ Cardinality({i \in Directs : i > completedSeqId'}) <= Latency
    BY <1>5, <2>1
  <2> QED
    BY <2>1 DEF DirectDeferred, InBoundary
<1> QED
  BY <1>2, <1>3, <1>4, <1>6

\* What DrainDeferred does to the deferred target.
LEMMA DrainDeferredEffect ==
  ASSUME TypeOK, DrainDeferred
  PROVE  /\ deferredSeq' \in Nat
         /\ \/ deferredSeq' = deferredSeq
            \/ deferredSeq' = 0 /\ deferredSeq <= completedSeqId
         /\ policy = "Deferred" /\ ~ stop => deferredSeq' = 0 /\ deferredSeq <= completedSeqId
BY DEF TypeOK, DrainDeferred, DeferredReached

\* The first of a sorted queue of settled Presents is the only one that the
\* next sequence retires.
LEMMA DueFirst ==
  ASSUME TypeOK, QueueExact
  PROVE  LET c == completedSeqId + 1
         IN \/ Due(c) = <<>> /\ \A i \in 1..Len(presentQueue) : presentQueue[i] > c
            \/ /\ Due(c) # <<>> /\ Len(Due(c)) = 1 /\ Due(c)[1] = c
               /\ Len(presentQueue) >= 1 /\ presentQueue[1] = c
               /\ \A i \in 2..Len(presentQueue) : presentQueue[i] > c
<1> DEFINE c == completedSeqId + 1
           q == presentQueue
           P(n) == /\ \A i \in 1..n : q[i] <= c
                   /\ n < Len(q) => q[n + 1] > c
<1>0. /\ completedSeqId \in Nat /\ settled \in Nat /\ c \in Nat
      /\ q \in Seq(Nat) /\ Len(q) \in Nat
      /\ \A i \in 1..Len(q) : q[i] \in c..settled
      /\ \A i, j \in 1..Len(q) : i < j => q[i] < q[j]
  BY DEF TypeOK, QueueExact
<1>1. \A i \in 1..Len(q) : q[i] \in Nat /\ q[i] >= c
  BY <1>0
<1>2. Due(c) = SubSeq(q, 1, CHOOSE n \in 0..Len(q) : P(n))
  BY DEF Due
<1> HIDE DEF c, q
<1>3. CASE Len(q) >= 1 /\ q[1] = c
  <2>1. 1 \in 0..Len(q) /\ P(1)
    BY <1>0, <1>1, <1>3
  <2>2. ASSUME NEW n \in 0..Len(q), P(n) PROVE n = 1
    <3>1. n >= 1
      BY <1>0, <1>1, <1>3, <2>2
    <3>2. ASSUME n >= 2 PROVE FALSE
      <4>1. 2 \in 1..n /\ 2 \in 1..Len(q) /\ 1 \in 1..Len(q)
        BY <1>0, <3>2
      <4>2. q[2] <= c /\ q[1] < q[2]
        BY <1>0, <2>2, <4>1
      <4> QED
        BY <1>0, <1>1, <1>3, <4>1, <4>2
    <3> QED
      BY <1>0, <3>1, <3>2
  <2> HIDE DEF P
  <2>3. (CHOOSE n \in 0..Len(q) : P(n)) = 1
    BY <2>1, <2>2
  <2>4. /\ Len(SubSeq(q, 1, 1)) = 1 /\ SubSeq(q, 1, 1)[1] = c
        /\ SubSeq(q, 1, 1) # <<>>
    BY <1>0, <1>3
  <2>5. \A i \in 2..Len(q) : q[i] > c
    BY <1>0, <1>1, <1>3
  <2> QED
    BY <1>2, <1>3, <2>3, <2>4, <2>5 DEF c, q
<1>4. CASE ~(Len(q) >= 1 /\ q[1] = c)
  <2>1. \A i \in 1..Len(q) : q[i] > c
    <3> TAKE i \in 1..Len(q)
    <3>1. 1 \in 1..Len(q) /\ q[1] > c
      BY <1>0, <1>1, <1>4
    <3>2. i = 1 \/ q[1] < q[i]
      BY <1>0, <3>1
    <3> QED
      BY <1>0, <1>1, <3>1, <3>2
  <2>2. 0 \in 0..Len(q) /\ P(0)
    BY <1>0, <2>1
  <2>3. ASSUME NEW n \in 0..Len(q), P(n) PROVE n = 0
    <3>1. ASSUME n >= 1 PROVE FALSE
      <4>1. 1 \in 1..n /\ 1 \in 1..Len(q)
        BY <1>0, <3>1
      <4> QED
        BY <1>0, <1>1, <2>1, <2>3, <4>1
    <3> QED
      BY <1>0, <3>1
  <2> HIDE DEF P
  <2>4. (CHOOSE n \in 0..Len(q) : P(n)) = 0
    BY <2>2, <2>3
  <2>5. SubSeq(q, 1, 0) = <<>>
    BY <1>0
  <2> QED
    BY <1>2, <2>1, <2>4, <2>5 DEF c, q
<1> QED
  BY <1>3, <1>4

-----------------------------------------------------------------------------
(* The steps. *)

\* The finish thread drains a sequence: at most its own Present is retired.
LEMMA FinishStep ==
  ASSUME TypeOK, QueueExact, OrdinalCounted, Finish
  PROVE  /\ QueueExact' /\ OrdinalCounted' /\ completedOrdinal' \in Nat
         /\ completedOrdinal' >= completedOrdinal
         /\ presentQueue' \in Seq(Nat) /\ presentCompleted' \in 0..completedSeqId'
<1> DEFINE c == completedSeqId + 1
           q == presentQueue
           due == Due(c)
<1>0. /\ completedSeqId \in Nat /\ settled \in Nat /\ c \in Nat /\ c <= settled
      /\ completedSeqId' = c /\ settled' = settled /\ chunks' = chunks
      /\ presentQueue' = SubSeq(q, Len(due) + 1, Len(q))
      /\ presentCompleted' = IF due = <<>> THEN presentCompleted
                             ELSE Max({presentCompleted, due[Len(due)]})
      /\ completedOrdinal' = completedOrdinal + Len(due)
      /\ q \in Seq(Nat) /\ Len(q) \in Nat /\ completedOrdinal \in Nat
      /\ presentCompleted \in Nat /\ presentCompleted <= completedSeqId
  BY DEF TypeOK, Finish
<1>1. /\ \A i \in 1..Len(q) : q[i] \in c..settled /\ IsPresent(q[i])
      /\ \A i, j \in 1..Len(q) : i < j => q[i] < q[j]
      /\ presentCompleted > 0 => IsPresent(presentCompleted)
  BY DEF QueueExact
<1>2. \/ due = <<>> /\ \A i \in 1..Len(q) : q[i] > c
      \/ /\ due # <<>> /\ Len(due) = 1 /\ due[1] = c /\ Len(q) >= 1 /\ q[1] = c
         /\ \A i \in 2..Len(q) : q[i] > c
  BY DueFirst
<1>p. \A i : IsPresent(i)' <=> IsPresent(i)
  BY <1>0 DEF IsPresent
<1> DEFINE R == {i \in 1..completedSeqId : IsPresent(i)}
           R2 == {i \in 1..c : IsPresent(i)}
<1>r. IsFiniteSet(R2) /\ R \subseteq R2 /\ completedOrdinal <= Cardinality(R)
  <2>1. IsFiniteSet(1..c)
    BY <1>0, FS_Interval, 1 \in Int, c \in Int
  <2>2. R2 \subseteq 1..c
    OBVIOUS
  <2>3. R \subseteq R2
    BY <1>0
  <2> QED
    BY <2>1, <2>2, <2>3, FS_Subset DEF OrdinalCounted
<1>o. {i \in 1..completedSeqId : IsPresent(i)}' = R2
  BY <1>0, <1>p
<1>s. IsFiniteSet(R) /\ Cardinality(R) \in Nat /\ Cardinality(R2) \in Nat
      /\ Cardinality(R) <= Cardinality(R2)
  BY <1>r, FS_Subset, FS_CardinalityType
<1> HIDE DEF due, q, R, R2
<1>3. CASE due = <<>>
  <2>1. Len(due) = 0 /\ \A i \in 1..Len(q) : q[i] > c
    BY <1>2, <1>3
  <2>2. presentQueue' = q /\ completedOrdinal' = completedOrdinal
        /\ presentCompleted' = presentCompleted
    BY <1>0, <1>3, <2>1
  <2>3. OrdinalCounted'
    <3>1. completedOrdinal' <= Cardinality(R2)
      BY <1>0, <1>r, <1>s, <2>2
    <3> QED
      BY <1>o, <3>1 DEF OrdinalCounted
  <2>4. QueueExact'
    BY <1>0, <1>1, <1>p, <2>1, <2>2 DEF QueueExact
  <2> QED
    BY <1>0, <2>2, <2>3, <2>4
<1>4. CASE due # <<>>
  <2>1. /\ Len(due) = 1 /\ due[1] = c /\ Len(q) >= 1 /\ q[1] = c
        /\ \A i \in 2..Len(q) : q[i] > c
    BY <1>2, <1>4
  <2>2. presentQueue' = SubSeq(q, 2, Len(q)) /\ completedOrdinal' = completedOrdinal + 1
    BY <1>0, <2>1
  <2>3. presentCompleted' = c
    <3>1. presentCompleted' = Max({presentCompleted, c})
      BY <1>0, <1>4, <2>1
    <3>2. c \in Int /\ presentCompleted \in Int
      BY <1>0
    <3> HIDE DEF c
    <3>3. Max({presentCompleted, c}) = IF presentCompleted >= c THEN presentCompleted ELSE c
      BY <3>2, TwoNumbers
    <3>4. presentCompleted < c
      BY <1>0 DEF c
    <3> QED
      BY <3>1, <3>2, <3>3, <3>4
  <2>4. IsPresent(c)
    BY <1>0, <1>1, <2>1
  <2>5. /\ presentQueue' \in Seq(Nat) /\ Len(presentQueue') = Len(q) - 1
        /\ \A i \in 1..(Len(q) - 1) : presentQueue'[i] = q[i + 1]
    <3>1. presentQueue' = Tail(q)
      BY <1>0, <2>1, <2>2
    <3>2. q # <<>>
      BY <2>1
    <3>3. /\ Tail(q) \in Seq(Nat) /\ Len(Tail(q)) = Len(q) - 1
          /\ \A i \in 1..Len(Tail(q)) : Tail(q)[i] = q[i + 1]
      BY <1>0, <3>2, HeadTailProperties
    <3> QED
      BY <3>1, <3>3
  <2>6. OrdinalCounted'
    <3>1. R2 = R \cup {c} /\ c \notin R
      BY <1>0, <2>4 DEF R, R2
    <3>2. Cardinality(R \cup {c}) = Cardinality(R) + 1
      BY <1>s, <3>1, FS_AddElement
    <3>3. completedOrdinal + 1 <= Cardinality(R2)
      BY <1>0, <1>r, <1>s, <3>1, <3>2
    <3> QED
      BY <1>o, <2>2, <3>3 DEF OrdinalCounted
  <2>7. QueueExact'
    <3>1. \A i \in 1..Len(presentQueue') :
            presentQueue'[i] \in (c + 1)..settled /\ IsPresent(presentQueue'[i])
      <4> TAKE i \in 1..Len(presentQueue')
      <4>1. presentQueue'[i] = q[i + 1] /\ i + 1 \in 2..Len(q) /\ i + 1 \in 1..Len(q)
        BY <1>0, <2>5
      <4> QED
        BY <1>0, <1>1, <2>1, <4>1
    <3>2. \A i, j \in 1..Len(presentQueue') : i < j => presentQueue'[i] < presentQueue'[j]
      <4> TAKE i, j \in 1..Len(presentQueue')
      <4>1. /\ presentQueue'[i] = q[i + 1] /\ presentQueue'[j] = q[j + 1]
            /\ i + 1 \in 1..Len(q) /\ j + 1 \in 1..Len(q) /\ i \in Nat /\ j \in Nat
        BY <1>0, <2>5
      <4> QED
        BY <1>1, <4>1
    <3> QED
      BY <1>0, <1>p, <2>3, <2>4, <3>1, <3>2 DEF QueueExact
  <2> QED
    BY <1>0, <2>2, <2>3, <2>5, <2>6, <2>7
<1> QED
  BY <1>3, <1>4

\* Every step keeps the types and the order of the watermarks.
LEMMA TypeStep ==
  ASSUME TypeOK, ConfigOK, QueueExact, OrdinalCounted, [Next]_vars
  PROVE  TypeOK'
<1>0. /\ chunks \in Seq({"draw", "paced", "direct"}) /\ Len(chunks) \in Nat
      /\ encoded \in 0..Len(chunks) /\ settled \in 0..encoded
      /\ completedSeqId \in 0..settled /\ dequeued \in 0..encoded
      /\ presentCompleted \in 0..completedSeqId
      /\ presentOrdinal \in Nat /\ deferredOrdinal \in Nat /\ deferredSeq \in Nat
      /\ offload \in Seq({"draw", "present"}) /\ presentQueue \in Seq(Nat)
      /\ app.target \in Nat
  BY DEF TypeOK
<1>1. CASE CommitDraw
  BY <1>1 DEF TypeOK, CommitDraw, queueVars, markVars, gateVars
<1>2. CASE CommitPresent
  BY <1>2 DEF TypeOK, CommitPresent, AppGoes, queueVars, markVars, gateVars
<1>3. CASE DirectPresent
  BY <1>3 DEF TypeOK, DirectPresent, AppGoes, replayVars, queueVars, markVars, gateVars
<1>4. CASE PaceOrdinal
  <2> DEFINE plan == OrdinalPlan(presentOrdinal)
  <2>1. plan.wait \in Nat /\ plan.stored \in Nat
    <3>1. BoundaryTarget(presentOrdinal) \in Nat /\ BoundaryTarget(presentOrdinal + 1) \in Nat
      BY <1>0, TargetBounds, presentOrdinal + 1 \in Nat
    <3> DEFINE t == BoundaryTarget(presentOrdinal + 1)
    <3> HIDE DEF t
    <3>2. Max({deferredOrdinal, t}) \in Nat
      BY <1>0, <3>1, TwoNumbers, deferredOrdinal \in Int, t \in Int DEF t
    <3> QED
      BY <1>0, <3>1, <3>2 DEF OrdinalPlan, t
  <2>2. /\ deferredOrdinal' = plan.stored
        /\ app' = [pc |-> "ordinalWait", target |-> plan.wait] \/ app' = [pc |-> "run", target |-> 0]
        /\ UNCHANGED <<config, replayVars, queueVars, markVars, aborted, deferredSeq, stop>>
    BY <1>4 DEF PaceOrdinal, AppGoes
  <2> HIDE DEF plan
  <2> QED
    BY <2>1, <2>2 DEF TypeOK, replayVars, queueVars, markVars
<1>5. CASE OrdinalWaitDone
  BY <1>5 DEF TypeOK, OrdinalWaitDone, AppGoes, replayVars, queueVars, markVars, gateVars
<1>6. CASE SubmitDirect
  <2>1. deferredSeq' \in Nat
    BY <1>6, DrainDeferredEffect DEF SubmitDirect
  <2> QED
    BY <1>6, <2>1 DEF TypeOK, SubmitDirect, AppGoes, replayVars, queueVars, markVars
<1>7. CASE PublishDirect
  <2>1. /\ UNCHANGED <<config, replayVars, encoded, settled, completedSeqId,
                 presentQueue, markVars, gateVars>>
        /\ \/ chunks' = chunks /\ app' = [pc |-> "run", target |-> 0]
           \/ /\ chunks' = Append(chunks, "direct")
              /\ app' = [pc |-> "boundary", target |-> Len(chunks) + 1]
    BY <1>7 DEF PublishDirect, AppGoes
  <2>2. chunks' \in Seq({"draw", "paced", "direct"}) /\ Len(chunks') >= Len(chunks)
        /\ Len(chunks') \in Nat /\ Len(chunks) + 1 \in Nat
    <3>1. CASE chunks' = chunks
      BY <1>0, <3>1
    <3>2. CASE chunks' = Append(chunks, "direct")
      BY <1>0, <3>2, AppendChunk
    <3> QED
      BY <2>1, <3>1, <3>2
  <2>3. encoded \in 0..Len(chunks')
    BY <1>0, <2>2
  <2> QED
    BY <2>1, <2>2, <2>3 DEF TypeOK, replayVars, markVars, gateVars
<1>8. CASE ApplyBoundary
  <2>1. deferredSeq' \in Nat
    <3> DEFINE t == BoundaryTarget(app.target + 1)
    <3>0. app.target + 1 \in Nat
      BY <1>0
    <3>1. t \in Nat
      BY <3>0, TargetBounds
    <3> HIDE DEF t
    <3>2. Max({deferredSeq, t}) \in Nat
      BY <1>0, <3>1, TwoNumbers, deferredSeq \in Int, t \in Int
    <3> QED
      BY <1>0, <1>8, <3>2 DEF ApplyBoundary, t
  <2> QED
    BY <1>8, <2>1 DEF TypeOK, ApplyBoundary, AppGoes, replayVars, queueVars, markVars
<1>9. CASE Replay
  <2>1. /\ UNCHANGED <<config, failed, presentOrdinal, encoded, settled, completedSeqId,
                 presentQueue, markVars, deferredOrdinal, aborted, stop, app>>
        /\ offload' = Tail(offload) /\ offload # <<>>
        /\ \/ chunks' = chunks
           \/ \E c \in {"draw", "paced", "direct"} : chunks' = Append(chunks, c)
    BY <1>9 DEF Replay
  <2>2. chunks' \in Seq({"draw", "paced", "direct"}) /\ Len(chunks') >= Len(chunks)
        /\ Len(chunks') \in Nat
    <3>1. CASE chunks' = chunks
      BY <1>0, <3>1
    <3>2. ASSUME NEW c \in {"draw", "paced", "direct"}, chunks' = Append(chunks, c)
          PROVE  /\ chunks' \in Seq({"draw", "paced", "direct"}) /\ Len(chunks') >= Len(chunks)
                 /\ Len(chunks') \in Nat
      BY <1>0, <3>2, AppendChunk
    <3> QED
      BY <2>1, <3>1, <3>2
  <2>3. encoded \in 0..Len(chunks') /\ offload' \in Seq({"draw", "present"})
    BY <1>0, <2>1, <2>2
  <2>4. deferredSeq' \in Nat
    BY <1>0, <1>9, DrainDeferredEffect DEF Replay
  <2> QED
    BY <2>1, <2>2, <2>3, <2>4 DEF TypeOK, markVars
<1>10. CASE ReplayFails
  BY <1>10 DEF TypeOK, ReplayFails, queueVars, markVars
<1>11. CASE Encode
  <2>1. dequeued' \in 0..encoded' /\ encoded' = encoded + 1 /\ encoded < Len(chunks)
    <3> DEFINE e == encoded + 1
    <3>1. e \in Int /\ dequeued \in Int /\ e > dequeued
      BY <1>0
    <3>2. encoded' = e /\ encoded < Len(chunks)
          /\ dequeued' = IF IsPresent(e) THEN Max({dequeued, e}) ELSE dequeued
      BY <1>11 DEF Encode
    <3>3. e \in 0..e /\ dequeued \in 0..e
      BY <1>0
    <3> HIDE DEF e
    <3>4. Max({dequeued, e}) = e
      BY <3>1, TwoNumbers
    <3> QED
      BY <3>2, <3>3, <3>4 DEF e
  <2>2. encoded' \in 0..Len(chunks) /\ settled \in 0..encoded'
    BY <1>0, <2>1
  <2> QED
    BY <1>11, <2>1, <2>2 DEF TypeOK, Encode, replayVars, gateVars
<1>12. CASE EncodeFails
  <2>1. /\ encoded' = encoded + 1 /\ encoded < Len(chunks)
        /\ settled' = settled \/ settled' = settled + 1
        /\ stop' \in BOOLEAN
    BY <1>12 DEF EncodeFails, TypeOK
  <2>2. /\ encoded' \in 0..Len(chunks) /\ settled' \in 0..encoded' /\ dequeued \in 0..encoded'
        /\ completedSeqId \in 0..settled'
    BY <1>0, <2>1
  <2> QED
    BY <1>12, <2>1, <2>2 DEF TypeOK, EncodeFails, replayVars, markVars
<1>13. CASE GpuCompletes
  <2>1. settled' = settled + 1 /\ settled < encoded
    BY <1>13 DEF GpuCompletes
  <2>2. settled' \in 0..encoded /\ completedSeqId \in 0..settled' /\ settled + 1 \in Nat
    BY <1>0, <2>1
  <2>3. presentQueue' \in Seq(Nat)
    BY <1>0, <1>13, <2>2 DEF GpuCompletes
  <2> QED
    BY <1>13, <2>2, <2>3 DEF TypeOK, GpuCompletes, replayVars, markVars, gateVars
<1>14. CASE Finish
  <2>1. /\ completedOrdinal' \in Nat /\ presentQueue' \in Seq(Nat)
        /\ presentCompleted' \in 0..completedSeqId'
    BY <1>14, FinishStep
  <2>2. completedSeqId' \in 0..settled
    BY <1>0, <1>14 DEF Finish
  <2> QED
    BY <1>14, <2>1, <2>2 DEF TypeOK, Finish, replayVars, gateVars
<1>15. CASE StopQueue
  BY <1>15 DEF TypeOK, StopQueue, replayVars, queueVars, markVars
<1>16. CASE UNCHANGED vars
  BY <1>16 DEF TypeOK, vars, replayVars, queueVars, markVars, gateVars
<1> QED
  BY <1>1, <1>2, <1>3, <1>4, <1>5, <1>6, <1>7, <1>8, <1>9, <1>10, <1>11, <1>12, <1>13,
     <1>14, <1>15, <1>16 DEF Next, AppStep

\* What is within the latency of a watermark stays within it as it advances.
LEMMA StillWithin ==
  ASSUME NEW n \in Nat, NEW w \in Nat, NEW v \in Nat, NEW l \in Nat, n <= w + l, v >= w
  PROVE  n <= v + l
OBVIOUS

\* The ordinal boundary when the application is not in it: ordinals are only
\* retired meanwhile.
LEMMA OrdinalKept ==
  ASSUME TypeOK, TypeOK', ConfigOK, OrdinalBehind, OrdinalPaced,
         policy' = policy, Latency' = Latency,
         UNCHANGED <<presentOrdinal, deferredOrdinal>>,
         completedOrdinal' >= completedOrdinal, stop => stop', aborted => aborted',
         \/ app' = app
         \/ /\ app.pc \notin {"pace", "ordinalWait"}
            /\ app'.pc \notin {"pace", "ordinalWait"}
  PROVE  OrdinalBehind' /\ OrdinalPaced'
<1>0. /\ Latency \in Nat /\ presentOrdinal \in Nat /\ completedOrdinal \in Nat
      /\ completedOrdinal' \in Nat /\ deferredOrdinal \in Nat
  BY LatencyBounds DEF TypeOK
<1>1. OrdinalBehind'
  BY DEF OrdinalBehind
<1>2. ASSUME policy # "Disabled", ~ aborted', ~ stop'
      PROVE  /\ app'.pc \notin {"pace", "ordinalWait"} =>
                  presentOrdinal <= completedOrdinal' + Latency
             /\ app'.pc = "ordinalWait" => presentOrdinal <= app'.target + Latency
  <2>1. /\ app.pc \notin {"pace", "ordinalWait"} =>
             presentOrdinal <= completedOrdinal + Latency
        /\ app.pc = "ordinalWait" => presentOrdinal <= app.target + Latency
    BY <1>2 DEF OrdinalPaced
  <2>2. CASE app' = app
    <3>1. ASSUME app.pc \notin {"pace", "ordinalWait"}
          PROVE  presentOrdinal <= completedOrdinal' + Latency
      <4>1. presentOrdinal <= completedOrdinal + Latency
        BY <2>1, <3>1
      <4> QED
        BY <1>0, <4>1, StillWithin, Zenon
    <3> QED
      BY <2>1, <2>2, <3>1
  <2>3. CASE app.pc \notin {"pace", "ordinalWait"} /\ app'.pc \notin {"pace", "ordinalWait"}
    <3>1. presentOrdinal <= completedOrdinal + Latency
      BY <2>1, <2>3
    <3>2. presentOrdinal <= completedOrdinal' + Latency
      BY <1>0, <3>1, StillWithin, Zenon
    <3> QED
      BY <2>3, <3>2
  <2> QED
    BY <2>2, <2>3
<1>3. ASSUME policy = "Deferred"
      PROVE  IF app'.pc = "pace" THEN presentOrdinal <= deferredOrdinal + Latency
             ELSE presentOrdinal + 1 <= deferredOrdinal + Latency
  BY <1>3 DEF OrdinalPaced
<1>4. OrdinalPaced'
  BY <1>2, <1>3 DEF OrdinalPaced
<1> QED
  BY <1>1, <1>4

\* Every step preserves the invariant: one case per action.
LEMMA PacingStep == PacingInv /\ [Next]_vars => PacingInv'
<1> SUFFICES ASSUME PacingInv, [Next]_vars PROVE PacingInv'
  OBVIOUS
<1>i. /\ TypeOK /\ ConfigOK /\ QueueExact /\ OrdinalCounted /\ OrdinalBehind /\ OrdinalPaced
      /\ BoundaryLast /\ DirectPaced /\ DirectDeferred /\ SeqReachable
  BY DEF PacingInv
<1>t. TypeOK'
  BY <1>i, TypeStep
<1>c. ConfigOK' /\ Latency' = Latency /\ policy' = policy
  BY <1>i, ConfigStep DEF config
<1>0. /\ Latency \in Nat /\ Latency >= 1 /\ Len(chunks) \in Nat
      /\ encoded \in Nat /\ settled \in Nat /\ completedSeqId \in Nat /\ dequeued \in Nat
      /\ presentCompleted \in Nat /\ presentCompleted <= completedSeqId
      /\ presentOrdinal \in Nat /\ deferredOrdinal \in Nat /\ deferredSeq \in Nat
      /\ completedOrdinal \in Nat /\ app.target \in Nat
      /\ completedSeqId <= Len(chunks) /\ dequeued <= Len(chunks) /\ settled <= Len(chunks)
  <2>1. Latency \in Nat /\ Latency >= 1
    BY <1>i, LatencyBounds
  <2> QED
    BY <1>i, <2>1 DEF TypeOK
<1>d. \A i \in Directs : i \in Nat /\ i <= Len(chunks)
  BY <1>0 DEF Directs
<1>f. IsFiniteSet(Directs)
  BY <1>0, FS_Interval, FS_Subset, 1 \in Int, Len(chunks) \in Int, Directs \subseteq 1..Len(chunks)
  DEF Directs
\* The three groups of conjuncts, where a step does not touch what they are about.
<1>q. ASSUME UNCHANGED <<presentQueue, completedSeqId, presentCompleted, completedOrdinal>>,
             settled' >= settled, \A i \in 1..Len(chunks) : chunks'[i] = chunks[i]
      PROVE  QueueExact' /\ OrdinalCounted'
  <2>1. settled' \in Nat
    BY <1>t DEF TypeOK
  <2> QED
    BY <1>i, <1>q, <2>1, QueueKept
<1>o. ASSUME UNCHANGED <<presentOrdinal, deferredOrdinal>>,
             completedOrdinal' >= completedOrdinal, stop => stop', aborted => aborted',
             \/ app' = app
             \/ /\ app.pc \notin {"pace", "ordinalWait"}
                /\ app'.pc \notin {"pace", "ordinalWait"}
      PROVE  OrdinalBehind' /\ OrdinalPaced'
  BY <1>i, <1>t, <1>c, <1>o, OrdinalKept
<1>b. ASSUME Directs' = Directs, completedSeqId' >= completedSeqId, dequeued' >= dequeued,
             \/ app' = app
             \/ app.pc # "boundary" /\ app'.pc \notin {"publish", "boundary"},
             \/ deferredSeq' = deferredSeq
             \/ deferredSeq' = 0 /\ deferredSeq <= completedSeqId,
             stop => stop'
      PROVE  BoundaryLast' /\ DirectPaced' /\ DirectDeferred' /\ SeqReachable'
  BY <1>i, <1>t, <1>c, <1>b, DirectKept
<1>u. ASSUME UNCHANGED chunks
      PROVE  Directs' = Directs /\ \A i \in 1..Len(chunks) : chunks'[i] = chunks[i]
  BY <1>u DEF Directs
<1>g. completedSeqId >= completedSeqId /\ dequeued >= dequeued /\ settled >= settled
      /\ completedOrdinal >= completedOrdinal
  BY <1>0
<1>1. CASE CommitDraw
  <2>1. UNCHANGED <<presentOrdinal, queueVars, markVars, gateVars, app>>
    BY <1>1 DEF CommitDraw
  <2> QED
    BY <1>t, <1>c, <1>g, <1>q, <1>o, <1>b, <1>u, <2>1
    DEF PacingInv, queueVars, markVars, gateVars
<1>2. CASE CommitPresent
  <2>1. /\ UNCHANGED <<queueVars, markVars, gateVars>> /\ app.pc = "run"
        /\ presentOrdinal' = presentOrdinal + 1 /\ app' = [pc |-> "pace", target |-> 0]
    BY <1>2 DEF CommitPresent, AppGoes, AppRuns
  <2>2. OrdinalBehind' /\ OrdinalPaced'
    <3>1. deferredOrdinal' = deferredOrdinal /\ app'.pc = "pace"
      BY <2>1 DEF gateVars
    <3>2. OrdinalBehind'
      BY <1>0, <1>i, <2>1, <3>1 DEF OrdinalBehind
    <3>3. policy = "Deferred" => presentOrdinal + 1 <= deferredOrdinal + Latency
      BY <1>i, <2>1 DEF OrdinalPaced
    <3> QED
      BY <1>c, <2>1, <3>1, <3>2, <3>3 DEF OrdinalPaced
  <2>3. app'.pc = "pace"
    BY <2>1
  <2> QED
    BY <1>t, <1>c, <1>g, <1>q, <1>b, <1>u, <2>1, <2>2, <2>3
    DEF PacingInv, queueVars, markVars, gateVars
<1>3. CASE DirectPresent
  <2>1. /\ UNCHANGED <<replayVars, queueVars, markVars, gateVars>> /\ app.pc = "run"
        /\ app'.pc = "submit"
    BY <1>3 DEF DirectPresent, AppGoes, AppRuns
  <2> QED
    BY <1>t, <1>c, <1>g, <1>q, <1>o, <1>b, <1>u, <2>1
    DEF PacingInv, replayVars, queueVars, markVars, gateVars
<1>4. CASE PaceOrdinal
  <2> DEFINE n == presentOrdinal
             plan == OrdinalPlan(n)
             waits == plan.wait # 0 /\ ~aborted /\ completedOrdinal < plan.wait
  <2>1. /\ UNCHANGED <<replayVars, queueVars, markVars, aborted, deferredSeq, stop>>
        /\ app.pc = "pace" /\ deferredOrdinal' = plan.stored
        /\ waits => app' = [pc |-> "ordinalWait", target |-> plan.wait]
        /\ ~ waits => app' = [pc |-> "run", target |-> 0]
    BY <1>4 DEF PaceOrdinal, AppGoes
  <2>2. /\ BoundaryTarget(n) \in Nat /\ n <= BoundaryTarget(n) + Latency
        /\ n > 0 => BoundaryTarget(n) < n
    BY <1>0, <1>i, TargetBounds
  <2>3. /\ BoundaryTarget(n + 1) \in Nat /\ n + 1 <= BoundaryTarget(n + 1) + Latency
        /\ BoundaryTarget(n + 1) < n + 1
    BY <1>0, <1>i, TargetBounds, n + 1 \in Nat, n + 1 > 0
  <2> DEFINE t == BoundaryTarget(n + 1)
  <2>4. Max({deferredOrdinal, t}) = IF deferredOrdinal >= t THEN deferredOrdinal ELSE t
    BY <1>0, <2>3, TwoNumbers, deferredOrdinal \in Int, t \in Int
  <2>5. /\ policy = "Disabled" => plan.wait = 0 /\ plan.stored = deferredOrdinal
        /\ policy = "Deferred" => /\ plan.wait = deferredOrdinal
                                  /\ plan.stored = Max({deferredOrdinal, t})
        /\ policy \notin {"Disabled", "Deferred"} =>
             plan.wait = BoundaryTarget(n) /\ plan.stored = deferredOrdinal
    BY DEF OrdinalPlan
  <2> HIDE DEF t, plan
  <2>6. deferredOrdinal < n /\ (policy = "Deferred" => n <= deferredOrdinal + Latency)
    BY <1>i, <2>1 DEF OrdinalBehind, OrdinalPaced
  <2>7. t \in Nat /\ n + 1 <= t + Latency /\ t < n + 1
    BY <2>3 DEF t
  <2>8. plan.stored <= n /\ (policy = "Deferred" => n + 1 <= plan.stored + Latency)
    BY <1>0, <2>4, <2>5, <2>6, <2>7
  <2>9. plan.wait \in Nat /\ (plan.wait # 0 => plan.wait < n)
        /\ (policy # "Disabled" => n <= plan.wait + Latency)
    BY <1>0, <2>2, <2>5, <2>6
  <2>10. UNCHANGED <<presentOrdinal, completedOrdinal, aborted, stop>>
    BY <2>1 DEF replayVars, markVars
  <2>11. OrdinalBehind' /\ OrdinalPaced'
    <3>1. CASE waits
      <4>1. app'.pc = "ordinalWait" /\ app'.target = plan.wait
        BY <2>1, <3>1
      <4> QED
        BY <1>c, <2>1, <2>8, <2>9, <2>10, <3>1, <4>1 DEF OrdinalBehind, OrdinalPaced
    <3>2. CASE ~ waits
      <4>1. app'.pc = "run"
        BY <2>1, <3>2
      <4>2. policy # "Disabled" /\ ~ aborted => n <= completedOrdinal + Latency
        BY <1>0, <2>9, <3>2
      <4> QED
        BY <1>c, <2>1, <2>8, <2>10, <4>1, <4>2 DEF OrdinalBehind, OrdinalPaced
    <3> QED
      BY <3>1, <3>2
  <2>12. app'.pc \in {"ordinalWait", "run"}
    BY <2>1
  <2> QED
    BY <1>t, <1>c, <1>g, <1>q, <1>b, <1>u, <2>1, <2>11, <2>12
    DEF PacingInv, replayVars, queueVars, markVars
<1>5. CASE OrdinalWaitDone
  <2>1. /\ UNCHANGED <<replayVars, queueVars, markVars, gateVars>> /\ app.pc = "ordinalWait"
        /\ app'.pc = "run" /\ (stop \/ aborted \/ completedOrdinal >= app.target)
    BY <1>5 DEF OrdinalWaitDone, AppGoes
  <2>2. UNCHANGED <<presentOrdinal, completedOrdinal, aborted, stop, deferredOrdinal>>
    BY <2>1 DEF replayVars, markVars, gateVars
  <2>3. OrdinalBehind' /\ OrdinalPaced'
    <3>1. policy # "Disabled" /\ ~ aborted /\ ~ stop => presentOrdinal <= completedOrdinal + Latency
      BY <1>0, <1>i, <2>1 DEF OrdinalPaced
    <3>2. policy = "Deferred" => presentOrdinal + 1 <= deferredOrdinal + Latency
      BY <1>i, <2>1 DEF OrdinalPaced
    <3> QED
      BY <1>c, <1>i, <2>1, <2>2, <3>1, <3>2 DEF OrdinalBehind, OrdinalPaced
  <2> QED
    BY <1>t, <1>c, <1>g, <1>q, <1>b, <1>u, <2>1, <2>3
    DEF PacingInv, replayVars, queueVars, markVars, gateVars
<1>6. CASE SubmitDirect
  <2>1. /\ UNCHANGED <<replayVars, queueVars, markVars, deferredOrdinal, aborted, stop>>
        /\ app.pc = "submit" /\ app'.pc = "publish" /\ DrainDeferred
    BY <1>6 DEF SubmitDirect, AppGoes
  <2>2. /\ \/ deferredSeq' = deferredSeq
           \/ deferredSeq' = 0 /\ deferredSeq <= completedSeqId
        /\ policy = "Deferred" /\ ~ stop => deferredSeq' = 0 /\ deferredSeq <= completedSeqId
    BY <1>i, <2>1, DrainDeferredEffect
  <2>3. Directs' = Directs /\ UNCHANGED <<completedSeqId, dequeued, stop>>
    BY <1>u, <2>1 DEF queueVars, markVars
  <2>4. BoundaryLast' /\ SeqReachable'
    BY <1>i, <2>1, <2>2, <2>3 DEF BoundaryLast, SeqReachable
  <2>5. \A i : ~ InBoundary(i) /\ ~ InBoundary(i)'
    BY <2>1 DEF InBoundary
  <2>6. DirectPaced'
    BY <1>c, <1>i, <2>3, <2>5 DEF DirectPaced, Watermark
  <2>7. DirectDeferred'
    <3>1. ASSUME ~ stop, policy = "Deferred"
          PROVE  /\ \A i \in Directs : i + 1 <= completedSeqId + Latency
                 /\ Cardinality({i \in Directs : i > completedSeqId}) <= Latency
      BY <1>0, <1>d, <1>i, <2>2, <2>5, <3>1 DEF DirectDeferred
    <3> QED
      BY <1>c, <2>3, <3>1 DEF DirectDeferred
  <2> QED
    BY <1>t, <1>c, <1>g, <1>q, <1>o, <1>u, <2>1, <2>4, <2>6, <2>7
    DEF PacingInv, replayVars, queueVars, markVars
<1>7. CASE PublishDirect
  <2>1. /\ UNCHANGED <<replayVars, encoded, settled, completedSeqId, presentQueue, markVars,
                 gateVars>>
        /\ app.pc = "publish"
    BY <1>7 DEF PublishDirect
  <2>2. CASE stop
    <3>1. app'.pc = "run" /\ chunks' = chunks
      BY <1>7, <2>2 DEF PublishDirect, AppGoes
    <3> QED
      BY <1>t, <1>c, <1>g, <1>q, <1>o, <1>b, <1>u, <2>1, <3>1
      DEF PacingInv, replayVars, markVars, gateVars
  <2>3. CASE ~ stop
    <3> DEFINE L == Len(chunks) + 1
    <3>1. chunks' = Append(chunks, "direct") /\ app'.pc = "boundary" /\ app'.target = L
      BY <1>7, <2>3 DEF PublishDirect, AppGoes
    <3>2. Directs' = Directs \cup {L} /\ \A i \in 1..Len(chunks) : chunks'[i] = chunks[i]
      BY <1>i, <3>1, AppendChunk
    <3>3. UNCHANGED <<completedSeqId, dequeued, deferredSeq, stop, settled>>
      BY <2>1 DEF markVars, gateVars
    <3>4. L \in Nat /\ \A i \in Directs : i < L
      BY <1>0, <1>d
    <3> HIDE DEF L
    <3>a. BoundaryLast'
      <4>1. \A i \in Directs \cup {L} : i <= L
        BY <1>d, <3>4
      <4> QED
        BY <3>1, <3>2, <4>1 DEF BoundaryLast
    <3>5. SeqReachable'
      BY <1>i, <3>2, <3>3 DEF SeqReachable
    <3>6. \A i : ~ InBoundary(i)
      BY <2>1 DEF InBoundary
    <3>7. DirectPaced'
      <4>1. ASSUME policy \notin {"Disabled", "Deferred"}
            PROVE  \A i \in Directs : i <= Watermark + Latency
        BY <1>i, <2>3, <3>6, <4>1 DEF DirectPaced
      <4>2. Watermark' = Watermark
        BY <1>c, <3>3 DEF Watermark
      <4> QED
        BY <1>c, <3>1, <3>2, <4>1, <4>2 DEF DirectPaced, InBoundary
    <3>8. DirectDeferred'
      <4>1. ASSUME policy = "Deferred"
            PROVE  \A i \in Directs : i + 1 <= completedSeqId + Latency
        BY <1>i, <2>1, <2>3, <4>1 DEF DirectDeferred
      <4>2. ASSUME policy = "Deferred"
            PROVE  Cardinality({i \in Directs \cup {L} : i > completedSeqId}) <= Latency
        <5> DEFINE S == {i \in Directs : i > completedSeqId}
                   I == (completedSeqId + 1)..(completedSeqId + Latency - 1)
                   T == {i \in Directs \cup {L} : i > completedSeqId}
        <5>1. S \subseteq I
          BY <1>0, <1>d, <4>1, <4>2
        <5>2. IsFiniteSet(I) /\ Cardinality(I) = Latency - 1
          <6>1. completedSeqId + 1 \in Int /\ completedSeqId + Latency - 1 \in Int
            BY <1>0
          <6>2. IsFiniteSet(I)
            BY <6>1, FS_Interval
          <6>3. Cardinality(I) =
                  IF completedSeqId + 1 > completedSeqId + Latency - 1 THEN 0
                  ELSE (completedSeqId + Latency - 1) - (completedSeqId + 1) + 1
            BY <6>1, FS_Interval
          <6> QED
            BY <1>0, <6>2, <6>3
        <5>3. IsFiniteSet(S) /\ Cardinality(S) <= Cardinality(I)
          BY <5>1, <5>2, FS_Subset
        <5>4. T = S \cup {L}
          BY <1>0, <3>4 DEF L
        <5>5. Cardinality(S \cup {L}) = Cardinality(S) + 1
          <6>1. L \notin S
            BY <3>4
          <6> QED
            BY <5>3, <6>1, FS_AddElement
        <5>6. Cardinality(S) \in Nat
          BY <5>3, FS_CardinalityType
        <5> HIDE DEF S, I, T
        <5>7. Cardinality(T) <= Latency
          BY <1>0, <5>2, <5>3, <5>4, <5>5, <5>6
        <5> QED
          BY <5>7 DEF T
      <4> QED
        BY <1>c, <3>1, <3>2, <3>3, <4>1, <4>2 DEF DirectDeferred, InBoundary
    <3>9. app'.pc \notin {"pace", "ordinalWait"}
      BY <3>1
    <3> QED
      BY <1>t, <1>c, <1>g, <1>q, <1>o, <2>1, <3>2, <3>a, <3>5, <3>7, <3>8, <3>9
      DEF PacingInv, replayVars, markVars, gateVars
  <2> QED
    BY <2>2, <2>3
<1>8. CASE ApplyBoundary
  <2> DEFINE n == app.target
             t == BoundaryTarget(n + 1)
  <2>1. /\ UNCHANGED <<replayVars, queueVars, markVars, deferredOrdinal, aborted, stop>>
        /\ app.pc = "boundary" /\ app'.pc = "run"
        /\ stop \/ ReachedBoundary(BoundaryTarget(n))
        /\ policy = "Deferred" => deferredSeq' = Max({deferredSeq, t})
        /\ policy # "Deferred" => deferredSeq' = deferredSeq
    BY <1>8 DEF ApplyBoundary, AppGoes
  <2>2. Directs' = Directs /\ UNCHANGED <<completedSeqId, dequeued, stop>>
    BY <1>u, <2>1 DEF queueVars, markVars
  <2>3. n \in Directs /\ \A i \in Directs : i <= n
    BY <1>i, <2>1 DEF BoundaryLast
  <2>4. BoundaryTarget(n) \in Nat /\ n <= BoundaryTarget(n) + Latency
    BY <1>0, <1>i, TargetBounds
  <2>5. t \in Nat /\ n + 1 <= t + Latency /\ t < n + 1
    <3>1. n + 1 \in Nat /\ n + 1 > 0
      BY <1>0
    <3> QED
      BY <1>i, <3>1, TargetBounds
  <2> HIDE DEF t
  <2>6. Max({deferredSeq, t}) = IF deferredSeq >= t THEN deferredSeq ELSE t
    BY <1>0, <2>5, TwoNumbers, deferredSeq \in Int, t \in Int
  <2>7. BoundaryLast'
    BY <2>1 DEF BoundaryLast
  <2>8. SeqReachable'
    <3>1. CASE policy = "Deferred"
      <4>1. CASE deferredSeq >= t
        BY <1>i, <2>1, <2>2, <2>6, <3>1, <4>1 DEF SeqReachable
      <4>2. CASE ~(deferredSeq >= t)
        <5>1. deferredSeq' = t /\ n >= t
          BY <1>0, <2>1, <2>5, <2>6, <3>1, <4>2
        <5> QED
          BY <2>2, <2>3, <5>1 DEF SeqReachable
      <4> QED
        BY <4>1, <4>2
    <3>2. CASE policy # "Deferred"
      BY <1>i, <2>1, <2>2, <3>2 DEF SeqReachable
    <3> QED
      BY <3>1, <3>2
  <2>9. DirectPaced'
    <3>1. ASSUME ~ stop, policy \notin {"Disabled", "Deferred"}
          PROVE  \A i \in Directs : i <= Watermark + Latency
      <4>1. ReachedBoundary(BoundaryTarget(n)) /\ policy \in AllPolicies
        BY <1>i, <2>1, <3>1 DEF ConfigOK
      <4>2. BoundaryTarget(n) <= Watermark /\ Watermark \in Nat
        BY <1>0, <2>4, <3>1, <4>1 DEF ReachedBoundary, Watermark, AllPolicies
      <4> QED
        BY <1>0, <1>d, <2>3, <2>4, <4>2
    <3>2. Watermark' = Watermark
      BY <1>c, <2>2 DEF Watermark
    <3> QED
      BY <1>c, <2>2, <3>1, <3>2 DEF DirectPaced
  <2>10. DirectDeferred'
    <3>1. ASSUME ~ stop, policy = "Deferred", NEW i \in Directs
          PROVE  i + 1 <= deferredSeq' + Latency \/ i + 1 <= completedSeqId + Latency
      <4>1. deferredSeq' \in Nat /\ deferredSeq' >= deferredSeq /\ deferredSeq' >= t
        BY <1>0, <2>1, <2>5, <2>6, <3>1
      <4>2. CASE i = n
        BY <1>0, <2>5, <4>1, <4>2
      <4>3. CASE i # n
        <5>1. i + 1 <= deferredSeq + Latency \/ i + 1 <= completedSeqId + Latency
          BY <1>i, <3>1, <4>3 DEF DirectDeferred, InBoundary
        <5> QED
          BY <1>0, <1>d, <4>1, <5>1
      <4> QED
        BY <4>2, <4>3
    <3>2. ASSUME ~ stop, policy = "Deferred"
          PROVE  Cardinality({i \in Directs : i > completedSeqId}) <= Latency
      BY <1>i, <3>2 DEF DirectDeferred
    <3> QED
      BY <1>c, <2>1, <2>2, <3>1, <3>2 DEF DirectDeferred
  <2> QED
    BY <1>t, <1>c, <1>g, <1>q, <1>o, <1>u, <2>1, <2>7, <2>8, <2>9, <2>10
    DEF PacingInv, replayVars, queueVars, markVars
<1>9. CASE Replay
  <2>1. /\ UNCHANGED <<presentOrdinal, encoded, settled, completedSeqId,
                 presentQueue, markVars, deferredOrdinal, aborted, stop, app>>
        /\ \/ chunks' = chunks
           \/ \E c \in {"draw", "paced"} : chunks' = Append(chunks, c)
    BY <1>9 DEF Replay
  <2>2. /\ Directs' = Directs /\ \A i \in 1..Len(chunks) : chunks'[i] = chunks[i]
    <3>1. CASE chunks' = chunks
      BY <1>u, <3>1
    <3>2. ASSUME NEW c \in {"draw", "paced"}, chunks' = Append(chunks, c)
          PROVE  Directs' = Directs /\ \A i \in 1..Len(chunks) : chunks'[i] = chunks[i]
      BY <1>i, <3>2, AppendChunk
    <3> QED
      BY <2>1, <3>1, <3>2
  <2>3. \/ deferredSeq' = deferredSeq
        \/ deferredSeq' = 0 /\ deferredSeq <= completedSeqId
    BY <1>i, <1>9, DrainDeferredEffect DEF Replay
  <2> QED
    BY <1>t, <1>c, <1>g, <1>q, <1>o, <1>b, <2>1, <2>2, <2>3 DEF PacingInv, markVars
<1>10. CASE ReplayFails
  <2>1. UNCHANGED <<presentOrdinal, queueVars, markVars, deferredOrdinal, deferredSeq, stop, app>>
        /\ aborted' = TRUE
    BY <1>10 DEF ReplayFails
  <2> QED
    BY <1>t, <1>c, <1>g, <1>q, <1>o, <1>b, <1>u, <2>1 DEF PacingInv, queueVars, markVars
<1>11. CASE Encode
  <2>1. UNCHANGED <<replayVars, chunks, settled, completedSeqId, presentQueue,
                    presentCompleted, completedOrdinal, gateVars, app>>
    BY <1>11 DEF Encode
  <2>2. dequeued' >= dequeued
    <3> DEFINE e == encoded + 1
    <3>1. dequeued' = IF IsPresent(e) THEN Max({dequeued, e}) ELSE dequeued
      BY <1>11 DEF Encode
    <3>2. e \in Int /\ dequeued \in Int
      BY <1>0
    <3> HIDE DEF e
    <3> QED
      BY <3>1, <3>2, TwoNumbers
  <2> QED
    BY <1>t, <1>c, <1>g, <1>q, <1>o, <1>b, <1>u, <2>1, <2>2 DEF PacingInv, replayVars, gateVars
<1>12. CASE EncodeFails
  <2>1. /\ UNCHANGED <<replayVars, chunks, completedSeqId, presentQueue,
                    markVars, deferredOrdinal, aborted, deferredSeq, app>>
        /\ settled' = settled \/ settled' = settled + 1
        /\ stop => stop'
    BY <1>12 DEF EncodeFails
  <2>2. settled' >= settled
    BY <1>0, <2>1
  <2> QED
    BY <1>t, <1>c, <1>g, <1>q, <1>o, <1>b, <1>u, <2>1, <2>2 DEF PacingInv, replayVars, markVars
<1>13. CASE GpuCompletes
  <2> DEFINE n == settled + 1
             q == presentQueue
  <2>1. /\ UNCHANGED <<replayVars, chunks, completedSeqId, markVars, gateVars, app>>
        /\ settled' = n /\ presentQueue' = IF IsPresent(n) THEN Append(q, n) ELSE q
    BY <1>13 DEF GpuCompletes
  <2>2. /\ \A i \in 1..Len(q) : q[i] \in (completedSeqId + 1)..settled /\ IsPresent(q[i])
        /\ \A i, j \in 1..Len(q) : i < j => q[i] < q[j]
        /\ presentCompleted > 0 => IsPresent(presentCompleted)
    BY <1>i DEF QueueExact
  <2>3. q \in Seq(Nat) /\ Len(q) \in Nat /\ n \in Nat /\ completedSeqId <= settled
    BY <1>0, <1>i DEF TypeOK
  <2>4. \A i : IsPresent(i)' <=> IsPresent(i)
    BY <2>1 DEF IsPresent
  <2>5. QueueExact'
    <3>1. CASE ~ IsPresent(n)
      <4>1. \A i \in 1..Len(q) : q[i] \in (completedSeqId + 1)..n
        BY <1>0, <2>2
      <4> QED
        BY <2>1, <2>2, <2>4, <3>1, <4>1 DEF QueueExact, markVars
    <3>2. CASE IsPresent(n)
      <4>1. /\ presentQueue' = Append(q, n) /\ Len(presentQueue') = Len(q) + 1
            /\ \A i \in 1..Len(q) : presentQueue'[i] = q[i]
            /\ presentQueue'[Len(q) + 1] = n
        BY <2>1, <2>3, <3>2
      <4>2. \A i \in 1..Len(q) : q[i] \in (completedSeqId + 1)..n /\ q[i] < n
        BY <1>0, <2>2
      <4>3. \A i \in 1..(Len(q) + 1) : i \in 1..Len(q) \/ i = Len(q) + 1
        BY <2>3
      <4>4. n \in (completedSeqId + 1)..n
        BY <1>0, <2>3
      <4>5. \A i \in 1..(Len(q) + 1) :
              presentQueue'[i] \in (completedSeqId + 1)..n /\ IsPresent(presentQueue'[i])
        BY <2>2, <3>2, <4>1, <4>2, <4>3, <4>4
      <4>6. ASSUME NEW i \in 1..(Len(q) + 1), NEW j \in 1..(Len(q) + 1), i < j
            PROVE  presentQueue'[i] < presentQueue'[j]
        <5>1. i \in 1..Len(q)
          BY <2>3, <4>6
        <5>2. CASE j \in 1..Len(q)
          BY <2>2, <4>1, <4>6, <5>1, <5>2
        <5>3. CASE j = Len(q) + 1
          BY <4>1, <4>2, <5>1, <5>3
        <5> QED
          BY <4>3, <5>2, <5>3
      <4> HIDE DEF n, q
      <4> QED
        BY <2>1, <2>2, <2>4, <4>1, <4>5, <4>6 DEF QueueExact, markVars
    <3> QED
      BY <3>1, <3>2
  <2>6. OrdinalCounted'
    BY <1>i, <2>1, <2>4 DEF OrdinalCounted, markVars
  <2> QED
    BY <1>t, <1>c, <1>g, <1>o, <1>b, <1>u, <2>1, <2>5, <2>6
    DEF PacingInv, replayVars, markVars, gateVars
<1>14. CASE Finish
  <2>1. /\ UNCHANGED <<replayVars, chunks, dequeued, gateVars, app>>
        /\ completedSeqId' = completedSeqId + 1
    BY <1>14 DEF Finish
  <2>2. QueueExact' /\ OrdinalCounted' /\ completedOrdinal' >= completedOrdinal
    BY <1>i, <1>14, FinishStep
  <2>3. completedSeqId' >= completedSeqId
    BY <1>0, <2>1
  <2> QED
    BY <1>t, <1>c, <1>g, <1>o, <1>b, <1>u, <2>1, <2>2, <2>3 DEF PacingInv, replayVars, gateVars
<1>15. CASE StopQueue
  <2>1. UNCHANGED <<replayVars, queueVars, markVars, deferredOrdinal, aborted, deferredSeq, app>>
        /\ stop' = TRUE
    BY <1>15 DEF StopQueue
  <2> QED
    BY <1>t, <1>c, <1>g, <1>q, <1>o, <1>b, <1>u, <2>1
    DEF PacingInv, replayVars, queueVars, markVars
<1>16. CASE UNCHANGED vars
  BY <1>t, <1>c, <1>g, <1>q, <1>o, <1>b, <1>u, <1>16
  DEF PacingInv, vars, replayVars, queueVars, markVars, gateVars
<1> QED
  BY <1>1, <1>2, <1>3, <1>4, <1>5, <1>6, <1>7, <1>8, <1>9, <1>10, <1>11, <1>12, <1>13,
     <1>14, <1>15, <1>16 DEF Next, AppStep

\* The invariant gives the two properties.
LEMMA PacingProperties ==
  ASSUME PacingInv
  PROVE  BoundariesSound /\ CompletionAccounting
<1>i. /\ TypeOK /\ ConfigOK /\ QueueExact /\ OrdinalCounted /\ OrdinalBehind /\ OrdinalPaced
      /\ BoundaryLast /\ DirectPaced /\ DirectDeferred /\ SeqReachable
  BY DEF PacingInv
<1>0. /\ Latency \in Nat /\ Latency >= 1 /\ Latency <= Allowed /\ Allowed \in Nat
      /\ Len(chunks) \in Nat /\ completedSeqId \in Nat /\ dequeued \in Nat
      /\ presentOrdinal \in Nat /\ completedOrdinal \in Nat
      /\ completedSeqId <= Len(chunks) /\ DOMAIN chunks = 1..Len(chunks)
      /\ DOMAIN presentQueue = 1..Len(presentQueue) /\ Len(presentQueue) \in Nat
      /\ \A i \in 1..Len(chunks) : chunks[i] \in {"draw", "paced", "direct"}
  <2>1. Latency \in Nat /\ Latency >= 1 /\ Latency <= Allowed /\ Allowed \in Nat
    BY <1>i, LatencyBounds
  <2> QED
    BY <1>i, <2>1 DEF TypeOK
<1>d. /\ Directs = {i \in DOMAIN chunks : chunks[i] = "direct"}
      /\ \A i \in Directs : i \in Nat
  BY <1>0 DEF Directs
<1>1. TargetsReachable
  BY <1>d, <1>i DEF TargetsReachable, OrdinalBehind, SeqReachable
<1>2. {i \in 1..completedSeqId : IsPresent(i)} = Retired("paced") \cup Retired("direct")
  BY <1>0 DEF Retired, IsPresent
<1>3. CompletionAccounting
  <2>1. \A i \in 1..(Len(presentQueue) - 1) : presentQueue[i] < presentQueue[i + 1]
    BY <1>0, <1>i DEF QueueExact
  <2> QED
    BY <1>0, <1>2, <1>i, <2>1 DEF CompletionAccounting, QueueExact, OrdinalCounted
<1>4. PacedLatencyBound
  <2> SUFFICES ASSUME app.pc = "run", ~ aborted, ~ stop, policy # "Disabled",
                      \A i \in DOMAIN chunks : chunks[i] # "direct"
               PROVE  presentOrdinal - Cardinality(Retired("paced")) <= Allowed
    BY DEF PacedLatencyBound
  <2>1. presentOrdinal <= completedOrdinal + Latency
    BY <1>i DEF OrdinalPaced
  <2>2. {i \in 1..completedSeqId : IsPresent(i)} = Retired("paced")
    BY <1>0 DEF Retired, IsPresent
  <2>3. completedOrdinal <= Cardinality(Retired("paced"))
    BY <1>i, <2>2 DEF OrdinalCounted
  <2>4. Cardinality(Retired("paced")) \in Nat
    <3>1. IsFiniteSet(1..completedSeqId)
      BY <1>0, FS_Interval, 1 \in Int, completedSeqId \in Int
    <3>2. Retired("paced") \subseteq 1..completedSeqId
      BY DEF Retired
    <3> QED
      BY <3>1, <3>2, FS_Subset, FS_CardinalityType
  <2> QED
    BY <1>0, <2>1, <2>3, <2>4
<1>5. DirectLatencyBound
  <2> DEFINE S == {i \in DOMAIN chunks : chunks[i] = "direct" /\ i > Watermark}
  <2> SUFFICES ASSUME app.pc = "run", ~ stop, policy # "Disabled"
               PROVE  Cardinality(S) <= Allowed
    BY DEF DirectLatencyBound
  <2>1. S = {i \in Directs : i > Watermark}
    BY <1>d
  <2>2. CASE policy = "Deferred"
    <3>1. S = {i \in Directs : i > completedSeqId}
      BY <2>1, <2>2 DEF Watermark
    <3> HIDE DEF S
    <3>2. Cardinality(S) <= Latency
      BY <1>i, <2>2, <3>1 DEF DirectDeferred
    <3>3. Cardinality(S) \in Nat
      <4>1. IsFiniteSet(1..Len(chunks))
        BY <1>0, FS_Interval, 1 \in Int, Len(chunks) \in Int
      <4>2. S \subseteq 1..Len(chunks)
        BY <3>1 DEF Directs
      <4> QED
        BY <4>1, <4>2, FS_Subset, FS_CardinalityType
    <3> QED
      BY <1>0, <3>2, <3>3
  <2>3. CASE policy # "Deferred"
    <3> DEFINE w == Watermark
               I == (w + 1)..(w + Latency)
    <3>1. \A i \in Directs : i <= w + Latency
      BY <1>i, <2>3 DEF DirectPaced, InBoundary
    <3>2. w \in Nat
      BY <1>0 DEF Watermark
    <3> HIDE DEF w
    <3>3. S \subseteq I
      BY <1>0, <1>d, <2>1, <3>1, <3>2 DEF w
    <3>4. w + 1 \in Int /\ w + Latency \in Int
      BY <1>0, <3>2
    <3>5. /\ IsFiniteSet(I)
          /\ Cardinality(I) = IF w + 1 > w + Latency THEN 0 ELSE (w + Latency) - (w + 1) + 1
      BY <3>4, FS_Interval
    <3>6. Cardinality(I) = Latency
      BY <1>0, <3>2, <3>5
    <3>7. Cardinality(S) <= Cardinality(I) /\ IsFiniteSet(S)
      BY <3>3, <3>5, FS_Subset
    <3>8. Cardinality(S) \in Nat
      BY <3>7, FS_CardinalityType
    <3> HIDE DEF S, I
    <3> QED
      BY <1>0, <3>6, <3>7, <3>8
  <2> QED
    BY <2>2, <2>3
<1> QED
  BY <1>1, <1>3, <1>4, <1>5 DEF BoundariesSound

\* The invariant holds when nothing was presented yet.
LEMMA PacingInit == Init => PacingInv
<1> SUFFICES ASSUME Init PROVE PacingInv
  OBVIOUS
<1>1. TypeOK
  <2>1. /\ offload \in Seq({"draw", "present"}) /\ presentQueue \in Seq(Nat)
        /\ chunks \in Seq({"draw", "paced", "direct"}) /\ Len(chunks) = 0
    BY EmptySeq DEF Init
  <2>2. app \in [pc : {"run", "pace", "ordinalWait", "submit", "publish", "boundary"},
                 target : Nat]
    BY DEF Init
  <2>3. /\ encoded \in 0..Len(chunks) /\ settled \in 0..encoded
        /\ completedSeqId \in 0..settled /\ dequeued \in 0..encoded
        /\ presentCompleted \in 0..completedSeqId
    BY <2>1 DEF Init
  <2>4. /\ presentOrdinal \in Nat /\ completedOrdinal \in Nat
        /\ deferredOrdinal \in Nat /\ deferredSeq \in Nat
    BY DEF Init
  <2>5. failed \in BOOLEAN /\ aborted \in BOOLEAN /\ stop \in BOOLEAN
    BY DEF Init
  <2> QED
    BY <2>1, <2>2, <2>3, <2>4, <2>5 DEF TypeOK
<1>2. ConfigOK
  BY PacingAssumption DEF Init, ConfigOK
<1>3. Latency \in Nat /\ Latency >= 1
  BY <1>2, LatencyBounds
<1>4. /\ Directs = {} /\ presentQueue = <<>> /\ presentCompleted = 0 /\ deferredSeq = 0
      /\ completedOrdinal = 0 /\ completedSeqId = 0 /\ app.pc = "run"
      /\ deferredOrdinal = 0 /\ presentOrdinal = 0
  BY DEF Init, Directs
<1>5. QueueExact /\ OrdinalBehind /\ BoundaryLast /\ DirectPaced /\ SeqReachable
  BY <1>4 DEF QueueExact, OrdinalBehind, BoundaryLast, DirectPaced, SeqReachable
<1>6. OrdinalPaced
  BY <1>3, <1>4 DEF OrdinalPaced
<1>7. OrdinalCounted
  <2>1. {i \in 1..completedSeqId : IsPresent(i)} = {}
    BY <1>4
  <2> QED
    BY <1>4, <2>1, FS_EmptySet DEF OrdinalCounted
<1>8. DirectDeferred
  <2>1. {i \in Directs : i > completedSeqId} = {}
    BY <1>4
  <2>2. Cardinality({i \in Directs : i > completedSeqId}) = 0
    BY <2>1, FS_EmptySet
  <2> QED
    BY <1>3, <1>4, <2>2 DEF DirectDeferred
<1> QED
  BY <1>1, <1>2, <1>5, <1>6, <1>7, <1>8 DEF PacingInv

\* A boundary neither lets the application run further ahead than it allowed nor
\* waits for a Present that was not made, for every latency, cap and policy.
THEOREM BoundariesCorrect == Spec => []BoundariesSound
<1>1. PacingInv => BoundariesSound
  BY PacingProperties
<1> QED
  BY <1>1, PacingInit, PacingStep, PTL DEF Spec

\* The present queue holds Presents that are settled and not drained, each once
\* and in order, and no ordinal is retired before its sequence, for every number
\* of chunks.
THEOREM AccountingCorrect == Spec => []CompletionAccounting
<1>1. PacingInv => CompletionAccounting
  BY PacingProperties
<1> QED
  BY <1>1, PacingInit, PacingStep, PTL DEF Spec
=============================================================================

----------------------------- MODULE QueueProofs -----------------------------
(***************************************************************************)
(* Proofs about QueueLifecycle, for any number of slots, receipts, session *)
(* sources and sequences: the order of the pipeline, that the queue keeps  *)
(* OrderedCompletion's promise, and what follows for its callers.          *)
(***************************************************************************)
EXTENDS QueueRefinement, SequenceTheorems, FiniteSetTheorems,
        WellFoundedInduction, TLAPS

-----------------------------------------------------------------------------
(* Types, and what the tape's operators do. *)

TapeStates == {"Writing", "Ready", "Tentative", "Represented", "Submitted",
               "Completed", "Reclaiming"}
SourceType == [seq : Nat, slot : SlotIds, receipt : BOOLEAN]
EntryType  == [seq : Nat, slot : SlotIds, state : TapeStates, bound : BOOLEAN]
JobType    == [slot : 0..SlotCount, seq : Nat, want : Nat, target : Nat]

\* The constants, by QueueConfig.
LEMMA Sizes ==
  /\ SlotCount \in Nat /\ SlotCount > 1 /\ ReceiptCount \in Nat /\ ReceiptCount > 0
  /\ SessionSources \in Nat /\ MaxSeqId \in Nat
  /\ NoSlot \notin SlotIds /\ Everything = MaxSeqId + 1
BY QueueConfig DEF NoSlot, SlotIds, Everything

\* A nonempty set of numbers has a least one.
LEMMA LeastNumber ==
  ASSUME NEW T \in SUBSET Nat, T # {}
  PROVE  \E x \in T : \A y \in T : x <= y
<1>1. PICK x \in T : \A y \in T : ~ (<<y, x>> \in OpToRel(<, Nat))
  BY NatLessThanWellFounded, WFMin
<1>2. \A y \in T : ~ (y < x)
  BY <1>1 DEF OpToRel
<1> QED
  BY <1>2

\* A set of numbers below a bound has a greatest one.
LEMMA GreatestNumber ==
  ASSUME NEW n \in Nat, NEW T \in SUBSET (0..n), T # {}
  PROVE  \E x \in T : \A y \in T : x >= y
<1> DEFINE U == {n - x : x \in T}
<1>1. U \in SUBSET Nat /\ U # {}
  <2>1. \A x \in T : n - x \in Nat
    OBVIOUS
  <2> QED
    BY <2>1
<1>2. PICK u \in U : \A y \in U : u <= y
  BY <1>1, LeastNumber
<1>3. PICK x \in T : u = n - x
  OBVIOUS
<1>4. \A y \in T : n - x <= n - y
  BY <1>2, <1>3
<1>5. \A y \in T : x >= y
  BY <1>4
<1> QED
  BY <1>5

\* Min and Max of two numbers.
LEMMA TwoNumbers ==
  ASSUME NEW a \in Int, NEW b \in Int
  PROVE  /\ Max({a, b}) = IF a >= b THEN a ELSE b
         /\ Min({a, b}) = IF a <= b THEN a ELSE b
<1>1. /\ \E x \in {a, b} : \A y \in {a, b} : x >= y
      /\ \E x \in {a, b} : \A y \in {a, b} : x <= y
  <2>1. CASE a >= b
    BY <2>1
  <2>2. CASE ~(a >= b)
    BY <2>2
  <2> QED
    BY <2>1, <2>2
<1>2. /\ Max({a, b}) \in {a, b} /\ \A y \in {a, b} : Max({a, b}) >= y
      /\ Min({a, b}) \in {a, b} /\ \A y \in {a, b} : Min({a, b}) <= y
  BY <1>1 DEF Max, Min
<1> QED
  BY <1>2

\* Min and Max of an interval given by its members.
LEMMA Interval ==
  ASSUME NEW n \in Nat, NEW A \in SUBSET (1..n), A # {},
         \A i, j \in A : \A k \in 1..n : i < k /\ k < j => k \in A
  PROVE  \E a, b \in 1..n : /\ a <= b /\ Min(A) = a /\ Max(A) = b
                            /\ \A i \in 1..n : i \in A <=> a <= i /\ i <= b
<1>1. PICK a \in A : \A y \in A : a <= y
  BY LeastNumber
<1>2. PICK b \in A : \A y \in A : b >= y
  <2>1. A \in SUBSET (0..n)
    OBVIOUS
  <2> QED
    BY <2>1, GreatestNumber
<1>3. Min(A) \in A /\ \A y \in A : Min(A) <= y
  BY <1>1 DEF Min
<1>4. Max(A) \in A /\ \A y \in A : Max(A) >= y
  BY <1>2 DEF Max
<1>5. Min(A) = a /\ Max(A) = b
  <2>1. a \in Nat /\ b \in Nat /\ Min(A) \in Nat /\ Max(A) \in Nat
    <3>1. \A i \in A : i \in Nat
      OBVIOUS
    <3> QED
      BY <1>1, <1>2, <1>3, <1>4, <3>1
  <2>2. Min(A) <= a /\ a <= Min(A) /\ Max(A) >= b /\ b >= Max(A)
    BY <1>1, <1>2, <1>3, <1>4
  <2> QED
    BY <2>1, <2>2
<1>6. a \in 1..n /\ b \in 1..n /\ a <= b
  BY <1>1, <1>2
<1>7. \A i \in 1..n : i \in A <=> a <= i /\ i <= b
  <2> TAKE i \in 1..n
  <2>1. ASSUME i \in A PROVE a <= i /\ i <= b
    BY <1>1, <1>2, <2>1
  <2>2. ASSUME a <= i, i <= b PROVE i \in A
    <3>1. i = a \/ i = b \/ (a < i /\ i < b)
      BY <1>6, <2>2
    <3> QED
      BY <1>1, <1>2, <3>1
  <2> QED
    BY <2>1, <2>2
<1> QED
  BY <1>5, <1>6, <1>7

\* The sources of a sequence, by their numbers.
LEMMA DomainLen ==
  ASSUME NEW S, NEW s \in Seq(S)
  PROVE  /\ Len(s) \in Nat /\ DOMAIN s = 1..Len(s)
         /\ \A i \in 1..Len(s) : s[i] \in S
         /\ s = <<>> <=> Len(s) = 0
BY LenProperties, EmptySeq, ElementOfSeq

\* A sequence without its head.
LEMMA TailEffect ==
  ASSUME NEW S, NEW s \in Seq(S), s # <<>>
  PROVE  /\ Tail(s) \in Seq(S) /\ Len(Tail(s)) = Len(s) - 1 /\ Len(s) \in Nat \ {0}
         /\ Head(s) = s[1] /\ s[1] \in S
         /\ \A i \in 1..(Len(s) - 1) : i + 1 \in 1..Len(s) /\ Tail(s)[i] = s[i + 1]
<1>1. /\ Head(s) \in S /\ Tail(s) \in Seq(S) /\ Len(Tail(s)) = Len(s) - 1
      /\ \A i \in 1..Len(Tail(s)) : Tail(s)[i] = s[i + 1]
  BY HeadTailProperties
<1>2. Len(s) \in Nat \ {0}
  BY DomainLen
<1> QED
  BY <1>1, <1>2

\* A sequence with one more entry.
LEMMA AppendEffect ==
  ASSUME NEW S, NEW s \in Seq(S), NEW x \in S
  PROVE  /\ Append(s, x) \in Seq(S) /\ Len(Append(s, x)) = Len(s) + 1
         /\ \A i \in 1..Len(s) : Append(s, x)[i] = s[i]
         /\ Append(s, x)[Len(s) + 1] = x
         /\ Append(s, x) # <<>>
OBVIOUS

\* Elementwise changes.
LEMMA MovedEffect ==
  ASSUME NEW t \in Seq(EntryType), NEW q, NEW st \in TapeStates
  PROVE  LET m == Moved(t, q, st)
         IN  /\ m \in Seq(EntryType) /\ Len(m) = Len(t)
             /\ \A i \in 1..Len(t) :
                  /\ m[i].seq = t[i].seq /\ m[i].slot = t[i].slot
                  /\ m[i].bound = t[i].bound
                  /\ t[i].seq \in q => m[i].state = st
                  /\ t[i].seq \notin q => m[i] = t[i]
<1> DEFINE m == Moved(t, q, st)
<1>1. Len(t) \in Nat /\ DOMAIN t = 1..Len(t) /\ \A i \in 1..Len(t) : t[i] \in EntryType
  BY DomainLen
<1>2. m = [i \in 1..Len(t) |->
             IF t[i].seq \in q THEN [t[i] EXCEPT !.state = st] ELSE t[i]]
  BY <1>1 DEF Moved
<1>3. \A e \in EntryType :
        /\ [e EXCEPT !.state = st] \in EntryType
        /\ [e EXCEPT !.state = st].seq = e.seq
        /\ [e EXCEPT !.state = st].slot = e.slot
        /\ [e EXCEPT !.state = st].bound = e.bound
        /\ [e EXCEPT !.state = st].state = st
  BY DEF EntryType
<1>4. \A i \in 1..Len(t) : m[i] \in EntryType
  BY <1>1, <1>2, <1>3
<1>5. m \in Seq(EntryType) /\ Len(m) = Len(t)
  BY <1>1, <1>2, <1>4
<1>6. \A i \in 1..Len(t) :
        /\ m[i].seq = t[i].seq /\ m[i].slot = t[i].slot
        /\ m[i].bound = t[i].bound
        /\ t[i].seq \in q => m[i].state = st
        /\ t[i].seq \notin q => m[i] = t[i]
  BY <1>1, <1>2, <1>3
<1> QED
  BY <1>5, <1>6

\* The tape without its last entry.
LEMMA FrontEffect ==
  ASSUME NEW S, NEW s \in Seq(S), s # <<>>
  PROVE  /\ Front(s) \in Seq(S) /\ Len(Front(s)) = Len(s) - 1
         /\ \A i \in 1..(Len(s) - 1) : Front(s)[i] = s[i]
<1>1. Len(s) \in Nat \ {0} /\ \A i \in 1..Len(s) : s[i] \in S
  BY DomainLen
<1>2. Front(s) = [i \in 1..(Len(s) - 1) |-> s[i]]
  BY <1>1 DEF Front
<1>3. \A i \in 1..(Len(s) - 1) : s[i] \in S
  BY <1>1
<1>4. Len(s) - 1 \in Nat
  BY <1>1
<1> QED
  BY <1>2, <1>3, <1>4, IsASeq

\* A part of a sequence.
LEMMA PartEffect ==
  ASSUME NEW S, NEW s \in Seq(S), NEW a \in 1..Len(s), NEW b \in a..Len(s)
  PROVE  /\ SubSeq(s, a, b) \in Seq(S) /\ Len(SubSeq(s, a, b)) = b - a + 1
         /\ \A i \in 1..(b - a + 1) :
              a + i - 1 \in 1..Len(s) /\ SubSeq(s, a, b)[i] = s[a + i - 1]
OBVIOUS

-----------------------------------------------------------------------------
(* The tape in stages. *)

\* A tape of sequences up to c: the open chunk last, ready residents before it,
\* a reserved prefix before those, oldest first.
Staged(t, c) ==
  /\ \A i, j \in 1..Len(t) : i < j =>
       /\ t[i].state # "Writing"
       /\ t[i].state = "Ready" => t[j].state \in {"Ready", "Writing"}
       /\ t[i].state = "Tentative" => t[j].state \in {"Tentative", "Ready", "Writing"}
       /\ t[j].state = "Writing" \/ t[i].seq < t[j].seq
  /\ \A i \in 1..Len(t) :
       /\ t[i].seq <= c
       /\ t[i].seq = 0 <=> t[i].state = "Writing"

\* The sequences that wait on a tape to be represented.
Awaiting == {"Tentative", "Ready"}
WaitingOf(t) == {t[i].seq : i \in {k \in 1..Len(t) : t[k].state \in Awaiting}}

\* Sources from the tape state Represented on are bound to their query sequence.
BoundOf(t) ==
  \A i \in 1..Len(t) : t[i].state \in {"Writing", "Ready"} \/ t[i].bound

\* The fields of the tape's entries.
LEMMA EntryParts ==
  ASSUME NEW t \in Seq(EntryType)
  PROVE  /\ Len(t) \in Nat
         /\ \A i \in 1..Len(t) :
              /\ t[i] \in EntryType /\ t[i].seq \in Nat /\ t[i].slot \in SlotIds
              /\ t[i].state \in TapeStates /\ t[i].bound \in BOOLEAN
<1>1. Len(t) \in Nat /\ \A i \in 1..Len(t) : t[i] \in EntryType
  BY DomainLen
<1>2. \A e \in EntryType : /\ e.seq \in Nat /\ e.slot \in SlotIds
                           /\ e.state \in TapeStates /\ e.bound \in BOOLEAN
  BY DEF EntryType
<1> QED
  BY <1>1, <1>2

\* A sequence has one resident.
LEMMA StagedDistinct ==
  ASSUME NEW t \in Seq(EntryType), NEW c, Staged(t, c),
         NEW i \in 1..Len(t), NEW j \in 1..Len(t), t[i].seq = t[j].seq
  PROVE  i = j
<1>1. /\ t[i].seq \in Nat /\ t[j].seq \in Nat /\ Len(t) \in Nat
      /\ t[i].seq = 0 <=> t[i].state = "Writing"
      /\ t[j].seq = 0 <=> t[j].state = "Writing"
  BY EntryParts DEF Staged
<1>2. ASSUME NEW k \in 1..Len(t), NEW m \in 1..Len(t), k < m, t[k].seq = t[m].seq
      PROVE  FALSE
  <2>1. t[k].state # "Writing" /\ (t[m].state = "Writing" \/ t[k].seq < t[m].seq)
    BY <1>2 DEF Staged
  <2>2. t[k].seq = 0 <=> t[k].state = "Writing"
    BY DEF Staged
  <2>3. t[m].seq = 0 <=> t[m].state = "Writing"
    BY DEF Staged
  <2>4. t[k].seq \in Nat /\ t[m].seq \in Nat
    BY EntryParts
  <2> QED
    BY <1>2, <2>1, <2>2, <2>3, <2>4
<1> QED
  BY <1>1, <1>2

\* The residents in a state, as Span finds them: none, or those from a to b.
SpanAt(s, st, a, b) ==
  /\ a \in 1..Len(tape) /\ b \in 1..Len(tape) /\ a <= b
  /\ s \in Seq(EntryType) /\ Len(s) = b - a + 1
  /\ \A i \in 1..Len(tape) : tape[i].state = st <=> a <= i /\ i <= b
  /\ \A i \in 1..Len(s) : a + i - 1 \in a..b /\ s[i] = tape[a + i - 1]

\* The span of a state is an interval of the tape, and all of that state.
LEMMA SpanEffect ==
  ASSUME tape \in Seq(EntryType), NEW c, Staged(tape, c),
         NEW st \in {"Ready", "Tentative"}
  PROVE  \/ Span(st) = <<>> /\ \A i \in 1..Len(tape) : tape[i].state # st
         \/ \E a, b \in 1..Len(tape) : SpanAt(Span(st), st, a, b)
<1> DEFINE A == Positions(st)
<1>1. Len(tape) \in Nat /\ DOMAIN tape = 1..Len(tape)
  BY DomainLen
<1>2. A \in SUBSET (1..Len(tape)) /\ \A i \in 1..Len(tape) : i \in A <=> tape[i].state = st
  BY <1>1 DEF Positions
<1>3. Span(st) = IF A = {} THEN <<>> ELSE SubSeq(tape, Min(A), Max(A))
  BY DEF Span
<1> HIDE DEF A
<1>4. CASE A = {}
  BY <1>2, <1>3, <1>4
<1>5. CASE A # {}
  <2>1. ASSUME NEW i \in A, NEW j \in A, NEW k \in 1..Len(tape), i < k, k < j
        PROVE  k \in A
    <3>1. tape[i].state = st /\ tape[j].state = st
      BY <1>2
    <3>2. i \in 1..Len(tape) /\ j \in 1..Len(tape)
      BY <1>2
    <3>3. /\ tape[i].state = "Ready" => tape[k].state \in {"Ready", "Writing"}
          /\ tape[i].state = "Tentative" => tape[k].state \in {"Tentative", "Ready", "Writing"}
      BY <2>1, <3>2 DEF Staged
    <3>4. /\ tape[k].state # "Writing"
          /\ tape[k].state = "Ready" => tape[j].state \in {"Ready", "Writing"}
      BY <2>1, <3>2 DEF Staged
    <3>5. tape[k].state = st
      BY <3>1, <3>3, <3>4
    <3> QED
      BY <1>2, <3>5
  <2>2. PICK a \in 1..Len(tape), b \in 1..Len(tape) :
          /\ a <= b /\ Min(A) = a /\ Max(A) = b
          /\ \A i \in 1..Len(tape) : i \in A <=> a <= i /\ i <= b
    BY <1>1, <1>2, <1>5, <2>1, Interval
  <2>3. Span(st) = SubSeq(tape, a, b)
    BY <1>3, <1>5, <2>2
  <2>4. b \in a..Len(tape)
    BY <1>1, <2>2
  <2>5. /\ SubSeq(tape, a, b) \in Seq(EntryType) /\ Len(SubSeq(tape, a, b)) = b - a + 1
        /\ \A i \in 1..(b - a + 1) :
             a + i - 1 \in 1..Len(tape) /\ SubSeq(tape, a, b)[i] = tape[a + i - 1]
    BY <2>4, PartEffect
  <2>6. \A i \in 1..(b - a + 1) : a + i - 1 \in a..b
    BY <1>1, <2>2
  <2>7. \A i \in 1..Len(tape) : tape[i].state = st <=> a <= i /\ i <= b
    BY <1>2, <2>2
  <2>8. SpanAt(Span(st), st, a, b)
    BY <2>2, <2>3, <2>5, <2>6, <2>7 DEF SpanAt
  <2> QED
    BY <2>8
<1> QED
  BY <1>4, <1>5

-----------------------------------------------------------------------------
(* What each change of the tape does to its stages. *)

\* A sequence waits if a resident in either state has it.
LEMMA InWaiting ==
  ASSUME NEW t \in Seq(EntryType)
  PROVE  /\ \A x : x \in WaitingOf(t) <=>
               \E i \in 1..Len(t) : t[i].state \in Awaiting /\ t[i].seq = x
         /\ \A i \in 1..Len(t) : t[i].state \in Awaiting => t[i].seq \in WaitingOf(t)
BY DEF WaitingOf

\* The open chunk is appended.
LEMMA StagedAppend ==
  ASSUME NEW t \in Seq(EntryType), NEW c \in Nat, Staged(t, c), BoundOf(t),
         \A i \in 1..Len(t) : t[i].state # "Writing",
         NEW e \in EntryType, e.state = "Writing", e.seq = 0
  PROVE  /\ Staged(Append(t, e), c) /\ BoundOf(Append(t, e))
         /\ WaitingOf(Append(t, e)) = WaitingOf(t)
<1> DEFINE u == Append(t, e)
<1>1. /\ u \in Seq(EntryType) /\ Len(u) = Len(t) + 1 /\ Len(t) \in Nat
      /\ \A i \in 1..Len(t) : u[i] = t[i]
      /\ u[Len(t) + 1] = e
  BY AppendEffect, DomainLen
<1> HIDE DEF u
<1>2. \A i \in 1..Len(u) : i \in 1..Len(t) \/ i = Len(t) + 1
  BY <1>1
<1>3. Staged(u, c)
  <2>1. \A i \in 1..Len(u) : u[i].seq <= c /\ (u[i].seq = 0 <=> u[i].state = "Writing")
    <3> TAKE i \in 1..Len(u)
    <3>1. CASE i \in 1..Len(t)
      BY <1>1, <3>1 DEF Staged
    <3>2. CASE i = Len(t) + 1
      BY <1>1, <3>2
    <3> QED
      BY <1>2, <3>1, <3>2
  <2>2. ASSUME NEW i \in 1..Len(u), NEW j \in 1..Len(u), i < j
        PROVE  /\ u[i].state # "Writing"
               /\ u[i].state = "Ready" => u[j].state \in {"Ready", "Writing"}
               /\ u[i].state = "Tentative" => u[j].state \in {"Tentative", "Ready", "Writing"}
               /\ u[j].state = "Writing" \/ u[i].seq < u[j].seq
    <3>1. i \in 1..Len(t) /\ u[i] = t[i]
      BY <1>1, <2>2
    <3>2. CASE j \in 1..Len(t)
      BY <1>1, <2>2, <3>1, <3>2 DEF Staged
    <3>3. CASE j = Len(t) + 1
      BY <1>1, <3>1, <3>3
    <3> QED
      BY <1>2, <3>2, <3>3
  <2> QED
    BY <2>1, <2>2 DEF Staged
<1>4. BoundOf(u)
  BY <1>1, <1>2 DEF BoundOf
<1>5. \A x : x \in WaitingOf(u) <=> x \in WaitingOf(t)
  <2>1. \A i \in 1..Len(t) : i \in 1..Len(u)
    BY <1>1
  <2> QED
    BY <1>1, <1>2, <2>1, InWaiting DEF Awaiting
<1> QED
  BY <1>3, <1>4, <1>5 DEF u

\* The open chunk is published.
LEMMA StagedPublish ==
  ASSUME NEW t \in Seq(EntryType), NEW c \in Nat, Staged(t, c), BoundOf(t),
         t # <<>>, t[Len(t)].state = "Writing",
         NEW e \in EntryType, e.state = "Ready", e.seq = c + 1,
         NEW u \in Seq(EntryType), Len(u) = Len(t), u[Len(t)] = e,
         \A i \in 1..(Len(t) - 1) : u[i] = t[i]
  PROVE  /\ Staged(u, c + 1) /\ BoundOf(u)
         /\ WaitingOf(u) = WaitingOf(t) \cup {c + 1}
         /\ \A i \in 1..Len(u) : u[i].state # "Writing"
<1> DEFINE n == Len(t)
<1>1. n \in Nat \ {0} /\ DOMAIN t = 1..n
  BY DomainLen
<1>2. /\ u \in Seq(EntryType) /\ Len(u) = n /\ u[n] = e
      /\ \A i \in 1..(n - 1) : u[i] = t[i]
  BY <1>1, ExceptSeq
<1>3. \A i \in 1..n : i \in 1..(n - 1) \/ i = n
  <2> HIDE DEF n
  <2> QED
    BY <1>1
<1>4. \A i \in 1..(n - 1) : /\ i \in 1..n /\ i < n
                            /\ t[i].state # "Writing" /\ t[i].seq <= c /\ t[i].seq \in Nat
                            /\ t[i].seq # 0
  <2> TAKE i \in 1..(n - 1)
  <2>1. i \in 1..n /\ n \in 1..n /\ i < n
    BY <1>1
  <2>2. t[i].seq \in Nat
    BY <2>1, EntryParts
  <2> QED
    BY <2>1, <2>2 DEF Staged
<1> HIDE DEF n
<1>5. \A i \in 1..n : u[i].state # "Writing"
  BY <1>2, <1>3, <1>4
<1>6. Staged(u, c + 1)
  <2>1. \A i \in 1..n : u[i].seq <= c + 1 /\ (u[i].seq = 0 <=> u[i].state = "Writing")
    BY <1>2, <1>3, <1>4
  <2>2. ASSUME NEW i \in 1..n, NEW j \in 1..n, i < j
        PROVE  /\ u[i].state # "Writing"
               /\ u[i].state = "Ready" => u[j].state \in {"Ready", "Writing"}
               /\ u[i].state = "Tentative" => u[j].state \in {"Tentative", "Ready", "Writing"}
               /\ u[j].state = "Writing" \/ u[i].seq < u[j].seq
    <3>1. i \in 1..(n - 1) /\ u[i] = t[i]
      BY <1>1, <1>2, <2>2
    <3>2. CASE j \in 1..(n - 1)
      BY <1>2, <1>4, <2>2, <3>1, <3>2 DEF Staged, n
    <3>3. CASE j = n
      BY <1>2, <1>4, <3>1, <3>3
    <3> QED
      BY <1>3, <3>2, <3>3
  <2> QED
    BY <1>2, <2>1, <2>2 DEF Staged
<1>7. BoundOf(u)
  <2>1. \A i \in 1..n : u[i].state \in {"Writing", "Ready"} \/ u[i].bound
    BY <1>2, <1>3, <1>4 DEF BoundOf, n
  <2> QED
    BY <1>2, <2>1 DEF BoundOf
<1>8. \A x : x \in WaitingOf(u) <=> x \in WaitingOf(t) \cup {c + 1}
  <2>1. \A x : x \in WaitingOf(u) <=> \E i \in 1..n : u[i].state \in Awaiting /\ u[i].seq = x
    BY <1>2, InWaiting
  <2>2. \A x : x \in WaitingOf(t) <=> \E i \in 1..n : t[i].state \in Awaiting /\ t[i].seq = x
    BY InWaiting DEF n
  <2>3. t[n].state \notin Awaiting /\ u[n].state \in Awaiting /\ u[n].seq = c + 1
    BY <1>2 DEF Awaiting, n
  <2>4. n \in 1..n
    BY <1>1 DEF n
  <2> QED
    BY <1>2, <1>3, <1>4, <2>1, <2>2, <2>3, <2>4, SMTT(20)
<1> QED
  BY <1>2, <1>5, <1>6, <1>7, <1>8 DEF n

\* A part of the tape, from its k + 1st resident on, or up to its last but one.
LEMMA StagedPart ==
  ASSUME NEW t \in Seq(EntryType), NEW c, Staged(t, c), BoundOf(t),
         NEW u \in Seq(EntryType), NEW k \in Nat, Len(u) + k <= Len(t),
         \A i \in 1..Len(u) : u[i] = t[i + k]
  PROVE  Staged(u, c) /\ BoundOf(u) /\ WaitingOf(u) \subseteq WaitingOf(t)
<1>1. Len(t) \in Nat /\ Len(u) \in Nat
  BY DomainLen
<1>2. \A i \in 1..Len(u) : i + k \in 1..Len(t)
  BY <1>1
<1>3. \A i, j \in 1..Len(u) : i < j => i + k < j + k
  BY <1>1
<1>4. Staged(u, c)
  <2>1. \A i \in 1..Len(u) : u[i].seq <= c /\ (u[i].seq = 0 <=> u[i].state = "Writing")
    BY <1>2 DEF Staged
  <2>2. ASSUME NEW i \in 1..Len(u), NEW j \in 1..Len(u), i < j
        PROVE  /\ u[i].state # "Writing"
               /\ u[i].state = "Ready" => u[j].state \in {"Ready", "Writing"}
               /\ u[i].state = "Tentative" => u[j].state \in {"Tentative", "Ready", "Writing"}
               /\ u[j].state = "Writing" \/ u[i].seq < u[j].seq
    <3>1. /\ i + k \in 1..Len(t) /\ j + k \in 1..Len(t) /\ i + k < j + k
          /\ u[i] = t[i + k] /\ u[j] = t[j + k]
      BY <1>2, <1>3, <2>2
    <3> QED
      BY <3>1 DEF Staged
  <2> QED
    BY <2>1, <2>2 DEF Staged
<1>5. BoundOf(u)
  BY <1>2 DEF BoundOf
<1>6. WaitingOf(u) \subseteq WaitingOf(t)
  BY <1>2, InWaiting
<1> QED
  BY <1>4, <1>5, <1>6

\* The oldest resident leaves; it was not waiting.
LEMMA StagedTail ==
  ASSUME NEW t \in Seq(EntryType), NEW c, Staged(t, c), BoundOf(t), t # <<>>
  PROVE  /\ Staged(Tail(t), c) /\ BoundOf(Tail(t))
         /\ WaitingOf(Tail(t)) \subseteq WaitingOf(t)
         /\ t[1].state \notin Awaiting => WaitingOf(Tail(t)) = WaitingOf(t)
<1>1. /\ Tail(t) \in Seq(EntryType) /\ Len(Tail(t)) = Len(t) - 1 /\ Len(t) \in Nat \ {0}
      /\ \A i \in 1..(Len(t) - 1) : i + 1 \in 1..Len(t) /\ Tail(t)[i] = t[i + 1]
  BY TailEffect
<1>2. Staged(Tail(t), c) /\ BoundOf(Tail(t)) /\ WaitingOf(Tail(t)) \subseteq WaitingOf(t)
  <2>1. Len(Tail(t)) + 1 <= Len(t) /\ 1 \in Nat
    BY <1>1
  <2>2. \A i \in 1..Len(Tail(t)) : Tail(t)[i] = t[i + 1]
    BY <1>1
  <2> QED
    BY <1>1, <2>1, <2>2, StagedPart
<1>3. ASSUME t[1].state \notin Awaiting, NEW x \in WaitingOf(t)
      PROVE  x \in WaitingOf(Tail(t))
  <2>1. PICK i \in 1..Len(t) : t[i].state \in Awaiting /\ t[i].seq = x
    BY InWaiting
  <2>2. i # 1
    BY <1>3, <2>1
  <2>3. i - 1 \in 1..(Len(t) - 1) /\ (i - 1) + 1 = i
    BY <1>1, <2>2
  <2>4. i - 1 \in 1..Len(Tail(t)) /\ Tail(t)[i - 1] = t[i]
    BY <1>1, <2>3
  <2> QED
    BY <1>1, <2>1, <2>4, InWaiting
<1> QED
  BY <1>2, <1>3

\* The open chunk is aborted.
LEMMA StagedFront ==
  ASSUME NEW t \in Seq(EntryType), NEW c, Staged(t, c), BoundOf(t), t # <<>>,
         t[Len(t)].state = "Writing"
  PROVE  /\ Staged(Front(t), c) /\ BoundOf(Front(t))
         /\ WaitingOf(Front(t)) = WaitingOf(t)
         /\ \A i \in 1..Len(Front(t)) : Front(t)[i].state # "Writing"
<1>1. /\ Front(t) \in Seq(EntryType) /\ Len(Front(t)) = Len(t) - 1
      /\ \A i \in 1..(Len(t) - 1) : Front(t)[i] = t[i]
  BY FrontEffect
<1>2. Len(t) \in Nat \ {0}
  BY DomainLen
<1>3. Staged(Front(t), c) /\ BoundOf(Front(t)) /\ WaitingOf(Front(t)) \subseteq WaitingOf(t)
  <2>1. Len(Front(t)) + 0 <= Len(t) /\ 0 \in Nat
    BY <1>1, <1>2
  <2>2. \A i \in 1..Len(Front(t)) : Front(t)[i] = t[i + 0]
    BY <1>1, <1>2
  <2> QED
    BY <1>1, <2>1, <2>2, StagedPart
<1>4. ASSUME NEW x \in WaitingOf(t) PROVE x \in WaitingOf(Front(t))
  <2>1. PICK i \in 1..Len(t) : t[i].state \in Awaiting /\ t[i].seq = x
    BY InWaiting
  <2>2. i # Len(t)
    BY <2>1 DEF Awaiting
  <2>3. i \in 1..(Len(t) - 1)
    BY <1>2, <2>2
  <2> QED
    BY <1>1, <2>1, <2>3, InWaiting
<1>5. \A i \in 1..Len(Front(t)) : Front(t)[i].state # "Writing"
  <2> TAKE i \in 1..Len(Front(t))
  <2>1. i \in 1..Len(t) /\ Len(t) \in 1..Len(t) /\ i < Len(t) /\ Front(t)[i] = t[i]
    BY <1>1, <1>2
  <2> QED
    BY <2>1 DEF Staged
<1> QED
  BY <1>3, <1>4, <1>5

\* m is t with the residents of q, none of which waits, in another state.
Recedes(t, m, q, st) ==
  /\ st \in {"Represented", "Submitted", "Completed", "Reclaiming"}
  /\ m \in Seq(EntryType) /\ Len(m) = Len(t)
  /\ \A i \in 1..Len(t) :
       /\ m[i].seq = t[i].seq /\ m[i].bound = t[i].bound
       /\ t[i].seq \in q => m[i].state = st
       /\ t[i].seq \notin q => m[i] = t[i]
  /\ \A i \in 1..Len(t) :
       t[i].seq \in q => t[i].state \notin {"Writing", "Ready", "Tentative"}

\* Residents that leave the waiting stages, or move on behind them, keep the order.
LEMMA StagedBehind ==
  ASSUME NEW t \in Seq(EntryType), NEW c, Staged(t, c), BoundOf(t), NEW q, NEW m,
         NEW st, Recedes(t, m, q, st)
  PROVE  /\ Staged(m, c) /\ BoundOf(m) /\ WaitingOf(m) = WaitingOf(t)
         /\ \A i \in 1..Len(t) :
              m[i].state \in {"Writing", "Ready", "Tentative"}
                \/ t[i].state \in {"Writing", "Ready", "Tentative"} => m[i] = t[i]
<1>1. /\ m \in Seq(EntryType) /\ Len(m) = Len(t)
      /\ \A i \in 1..Len(t) :
           /\ m[i].seq = t[i].seq /\ m[i].bound = t[i].bound
           /\ t[i].seq \in q => m[i].state = st
           /\ t[i].seq \notin q => m[i] = t[i]
      /\ \A i \in 1..Len(t) :
           t[i].seq \in q => t[i].state \notin {"Writing", "Ready", "Tentative"}
      /\ st \in {"Represented", "Submitted", "Completed", "Reclaiming"}
  BY DEF Recedes
<1>2. \A i \in 1..Len(t) :
        \/ m[i] = t[i]
        \/ /\ m[i].state \notin {"Writing", "Ready", "Tentative"}
           /\ t[i].state \notin {"Writing", "Ready", "Tentative"}
  BY <1>1
<1>3. Staged(m, c)
  <2>1. \A i \in 1..Len(m) : m[i].seq <= c /\ (m[i].seq = 0 <=> m[i].state = "Writing")
    BY <1>1, <1>2 DEF Staged
  <2>2. ASSUME NEW i \in 1..Len(t), NEW j \in 1..Len(t), i < j
        PROVE  /\ m[i].state # "Writing"
               /\ m[i].state = "Ready" => m[j].state \in {"Ready", "Writing"}
               /\ m[i].state = "Tentative" => m[j].state \in {"Tentative", "Ready", "Writing"}
               /\ m[j].state = "Writing" \/ m[i].seq < m[j].seq
    <3>1. /\ t[i].state # "Writing"
          /\ t[i].state = "Ready" => t[j].state \in {"Ready", "Writing"}
          /\ t[i].state = "Tentative" => t[j].state \in {"Tentative", "Ready", "Writing"}
          /\ t[j].state = "Writing" \/ t[i].seq < t[j].seq
      BY <2>2 DEF Staged
    <3>2. m[i] = t[i] \/ (m[i].state \notin {"Writing", "Ready", "Tentative"}
                          /\ t[i].state \notin {"Writing", "Ready", "Tentative"})
      BY <1>2
    <3>3. m[j] = t[j] \/ (m[j].state \notin {"Writing", "Ready", "Tentative"}
                          /\ t[j].state \notin {"Writing", "Ready", "Tentative"})
      BY <1>2
    <3>4. m[i].seq = t[i].seq /\ m[j].seq = t[j].seq
      BY <1>1
    <3> QED
      BY <3>1, <3>2, <3>3, <3>4
  <2> QED
    BY <1>1, <2>1, <2>2 DEF Staged
<1>4. BoundOf(m)
  BY <1>1, <1>2 DEF BoundOf
<1>5. \A x : x \in WaitingOf(m) <=> x \in WaitingOf(t)
  <2>1. \A i \in 1..Len(t) : m[i].state \in Awaiting <=> t[i].state \in Awaiting
    BY <1>2 DEF Awaiting
  <2> QED
    BY <1>1, <2>1, InWaiting
<1> QED
  BY <1>2, <1>3, <1>4, <1>5

\* m is t with the residents from a to b, those of q, in another state: they are
\* the first waiting ones, and bound.
Promotes(t, m, q, st, a, b) ==
  /\ st \in {"Tentative", "Represented"} /\ a \in 1..Len(t) /\ b \in 1..Len(t)
  /\ m \in Seq(EntryType) /\ Len(m) = Len(t)
  /\ \A i \in 1..Len(t) :
       /\ m[i].seq = t[i].seq /\ m[i].bound = t[i].bound
       /\ t[i].seq \in q => m[i].state = st
       /\ t[i].seq \notin q => m[i] = t[i]
  /\ \A i \in 1..Len(t) : t[i].seq \in q <=> a <= i /\ i <= b
  /\ \A i \in 1..Len(t) : i < a => t[i].state \notin Awaiting
  /\ \A i \in 1..Len(t) : a <= i /\ i <= b => t[i].state \in Awaiting /\ t[i].bound
  /\ st = "Tentative" =>
       \A i \in 1..Len(t) : a <= i /\ i <= b => t[i].state = "Ready"

\* The first waiting residents go on: some ready ones are reserved, or some are
\* represented.
LEMMA StagedPromote ==
  ASSUME NEW t \in Seq(EntryType), NEW c, Staged(t, c), BoundOf(t), NEW q, NEW m,
         NEW st, NEW a, NEW b, Promotes(t, m, q, st, a, b)
  PROVE  /\ Staged(m, c) /\ BoundOf(m)
         /\ st = "Tentative" => WaitingOf(m) = WaitingOf(t)
         /\ st = "Represented" => WaitingOf(m) = WaitingOf(t) \ q
         /\ \A i \in 1..Len(t) : m[i].state = "Writing" <=> t[i].state = "Writing"
<1>1. /\ m \in Seq(EntryType) /\ Len(m) = Len(t)
      /\ \A i \in 1..Len(t) :
           /\ m[i].seq = t[i].seq /\ m[i].bound = t[i].bound
           /\ t[i].seq \in q => m[i].state = st
           /\ t[i].seq \notin q => m[i] = t[i]
      /\ \A i \in 1..Len(t) : t[i].seq \in q <=> a <= i /\ i <= b
      /\ \A i \in 1..Len(t) : i < a => t[i].state \notin Awaiting
      /\ \A i \in 1..Len(t) : a <= i /\ i <= b => t[i].state \in Awaiting /\ t[i].bound
      /\ st \in {"Tentative", "Represented"} /\ a \in 1..Len(t) /\ b \in 1..Len(t)
  BY DEF Promotes
<1>0. st = "Tentative" =>
        \A i \in 1..Len(t) : a <= i /\ i <= b => t[i].state = "Ready"
  BY DEF Promotes
<1>2. \A i \in 1..Len(t) : a <= i /\ i <= b => m[i].state = st
  BY <1>1
<1>3. \A i \in 1..Len(t) : ~(a <= i /\ i <= b) => m[i] = t[i]
  BY <1>1
<1>4. Len(t) \in Nat /\ a \in Nat /\ b \in Nat
  BY <1>1, DomainLen
<1>5. \A i \in 1..Len(t) : m[i].state = "Writing" <=> t[i].state = "Writing"
  BY <1>1, <1>2, <1>3 DEF Awaiting
<1>6. Staged(m, c)
  <2>1. \A i \in 1..Len(m) : m[i].seq <= c /\ (m[i].seq = 0 <=> m[i].state = "Writing")
    BY <1>1, <1>5 DEF Staged
  <2>2. ASSUME NEW i \in 1..Len(t), NEW j \in 1..Len(t), i < j
        PROVE  /\ m[i].state # "Writing"
               /\ m[i].state = "Ready" => m[j].state \in {"Ready", "Writing"}
               /\ m[i].state = "Tentative" => m[j].state \in {"Tentative", "Ready", "Writing"}
               /\ m[j].state = "Writing" \/ m[i].seq < m[j].seq
    <3>1. /\ t[i].state # "Writing"
          /\ t[i].state = "Ready" => t[j].state \in {"Ready", "Writing"}
          /\ t[i].state = "Tentative" => t[j].state \in {"Tentative", "Ready", "Writing"}
          /\ t[j].state = "Writing" \/ t[i].seq < t[j].seq
      BY <2>2 DEF Staged
    <3>2. m[i].state # "Writing" /\ (m[j].state = "Writing" \/ m[i].seq < m[j].seq)
      BY <1>1, <1>5, <3>1
    <3>3. CASE i < a
      <4>1. m[i] = t[i] /\ m[i].state \notin Awaiting
        BY <1>1, <1>3, <1>4, <3>3
      <4> QED
        BY <3>2, <4>1 DEF Awaiting
    <3>4. CASE a <= i /\ i <= b
      <4>1. m[i].state = st
        BY <1>2, <3>4
      <4>2. CASE st = "Represented"
        BY <3>2, <4>1, <4>2
      <4>3. CASE st = "Tentative"
        <5>1. t[i].state = "Ready"
          BY <1>0, <3>4, <4>3
        <5>2. m[j].state \in {"Tentative", "Ready", "Writing"}
          BY <1>2, <1>3, <3>1, <4>3, <5>1
        <5> QED
          BY <3>2, <4>1, <4>3, <5>2
      <4> QED
        BY <1>1, <4>2, <4>3
    <3>5. CASE i > b
      <4>1. m[i] = t[i] /\ m[j] = t[j]
        BY <1>3, <1>4, <2>2, <3>5
      <4> QED
        BY <3>1, <4>1
    <3> QED
      BY <1>4, <3>3, <3>4, <3>5
  <2> QED
    BY <1>1, <2>1, <2>2 DEF Staged
<1>7. BoundOf(m)
  <2> SUFFICES ASSUME NEW i \in 1..Len(t)
               PROVE  m[i].state \in {"Writing", "Ready"} \/ m[i].bound
    BY <1>1 DEF BoundOf
  <2>1. CASE a <= i /\ i <= b
    BY <1>1, <2>1
  <2>2. CASE ~(a <= i /\ i <= b)
    BY <1>3, <2>2 DEF BoundOf
  <2> QED
    BY <2>1, <2>2
<1>8. ASSUME st = "Tentative" PROVE \A x : x \in WaitingOf(m) <=> x \in WaitingOf(t)
  <2>1. \A i \in 1..Len(t) : m[i].state \in Awaiting <=> t[i].state \in Awaiting
    BY <1>1, <1>2, <1>3, <1>8 DEF Awaiting
  <2> QED
    BY <1>1, <2>1, InWaiting, SMTT(20)
<1>9. ASSUME st = "Represented" PROVE \A x : x \in WaitingOf(m) <=> x \in WaitingOf(t) \ q
  <2>1. \A i \in 1..Len(t) :
          m[i].state \in Awaiting <=> t[i].state \in Awaiting /\ t[i].seq \notin q
    BY <1>1, <1>2, <1>3, <1>9 DEF Awaiting
  <2> QED
    BY <1>1, <2>1, InWaiting
<1> QED
  BY <1>5, <1>6, <1>7, <1>8, <1>9

\* m is t with the reserved prefix, the residents of q, ready again.
Restores(t, m, q) ==
  /\ m \in Seq(EntryType) /\ Len(m) = Len(t)
  /\ \A i \in 1..Len(t) :
       /\ m[i].seq = t[i].seq /\ m[i].bound = t[i].bound
       /\ t[i].seq \in q => m[i].state = "Ready"
       /\ t[i].seq \notin q => m[i] = t[i]
  /\ \A i \in 1..Len(t) : t[i].seq \in q <=> t[i].state = "Tentative"

\* A restored prefix keeps the order: it is Ready in its place.
LEMMA StagedRestore ==
  ASSUME NEW t \in Seq(EntryType), NEW c, Staged(t, c), BoundOf(t), NEW q, NEW m,
         Restores(t, m, q)
  PROVE  /\ Staged(m, c) /\ BoundOf(m) /\ WaitingOf(m) = WaitingOf(t)
         /\ \A i \in 1..Len(t) : m[i].state = "Writing" <=> t[i].state = "Writing"
         /\ \A i \in 1..Len(t) : m[i].state # "Tentative"
<1>1. /\ m \in Seq(EntryType) /\ Len(m) = Len(t)
      /\ \A i \in 1..Len(t) :
           /\ m[i].seq = t[i].seq /\ m[i].bound = t[i].bound
           /\ t[i].seq \in q => m[i].state = "Ready"
           /\ t[i].seq \notin q => m[i] = t[i]
      /\ \A i \in 1..Len(t) : t[i].seq \in q <=> t[i].state = "Tentative"
  BY DEF Restores
<1>2. \A i \in 1..Len(t) :
        \/ t[i].state = "Tentative" /\ m[i].state = "Ready"
        \/ t[i].state # "Tentative" /\ m[i] = t[i]
  BY <1>1
<1>3. Staged(m, c)
  <2>1. \A i \in 1..Len(m) : m[i].seq <= c /\ (m[i].seq = 0 <=> m[i].state = "Writing")
    BY <1>1, <1>2 DEF Staged
  <2>2. ASSUME NEW i \in 1..Len(t), NEW j \in 1..Len(t), i < j
        PROVE  /\ m[i].state # "Writing"
               /\ m[i].state = "Ready" => m[j].state \in {"Ready", "Writing"}
               /\ m[i].state = "Tentative" => m[j].state \in {"Tentative", "Ready", "Writing"}
               /\ m[j].state = "Writing" \/ m[i].seq < m[j].seq
    <3>1. /\ t[i].state # "Writing"
          /\ t[i].state = "Ready" => t[j].state \in {"Ready", "Writing"}
          /\ t[i].state = "Tentative" => t[j].state \in {"Tentative", "Ready", "Writing"}
          /\ t[j].state = "Writing" \/ t[i].seq < t[j].seq
      BY <2>2 DEF Staged
    <3>2. m[i].seq = t[i].seq /\ m[j].seq = t[j].seq
      BY <1>1
    <3>3. \/ t[i].state = "Tentative" /\ m[i].state = "Ready"
          \/ t[i].state # "Tentative" /\ m[i] = t[i]
      BY <1>2
    <3>4. \/ t[j].state = "Tentative" /\ m[j].state = "Ready"
          \/ t[j].state # "Tentative" /\ m[j] = t[j]
      BY <1>2
    <3> QED
      BY <3>1, <3>2, <3>3, <3>4
  <2> QED
    BY <1>1, <2>1, <2>2 DEF Staged
<1>4. BoundOf(m)
  BY <1>1, <1>2 DEF BoundOf
<1>5. \A x : x \in WaitingOf(m) <=> x \in WaitingOf(t)
  <2>1. \A i \in 1..Len(t) : m[i].state \in Awaiting <=> t[i].state \in Awaiting
    BY <1>2 DEF Awaiting
  <2>2. \A x : x \in WaitingOf(t) <=> \E i \in 1..Len(t) : t[i].state \in Awaiting /\ t[i].seq = x
    BY InWaiting
  <2>3. \A x : x \in WaitingOf(m) <=> \E i \in 1..Len(t) : m[i].state \in Awaiting /\ m[i].seq = x
    BY <1>1, InWaiting
  <2> QED
    BY <1>1, <2>1, <2>2, <2>3
<1> QED
  BY <1>2, <1>3, <1>4, <1>5

-----------------------------------------------------------------------------
(* The pipeline behind the tape: sets of sequences in order. *)

\* Sets of sequences between x and c, each set before the next ones.
InOrder(x, W, P, S, B, T, c) ==
  /\ \A s \in W \cup P \cup S \cup B \cup T : x < s /\ s <= c
  /\ Before(W, P \cup S \cup B \cup T) /\ Before(P, S \cup B \cup T)
  /\ Before(S, B \cup T) /\ Before(B, T)

\* The empty set is before and after everything.
LEMMA NothingBefore ==
  ASSUME NEW S
  PROVE  Before({}, S) /\ Before(S, {})
BY DEF Before

\* Fewer sequences are in order too.
LEMMA OrderFewer ==
  ASSUME NEW x, NEW c, NEW W, NEW P, NEW S, NEW B, NEW T, InOrder(x, W, P, S, B, T, c),
         NEW V \in SUBSET W, NEW Q \in SUBSET P, NEW R \in SUBSET S,
         NEW A \in SUBSET B, NEW U \in SUBSET T
  PROVE  InOrder(x, V, Q, R, A, U, c)
BY DEF InOrder, Before

\* A sequence is published.
LEMMA OrderPublish ==
  ASSUME NEW x \in Nat, NEW c \in Nat, x <= c, NEW W \in SUBSET Nat, NEW P \in SUBSET Nat,
         NEW S \in SUBSET Nat, NEW B \in SUBSET Nat, NEW T \in SUBSET Nat,
         InOrder(x, W, P, S, B, T, c)
  PROVE  InOrder(x, W, P, S, B, T \cup {c + 1}, c + 1)
<1>1. \A s \in W \cup P \cup S \cup B \cup T : s \in Nat /\ x < s /\ s <= c
  BY DEF InOrder
<1>2. \A s \in W \cup P \cup S \cup B \cup (T \cup {c + 1}) : x < s /\ s <= c + 1
  BY <1>1
<1>3. \A s \in W \cup P \cup S \cup B : s < c + 1
  BY <1>1
<1> QED
  BY <1>2, <1>3 DEF InOrder, Before

\* The waiting sequences are split: the first of them are represented.
LEMMA OrderRepresent ==
  ASSUME NEW x, NEW c, NEW W, NEW P, NEW S, NEW T, InOrder(x, W, P, S, {}, T, c),
         NEW B \in SUBSET T, NEW U \in SUBSET T, Before(B, U)
  PROVE  InOrder(x, W, P, S, B, U, c)
BY DEF InOrder, Before

\* The first of the represented sources joins the session.
LEMMA OrderRetain ==
  ASSUME NEW x, NEW c, NEW W, NEW P, NEW S, NEW B, NEW T, InOrder(x, W, P, S, B, T, c),
         NEW A \in SUBSET B, NEW b \in B, Before({b}, A)
  PROVE  InOrder(x, W, P, S \cup {b}, A, T, c)
BY DEF InOrder, Before

\* The session is submitted.
LEMMA OrderSubmit ==
  ASSUME NEW x, NEW c, NEW W, NEW P, NEW S, NEW B, NEW T, InOrder(x, W, P, S, B, T, c)
  PROVE  InOrder(x, W, P \cup S, {}, B, T, c)
BY DEF InOrder, Before

\* The watcher takes the first command buffer.
LEMMA OrderPop ==
  ASSUME NEW x, NEW c, NEW P, NEW S, NEW B, NEW T, InOrder(x, {}, P, S, B, T, c),
         NEW W \in SUBSET P, NEW Q \in SUBSET P, Before(W, Q)
  PROVE  InOrder(x, W, Q, S, B, T, c)
BY DEF InOrder, Before

\* The watched sequences up to y have executed.
LEMMA OrderSettle ==
  ASSUME NEW x, NEW c, NEW W, NEW P, NEW S, NEW B, NEW T, InOrder(x, W, P, S, B, T, c),
         NEW y \in W
  PROVE  InOrder(y, {}, P, S, B, T, c) /\ x < y /\ y <= c
BY DEF InOrder, Before

\* The first represented sequence has executed inline: nothing is before it.
LEMMA OrderInline ==
  ASSUME NEW x \in Nat, NEW c, NEW W \in SUBSET Nat, NEW P \in SUBSET Nat, NEW S,
         NEW B, NEW T, InOrder(x, W, P, S, B, T, c), x + 1 \in B, S = {},
         NEW A \in SUBSET B, Before({x + 1}, A)
  PROVE  InOrder(x + 1, W, P, S, A, T, c) /\ W = {} /\ P = {} /\ x + 1 <= c
<1>1. \A s \in W \cup P : x < s /\ s < x + 1 /\ s \in Nat
  BY DEF InOrder, Before
<1>2. W = {} /\ P = {}
  BY <1>1
<1> QED
  BY <1>2 DEF InOrder, Before

\* The sequences of a list of sources.
LEMMA SeqsMembers ==
  ASSUME NEW R, NEW s \in Seq(R)
  PROVE  /\ \A x : x \in Seqs(s) <=> \E i \in 1..Len(s) : x = s[i].seq
         /\ \A i \in 1..Len(s) : s[i].seq \in Seqs(s)
BY DomainLen DEF Seqs

\* The fields of sources, and their sequences.
LEMMA SeqsNat ==
  ASSUME NEW s \in Seq(SourceType)
  PROVE  /\ Seqs(s) \in SUBSET Nat
         /\ \A i \in 1..Len(s) : /\ s[i].seq \in Nat /\ s[i].slot \in SlotIds
                                 /\ s[i].receipt \in BOOLEAN
<1>1. \A i \in 1..Len(s) : s[i] \in SourceType
  BY DomainLen
<1>2. \A i \in 1..Len(s) : /\ s[i].seq \in Nat /\ s[i].slot \in SlotIds
                           /\ s[i].receipt \in BOOLEAN
  BY <1>1 DEF SourceType
<1>3. \A x \in Seqs(s) : x \in Nat
  BY <1>2, SeqsMembers
<1> QED
  BY <1>2, <1>3

\* Ascending, by the numbers of the sources.
LEMMA AscendingMeans ==
  ASSUME NEW R, NEW s \in Seq(R)
  PROVE  Ascending(s) <=> \A i, j \in 1..Len(s) : i < j => s[i].seq < s[j].seq
BY DomainLen DEF Ascending

\* The first source of an ascending list is before the others.
LEMMA SeqsTail ==
  ASSUME NEW R, NEW s \in Seq(R), s # <<>>
  PROVE  /\ Seqs(s) = {s[1].seq} \cup Seqs(Tail(s)) /\ s[1].seq \in Seqs(s)
         /\ Seqs(Tail(s)) \subseteq Seqs(s)
         /\ Ascending(s) => Before({s[1].seq}, Seqs(Tail(s))) /\ Ascending(Tail(s))
<1> DEFINE t == Tail(s)
<1>1. /\ t \in Seq(R) /\ Len(t) = Len(s) - 1 /\ Len(s) \in Nat \ {0}
      /\ \A i \in 1..(Len(s) - 1) : i + 1 \in 1..Len(s) /\ t[i] = s[i + 1]
  BY TailEffect
<1>2. \A x : x \in Seqs(s) <=> \E i \in 1..Len(s) : x = s[i].seq
  BY SeqsMembers
<1>3. \A x : x \in Seqs(t) <=> \E i \in 1..Len(t) : x = t[i].seq
  BY <1>1, SeqsMembers
<1> HIDE DEF t
<1>4. \A i \in 1..Len(s) : i = 1 \/ (i - 1 \in 1..Len(t) /\ t[i - 1] = s[i])
  <2> TAKE i \in 1..Len(s)
  <2>1. ASSUME i # 1 PROVE i - 1 \in 1..(Len(s) - 1) /\ (i - 1) + 1 = i
    BY <1>1, <2>1
  <2> QED
    BY <1>1, <2>1
<1>5. 1 \in 1..Len(s)
  BY <1>1
<1>6. \A x \in Seqs(t) : \E i \in 1..Len(s) : 1 < i /\ x = s[i].seq
  <2> TAKE x \in Seqs(t)
  <2>1. PICK i \in 1..Len(t) : x = t[i].seq
    BY <1>3
  <2>2. i + 1 \in 1..Len(s) /\ t[i] = s[i + 1] /\ 1 < i + 1
    BY <1>1
  <2> QED
    BY <2>1, <2>2
<1>7. \A x : x \in Seqs(s) <=> x \in {s[1].seq} \cup Seqs(t)
  BY <1>2, <1>3, <1>4, <1>5, <1>6
<1>8. ASSUME Ascending(s) PROVE Before({s[1].seq}, Seqs(t)) /\ Ascending(t)
  <2>1. \A i, j \in 1..Len(s) : i < j => s[i].seq < s[j].seq
    BY <1>8, AscendingMeans
  <2>2. Before({s[1].seq}, Seqs(t))
    BY <1>5, <1>6, <2>1 DEF Before
  <2>3. ASSUME NEW i \in 1..Len(t), NEW j \in 1..Len(t), i < j
        PROVE  t[i].seq < t[j].seq
    <3>1. i + 1 \in 1..Len(s) /\ j + 1 \in 1..Len(s) /\ i + 1 < j + 1
          /\ t[i] = s[i + 1] /\ t[j] = s[j + 1]
      BY <1>1, <2>3
    <3> QED
      BY <2>1, <3>1
  <2>4. Ascending(t)
    BY <1>1, <2>3, AscendingMeans
  <2> QED
    BY <2>2, <2>4
<1> QED
  BY <1>5, <1>7, <1>8 DEF t

\* A source is added behind the others.
LEMMA SeqsAppend ==
  ASSUME NEW R, NEW s \in Seq(R), NEW x \in R
  PROVE  /\ Seqs(Append(s, x)) = Seqs(s) \cup {x.seq}
         /\ Ascending(s) /\ Before(Seqs(s), {x.seq}) => Ascending(Append(s, x))
<1> DEFINE t == Append(s, x)
<1>1. /\ t \in Seq(R) /\ Len(t) = Len(s) + 1 /\ Len(s) \in Nat
      /\ \A i \in 1..Len(s) : t[i] = s[i]
      /\ t[Len(s) + 1] = x
  BY AppendEffect, DomainLen
<1>2. \A y : y \in Seqs(s) <=> \E i \in 1..Len(s) : y = s[i].seq
  BY SeqsMembers
<1>3. \A y : y \in Seqs(t) <=> \E i \in 1..Len(t) : y = t[i].seq
  BY <1>1, SeqsMembers
<1> HIDE DEF t
<1>4. /\ \A i \in 1..Len(t) : i \in 1..Len(s) \/ i = Len(s) + 1
      /\ \A i \in 1..Len(s) : i \in 1..Len(t)
      /\ Len(s) + 1 \in 1..Len(t)
  BY <1>1
<1>5. \A y : y \in Seqs(t) <=> y \in Seqs(s) \cup {x.seq}
  BY <1>1, <1>2, <1>3, <1>4
<1>6. ASSUME Ascending(s), Before(Seqs(s), {x.seq}) PROVE Ascending(t)
  <2>1. \A i, j \in 1..Len(s) : i < j => s[i].seq < s[j].seq
    BY <1>6, AscendingMeans
  <2>2. \A i \in 1..Len(s) : s[i].seq < x.seq
    BY <1>2, <1>6 DEF Before
  <2>3. ASSUME NEW i \in 1..Len(t), NEW j \in 1..Len(t), i < j
        PROVE  t[i].seq < t[j].seq
    <3>1. i \in 1..Len(s) /\ t[i] = s[i]
      BY <1>1, <1>4, <2>3
    <3>2. CASE j \in 1..Len(s)
      BY <1>1, <2>1, <2>3, <3>1, <3>2
    <3>3. CASE j = Len(s) + 1
      BY <1>1, <2>2, <3>1, <3>3
    <3> QED
      BY <1>4, <3>2, <3>3
  <2> QED
    BY <1>1, <2>3, AscendingMeans
<1> QED
  BY <1>5, <1>6 DEF t

-----------------------------------------------------------------------------
(* The command buffers handed to the watcher. *)

HandedOf(p) == UNION {Seqs(p[k]) : k \in 1..Len(p)}

\* Each holds ascending sequences, the earlier ones before the later ones.
Buffered(p) ==
  /\ \A k \in 1..Len(p) : p[k] # <<>> /\ Ascending(p[k])
  /\ \A k, m \in 1..Len(p) : k < m => Before(Seqs(p[k]), Seqs(p[m]))

\* What the queued command buffers hold.
LEMMA HandedMembers ==
  ASSUME NEW p
  PROVE  /\ \A x : x \in HandedOf(p) <=> \E k \in 1..Len(p) : x \in Seqs(p[k])
         /\ \A k \in 1..Len(p) : Seqs(p[k]) \subseteq HandedOf(p)
BY DEF HandedOf

\* It is a set of sequences.
LEMMA HandedNat ==
  ASSUME NEW p \in Seq(Seq(SourceType))
  PROVE  HandedOf(p) \in SUBSET Nat
<1>1. \A k \in 1..Len(p) : p[k] \in Seq(SourceType)
  BY DomainLen
<1>2. \A k \in 1..Len(p) : Seqs(p[k]) \in SUBSET Nat
  BY <1>1, SeqsNat
<1> QED
  BY <1>2, HandedMembers

\* A command buffer is handed over.
LEMMA HandedAppend ==
  ASSUME NEW p \in Seq(Seq(SourceType)), Buffered(p), NEW s \in Seq(SourceType),
         s # <<>>, Ascending(s), Before(HandedOf(p), Seqs(s))
  PROVE  Buffered(Append(p, s)) /\ HandedOf(Append(p, s)) = HandedOf(p) \cup Seqs(s)
<1> DEFINE q == Append(p, s)
<1>1. /\ q \in Seq(Seq(SourceType)) /\ Len(q) = Len(p) + 1 /\ Len(p) \in Nat
      /\ \A i \in 1..Len(p) : q[i] = p[i]
      /\ q[Len(p) + 1] = s
  BY AppendEffect, DomainLen
<1> HIDE DEF q
<1>2. /\ \A i \in 1..Len(q) : i \in 1..Len(p) \/ i = Len(p) + 1
      /\ \A i \in 1..Len(p) : i \in 1..Len(q)
      /\ Len(p) + 1 \in 1..Len(q)
  BY <1>1
<1>3. \A k \in 1..Len(q) : q[k] # <<>> /\ Ascending(q[k])
  BY <1>1, <1>2 DEF Buffered
<1>4. ASSUME NEW k \in 1..Len(q), NEW m \in 1..Len(q), k < m
      PROVE  Before(Seqs(q[k]), Seqs(q[m]))
  <2>1. k \in 1..Len(p) /\ q[k] = p[k]
    BY <1>1, <1>2, <1>4
  <2>2. CASE m \in 1..Len(p)
    BY <1>1, <1>4, <2>1, <2>2 DEF Buffered
  <2>3. CASE m = Len(p) + 1
    <3>1. q[m] = s /\ Seqs(q[k]) \subseteq HandedOf(p)
      BY <1>1, <2>1, <2>3, HandedMembers
    <3> QED
      BY <3>1 DEF Before
  <2> QED
    BY <1>2, <2>2, <2>3
<1>5. \A x : x \in HandedOf(q) <=> x \in HandedOf(p) \cup Seqs(s)
  <2>1. \A x : x \in HandedOf(q) <=> \E k \in 1..Len(q) : x \in Seqs(q[k])
    BY HandedMembers
  <2>2. \A x : x \in HandedOf(p) <=> \E k \in 1..Len(p) : x \in Seqs(p[k])
    BY HandedMembers
  <2> QED
    BY <1>1, <1>2, <2>1, <2>2
<1> QED
  BY <1>3, <1>4, <1>5 DEF Buffered, q

\* The first command buffer is taken.
LEMMA HandedTail ==
  ASSUME NEW p \in Seq(Seq(SourceType)), Buffered(p), p # <<>>
  PROVE  /\ Buffered(Tail(p)) /\ HandedOf(p) = Seqs(p[1]) \cup HandedOf(Tail(p))
         /\ Before(Seqs(p[1]), HandedOf(Tail(p)))
         /\ p[1] # <<>> /\ Ascending(p[1])
<1> DEFINE q == Tail(p)
<1>1. /\ q \in Seq(Seq(SourceType)) /\ Len(q) = Len(p) - 1 /\ Len(p) \in Nat \ {0}
      /\ \A i \in 1..(Len(p) - 1) : i + 1 \in 1..Len(p) /\ q[i] = p[i + 1]
  BY TailEffect
<1> HIDE DEF q
<1>2. \A i \in 1..Len(p) : i = 1 \/ (i - 1 \in 1..Len(q) /\ q[i - 1] = p[i])
  <2> TAKE i \in 1..Len(p)
  <2>1. ASSUME i # 1 PROVE i - 1 \in 1..(Len(p) - 1) /\ (i - 1) + 1 = i
    BY <1>1, <2>1
  <2> QED
    BY <1>1, <2>1
<1>3. 1 \in 1..Len(p)
  BY <1>1
<1>4. \A i \in 1..Len(q) : i + 1 \in 1..Len(p) /\ q[i] = p[i + 1] /\ 1 < i + 1
  BY <1>1
<1>5. \A x : x \in HandedOf(q) <=> \E k \in 1..Len(q) : x \in Seqs(q[k])
  BY HandedMembers
<1>6. \A x : x \in HandedOf(p) <=> \E k \in 1..Len(p) : x \in Seqs(p[k])
  BY HandedMembers
<1>7. \A x : x \in HandedOf(p) <=> x \in Seqs(p[1]) \cup HandedOf(q)
  BY <1>2, <1>3, <1>4, <1>5, <1>6
<1>8. Before(Seqs(p[1]), HandedOf(q))
  <2>1. \A k \in 1..Len(q) : Before(Seqs(p[1]), Seqs(q[k]))
    BY <1>3, <1>4 DEF Buffered
  <2> QED
    BY <1>5, <2>1 DEF Before
<1>9. Buffered(q)
  <2>1. \A k \in 1..Len(q) : q[k] # <<>> /\ Ascending(q[k])
    BY <1>4 DEF Buffered
  <2>2. ASSUME NEW k \in 1..Len(q), NEW m \in 1..Len(q), k < m
        PROVE  Before(Seqs(q[k]), Seqs(q[m]))
    <3>1. k + 1 < m + 1
      BY <1>1, <2>2
    <3> QED
      BY <1>4, <3>1 DEF Buffered
  <2> QED
    BY <2>1, <2>2 DEF Buffered
<1> QED
  BY <1>3, <1>7, <1>8, <1>9 DEF Buffered, q

-----------------------------------------------------------------------------
(* The invariant behind the order of completions. *)

Labels == {"run", "ensureWait", "commitWait", "seqWait", "undefined", "mapped", "wait",
           "window", "encode", "inline", "retire", "gpu", "reclaim", "exited"}

\* Where each thread can be.
Places ==
  /\ pc \in [Clients \cup Workers -> Labels]
  /\ pc["encoder"] \in {"wait", "window", "encode", "inline", "retire", "exited"}
  /\ pc["watcher"] \in {"wait", "gpu", "exited"}
  /\ pc["finish"] \in {"wait", "reclaim", "exited"}

FlowTypes ==
  /\ writeIndex \in SlotIds /\ writingSlot \in SlotIds \cup {NoSlot}
  /\ nextSeqId \in Nat \ {0} /\ tape \in Seq(EntryType)
  /\ completedSeqId \in Nat /\ completedQueue \in Seq(Nat)
  /\ pending \in Seq(Seq(SourceType)) /\ watching \in Seq(SourceType)
  /\ batch \in Seq(SourceType) /\ session \in Seq(SourceType)

TapeOrdered == Staged(tape, lastCommittedSeqId) /\ BoundOf(tape)

\* The open chunk is the last resident.
OpenLast ==
  IF writingSlot = NoSlot
  THEN \A i \in 1..Len(tape) : tape[i].state # "Writing"
  ELSE /\ tape # <<>> /\ tape[Len(tape)].state = "Writing"
       /\ tape[Len(tape)].slot = writingSlot /\ writingSlot = writeIndex

\* The order of the pipeline.  It survives a poison, after which sources may be
\* missing from it.
Chain ==
  /\ \A i \in 1..Len(completedQueue) : completedQueue[i] = completedSeqId + i
  /\ Executed <= lastCommittedSeqId
  /\ InOrder(Executed, Seqs(watching), HandedOf(pending), Seqs(session),
             Seqs(Batched), WaitingOf(tape), lastCommittedSeqId)
  /\ Ascending(watching) /\ Ascending(session) /\ Ascending(batch)
  /\ Buffered(pending)
  /\ \A i \in 1..Len(batch) : ~ batch[i].receipt

\* What the encoder and the watcher hold at each place.
EncoderHolds ==
  /\ pc["encoder"] \in {"wait", "window"} => batch = <<>>
  /\ pc["encoder"] \in {"encode", "inline", "retire"} => batch # <<>>
  /\ pc["encoder"] # "window" => \A i \in 1..Len(tape) : tape[i].state # "Tentative"
  /\ pc["encoder"] = "window" => \E i \in 1..Len(tape) : tape[i].state = "Tentative"
  /\ pc["encoder"] = "inline" => session = <<>> /\ batch[1].seq = Executed + 1
  /\ pc["encoder"] = "retire" => session # <<>> /\ session[Len(session)] = batch[1]
WatcherHolds ==
  /\ pc["watcher"] # "gpu" => watching = <<>>
  /\ pc["watcher"] = "gpu" => watching # <<>>

\* A resident that is being reclaimed is the oldest, and one thread does it.
HeadReclaimed ==
  /\ \A i \in 1..Len(tape) : tape[i].state = "Reclaiming" =>
       /\ i = 1
       /\ \/ pc["finish"] = "reclaim" /\ tape[i].seq = completedSeqId
          \/ pc["encoder"] \in {"inline", "retire"} /\ tape[i].seq = batch[1].seq
  /\ pc["finish"] = "reclaim" =>
       tape # <<>> /\ tape[1].state = "Reclaiming" /\ tape[1].seq = completedSeqId
  /\ pc["encoder"] \in {"inline", "retire"} =>
       tape # <<>> /\ tape[1].state = "Reclaiming" /\ tape[1].seq = batch[1].seq

FlowInv ==
  /\ Places /\ FlowTypes
  /\ TapeOrdered /\ OpenLast /\ Chain
  /\ EncoderHolds /\ WatcherHolds /\ HeadReclaimed

-----------------------------------------------------------------------------
(* What the clients' steps do to the pipeline. *)

WorkersStay ==
  /\ pc' \in [Clients \cup Workers -> Labels]
  /\ \A w \in Workers : pc'[w] = pc[w]
PipelineStays == UNCHANGED <<doneVars, gpuVars, encodeVars>> /\ WorkersStay

\* Nothing that the pipeline holds changes.
Quiet == PipelineStays /\ UNCHANGED <<writeIndex, writingSlot, nextSeqId, tape>>

\* The writer opens a chunk, a client publishes it, or aborts it as empty.
Opens ==
  /\ PipelineStays /\ UNCHANGED <<writeIndex, nextSeqId>>
  /\ writingSlot = NoSlot /\ writingSlot' = writeIndex
  /\ tape' = Append(tape, [seq |-> 0, slot |-> writeIndex, state |-> "Writing",
                           bound |-> FALSE])
Publishes(bound) ==
  /\ PipelineStays /\ ~ stop
  /\ writingSlot # NoSlot /\ writingSlot' = NoSlot
  /\ nextSeqId' = nextSeqId + 1 /\ writeIndex' = (writeIndex + 1) % SlotCount
  /\ tape' = PublishedTape(bound)
Aborts ==
  /\ PipelineStays /\ UNCHANGED <<writeIndex, nextSeqId>>
  /\ writingSlot # NoSlot /\ writingSlot' = NoSlot
  /\ tape' = Front(tape)

ClientStep ==
  \/ AppendOpen \/ Mark \/ EnsureStep
  \/ \E want \in {0, Everything} : Commit(want)
  \/ Map \/ Unmap
  \/ \E c \in Clients : ClientWakes(c)

\* A client moves: the workers stay.
LEMMA ClientMoves ==
  ASSUME Places, NEW c \in Clients, NEW l \in Labels, pc' = [pc EXCEPT ![c] = l]
  PROVE  /\ WorkersStay /\ pc'[c] = l
         /\ \A d \in Clients : d # c => pc'[d] = pc[d]
BY DEF Places, WorkersStay, Clients, Workers

\* Nobody moves.
LEMMA NobodyMoves ==
  ASSUME Places, UNCHANGED pc
  PROVE  WorkersStay
BY DEF Places, WorkersStay

\* The end of a commit moves its caller alone.
LEMMA AfterCommitMoves ==
  ASSUME Places, NEW c \in Clients, NEW want, NEW committed, NEW woken,
         AfterCommit(c, want, committed, woken)
  PROVE  WorkersStay
<1> DEFINE target == WaitTarget(want, committed)
           waits  == target > completedSeqId /\ ~ stop
<1>1. pc' = [pc EXCEPT ![c] = IF waits THEN "seqWait" ELSE Returned(c)]
  BY DEF AfterCommit
<1> HIDE DEF waits
<1>2. (IF waits THEN "seqWait" ELSE Returned(c)) \in Labels
  BY DEF Returned, Labels
<1> QED
  BY <1>1, <1>2, ClientMoves

\* The two ways to publish the open chunk.
LEMMA PublishMoves ==
  ASSUME Places, NEW c \in Clients, NEW want, ~ stop, writingSlot # NoSlot,
         CommitPublish(c, want) \/ CommitUnbound(c),
         UNCHANGED <<doneVars, gpuVars, encodeVars>>
  PROVE  \E bound \in BOOLEAN : Publishes(bound)
<1>1. CASE CommitPublish(c, want)
  <2>1. WorkersStay
    BY <1>1, AfterCommitMoves DEF CommitPublish
  <2>2. Publishes(TRUE)
    BY <1>1, <2>1 DEF CommitPublish, Publish, Publishes, PipelineStays
  <2> QED
    BY <2>2
<1>2. CASE CommitUnbound(c)
  <2>1. Returned(c) \in Labels
    BY DEF Returned, Labels
  <2>2. WorkersStay
    BY <1>2, <2>1, ClientMoves DEF Labels, CommitUnbound
  <2>3. Publishes(FALSE)
    BY <1>2, <2>2 DEF CommitUnbound, Publish, Publishes, PipelineStays
  <2> QED
    BY <2>3
<1> QED
  BY <1>1, <1>2

\* commitCurrentChunk publishes the open chunk, aborts it, or leaves it.
LEMMA CommitEffects ==
  ASSUME Places, NEW c \in Clients, NEW want, CommitCurrentChunk(c, want),
         UNCHANGED <<doneVars, gpuVars, encodeVars>>
  PROVE  Quiet \/ (\E bound \in BOOLEAN : Publishes(bound)) \/ Aborts
<1>1. CASE /\ writingSlot = NoSlot
           /\ AfterCommit(c, want, lastCommittedSeqId, {})
           /\ UNCHANGED <<ringVars, tapeVars, inflight>>
  <2>1. WorkersStay
    BY <1>1, AfterCommitMoves
  <2> QED
    BY <1>1, <2>1 DEF Quiet, PipelineStays, ringVars, tapeVars
<1>2. CASE writingSlot # NoSlot /\ CommitEmpty(c, want)
  <2>1. WorkersStay
    BY <1>2, AfterCommitMoves DEF CommitEmpty
  <2> QED
    BY <1>2, <2>1 DEF Aborts, PipelineStays, CommitEmpty
<1>3. CASE writingSlot # NoSlot /\ CommitSleep(c, want)
  <2>1. WorkersStay
    BY <1>3, ClientMoves DEF Labels, CommitSleep
  <2> QED
    BY <1>3, <2>1 DEF Quiet, PipelineStays, CommitSleep, ringVars, tapeVars
<1>4. CASE /\ writingSlot # NoSlot /\ payload /\ stop
           /\ AfterCommit(c, want, lastCommittedSeqId, {})
           /\ UNCHANGED <<ringVars, tapeVars, inflight>>
  <2>1. WorkersStay
    BY <1>4, AfterCommitMoves
  <2> QED
    BY <1>4, <2>1 DEF Quiet, PipelineStays, ringVars, tapeVars
<1>5. CASE /\ writingSlot # NoSlot /\ payload /\ ~ stop /\ CommitRoom
           /\ CommitPublish(c, want) \/ CommitUnbound(c)
           /\ UNCHANGED closed
  BY <1>5, PublishMoves
<1> QED
  BY <1>1, <1>2, <1>3, <1>4, <1>5 DEF CommitCurrentChunk

\* A client in the loop of ensureWriterSlot has no chunk, one that waits for an
\* inflight credit remembers one.
LEMMA ClientEffects ==
  ASSUME Places, pc["writer"] = "ensureWait" => writingSlot = NoSlot,
         \A c \in Clients : pc[c] = "commitWait" => job[c].slot # NoSlot, ClientStep
  PROVE  \/ Quiet \/ Opens \/ Aborts
         \/ \E bound \in BOOLEAN : Publishes(bound)
<1>1. CASE AppendOpen
  BY <1>1, NobodyMoves DEF AppendOpen, Quiet, PipelineStays, tapeVars
<1>2. CASE Mark
  BY <1>2, NobodyMoves DEF Mark, Quiet, PipelineStays, ringVars, tapeVars
<1>3. CASE EnsureStep
  <2>1. ASSUME NEW accepted \in BOOLEAN, EnsureAcquire(accepted) PROVE Opens
    <3>1. WorkersStay
      BY <2>1, ClientMoves DEF Labels, EnsureAcquire, Clients
    <3>2. writingSlot = NoSlot
      BY <2>1 DEF EnsureAcquire, InEnsureLoop
    <3> QED
      BY <2>1, <3>1, <3>2 DEF EnsureAcquire, Opens, PipelineStays
  <2>2. ASSUME EnsureWait PROVE Quiet
    <3>1. WorkersStay
      BY <2>2, ClientMoves DEF Labels, EnsureWait, Clients
    <3> QED
      BY <2>2, <3>1 DEF EnsureWait, Quiet, PipelineStays, ringVars
  <2>3. ASSUME NEW outcome \in {"run", "undefined"}, EnsureStopped(outcome) PROVE Quiet
    <3>1. WorkersStay
      BY <2>3, ClientMoves DEF Labels, EnsureStopped, Clients
    <3> QED
      BY <2>3, <3>1 DEF EnsureStopped, Quiet, PipelineStays, ringVars, tapeVars
  <2> QED
    BY <1>3, <2>1, <2>2, <2>3 DEF EnsureStep
<1>4. ASSUME NEW want \in {0, Everything}, Commit(want)
      PROVE  Quiet \/ (\E bound \in BOOLEAN : Publishes(bound)) \/ Aborts
  BY <1>4, CommitEffects DEF Commit, Clients
<1>5. CASE Map
  <2>1. CASE MapCommits(lastUsed)
    <3>1. CommitCurrentChunk("mapper", lastUsed)
      BY <1>5, <2>1 DEF Map
    <3> QED
      BY <1>5, <3>1, CommitEffects DEF Map, Clients
  <2>2. CASE ~ MapCommits(lastUsed)
    <3>1. AfterCommit("mapper", lastUsed, lastCommittedSeqId, {})
      BY <1>5, <2>2 DEF Map
    <3>2. UNCHANGED <<ringVars, tapeVars, inflight>>
      BY <1>5, <2>2 DEF Map
    <3>3. WorkersStay
      BY <3>1, AfterCommitMoves DEF Clients
    <3> QED
      BY <1>5, <3>2, <3>3 DEF Map, Quiet, PipelineStays, ringVars, tapeVars
  <2> QED
    BY <2>1, <2>2
<1>6. CASE Unmap
  <2>1. WorkersStay
    BY <1>6, ClientMoves DEF Labels, Unmap, Clients
  <2> QED
    BY <1>6, <2>1 DEF Unmap, Quiet, PipelineStays, ringVars, tapeVars
<1>7. ASSUME NEW c \in Clients, CommitWake(c)
      PROVE  Quiet \/ \E bound \in BOOLEAN : Publishes(bound)
  <2>0. UNCHANGED <<doneVars, gpuVars, encodeVars>>
    BY <1>7 DEF CommitWake
  <2>1. CASE UNCHANGED <<ringVars, tape, inflight, pc, job>>
    BY <2>0, <2>1, NobodyMoves DEF Quiet, PipelineStays, ringVars
  <2>2. CASE /\ AfterCommit(c, job[c].want, lastCommittedSeqId, {})
             /\ UNCHANGED <<ringVars, tape, inflight>>
    <3>1. WorkersStay
      BY <2>2, AfterCommitMoves
    <3> QED
      BY <2>0, <2>2, <3>1 DEF Quiet, PipelineStays, ringVars
  <2>3. CASE ~ CommitRefused(c) /\ (CommitPublish(c, job[c].want) \/ CommitUnbound(c))
    <3>1. ~ stop /\ writingSlot # NoSlot
      BY <1>7, <2>3 DEF CommitRefused, CommitWake
    <3> QED
      BY <2>0, <2>3, <3>1, PublishMoves
  <2> QED
    BY <1>7, <2>1, <2>2, <2>3 DEF CommitWake
<1>8. ASSUME NEW c \in Clients, SequenceWake(c) PROVE Quiet
  <2>1. WorkersStay
    <3>1. CASE stop \/ completedSeqId >= job[c].target
      <4>1. pc' = [pc EXCEPT ![c] = Returned(c)] /\ Returned(c) \in Labels
        BY <1>8, <3>1 DEF SequenceWake, Returned, Labels
      <4> QED
        BY <4>1, ClientMoves
    <3>2. CASE ~(stop \/ completedSeqId >= job[c].target)
      BY <1>8, <3>2, NobodyMoves DEF SequenceWake
    <3> QED
      BY <3>1, <3>2
  <2> QED
    BY <1>8, <2>1 DEF SequenceWake, Quiet, PipelineStays, ringVars, tapeVars
<1> QED
  BY <1>1, <1>2, <1>3, <1>4, <1>5, <1>6, <1>7, <1>8 DEF ClientStep, ClientWakes

\* The encoder's batch is where it was.
LEMMA BatchStays ==
  ASSUME Places, WorkersStay, UNCHANGED batch
  PROVE  /\ Places' /\ Batched' = Batched
         /\ pc'["encoder"] = pc["encoder"] /\ pc'["watcher"] = pc["watcher"]
         /\ pc'["finish"] = pc["finish"]
BY DEF Places, WorkersStay, Batched, Workers

\* The types of what the invariant counts.
LEMMA TapeNumbers ==
  ASSUME FlowTypes
  PROVE  /\ nextSeqId \in Nat \ {0} /\ lastCommittedSeqId \in Nat
         /\ nextSeqId = lastCommittedSeqId + 1
         /\ completedSeqId \in Nat /\ Len(completedQueue) \in Nat /\ Executed \in Nat
         /\ Len(tape) \in Nat
         /\ Seqs(watching) \in SUBSET Nat /\ HandedOf(pending) \in SUBSET Nat
         /\ Seqs(session) \in SUBSET Nat /\ Seqs(batch) \in SUBSET Nat
         /\ Seqs(Batched) \in SUBSET Nat
         /\ WaitingOf(tape) \in SUBSET Nat
<1>1. /\ nextSeqId \in Nat \ {0} /\ lastCommittedSeqId \in Nat
      /\ nextSeqId = lastCommittedSeqId + 1
      /\ completedSeqId \in Nat /\ Len(completedQueue) \in Nat /\ Executed \in Nat
      /\ Len(tape) \in Nat
  BY DomainLen DEF FlowTypes, lastCommittedSeqId, Executed
<1>2. /\ Seqs(watching) \in SUBSET Nat /\ HandedOf(pending) \in SUBSET Nat
      /\ Seqs(session) \in SUBSET Nat /\ Seqs(batch) \in SUBSET Nat
  BY SeqsNat, HandedNat DEF FlowTypes
<1>3. Seqs(Batched) \in SUBSET Nat
  <2>1. CASE batch = <<>>
    <3>1. Tail(batch) = <<>>
      BY <2>1
    <3> QED
      BY <1>2, <2>1, <3>1 DEF Batched
  <2>2. CASE batch # <<>>
    <3>1. Tail(batch) \in Seq(SourceType)
      BY <2>2, TailEffect DEF FlowTypes
    <3> QED
      BY <1>2, <3>1, SeqsNat DEF Batched
  <2> QED
    BY <2>1, <2>2
<1>4. \A x \in WaitingOf(tape) : x \in Nat
  <2>1. tape \in Seq(EntryType)
    BY DEF FlowTypes
  <2>2. \A i \in 1..Len(tape) : tape[i].seq \in Nat
    BY <2>1, EntryParts
  <2> QED
    BY <2>1, <2>2, InWaiting
<1> QED
  BY <1>1, <1>2, <1>3, <1>4

\* A client step that leaves the pipeline alone.
LEMMA QuietFlow ==
  ASSUME FlowInv, Quiet
  PROVE  FlowInv'
<1>1. /\ Places' /\ Batched' = Batched
      /\ pc'["encoder"] = pc["encoder"] /\ pc'["watcher"] = pc["watcher"]
      /\ pc'["finish"] = pc["finish"]
  BY BatchStays DEF FlowInv, Quiet, PipelineStays, encodeVars
<1>2. UNCHANGED <<writeIndex, writingSlot, nextSeqId, tape, completedSeqId, completedQueue,
                  pending, watching, batch, session>>
  BY DEF Quiet, PipelineStays, encodeVars, doneVars, gpuVars
<1>3. FlowTypes'
  BY <1>2 DEF FlowInv, FlowTypes
<1>4. TapeOrdered' /\ OpenLast'
  BY <1>2 DEF FlowInv, TapeOrdered, OpenLast, lastCommittedSeqId
<1>5. Chain'
  BY <1>1, <1>2 DEF FlowInv, Chain, lastCommittedSeqId, Executed
<1>6. EncoderHolds' /\ WatcherHolds' /\ HeadReclaimed'
  BY <1>1, <1>2 DEF FlowInv, EncoderHolds, WatcherHolds, HeadReclaimed, Executed
<1> QED
  BY <1>1, <1>3, <1>4, <1>5, <1>6 DEF FlowInv

\* The residents that are reclaimed or reserved are the same: what the threads
\* hold goes with them as before.
LEMMA HoldersStay ==
  ASSUME FlowInv, PipelineStays, tape' \in Seq(EntryType),
         NEW n \in Nat, n <= Len(tape), n <= Len(tape'),
         \A i \in 1..n : tape'[i] = tape[i],
         \A i \in 1..Len(tape) : i > n => tape[i].state = "Writing",
         \A i \in 1..Len(tape') : i > n => tape'[i].state \in {"Writing", "Ready"}
  PROVE  EncoderHolds' /\ WatcherHolds' /\ HeadReclaimed'
<1>1. /\ pc'["encoder"] = pc["encoder"] /\ pc'["watcher"] = pc["watcher"]
      /\ pc'["finish"] = pc["finish"]
  BY BatchStays DEF FlowInv, PipelineStays, encodeVars
<1>2. UNCHANGED <<completedSeqId, completedQueue, pending, watching, batch, session>>
  BY DEF PipelineStays, encodeVars, doneVars, gpuVars
<1>3. Len(tape) \in Nat /\ Len(tape') \in Nat
  BY DomainLen DEF FlowInv, FlowTypes
<1>4. /\ \A i \in 1..n : i \in 1..Len(tape) /\ i \in 1..Len(tape')
      /\ \A i \in 1..Len(tape) : i \in 1..n \/ i > n
      /\ \A i \in 1..Len(tape') : i \in 1..n \/ i > n
  BY <1>3
<1>5. WatcherHolds'
  BY <1>1, <1>2 DEF FlowInv, WatcherHolds
<1>6. EncoderHolds'
  <2>1. pc["encoder"] # "window" => \A i \in 1..Len(tape') : tape'[i].state # "Tentative"
    BY <1>4 DEF FlowInv, EncoderHolds
  <2>2. pc["encoder"] = "window" => \E i \in 1..Len(tape') : tape'[i].state = "Tentative"
    BY <1>4 DEF FlowInv, EncoderHolds
  <2> QED
    BY <1>1, <1>2, <2>1, <2>2 DEF FlowInv, EncoderHolds, Executed
<1>7. HeadReclaimed'
  <2>1. ASSUME NEW i \in 1..Len(tape'), tape'[i].state = "Reclaiming"
        PROVE  i \in 1..Len(tape) /\ tape'[i] = tape[i]
    BY <1>4, <2>1
  <2>2. ASSUME tape # <<>>, tape[1].state = "Reclaiming"
        PROVE  tape' # <<>> /\ tape'[1] = tape[1]
    <3>1. 1 \in 1..Len(tape)
      BY <2>2, DomainLen DEF FlowInv, FlowTypes
    <3>2. 1 \in 1..n
      BY <1>4, <2>2, <3>1
    <3>3. 1 \in 1..Len(tape')
      BY <1>4, <3>2
    <3> QED
      BY <3>2, <3>3
  <2> QED
    BY <1>1, <1>2, <2>1, <2>2 DEF FlowInv, HeadReclaimed
<1> QED
  BY <1>5, <1>6, <1>7

\* A chunk is opened: the tape's last entry, without a sequence.
LEMMA OpensFlow ==
  ASSUME FlowInv, Opens
  PROVE  FlowInv'
<1> DEFINE e == [seq |-> 0, slot |-> writeIndex, state |-> "Writing", bound |-> FALSE]
<1>1. Places' /\ Batched' = Batched
  BY BatchStays DEF FlowInv, Opens, PipelineStays, encodeVars
<1>2. UNCHANGED <<writeIndex, nextSeqId, completedSeqId, completedQueue,
                  pending, watching, batch, session>>
  BY DEF Opens, PipelineStays, encodeVars, doneVars, gpuVars
<1>3. e \in EntryType /\ e.state = "Writing" /\ e.seq = 0 /\ e.slot = writeIndex
  BY DEF FlowInv, FlowTypes, EntryType, TapeStates
<1>4. tape' = Append(tape, e) /\ writingSlot' = writeIndex
      /\ \A i \in 1..Len(tape) : tape[i].state # "Writing"
  BY DEF Opens, FlowInv, OpenLast
<1> HIDE DEF e
<1>5. /\ tape' \in Seq(EntryType) /\ Len(tape') = Len(tape) + 1 /\ Len(tape) \in Nat
      /\ \A i \in 1..Len(tape) : tape'[i] = tape[i]
      /\ tape'[Len(tape) + 1] = e /\ tape' # <<>>
  <2>1. tape \in Seq(EntryType)
    BY DEF FlowInv, FlowTypes
  <2>2. Len(tape) \in Nat
    BY <2>1, DomainLen
  <2> QED
    BY <1>3, <1>4, <2>1, <2>2, AppendEffect
<1>6. /\ Staged(tape', lastCommittedSeqId) /\ BoundOf(tape')
      /\ WaitingOf(tape') = WaitingOf(tape)
  BY <1>3, <1>4, StagedAppend, TapeNumbers DEF FlowInv, FlowTypes, TapeOrdered
<1>7. FlowTypes'
  BY <1>2, <1>4, <1>5 DEF FlowInv, FlowTypes
<1>8. TapeOrdered'
  BY <1>2, <1>6 DEF TapeOrdered, lastCommittedSeqId
<1>9. OpenLast'
  <2>1. writingSlot' # NoSlot
    BY <1>4, Sizes DEF FlowInv, FlowTypes
  <2> QED
    BY <1>2, <1>3, <1>4, <1>5, <2>1 DEF OpenLast
<1>10. Chain'
  BY <1>1, <1>2, <1>6 DEF FlowInv, Chain, lastCommittedSeqId, Executed
<1>11. EncoderHolds' /\ WatcherHolds' /\ HeadReclaimed'
  <2>1. \A i \in 1..Len(tape') : i > Len(tape) => tape'[i].state \in {"Writing", "Ready"}
    BY <1>3, <1>5
  <2>2. \A i \in 1..Len(tape) : i > Len(tape) => tape[i].state = "Writing"
    BY <1>5
  <2>3. Len(tape) <= Len(tape) /\ Len(tape) <= Len(tape')
    BY <1>5
  <2> QED
    BY <1>5, <2>1, <2>2, <2>3, HoldersStay DEF Opens
<1> QED
  BY <1>1, <1>7, <1>8, <1>9, <1>10, <1>11 DEF FlowInv

\* A chunk is published: the youngest sequence joins the ready ones.
LEMMA PublishesFlow ==
  ASSUME FlowInv, NEW bound \in BOOLEAN, Publishes(bound)
  PROVE  FlowInv'
<1> DEFINE e == [seq |-> nextSeqId, slot |-> writingSlot, state |-> "Ready", bound |-> bound]
           c == lastCommittedSeqId
<1>1. Places' /\ Batched' = Batched
  BY BatchStays DEF FlowInv, Publishes, PipelineStays, encodeVars
<1>2. UNCHANGED <<completedSeqId, completedQueue, pending, watching, batch, session>>
  BY DEF Publishes, PipelineStays, encodeVars, doneVars, gpuVars
<1>3. /\ c \in Nat /\ nextSeqId = c + 1 /\ c' = c + 1 /\ Executed \in Nat
      /\ nextSeqId' \in Nat \ {0}
  BY TapeNumbers DEF FlowInv, Publishes, lastCommittedSeqId
<1>4. e \in EntryType /\ e.state = "Ready" /\ e.seq = c + 1
  BY <1>3 DEF FlowInv, FlowTypes, EntryType, TapeStates, Publishes
<1>5. /\ tape' = [tape EXCEPT ![Len(tape)] = e] /\ writingSlot' = NoSlot
      /\ tape # <<>> /\ tape[Len(tape)].state = "Writing"
  BY DEF Publishes, PublishedTape, FlowInv, OpenLast
<1>6. writeIndex' \in SlotIds
  BY Sizes DEF Publishes, FlowInv, FlowTypes, SlotIds
<1> HIDE DEF e
<1>7. /\ tape' \in Seq(EntryType) /\ Len(tape') = Len(tape) /\ tape'[Len(tape)] = e
      /\ \A i \in 1..(Len(tape) - 1) : tape'[i] = tape[i]
      /\ Staged(tape', c + 1) /\ BoundOf(tape')
      /\ WaitingOf(tape') = WaitingOf(tape) \cup {c + 1}
      /\ \A i \in 1..Len(tape') : tape'[i].state # "Writing"
  <2>1. tape \in Seq(EntryType) /\ Staged(tape, c) /\ BoundOf(tape)
    BY DEF FlowInv, FlowTypes, TapeOrdered
  <2> HIDE DEF c
  <2>3. /\ c \in Nat /\ e \in EntryType /\ e.state = "Ready" /\ e.seq = c + 1
        /\ tape # <<>> /\ tape[Len(tape)].state = "Writing"
    BY <1>3, <1>4, <1>5
  <2>4. /\ tape' \in Seq(EntryType) /\ Len(tape') = Len(tape) /\ tape'[Len(tape)] = e
        /\ \A i \in 1..(Len(tape) - 1) : tape'[i] = tape[i]
    <3>1. Len(tape) \in Nat \ {0}
      BY <2>1, <2>3, DomainLen
    <3>2. \A i \in 1..(Len(tape) - 1) : i \in 1..Len(tape) /\ i # Len(tape)
      BY <3>1
    <3>3. Len(tape) \in 1..Len(tape)
      BY <3>1
    <3>4. /\ tape' \in Seq(EntryType) /\ Len(tape') = Len(tape)
          /\ \A j \in 1..Len(tape) : tape'[j] = IF j = Len(tape) THEN e ELSE tape[j]
      BY <1>5, <2>1, <2>3, <3>3, ExceptSeq
    <3> QED
      BY <3>2, <3>3, <3>4
  <2> DEFINE u == tape'
  <2>5. /\ u \in Seq(EntryType) /\ Len(u) = Len(tape) /\ u[Len(tape)] = e
        /\ \A i \in 1..(Len(tape) - 1) : u[i] = tape[i]
    BY <2>4
  <2> HIDE DEF u
  <2>6. /\ Staged(u, c + 1) /\ BoundOf(u)
        /\ WaitingOf(u) = WaitingOf(tape) \cup {c + 1}
        /\ \A i \in 1..Len(u) : u[i].state # "Writing"
    BY <2>1, <2>3, <2>5, StagedPublish
  <2> QED
    BY <2>4, <2>6 DEF u
<1>8. FlowTypes'
  BY <1>2, <1>3, <1>5, <1>6, <1>7 DEF FlowInv, FlowTypes
<1>9. TapeOrdered' /\ OpenLast'
  BY <1>3, <1>5, <1>7 DEF TapeOrdered, OpenLast
<1>10. Chain'
  <2>1. InOrder(Executed, Seqs(watching), HandedOf(pending), Seqs(session),
                Seqs(Batched), WaitingOf(tape), c) /\ Executed <= c
    BY DEF FlowInv, Chain
  <2>2. InOrder(Executed, Seqs(watching), HandedOf(pending), Seqs(session),
                Seqs(Batched), WaitingOf(tape), c)'
    <3>1. InOrder(Executed, Seqs(watching), HandedOf(pending), Seqs(session),
                  Seqs(Batched), WaitingOf(tape) \cup {c + 1}, c + 1)
      BY <1>3, <2>1, OrderPublish, TapeNumbers DEF FlowInv
    <3> QED
      BY <1>1, <1>2, <1>3, <1>7, <3>1 DEF Executed
  <2>3. Executed' <= c'
    BY <1>2, <1>3, <2>1 DEF Executed
  <2> QED
    BY <1>2, <2>2, <2>3 DEF FlowInv, Chain, Executed
<1>11. EncoderHolds' /\ WatcherHolds' /\ HeadReclaimed'
  <2>1. Len(tape) \in Nat \ {0}
    BY <1>5, DomainLen DEF FlowInv, FlowTypes
  <2>2. \A i \in 1..Len(tape) : i > Len(tape) - 1 => i = Len(tape)
    BY <2>1
  <2>3. \A i \in 1..Len(tape') : i > Len(tape) - 1 => tape'[i].state \in {"Writing", "Ready"}
    BY <1>4, <1>7, <2>2
  <2>4. \A i \in 1..Len(tape) : i > Len(tape) - 1 => tape[i].state = "Writing"
    BY <1>5, <2>2
  <2>5. Len(tape) - 1 \in Nat /\ Len(tape) - 1 <= Len(tape) /\ Len(tape) - 1 <= Len(tape')
    BY <1>7, <2>1
  <2> QED
    BY <1>7, <2>3, <2>4, <2>5, HoldersStay DEF Publishes
<1> QED
  BY <1>1, <1>8, <1>9, <1>10, <1>11 DEF FlowInv

\* An empty chunk is aborted: it was the tape's last entry.
LEMMA AbortsFlow ==
  ASSUME FlowInv, Aborts
  PROVE  FlowInv'
<1>1. Places' /\ Batched' = Batched
  BY BatchStays DEF FlowInv, Aborts, PipelineStays, encodeVars
<1>2. UNCHANGED <<writeIndex, nextSeqId, completedSeqId, completedQueue,
                  pending, watching, batch, session>>
  BY DEF Aborts, PipelineStays, encodeVars, doneVars, gpuVars
<1>3. /\ tape' = Front(tape) /\ writingSlot' = NoSlot
      /\ tape # <<>> /\ tape[Len(tape)].state = "Writing"
  BY DEF Aborts, FlowInv, OpenLast
<1>4. /\ tape' \in Seq(EntryType) /\ Len(tape') = Len(tape) - 1
      /\ Len(tape) \in Nat \ {0}
      /\ \A i \in 1..(Len(tape) - 1) : tape'[i] = tape[i]
  BY <1>3, FrontEffect, DomainLen DEF FlowInv, FlowTypes
<1>5. /\ Staged(tape', lastCommittedSeqId) /\ BoundOf(tape')
      /\ WaitingOf(tape') = WaitingOf(tape)
      /\ \A i \in 1..Len(tape') : tape'[i].state # "Writing"
  BY <1>3, StagedFront DEF FlowInv, FlowTypes, TapeOrdered
<1>6. FlowTypes'
  BY <1>2, <1>3, <1>4 DEF FlowInv, FlowTypes
<1>7. TapeOrdered' /\ OpenLast'
  BY <1>2, <1>3, <1>5 DEF TapeOrdered, OpenLast, lastCommittedSeqId
<1>8. Chain'
  BY <1>1, <1>2, <1>5 DEF FlowInv, Chain, lastCommittedSeqId, Executed
<1>9. EncoderHolds' /\ WatcherHolds' /\ HeadReclaimed'
  <2>1. \A i \in 1..Len(tape) : i > Len(tape) - 1 => tape[i].state = "Writing"
    BY <1>3, <1>4
  <2>2. \A i \in 1..Len(tape') : i > Len(tape) - 1 => tape'[i].state \in {"Writing", "Ready"}
    BY <1>4
  <2>3. Len(tape) - 1 \in Nat /\ Len(tape) - 1 <= Len(tape) /\ Len(tape) - 1 <= Len(tape')
    BY <1>4
  <2> QED
    BY <1>4, <2>1, <2>2, <2>3, HoldersStay DEF Aborts
<1> QED
  BY <1>1, <1>6, <1>7, <1>8, <1>9 DEF FlowInv

-----------------------------------------------------------------------------
(* The encoder: prefixes of the ready sources. *)

\* A worker moves: everybody else stays.
LEMMA WorkerMoves ==
  ASSUME Places, NEW w \in Workers, NEW l \in Labels, pc' = [pc EXCEPT ![w] = l]
  PROVE  /\ pc' \in [Clients \cup Workers -> Labels] /\ pc'[w] = l
         /\ \A d \in Clients \cup Workers : d # w => pc'[d] = pc[d]
BY DEF Places, Clients, Workers

\* The encoder goes to a place of its own.
LEMMA EncoderMoves ==
  ASSUME Places, NEW l \in {"wait", "window", "encode", "inline", "retire", "exited"},
         EncoderGoes(l)
  PROVE  /\ Places' /\ pc'["encoder"] = l
         /\ pc'["watcher"] = pc["watcher"] /\ pc'["finish"] = pc["finish"]
         /\ \A c \in Clients : pc'[c] = pc[c]
<1>1. l \in Labels /\ "encoder" \in Workers /\ "watcher" \in Workers /\ "finish" \in Workers
      /\ "encoder" \notin Clients
  BY DEF Labels, Workers, Clients
<1>2. /\ pc' \in [Clients \cup Workers -> Labels] /\ pc'["encoder"] = l
      /\ \A d \in Clients \cup Workers : d # "encoder" => pc'[d] = pc[d]
  BY <1>1, WorkerMoves DEF EncoderGoes
<1>3. pc'["watcher"] = pc["watcher"] /\ pc'["finish"] = pc["finish"]
      /\ \A c \in Clients : pc'[c] = pc[c]
  BY <1>1, <1>2
<1> QED
  BY <1>2, <1>3 DEF Places

\* What has left the ready FIFO is behind it on the tape.
LEMMA NotWaiting ==
  ASSUME FlowInv, NEW x \in Seqs(watching) \cup HandedOf(pending) \cup Seqs(session)
                            \cup Seqs(Batched)
  PROVE  /\ x \in Nat /\ Executed < x /\ completedSeqId < x /\ x <= lastCommittedSeqId
         /\ \A i \in 1..Len(tape) :
              tape[i].seq = x => tape[i].state \notin {"Writing", "Ready", "Tentative"}
<1>1. /\ Seqs(watching) \in SUBSET Nat /\ HandedOf(pending) \in SUBSET Nat
      /\ Seqs(session) \in SUBSET Nat /\ Seqs(Batched) \in SUBSET Nat
      /\ WaitingOf(tape) \in SUBSET Nat
      /\ Executed \in Nat /\ completedSeqId \in Nat /\ Len(completedQueue) \in Nat
  BY TapeNumbers DEF FlowInv
<1>2. x \in Nat /\ Executed < x /\ x <= lastCommittedSeqId
  BY <1>1 DEF FlowInv, Chain, InOrder
<1>3. completedSeqId < x
  BY <1>1, <1>2 DEF Executed
<1>4. \A y \in WaitingOf(tape) : x < y
  BY DEF FlowInv, Chain, InOrder, Before
<1>5. x \notin WaitingOf(tape)
  BY <1>2, <1>4
<1>6. ASSUME NEW i \in 1..Len(tape), tape[i].seq = x
      PROVE  tape[i].state \notin {"Writing", "Ready", "Tentative"}
  <2>1. tape \in Seq(EntryType) /\ Staged(tape, lastCommittedSeqId)
    BY DEF FlowInv, FlowTypes, TapeOrdered
  <2>2. tape[i].state \notin Awaiting
    BY <1>5, <1>6, <2>1, InWaiting
  <2>3. tape[i].state # "Writing"
    BY <1>1, <1>2, <1>6, <2>1 DEF Staged
  <2> QED
    BY <2>2, <2>3 DEF Awaiting
<1> QED
  BY <1>2, <1>3, <1>6

\* The tape changes states only: the open chunk stays the last.
LEMMA OpenLastMoved ==
  ASSUME OpenLast, UNCHANGED <<writeIndex, writingSlot>>, tape \in Seq(EntryType),
         tape' \in Seq(EntryType), Len(tape') = Len(tape),
         \A i \in 1..Len(tape) : /\ tape'[i].slot = tape[i].slot
                                 /\ tape'[i].state = "Writing" <=> tape[i].state = "Writing"
  PROVE  OpenLast'
<1>1. CASE writingSlot = NoSlot
  BY <1>1 DEF OpenLast
<1>2. CASE writingSlot # NoSlot
  <2>1. tape # <<>> /\ tape[Len(tape)].state = "Writing"
        /\ tape[Len(tape)].slot = writingSlot /\ writingSlot = writeIndex
    BY <1>2 DEF OpenLast
  <2>2. Len(tape) \in 1..Len(tape) /\ Len(tape) # 0
    BY <2>1, DomainLen
  <2>3. tape' # <<>>
    BY <2>2
  <2> QED
    BY <1>2, <2>1, <2>2, <2>3 DEF OpenLast
<1> QED
  BY <1>1, <1>2

\* Sources that lie together on the tape, given by where they start.
Together(p, a, n) ==
  /\ p \in Seq(EntryType) /\ Len(p) = n
  /\ n \in Nat \ {0} /\ a \in 1..Len(tape) /\ a + n - 1 \in 1..Len(tape)
  /\ \A i \in 1..n : p[i] = tape[a + i - 1]

\* The residents that lie together, by their sequences.
LEMMA TogetherSeqs ==
  ASSUME FlowInv, NEW p, NEW a, NEW n, Together(p, a, n)
  PROVE  /\ \A i \in 1..Len(tape) : tape[i].seq \in Seqs(p) <=> a <= i /\ i <= a + n - 1
         /\ \A x : x \in Seqs(p) <=> \E i \in a..(a + n - 1) : x = tape[i].seq
         /\ \A i \in 1..n : a + i - 1 \in 1..Len(tape) /\ a + i - 1 \in a..(a + n - 1)
<1>1. /\ p \in Seq(EntryType) /\ Len(p) = n
      /\ n \in Nat \ {0} /\ a \in 1..Len(tape) /\ a + n - 1 \in 1..Len(tape)
      /\ \A i \in 1..n : p[i] = tape[a + i - 1]
  BY DEF Together
<1>2. Len(tape) \in Nat /\ tape \in Seq(EntryType) /\ Staged(tape, lastCommittedSeqId)
  BY DomainLen DEF FlowInv, FlowTypes, TapeOrdered
<1>3. \A i \in 1..n : a + i - 1 \in 1..Len(tape) /\ a + i - 1 \in a..(a + n - 1)
  BY <1>1, <1>2
<1>4. \A i \in a..(a + n - 1) : /\ i - a + 1 \in 1..n /\ a + (i - a + 1) - 1 = i
                                /\ i \in 1..Len(tape)
  BY <1>1, <1>2
<1>5. \A x : x \in Seqs(p) <=> \E i \in 1..n : x = p[i].seq
  BY <1>1, SeqsMembers
<1>6. \A x : x \in Seqs(p) <=> \E i \in a..(a + n - 1) : x = tape[i].seq
  <2>1. ASSUME NEW x, NEW i \in 1..n, x = p[i].seq
        PROVE  \E j \in a..(a + n - 1) : x = tape[j].seq
    <3>1. a + i - 1 \in a..(a + n - 1) /\ p[i] = tape[a + i - 1]
      BY <1>1, <1>3
    <3> QED
      BY <2>1, <3>1
  <2>2. ASSUME NEW x, NEW j \in a..(a + n - 1), x = tape[j].seq
        PROVE  \E i \in 1..n : x = p[i].seq
    <3>1. j - a + 1 \in 1..n /\ a + (j - a + 1) - 1 = j
      BY <1>4
    <3>2. p[j - a + 1] = tape[j]
      BY <1>1, <3>1
    <3> QED
      BY <2>2, <3>1, <3>2
  <2> QED
    BY <1>5, <2>1, <2>2
<1>7. ASSUME NEW i \in 1..Len(tape)
      PROVE  tape[i].seq \in Seqs(p) <=> a <= i /\ i <= a + n - 1
  <2>1. ASSUME tape[i].seq \in Seqs(p) PROVE a <= i /\ i <= a + n - 1
    <3>1. PICK j \in a..(a + n - 1) : tape[i].seq = tape[j].seq
      BY <1>6, <2>1
    <3>2. i = j
      BY <1>2, <1>4, <3>1, StagedDistinct
    <3> QED
      BY <1>1, <1>2, <3>1, <3>2
  <2>2. ASSUME a <= i, i <= a + n - 1 PROVE tape[i].seq \in Seqs(p)
    <3>1. i \in a..(a + n - 1)
      BY <1>1, <1>2, <2>2
    <3> QED
      BY <1>6, <3>1
  <2> QED
    BY <2>1, <2>2
<1> QED
  BY <1>3, <1>6, <1>7

\* A prefix of the ready FIFO, or the whole of it or of the reserved prefix.
PrefixOf(p, s, n) ==
  /\ n \in 1..Len(s) /\ p \in Seq(EntryType) /\ Len(p) = n
  /\ \A i \in 1..n : p[i] = s[i]

\* A prefix of a span lies together on the tape.
LEMMA PrefixTogether ==
  ASSUME tape \in Seq(EntryType), NEW s, NEW st, NEW a, NEW b, SpanAt(s, st, a, b),
         NEW n, NEW p, PrefixOf(p, s, n)
  PROVE  /\ Together(p, a, n) /\ a + n - 1 <= b
         /\ \A i \in 1..Len(tape) : a <= i /\ i <= a + n - 1 => tape[i].state = st
         /\ \A i \in 1..Len(tape) : i < a => tape[i].state # st
         /\ n = Len(s) => a + n - 1 = b
<1>0. /\ n \in 1..Len(s) /\ p \in Seq(EntryType) /\ Len(p) = n
      /\ \A i \in 1..n : p[i] = s[i]
  BY DEF PrefixOf
<1>1. /\ a \in 1..Len(tape) /\ b \in 1..Len(tape) /\ a <= b
      /\ s \in Seq(EntryType) /\ Len(s) = b - a + 1
      /\ \A i \in 1..Len(tape) : tape[i].state = st <=> a <= i /\ i <= b
      /\ \A i \in 1..Len(s) : a + i - 1 \in a..b /\ s[i] = tape[a + i - 1]
  BY DEF SpanAt
<1>2. Len(tape) \in Nat
  BY DomainLen
<1>3. n \in Nat \ {0} /\ a + n - 1 \in 1..Len(tape) /\ a + n - 1 <= b
      /\ (n = Len(s) => a + n - 1 = b)
  BY <1>0, <1>1, <1>2
<1>4. \A i \in 1..n : i \in 1..Len(s)
  BY <1>0, <1>1, <1>2
<1>5. Together(p, a, n)
  BY <1>0, <1>1, <1>3, <1>4 DEF Together
<1>6. \A i \in 1..Len(tape) : a <= i /\ i <= a + n - 1 => i <= b
  BY <1>1, <1>2, <1>3
<1>7. \A i \in 1..Len(tape) : i < a => ~(a <= i)
  BY <1>0, <1>1, <1>2
<1> QED
  BY <1>1, <1>3, <1>5, <1>6, <1>7

\* No resident starts or stops being reclaimed.
LEMMA HeadStays ==
  ASSUME HeadReclaimed, tape \in Seq(EntryType), tape' \in Seq(EntryType),
         Len(tape') = Len(tape), completedSeqId' = completedSeqId,
         pc'["finish"] = pc["finish"],
         \/ /\ pc["encoder"] \notin {"inline", "retire"}
            /\ pc'["encoder"] \notin {"inline", "retire"}
         \/ pc'["encoder"] = pc["encoder"] /\ batch' = batch,
         \A i \in 1..Len(tape) :
           /\ tape'[i].seq = tape[i].seq
           /\ tape'[i].state = "Reclaiming" <=> tape[i].state = "Reclaiming"
  PROVE  HeadReclaimed'
<1>1. tape # <<>> => 1 \in 1..Len(tape) /\ tape' # <<>>
  BY DomainLen
<1>2. \A i \in 1..Len(tape') : tape'[i].state = "Reclaiming" =>
        /\ i = 1
        /\ \/ pc'["finish"] = "reclaim" /\ tape'[i].seq = completedSeqId'
           \/ pc'["encoder"] \in {"inline", "retire"} /\ tape'[i].seq = batch'[1].seq
  <2> SUFFICES ASSUME NEW i \in 1..Len(tape'), tape'[i].state = "Reclaiming"
               PROVE  /\ i = 1
                      /\ \/ pc'["finish"] = "reclaim" /\ tape'[i].seq = completedSeqId'
                         \/ /\ pc'["encoder"] \in {"inline", "retire"}
                            /\ tape'[i].seq = batch'[1].seq
    OBVIOUS
  <2>1. i \in 1..Len(tape) /\ tape[i].state = "Reclaiming" /\ tape'[i].seq = tape[i].seq
    OBVIOUS
  <2>2. /\ i = 1
        /\ \/ pc["finish"] = "reclaim" /\ tape[i].seq = completedSeqId
           \/ pc["encoder"] \in {"inline", "retire"} /\ tape[i].seq = batch[1].seq
    BY <2>1 DEF HeadReclaimed
  <2> QED
    BY <2>1, <2>2
<1>3. pc'["finish"] = "reclaim" =>
        tape' # <<>> /\ tape'[1].state = "Reclaiming" /\ tape'[1].seq = completedSeqId'
  BY <1>1 DEF HeadReclaimed
<1>4. pc'["encoder"] \in {"inline", "retire"} =>
        tape' # <<>> /\ tape'[1].state = "Reclaiming" /\ tape'[1].seq = batch'[1].seq
  BY <1>1 DEF HeadReclaimed
<1> QED
  BY <1>2, <1>3, <1>4 DEF HeadReclaimed

\* A prefix of the ready sources is reserved.
LEMMA ReserveFlow ==
  ASSUME FlowInv, pc["encoder"] = "wait", EncoderGoes("window"),
         UNCHANGED <<writeIndex, writingSlot, nextSeqId, doneVars, gpuVars, encodeVars>>,
         NEW p, NEW a, NEW n, Together(p, a, n),
         \A i \in 1..Len(tape) : a <= i /\ i <= a + n - 1 => tape[i].state = "Ready",
         \A i \in 1..Len(tape) : i < a => tape[i].state # "Ready",
         \A i \in 1..n : p[i].bound,
         tape' = Moved(tape, Seqs(p), "Tentative")
  PROVE  FlowInv'
<1>1. /\ Places' /\ pc'["encoder"] = "window"
      /\ pc'["watcher"] = pc["watcher"] /\ pc'["finish"] = pc["finish"]
  BY EncoderMoves DEF FlowInv
<1>2. UNCHANGED <<completedSeqId, completedQueue, pending, watching, batch, session>>
  BY DEF encodeVars, doneVars, gpuVars
<1>3. /\ tape \in Seq(EntryType) /\ Staged(tape, lastCommittedSeqId) /\ BoundOf(tape)
      /\ Len(tape) \in Nat
  BY DomainLen DEF FlowInv, FlowTypes, TapeOrdered
<1>4. /\ tape' \in Seq(EntryType) /\ Len(tape') = Len(tape)
      /\ \A i \in 1..Len(tape) :
           /\ tape'[i].seq = tape[i].seq /\ tape'[i].slot = tape[i].slot
           /\ tape'[i].bound = tape[i].bound
           /\ tape[i].seq \in Seqs(p) => tape'[i].state = "Tentative"
           /\ tape[i].seq \notin Seqs(p) => tape'[i] = tape[i]
  BY <1>3, MovedEffect DEF TapeStates
<1>5. /\ \A i \in 1..Len(tape) : tape[i].seq \in Seqs(p) <=> a <= i /\ i <= a + n - 1
      /\ \A i \in 1..n : a + i - 1 \in 1..Len(tape)
      /\ p \in Seq(EntryType) /\ n \in Nat \ {0}
      /\ a \in 1..Len(tape) /\ a + n - 1 \in 1..Len(tape)
      /\ \A i \in 1..n : p[i] = tape[a + i - 1]
  BY TogetherSeqs DEF Together
<1>6. \A i \in 1..Len(tape) : a <= i /\ i <= a + n - 1 => tape[i].bound
  <2> TAKE i \in 1..Len(tape)
  <2>1. ASSUME a <= i, i <= a + n - 1 PROVE i - a + 1 \in 1..n /\ a + (i - a + 1) - 1 = i
    BY <1>3, <1>5, <2>1
  <2> QED
    BY <1>5, <2>1
<1>7. \A i \in 1..Len(tape) : tape[i].state # "Tentative"
  BY DEF FlowInv, EncoderHolds
<1>8. /\ Staged(tape', lastCommittedSeqId) /\ BoundOf(tape')
      /\ WaitingOf(tape') = WaitingOf(tape)
      /\ \A i \in 1..Len(tape) : tape'[i].state = "Writing" <=> tape[i].state = "Writing"
  <2>1. \A i \in 1..Len(tape) : i < a => tape[i].state \notin Awaiting
    BY <1>7 DEF Awaiting
  <2>2. \A i \in 1..Len(tape) : a <= i /\ i <= a + n - 1 =>
          tape[i].state \in Awaiting /\ tape[i].bound
    BY <1>6 DEF Awaiting
  <2> DEFINE b == a + n - 1
             q == Seqs(p)
             c == lastCommittedSeqId
             m == tape'
  <2>3. b \in 1..Len(tape)
    BY <1>5
  <2>4. /\ \A i \in 1..Len(tape) : tape[i].seq \in q <=> a <= i /\ i <= b
        /\ \A i \in 1..Len(tape) : a <= i /\ i <= b =>
             tape[i].state \in Awaiting /\ tape[i].bound
        /\ \A i \in 1..Len(tape) : a <= i /\ i <= b => tape[i].state = "Ready"
        /\ a \in 1..Len(tape) /\ Staged(tape, c)
    BY <1>3, <1>5, <2>2
  <2>6. /\ m \in Seq(EntryType) /\ Len(m) = Len(tape)
        /\ \A i \in 1..Len(tape) :
             /\ m[i].seq = tape[i].seq /\ m[i].bound = tape[i].bound
             /\ tape[i].seq \in q => m[i].state = "Tentative"
             /\ tape[i].seq \notin q => m[i] = tape[i]
    BY <1>4
  <2> HIDE DEF b, q, c, m
  <2>7. Promotes(tape, m, q, "Tentative", a, b)
    BY <2>1, <2>3, <2>4, <2>6 DEF Promotes
  <2>5. /\ Staged(m, c) /\ BoundOf(m) /\ WaitingOf(m) = WaitingOf(tape)
        /\ \A i \in 1..Len(tape) : m[i].state = "Writing" <=> tape[i].state = "Writing"
    BY <1>3, <2>4, <2>7, StagedPromote
  <2> QED
    BY <2>5 DEF q, c, m
<1>9. FlowTypes'
  BY <1>2, <1>4 DEF FlowInv, FlowTypes
<1>10. TapeOrdered'
  BY <1>8 DEF TapeOrdered, lastCommittedSeqId
<1>11. OpenLast'
  BY <1>3, <1>4, <1>8, OpenLastMoved DEF FlowInv
<1>12. Chain'
  <2>1. Batched' = Batched
    BY <1>1, <1>2 DEF Batched
  <2> QED
    BY <1>2, <1>8, <2>1 DEF FlowInv, Chain, lastCommittedSeqId, Executed
<1>13. HeadReclaimed'
  <2>1. \A i \in 1..Len(tape) :
          /\ tape'[i].seq = tape[i].seq
          /\ tape'[i].state = "Reclaiming" <=> tape[i].state = "Reclaiming"
    BY <1>4, <1>5
  <2> QED
    BY <1>1, <1>2, <1>3, <1>4, <2>1, HeadStays DEF FlowInv
<1>14. EncoderHolds' /\ WatcherHolds'
  <2>1. tape'[a].state = "Tentative" /\ a \in 1..Len(tape')
    BY <1>3, <1>4, <1>5
  <2> QED
    BY <1>1, <1>2, <2>1 DEF FlowInv, EncoderHolds, WatcherHolds
<1> QED
  BY <1>1, <1>9, <1>10, <1>11, <1>12, <1>13, <1>14 DEF FlowInv

\* The first waiting sources are represented, the whole reserved prefix with them.
LEMMA RepresentFlow ==
  ASSUME FlowInv, pc["encoder"] \in {"wait", "window"},
         NEW p, Represent(p), NEW a, NEW n, Together(p, a, n),
         \A i \in 1..Len(tape) : a <= i /\ i <= a + n - 1 =>
            tape[i].state \in Awaiting /\ tape[i].bound,
         \A i \in 1..Len(tape) : i < a => tape[i].state \notin Awaiting,
         \A i \in 1..Len(tape) : tape[i].state = "Tentative" => a <= i /\ i <= a + n - 1
  PROVE  FlowInv'
<1>1. /\ Places' /\ pc'["encoder"] = "encode"
      /\ pc'["watcher"] = pc["watcher"] /\ pc'["finish"] = pc["finish"]
  BY EncoderMoves DEF FlowInv, Represent
<1>2. UNCHANGED <<writeIndex, writingSlot, nextSeqId, completedSeqId, completedQueue,
                  pending, watching, session>>
  BY DEF Represent, doneVars, gpuVars
<1>3. /\ tape \in Seq(EntryType) /\ Staged(tape, lastCommittedSeqId) /\ BoundOf(tape)
      /\ Len(tape) \in Nat
  BY DomainLen DEF FlowInv, FlowTypes, TapeOrdered
<1>4. tape' = Moved(tape, Seqs(p), "Represented")
  BY DEF Represent
<1>5. /\ tape' \in Seq(EntryType) /\ Len(tape') = Len(tape)
      /\ \A i \in 1..Len(tape) :
           /\ tape'[i].seq = tape[i].seq /\ tape'[i].slot = tape[i].slot
           /\ tape'[i].bound = tape[i].bound
           /\ tape[i].seq \in Seqs(p) => tape'[i].state = "Represented"
           /\ tape[i].seq \notin Seqs(p) => tape'[i] = tape[i]
  BY <1>3, <1>4, MovedEffect DEF TapeStates
<1>6. /\ \A i \in 1..Len(tape) : tape[i].seq \in Seqs(p) <=> a <= i /\ i <= a + n - 1
      /\ \A x : x \in Seqs(p) <=> \E i \in a..(a + n - 1) : x = tape[i].seq
      /\ \A i \in 1..n : a + i - 1 \in 1..Len(tape)
      /\ p \in Seq(EntryType) /\ n \in Nat \ {0} /\ Len(p) = n
      /\ a \in 1..Len(tape) /\ a + n - 1 \in 1..Len(tape)
      /\ \A i \in 1..n : p[i] = tape[a + i - 1]
  <2>1. /\ p \in Seq(EntryType) /\ n \in Nat \ {0} /\ Len(p) = n
        /\ a \in 1..Len(tape) /\ a + n - 1 \in 1..Len(tape)
        /\ \A i \in 1..n : p[i] = tape[a + i - 1]
    BY DEF Together
  <2> QED
    BY <2>1, TogetherSeqs
<1>7. /\ Staged(tape', lastCommittedSeqId) /\ BoundOf(tape')
      /\ WaitingOf(tape') = WaitingOf(tape) \ Seqs(p)
      /\ \A i \in 1..Len(tape) : tape'[i].state = "Writing" <=> tape[i].state = "Writing"
  <2> DEFINE b == a + n - 1
             q == Seqs(p)
             c == lastCommittedSeqId
             m == tape'
  <2>1. b \in 1..Len(tape)
    BY <1>6
  <2>2. /\ \A i \in 1..Len(tape) : tape[i].seq \in q <=> a <= i /\ i <= b
        /\ \A i \in 1..Len(tape) : a <= i /\ i <= b =>
             tape[i].state \in Awaiting /\ tape[i].bound
        /\ \A i \in 1..Len(tape) : i < a => tape[i].state \notin Awaiting
        /\ a \in 1..Len(tape) /\ Staged(tape, c)
    BY <1>3, <1>6
  <2>6. /\ m \in Seq(EntryType) /\ Len(m) = Len(tape)
        /\ \A i \in 1..Len(tape) :
             /\ m[i].seq = tape[i].seq /\ m[i].bound = tape[i].bound
             /\ tape[i].seq \in q => m[i].state = "Represented"
             /\ tape[i].seq \notin q => m[i] = tape[i]
    BY <1>5
  <2> HIDE DEF b, q, c, m
  <2>7. Promotes(tape, m, q, "Represented", a, b)
    BY <2>1, <2>2, <2>6 DEF Promotes
  <2>3. /\ Staged(m, c) /\ BoundOf(m) /\ WaitingOf(m) = WaitingOf(tape) \ q
        /\ \A i \in 1..Len(tape) : m[i].state = "Writing" <=> tape[i].state = "Writing"
    BY <1>3, <2>2, <2>7, StagedPromote
  <2> QED
    BY <2>3 DEF q, c, m
<1>8. /\ batch' \in Seq(SourceType) /\ Len(batch') = n
      /\ \A i \in 1..n : batch'[i].seq = p[i].seq /\ ~ batch'[i].receipt
  <2>1. batch' = [i \in 1..n |-> [seq |-> p[i].seq, slot |-> p[i].slot, receipt |-> FALSE]]
    BY <1>6, DomainLen DEF Represent
  <2>2. \A i \in 1..n : p[i].seq \in Nat /\ p[i].slot \in SlotIds
    BY <1>6, EntryParts
  <2>3. \A i \in 1..n :
          [seq |-> p[i].seq, slot |-> p[i].slot, receipt |-> FALSE] \in SourceType
    BY <2>2 DEF SourceType
  <2>4. batch' \in Seq(SourceType) /\ Len(batch') = n
    BY <1>6, <2>1, <2>3, IsASeq
  <2> QED
    BY <2>1, <2>4
<1>9. Seqs(batch') = Seqs(p)
  <2>1. \A x : x \in Seqs(p) <=> \E i \in 1..n : x = p[i].seq
    <3>1. p \in Seq(EntryType) /\ Len(p) = n
      BY <1>6
    <3>2. \A x : x \in Seqs(p) <=> \E i \in 1..Len(p) : x = p[i].seq
      BY <3>1, SeqsMembers
    <3> QED
      BY <3>1, <3>2
  <2>2. \A x : x \in Seqs(batch') <=> \E i \in 1..n : x = batch'[i].seq
    <3> DEFINE s == batch'
    <3>1. s \in Seq(SourceType) /\ Len(s) = n
      BY <1>8
    <3> HIDE DEF s
    <3>2. \A x : x \in Seqs(s) <=> \E i \in 1..n : x = s[i].seq
      BY <3>1, SeqsMembers
    <3> QED
      BY <3>2 DEF s
  <2>3. \A x : x \in Seqs(batch') <=> x \in Seqs(p)
    BY <1>8, <2>1, <2>2
  <2> QED
    BY <2>3
<1>10. batch' # <<>>
  BY <1>6, <1>8
<1>11. Ascending(batch')
  <2> SUFFICES ASSUME NEW i \in 1..n, NEW j \in 1..n, i < j
               PROVE  batch'[i].seq < batch'[j].seq
    BY <1>8, AscendingMeans
  <2>1. a + i - 1 \in 1..Len(tape) /\ a + j - 1 \in 1..Len(tape) /\ a + i - 1 < a + j - 1
        /\ a <= a + j - 1 /\ a + j - 1 <= a + n - 1
    BY <1>3, <1>6
  <2>2. tape[a + j - 1].state # "Writing"
    BY <2>1 DEF Awaiting
  <2>3. tape[a + i - 1].seq < tape[a + j - 1].seq
    BY <1>3, <2>1, <2>2 DEF Staged
  <2> QED
    BY <1>6, <1>8, <2>3
<1>12. Before(Seqs(p), WaitingOf(tape'))
  <2> SUFFICES ASSUME NEW x \in Seqs(p), NEW y \in WaitingOf(tape')
               PROVE  x < y
    BY DEF Before
  <2>1. PICK i \in a..(a + n - 1) : x = tape[i].seq
    BY <1>6
  <2>2. y \in WaitingOf(tape) /\ y \notin Seqs(p)
    BY <1>7
  <2>3. PICK j \in 1..Len(tape) : tape[j].state \in Awaiting /\ tape[j].seq = y
    BY <1>3, <2>2, InWaiting
  <2>4. ~(a <= j /\ j <= a + n - 1) /\ ~(j < a)
    BY <1>6, <2>2, <2>3
  <2>5. i \in 1..Len(tape) /\ i < j
    BY <1>3, <1>6, <2>4
  <2> QED
    BY <1>3, <2>1, <2>3, <2>5 DEF Staged, Awaiting
<1>13. FlowTypes'
  BY <1>2, <1>5, <1>8 DEF FlowInv, FlowTypes
<1>14. TapeOrdered'
  BY <1>2, <1>7 DEF TapeOrdered, lastCommittedSeqId
<1>15. OpenLast'
  BY <1>2, <1>3, <1>5, <1>7, OpenLastMoved DEF FlowInv
<1>16. Chain'
  <2>1. Batched = <<>> /\ Batched' = batch'
    BY <1>1 DEF Batched, FlowInv, EncoderHolds
  <2>2. Seqs(Batched) = {}
    <3>1. \A x : x \notin Seqs(<<>>)
      BY DEF Seqs
    <3> QED
      BY <2>1, <3>1
  <2>3. InOrder(Executed, Seqs(watching), HandedOf(pending), Seqs(session), {},
                WaitingOf(tape), lastCommittedSeqId)
    BY <2>2 DEF FlowInv, Chain
  <2>4. Seqs(p) \in SUBSET WaitingOf(tape) /\ WaitingOf(tape') \in SUBSET WaitingOf(tape)
    <3>1. ASSUME NEW x \in Seqs(p) PROVE x \in WaitingOf(tape)
      <4>1. PICK i \in a..(a + n - 1) : x = tape[i].seq
        BY <1>6
      <4>2. i \in 1..Len(tape) /\ a <= i /\ i <= a + n - 1
        BY <1>3, <1>6
      <4> QED
        BY <1>3, <4>1, <4>2, InWaiting
    <3> QED
      BY <1>7, <3>1
  <2> DEFINE q == Seqs(p)
             u == WaitingOf(tape')
  <2>5. q \in SUBSET WaitingOf(tape) /\ u \in SUBSET WaitingOf(tape) /\ Before(q, u)
    BY <1>12, <2>4
  <2> HIDE DEF q, u
  <2>6. InOrder(Executed, Seqs(watching), HandedOf(pending), Seqs(session), q,
                u, lastCommittedSeqId)
    BY <2>3, <2>5, OrderRepresent
  <2>7. InOrder(Executed, Seqs(watching), HandedOf(pending), Seqs(session),
                Seqs(Batched), WaitingOf(tape), lastCommittedSeqId)'
    BY <1>2, <1>9, <2>1, <2>6 DEF q, u, lastCommittedSeqId, Executed
  <2> QED
    BY <1>2, <1>8, <1>11, <2>7 DEF FlowInv, Chain, lastCommittedSeqId, Executed
<1>17. HeadReclaimed'
  <2>1. \A i \in 1..Len(tape) :
          /\ tape'[i].seq = tape[i].seq
          /\ tape'[i].state = "Reclaiming" <=> tape[i].state = "Reclaiming"
    BY <1>5, <1>6 DEF Awaiting
  <2> QED
    BY <1>1, <1>2, <1>3, <1>5, <2>1, HeadStays DEF FlowInv
<1>18. EncoderHolds' /\ WatcherHolds'
  <2>1. \A i \in 1..Len(tape') : tape'[i].state # "Tentative"
    BY <1>5, <1>6, SMTT(20)
  <2> QED
    BY <1>1, <1>2, <1>10, <2>1 DEF FlowInv, EncoderHolds, WatcherHolds
<1> QED
  BY <1>1, <1>13, <1>14, <1>15, <1>16, <1>17, <1>18 DEF FlowInv

\* The reserved prefix is ready again.
LEMMA RestoreFlow ==
  ASSUME FlowInv, RestorePrefix, NEW q, q = Seqs(Tentative),
         \A i \in 1..Len(tape) : tape[i].seq \in q <=> tape[i].state = "Tentative"
  PROVE  FlowInv'
<1>1. /\ Places' /\ pc'["encoder"] = "wait" /\ pc["encoder"] = "window"
      /\ pc'["watcher"] = pc["watcher"] /\ pc'["finish"] = pc["finish"]
  BY EncoderMoves DEF FlowInv, RestorePrefix, EncoderAt
<1>2. UNCHANGED <<writeIndex, writingSlot, nextSeqId, completedSeqId, completedQueue, pending,
                  watching, batch, session>>
  BY DEF RestorePrefix, ringVars, encodeVars, doneVars, gpuVars
<1>3. /\ tape \in Seq(EntryType) /\ Staged(tape, lastCommittedSeqId) /\ BoundOf(tape)
      /\ Len(tape) \in Nat
  BY DomainLen DEF FlowInv, FlowTypes, TapeOrdered
<1>4. /\ tape' \in Seq(EntryType) /\ Len(tape') = Len(tape)
      /\ \A i \in 1..Len(tape) :
           /\ tape'[i].seq = tape[i].seq /\ tape'[i].slot = tape[i].slot
           /\ tape'[i].bound = tape[i].bound
           /\ tape[i].seq \in q => tape'[i].state = "Ready"
           /\ tape[i].seq \notin q => tape'[i] = tape[i]
  <2>1. tape' = Moved(tape, q, "Ready")
    BY DEF RestorePrefix
  <2> QED
    BY <1>3, <2>1, MovedEffect DEF TapeStates
<1>5. /\ Staged(tape', lastCommittedSeqId) /\ BoundOf(tape')
      /\ WaitingOf(tape') = WaitingOf(tape)
      /\ \A i \in 1..Len(tape) : tape'[i].state = "Writing" <=> tape[i].state = "Writing"
      /\ \A i \in 1..Len(tape) : tape'[i].state # "Tentative"
  <2> DEFINE m == tape'
             c == lastCommittedSeqId
  <2>1. /\ m \in Seq(EntryType) /\ Len(m) = Len(tape)
        /\ \A i \in 1..Len(tape) :
             /\ m[i].seq = tape[i].seq /\ m[i].bound = tape[i].bound
             /\ tape[i].seq \in q => m[i].state = "Ready"
             /\ tape[i].seq \notin q => m[i] = tape[i]
        /\ tape \in Seq(EntryType) /\ Staged(tape, c) /\ BoundOf(tape)
    BY <1>3, <1>4
  <2> HIDE DEF m, c
  <2>3. Restores(tape, m, q)
    BY <2>1 DEF Restores
  <2>2. /\ Staged(m, c) /\ BoundOf(m) /\ WaitingOf(m) = WaitingOf(tape)
        /\ \A i \in 1..Len(tape) : m[i].state = "Writing" <=> tape[i].state = "Writing"
        /\ \A i \in 1..Len(tape) : m[i].state # "Tentative"
    BY <2>1, <2>3, StagedRestore
  <2> QED
    BY <2>2 DEF m, c
<1>6. FlowTypes'
  BY <1>2, <1>4 DEF FlowInv, FlowTypes
<1>7. TapeOrdered'
  BY <1>2, <1>5 DEF TapeOrdered, lastCommittedSeqId
<1>8. OpenLast'
  BY <1>2, <1>3, <1>4, <1>5, OpenLastMoved DEF FlowInv
<1>9. Chain'
  <2>1. Batched' = Batched
    BY <1>1, <1>2 DEF Batched
  <2> QED
    BY <1>2, <1>5, <2>1 DEF FlowInv, Chain, lastCommittedSeqId, Executed
<1>10. HeadReclaimed'
  <2>1. \A i \in 1..Len(tape) :
          /\ tape'[i].seq = tape[i].seq
          /\ tape'[i].state = "Reclaiming" <=> tape[i].state = "Reclaiming"
    BY <1>4
  <2> QED
    BY <1>1, <1>2, <1>3, <1>4, <2>1, HeadStays DEF FlowInv
<1>11. EncoderHolds' /\ WatcherHolds'
  BY <1>1, <1>2, <1>4, <1>5 DEF FlowInv, EncoderHolds, WatcherHolds
<1> QED
  BY <1>1, <1>6, <1>7, <1>8, <1>9, <1>10, <1>11 DEF FlowInv

\* The ready FIFO where it lies on the tape.
LEMMA ReadyAt ==
  ASSUME FlowInv
  PROVE  \/ Ready = <<>> /\ \A i \in 1..Len(tape) : tape[i].state # "Ready"
         \/ Ready # <<>> /\ \E a, b \in 1..Len(tape) : SpanAt(Ready, "Ready", a, b)
<1>1. tape \in Seq(EntryType) /\ Staged(tape, lastCommittedSeqId) /\ Len(tape) \in Nat
  BY DomainLen DEF FlowInv, FlowTypes, TapeOrdered
<1>2. \/ Ready = <<>> /\ \A i \in 1..Len(tape) : tape[i].state # "Ready"
      \/ \E a, b \in 1..Len(tape) : SpanAt(Ready, "Ready", a, b)
  BY <1>1, SpanEffect DEF Ready
<1>3. ASSUME NEW a \in 1..Len(tape), NEW b \in 1..Len(tape), SpanAt(Ready, "Ready", a, b)
      PROVE  Ready # <<>>
  <2>1. Ready \in Seq(EntryType) /\ Len(Ready) = b - a + 1 /\ a <= b
    BY <1>3 DEF SpanAt
  <2>2. Len(Ready) # 0
    BY <1>1, <2>1
  <2> QED
    BY <2>1, <2>2
<1> QED
  BY <1>2, <1>3

\* In the window a prefix is reserved.
LEMMA TentativeAt ==
  ASSUME FlowInv, pc["encoder"] = "window"
  PROVE  \E a, b \in 1..Len(tape) : SpanAt(Tentative, "Tentative", a, b)
<1>1. tape \in Seq(EntryType) /\ Staged(tape, lastCommittedSeqId)
  BY DEF FlowInv, FlowTypes, TapeOrdered
<1>2. \E i \in 1..Len(tape) : tape[i].state = "Tentative"
  BY DEF FlowInv, EncoderHolds
<1> QED
  BY <1>1, <1>2, SpanEffect DEF Tentative

\* What a dequeue looks at.
LEMMA CandidatesEffect ==
  ASSUME NEW n \in Nat \ {0}, Ready \in Seq(EntryType), Len(Ready) = n
  PROVE  /\ Window \in Nat \ {0} /\ Len(Candidates) \in 1..n /\ Len(Candidates) <= Window
         /\ Len(Candidates) = IF Window <= n THEN Window ELSE n
         /\ Candidates \in Seq(EntryType)
         /\ \A i \in 1..Len(Candidates) : Candidates[i] = Ready[i]
                                          /\ Ready[i] \in ToSet(Candidates)
<1>1. Window \in Nat \ {0}
  BY Sizes DEF Window
<1> DEFINE k == Min({Window, n})
<1>2. k \in 1..n /\ k = (IF Window <= n THEN Window ELSE n) /\ k <= Window
  <2>1. Window \in Int /\ n \in Int
    BY <1>1
  <2>2. k = IF Window <= n THEN Window ELSE n
    BY <2>1, TwoNumbers
  <2> HIDE DEF k
  <2> QED
    BY <1>1, <2>2
<1>3. Candidates = SubSeq(Ready, 1, k)
  BY DEF Candidates
<1> HIDE DEF k
<1>4. /\ Candidates \in Seq(EntryType) /\ Len(Candidates) = k
      /\ \A i \in 1..k : Candidates[i] = Ready[i]
  BY <1>2, <1>3
<1>5. \A i \in 1..k : Ready[i] \in ToSet(Candidates)
  <2>1. DOMAIN Candidates = 1..k
    BY <1>4, DomainLen
  <2> QED
    BY <1>4, <2>1 DEF ToSet
<1> QED
  BY <1>1, <1>2, <1>4, <1>5

\* The sources of a sequence are finitely many.
LEMMA ResidentFinite ==
  ASSUME NEW s \in Seq(SourceType)
  PROVE  /\ IsFiniteSet(ToSet(s)) /\ IsFiniteSet(Resident(s))
         /\ Cardinality(Resident(s)) \in Nat
<1>1. DOMAIN s = 1..Len(s) /\ Len(s) \in Nat
  BY DomainLen
<1>2. IsFiniteSet(1..Len(s))
  BY <1>1, FS_Interval
<1>3. s \in Surjection(1..Len(s), ToSet(s))
  <2>1. ToSet(s) = {s[i] : i \in 1..Len(s)}
    BY <1>1 DEF ToSet
  <2>2. s \in [1..Len(s) -> ToSet(s)]
    BY <1>1, <2>1
  <2> QED
    BY <2>1, <2>2 DEF Surjection
<1>4. IsFiniteSet(ToSet(s))
  BY <1>2, <1>3, FS_Surjection
<1>5. IsFiniteSet(Resident(s))
  BY <1>4, FS_Subset DEF Resident
<1> QED
  BY <1>4, <1>5, FS_CardinalityType

\* The room of a session, bounded by its residents and its sources.
LEMMA SessionRoomInt ==
  ASSUME FlowInv
  PROVE  /\ SessionResidentLimit \in Int /\ SessionResidentLimit <= InflightLimit - 1
         /\ SessionRoom \in Int
         /\ SessionRoom <= SessionResidentLimit - Cardinality(Resident(session))
         /\ SessionRoom <= SessionSources - Len(session)
<1>1. /\ SlotCount \in Int /\ InflightLimit - 1 \in Int /\ InflightLimit - 1 <= SlotCount
      /\ SessionSources \in Int
  BY Sizes DEF InflightLimit
<1>2. SessionResidentLimit = InflightLimit - 1
  <2>1. Min({SlotCount, InflightLimit - 1})
          = IF SlotCount <= InflightLimit - 1 THEN SlotCount ELSE InflightLimit - 1
    BY <1>1, TwoNumbers
  <2> QED
    BY <1>1, <2>1 DEF SessionResidentLimit
<1> DEFINE x == SessionResidentLimit - Cardinality(Resident(session))
           y == SessionSources - Len(session)
<1>3. x \in Int /\ y \in Int
  <2>1. Cardinality(Resident(session)) \in Nat /\ Len(session) \in Nat
    BY ResidentFinite, DomainLen DEF FlowInv, FlowTypes
  <2> QED
    BY <1>1, <1>2, <2>1
<1>4. SessionRoom = Min({x, y})
  BY DEF SessionRoom
<1> HIDE DEF x, y
<1>5. SessionRoom = IF x <= y THEN x ELSE y
  BY <1>3, <1>4, TwoNumbers
<1>6. SessionRoom \in Int /\ SessionRoom <= x /\ SessionRoom <= y
  BY <1>3, <1>5
<1>7. SessionResidentLimit \in Int /\ SessionResidentLimit <= InflightLimit - 1
  BY <1>1, <1>2
<1> QED
  BY <1>6, <1>7 DEF x, y

\* A prefix that is reserved is one of valid candidates.
LEMMA ReserveEffect ==
  ASSUME FlowInv, NEW n \in 1..SlotCount, ReservePrefix(n)
  PROVE  /\ n <= SessionRoom
         /\ \E a \in 1..Len(tape) :
              LET p == SubSeq(Ready, 1, n)
              IN  /\ Together(p, a, n)
                  /\ \A i \in 1..Len(tape) : a <= i /\ i <= a + n - 1 => tape[i].state = "Ready"
                  /\ \A i \in 1..Len(tape) : i < a => tape[i].state # "Ready"
                  /\ \A i \in 1..n : p[i].bound
<1>1. SessionRoom \in Int
  BY SessionRoomInt
<1>2. Ready # <<>>
  <2>1. ASSUME Ready = <<>> PROVE FALSE
    <3>1. Len(Ready) = 0 /\ Ready \in Seq(EntryType)
      BY <2>1
    <3>2. Min({Window, 0}) = 0
      <4>1. Window \in Nat \ {0}
        BY Sizes DEF Window
      <4>2. Window \in Int /\ 0 \in Int
        BY <4>1
      <4>3. Min({Window, 0}) = IF Window <= 0 THEN Window ELSE 0
        BY <4>2, TwoNumbers
      <4> QED
        BY <4>1, <4>3
    <3>3. Candidates = <<>>
      BY <2>1, <3>1, <3>2 DEF Candidates
    <3>4. Len(Candidates) = 0
      BY <3>3
    <3>5. Min({Len(Candidates), SessionRoom})
            = IF Len(Candidates) <= SessionRoom THEN Len(Candidates) ELSE SessionRoom
      BY <1>1, <3>4, TwoNumbers, 0 \in Int
    <3>6. Min({Len(Candidates), SessionRoom}) \in Int /\ Min({Len(Candidates), SessionRoom}) <= 0
      BY <1>1, <3>4, <3>5
    <3>7. n \in 1..Min({Len(Candidates), SessionRoom})
      BY DEF ReservePrefix
    <3> HIDE DEF Min
    <3> QED
      BY <3>6, <3>7
  <2> QED
    BY <2>1
<1>3. PICK a \in 1..Len(tape), b \in 1..Len(tape) : SpanAt(Ready, "Ready", a, b)
  BY <1>2, ReadyAt
<1>4. Ready \in Seq(EntryType) /\ Len(Ready) \in Nat \ {0}
  BY <1>2, <1>3, DomainLen DEF SpanAt
<1>5. /\ Len(Candidates) \in 1..Len(Ready)
      /\ \A i \in 1..Len(Candidates) : Ready[i] \in ToSet(Candidates)
  BY <1>4, CandidatesEffect
<1>6. n \in 1..Len(Candidates) /\ n <= SessionRoom
  <2>1. Len(Candidates) \in Int
    BY <1>4, <1>5
  <2>2. Min({Len(Candidates), SessionRoom})
          = IF Len(Candidates) <= SessionRoom THEN Len(Candidates) ELSE SessionRoom
    BY <1>1, <2>1, TwoNumbers
  <2>3. n \in 1..Min({Len(Candidates), SessionRoom})
    BY DEF ReservePrefix
  <2> QED
    BY <1>1, <2>1, <2>2, <2>3
<1> DEFINE p == SubSeq(Ready, 1, n)
<1>7. n \in 1..Len(Ready)
  BY <1>4, <1>5, <1>6
<1>8. p \in Seq(EntryType) /\ Len(p) = n /\ \A i \in 1..n : p[i] = Ready[i]
  BY <1>4, <1>7
<1> HIDE DEF p
<1>9. /\ Together(p, a, n)
      /\ \A i \in 1..Len(tape) : a <= i /\ i <= a + n - 1 => tape[i].state = "Ready"
      /\ \A i \in 1..Len(tape) : i < a => tape[i].state # "Ready"
  <2>1. tape \in Seq(EntryType)
    BY DEF FlowInv, FlowTypes
  <2>2. PrefixOf(p, Ready, n)
    BY <1>7, <1>8 DEF PrefixOf
  <2> QED
    BY <1>3, <2>1, <2>2, PrefixTogether
<1>10. \A i \in 1..n : p[i].bound
  <2> TAKE i \in 1..n
  <2>1. i \in 1..Len(Candidates) /\ p[i] = Ready[i]
    BY <1>4, <1>5, <1>6, <1>8
  <2>2. p[i] \in ToSet(Candidates)
    BY <1>5, <2>1
  <2> QED
    BY <2>2 DEF ReservePrefix, CandidatesValid
<1> QED
  BY <1>6, <1>9, <1>10 DEF p

\* A prefix of the ready sources is reserved.
LEMMA ReservePrefixFlow ==
  ASSUME FlowInv, NEW n \in 1..SlotCount, ReservePrefix(n)
  PROVE  FlowInv'
<1> DEFINE p == SubSeq(Ready, 1, n)
<1>1. PICK a \in 1..Len(tape) :
        /\ Together(p, a, n)
        /\ \A i \in 1..Len(tape) : a <= i /\ i <= a + n - 1 => tape[i].state = "Ready"
        /\ \A i \in 1..Len(tape) : i < a => tape[i].state # "Ready"
        /\ \A i \in 1..n : p[i].bound
  BY ReserveEffect
<1>2. /\ tape' = Moved(tape, Seqs(p), "Tentative")
      /\ pc["encoder"] = "wait" /\ EncoderGoes("window")
      /\ UNCHANGED <<writeIndex, writingSlot, nextSeqId, doneVars, gpuVars, encodeVars>>
  BY DEF ReservePrefix, EncoderAt, ringVars
<1> HIDE DEF p
<1> QED
  BY <1>1, <1>2, ReserveFlow

\* The first ready source, if it is a valid candidate.
LEMMA DequeueEffect ==
  ASSUME FlowInv, Dequeue
  PROVE  LET p == <<Head(Ready)>>
         IN  /\ Represent(p) /\ pc["encoder"] = "wait" /\ Ready # <<>>
             /\ p \in Seq(EntryType) /\ Head(Ready) = Ready[1] /\ Ready[1].bound
             /\ \E a \in 1..Len(tape) :
                  /\ Together(p, a, 1)
                  /\ \A i \in 1..Len(tape) : a <= i /\ i <= a + 1 - 1 =>
                       tape[i].state = "Ready" /\ tape[i].bound
                  /\ \A i \in 1..Len(tape) : i < a => tape[i].state # "Ready"
<1> DEFINE p == <<Head(Ready)>>
<1>1. Represent(p) /\ pc["encoder"] = "wait" /\ Ready # <<>> /\ CandidatesValid
  BY DEF Dequeue, EncoderAt
<1>2. PICK a \in 1..Len(tape), b \in 1..Len(tape) : SpanAt(Ready, "Ready", a, b)
  BY <1>1, ReadyAt
<1>3. Ready \in Seq(EntryType) /\ Len(Ready) \in Nat \ {0} /\ Len(tape) \in Nat
      /\ tape \in Seq(EntryType)
  BY <1>1, <1>2, DomainLen DEF SpanAt, FlowInv, FlowTypes
<1>4. Head(Ready) = Ready[1] /\ Ready[1] \in EntryType
  BY <1>1, <1>3, TailEffect
<1>5. p \in Seq(EntryType) /\ Len(p) = 1 /\ p[1] = Ready[1]
  BY <1>4
<1>6. Ready[1].bound
  <2>1. Ready[1] \in ToSet(Candidates)
    <3>1. Len(Candidates) \in 1..Len(Ready)
          /\ \A i \in 1..Len(Candidates) : Ready[i] \in ToSet(Candidates)
      BY <1>3, CandidatesEffect
    <3>2. 1 \in 1..Len(Candidates)
      BY <1>3, <3>1
    <3> QED
      BY <3>1, <3>2
  <2> QED
    BY <1>1, <2>1 DEF CandidatesValid
<1> HIDE DEF p
<1>7. PrefixOf(p, Ready, 1)
  BY <1>3, <1>5 DEF PrefixOf
<1>8. /\ Together(p, a, 1)
      /\ \A i \in 1..Len(tape) : a <= i /\ i <= a + 1 - 1 => tape[i].state = "Ready"
      /\ \A i \in 1..Len(tape) : i < a => tape[i].state # "Ready"
  BY <1>2, <1>3, <1>7, PrefixTogether
<1>9. \A i \in 1..Len(tape) : a <= i /\ i <= a + 1 - 1 => tape[i].bound
  <2>1. tape[a] = p[1]
    BY <1>3, <1>8 DEF Together
  <2>2. \A i \in 1..Len(tape) : a <= i /\ i <= a + 1 - 1 => i = a
    BY <1>3
  <2> QED
    BY <1>5, <1>6, <2>1, <2>2
<1> QED
  BY <1>1, <1>4, <1>5, <1>6, <1>8, <1>9 DEF p

\* The plain loop takes the oldest ready source.
LEMMA DequeueFlow ==
  ASSUME FlowInv, Dequeue
  PROVE  FlowInv'
<1> DEFINE p == <<Head(Ready)>>
<1>1. Represent(p) /\ pc["encoder"] = "wait"
  BY DequeueEffect
<1>2. PICK a \in 1..Len(tape) :
        /\ Together(p, a, 1)
        /\ \A i \in 1..Len(tape) : a <= i /\ i <= a + 1 - 1 =>
             tape[i].state = "Ready" /\ tape[i].bound
        /\ \A i \in 1..Len(tape) : i < a => tape[i].state # "Ready"
  BY DequeueEffect
<1> HIDE DEF p
<1>3. \A i \in 1..Len(tape) : tape[i].state # "Tentative"
  BY <1>1 DEF FlowInv, EncoderHolds
<1>4. \A i \in 1..Len(tape) : a <= i /\ i <= a + 1 - 1 =>
        tape[i].state \in Awaiting /\ tape[i].bound
  BY <1>2 DEF Awaiting
<1>5. \A i \in 1..Len(tape) : i < a => tape[i].state \notin Awaiting
  BY <1>2, <1>3 DEF Awaiting
<1> QED
  BY <1>1, <1>2, <1>3, <1>4, <1>5, RepresentFlow

\* The reserved prefix where it lies on the tape.
LEMMA TentativeEffect ==
  ASSUME FlowInv, pc["encoder"] = "window"
  PROVE  \E a \in 1..Len(tape) :
           /\ Together(Tentative, a, Len(Tentative))
           /\ \A i \in 1..Len(tape) :
                a <= i /\ i <= a + Len(Tentative) - 1 <=> tape[i].state = "Tentative"
           /\ \A i \in 1..Len(tape) : i < a => tape[i].state \notin Awaiting
<1>1. PICK a \in 1..Len(tape), b \in 1..Len(tape) : SpanAt(Tentative, "Tentative", a, b)
  BY TentativeAt
<1>2. tape \in Seq(EntryType) /\ Len(tape) \in Nat /\ Staged(tape, lastCommittedSeqId)
  BY DomainLen DEF FlowInv, FlowTypes, TapeOrdered
<1> DEFINE s == Tentative
           n == Len(s)
<1>3. /\ s \in Seq(EntryType) /\ Len(s) = b - a + 1 /\ a <= b
      /\ \A i \in 1..Len(tape) : tape[i].state = "Tentative" <=> a <= i /\ i <= b
  BY <1>1 DEF SpanAt
<1> HIDE DEF s
<1>4. n \in 1..Len(s)
  BY <1>2, <1>3
<1>5. PrefixOf(s, s, n)
  BY <1>3, <1>4 DEF PrefixOf
<1>6. Together(s, a, n) /\ a + n - 1 = b
  BY <1>1, <1>2, <1>5, PrefixTogether DEF s
<1>7. ASSUME NEW i \in 1..Len(tape), i < a PROVE tape[i].state \notin Awaiting
  <2>1. tape[i].state # "Tentative"
    BY <1>2, <1>3, <1>7
  <2>2. tape[a].state = "Tentative"
    BY <1>2, <1>3
  <2>3. tape[i].state # "Ready"
    BY <1>2, <1>7, <2>2 DEF Staged
  <2> QED
    BY <2>1, <2>3 DEF Awaiting
<1> QED
  BY <1>3, <1>6, <1>7 DEF s

\* The reserved prefix is represented.
LEMMA CommitPrefixFlow ==
  ASSUME FlowInv, CommitPrefix
  PROVE  FlowInv'
<1> DEFINE p == Tentative
           n == Len(p)
<1>1. Represent(p) /\ pc["encoder"] = "window"
  BY DEF CommitPrefix, EncoderAt
<1>2. PICK a \in 1..Len(tape) :
        /\ Together(p, a, n)
        /\ \A i \in 1..Len(tape) : a <= i /\ i <= a + n - 1 <=> tape[i].state = "Tentative"
        /\ \A i \in 1..Len(tape) : i < a => tape[i].state \notin Awaiting
  BY <1>1, TentativeEffect
<1> HIDE DEF p, n
<1>3. \A i \in 1..Len(tape) : a <= i /\ i <= a + n - 1 =>
        tape[i].state \in Awaiting /\ tape[i].bound
  BY <1>2 DEF FlowInv, TapeOrdered, BoundOf, Awaiting
<1> QED
  BY <1>1, <1>2, <1>3, RepresentFlow

\* The reserved prefix goes back.
LEMMA RestorePrefixFlow ==
  ASSUME FlowInv, RestorePrefix
  PROVE  FlowInv'
<1>1. pc["encoder"] = "window"
  BY DEF RestorePrefix, EncoderAt
<1> DEFINE p == Tentative
           n == Len(p)
<1>2. PICK a \in 1..Len(tape) :
        /\ Together(p, a, n)
        /\ \A i \in 1..Len(tape) : a <= i /\ i <= a + n - 1 <=> tape[i].state = "Tentative"
  BY <1>1, TentativeEffect
<1> HIDE DEF n
<1>3. \A i \in 1..Len(tape) : tape[i].seq \in Seqs(p) <=> tape[i].state = "Tentative"
  BY <1>2, TogetherSeqs
<1> QED
  BY <1>3, RestoreFlow

-----------------------------------------------------------------------------
(* The encoder: what it does with the sources of its batch. *)

\* Nothing moves but the encoder, which leaves its loop.
LEMMA ExitFlow ==
  ASSUME FlowInv, pc["encoder"] \in {"wait", "encode"}, EncoderGoes("exited"),
         UNCHANGED <<writeIndex, writingSlot, nextSeqId, tape, doneVars, gpuVars, encodeVars>>
  PROVE  FlowInv'
<1>1. /\ Places' /\ pc'["encoder"] = "exited"
      /\ pc'["watcher"] = pc["watcher"] /\ pc'["finish"] = pc["finish"]
  BY EncoderMoves DEF FlowInv
<1>2. UNCHANGED <<completedSeqId, completedQueue, pending, watching, batch, session>>
  BY DEF encodeVars, doneVars, gpuVars
<1>3. FlowTypes' /\ TapeOrdered' /\ OpenLast' /\ WatcherHolds'
  BY <1>1, <1>2 DEF FlowInv, FlowTypes, TapeOrdered, OpenLast, WatcherHolds, lastCommittedSeqId
<1>4. Chain'
  <2>1. Batched' = Batched
    BY <1>1, <1>2 DEF Batched
  <2> QED
    BY <1>2, <2>1 DEF FlowInv, Chain, lastCommittedSeqId, Executed
<1>5. EncoderHolds'
  BY <1>1, <1>2 DEF FlowInv, EncoderHolds
<1>6. HeadReclaimed'
  BY <1>1, <1>2, HeadStays DEF FlowInv, FlowTypes
<1> QED
  BY <1>1, <1>3, <1>4, <1>5, <1>6 DEF FlowInv

\* The first source of the batch.
LEMMA BatchHead ==
  ASSUME FlowInv, pc["encoder"] \in {"encode", "inline", "retire"}
  PROVE  /\ batch # <<>> /\ Head(batch) = batch[1] /\ batch[1] \in SourceType
         /\ batch[1].seq \in Nat /\ batch[1].slot \in SlotIds /\ ~ batch[1].receipt
         /\ Tail(batch) \in Seq(SourceType) /\ Ascending(Tail(batch))
         /\ Len(Tail(batch)) = Len(batch) - 1 /\ Len(batch) \in Nat \ {0}
         /\ Seqs(batch) = {batch[1].seq} \cup Seqs(Tail(batch))
         /\ Before({batch[1].seq}, Seqs(Tail(batch)))
         /\ \A i \in 1..Len(Tail(batch)) : ~ Tail(batch)[i].receipt
         /\ batch[1].seq \in Seqs(session) \cup Seqs(Batched)
<1>1. batch # <<>> /\ batch \in Seq(SourceType) /\ Ascending(batch)
      /\ \A i \in 1..Len(batch) : ~ batch[i].receipt
  BY DEF FlowInv, FlowTypes, EncoderHolds, Chain
<1>2. /\ Tail(batch) \in Seq(SourceType) /\ Len(Tail(batch)) = Len(batch) - 1
      /\ Len(batch) \in Nat \ {0} /\ Head(batch) = batch[1] /\ batch[1] \in SourceType
      /\ \A i \in 1..(Len(batch) - 1) : i + 1 \in 1..Len(batch) /\ Tail(batch)[i] = batch[i + 1]
  BY <1>1, TailEffect
<1>3. 1 \in 1..Len(batch)
  BY <1>2
<1>4. batch[1].seq \in Nat /\ batch[1].slot \in SlotIds /\ ~ batch[1].receipt
  BY <1>1, <1>2, <1>3 DEF SourceType
<1>5. /\ Seqs(batch) = {batch[1].seq} \cup Seqs(Tail(batch)) /\ batch[1].seq \in Seqs(batch)
      /\ Before({batch[1].seq}, Seqs(Tail(batch))) /\ Ascending(Tail(batch))
  BY <1>1, SeqsTail
<1>6. \A i \in 1..Len(Tail(batch)) : ~ Tail(batch)[i].receipt
  BY <1>1, <1>2
<1>7. batch[1].seq \in Seqs(session) \cup Seqs(Batched)
  <2>1. CASE pc["encoder"] = "retire"
    <3>1. session # <<>> /\ session[Len(session)] = batch[1] /\ session \in Seq(SourceType)
      BY <2>1 DEF FlowInv, EncoderHolds, FlowTypes
    <3>2. Len(session) \in 1..Len(session)
      BY <3>1, DomainLen
    <3>3. session[Len(session)].seq \in Seqs(session)
      BY <3>1, <3>2, SeqsMembers
    <3> QED
      BY <3>1, <3>3
  <2>2. CASE pc["encoder"] # "retire"
    BY <1>5, <2>2 DEF Batched
  <2> QED
    BY <2>1, <2>2
<1> QED
  BY <1>1, <1>2, <1>4, <1>5, <1>6, <1>7

\* The encoder goes on to the next source.
LEMMA NextSourceEffect ==
  ASSUME FlowInv, pc["encoder"] \in {"encode", "inline", "retire"}, NextSource
  PROVE  /\ Places' /\ pc'["encoder"] \in {"wait", "encode"}
         /\ pc'["watcher"] = pc["watcher"] /\ pc'["finish"] = pc["finish"]
         /\ batch' = Tail(batch) /\ batch' \in Seq(SourceType) /\ Batched' = Tail(batch)
         /\ pc'["encoder"] = "wait" => batch' = <<>>
         /\ pc'["encoder"] = "encode" => batch' # <<>>
<1>1. batch' = Tail(batch) /\ EncoderGoes(IF Len(batch) > 1 THEN "encode" ELSE "wait")
  BY DEF NextSource
<1>2. Tail(batch) \in Seq(SourceType) /\ Len(Tail(batch)) = Len(batch) - 1
      /\ Len(batch) \in Nat \ {0}
  BY BatchHead
<1>3. batch' = <<>> <=> ~(Len(batch) > 1)
  <2>1. batch' = <<>> <=> Len(Tail(batch)) = 0
    BY <1>1, <1>2, DomainLen
  <2> DEFINE n == Len(batch)
  <2> DEFINE m == Len(Tail(batch))
  <2>2. n \in Nat \ {0} /\ m = n - 1
    BY <1>2
  <2> HIDE DEF n, m
  <2>3. m = 0 <=> ~(n > 1)
    BY <2>2
  <2> QED
    BY <2>1, <2>3 DEF n, m
<1>4. CASE Len(batch) > 1
  <2>1. /\ Places' /\ pc'["encoder"] = "encode"
        /\ pc'["watcher"] = pc["watcher"] /\ pc'["finish"] = pc["finish"]
    BY <1>1, <1>4, EncoderMoves DEF FlowInv
  <2> QED
    BY <1>1, <1>2, <1>3, <1>4, <2>1 DEF Batched
<1>5. CASE ~(Len(batch) > 1)
  <2>1. /\ Places' /\ pc'["encoder"] = "wait"
        /\ pc'["watcher"] = pc["watcher"] /\ pc'["finish"] = pc["finish"]
    BY <1>1, <1>5, EncoderMoves DEF FlowInv
  <2> QED
    BY <1>1, <1>2, <1>3, <1>5, <2>1 DEF Batched
<1> QED
  BY <1>4, <1>5

\* Residents that no longer wait go on.
LEMMA BehindEffect ==
  ASSUME NEW t \in Seq(EntryType), NEW c, Staged(t, c), BoundOf(t), NEW q,
         NEW st \in {"Represented", "Submitted", "Completed", "Reclaiming"},
         \A i \in 1..Len(t) :
           t[i].seq \in q => t[i].state \notin {"Writing", "Ready", "Tentative"},
         NEW m, m = Moved(t, q, st)
  PROVE  /\ m \in Seq(EntryType) /\ Len(m) = Len(t)
         /\ Staged(m, c) /\ BoundOf(m) /\ WaitingOf(m) = WaitingOf(t)
         /\ \A i \in 1..Len(t) :
              /\ m[i].seq = t[i].seq /\ m[i].slot = t[i].slot
              /\ t[i].seq \in q => m[i].state = st
              /\ t[i].seq \notin q => m[i] = t[i]
              /\ m[i].state = "Writing" <=> t[i].state = "Writing"
              /\ m[i].state = "Tentative" <=> t[i].state = "Tentative"
<1>1. st \in TapeStates
  BY DEF TapeStates
<1>2. /\ m \in Seq(EntryType) /\ Len(m) = Len(t)
      /\ \A i \in 1..Len(t) :
           /\ m[i].seq = t[i].seq /\ m[i].slot = t[i].slot /\ m[i].bound = t[i].bound
           /\ t[i].seq \in q => m[i].state = st
           /\ t[i].seq \notin q => m[i] = t[i]
  BY <1>1, MovedEffect
<1>3. Recedes(t, m, q, st)
  BY <1>2 DEF Recedes
<1>4. Staged(m, c) /\ BoundOf(m) /\ WaitingOf(m) = WaitingOf(t)
  BY <1>3, StagedBehind
<1>5. \A i \in 1..Len(t) : /\ m[i].state = "Writing" <=> t[i].state = "Writing"
                           /\ m[i].state = "Tentative" <=> t[i].state = "Tentative"
  BY <1>2
<1> QED
  BY <1>2, <1>4, <1>5

\* The same about the tape itself, the ring staying as it is.
LEMMA BehindFlow ==
  ASSUME FlowInv, NEW q, NEW st \in {"Represented", "Submitted", "Completed", "Reclaiming"},
         \A i \in 1..Len(tape) :
           tape[i].seq \in q => tape[i].state \notin {"Writing", "Ready", "Tentative"},
         tape' = Moved(tape, q, st), UNCHANGED <<writeIndex, writingSlot, nextSeqId>>
  PROVE  /\ tape \in Seq(EntryType) /\ tape' \in Seq(EntryType) /\ Len(tape') = Len(tape)
         /\ TapeOrdered' /\ OpenLast' /\ WaitingOf(tape') = WaitingOf(tape)
         /\ \A i \in 1..Len(tape) :
              /\ tape'[i].seq = tape[i].seq
              /\ tape[i].seq \in q => tape'[i].state = st
              /\ tape[i].seq \notin q => tape'[i] = tape[i]
              /\ tape'[i].state = "Tentative" <=> tape[i].state = "Tentative"
<1>1. tape \in Seq(EntryType) /\ Staged(tape, lastCommittedSeqId) /\ BoundOf(tape)
      /\ OpenLast
  BY DEF FlowInv, FlowTypes, TapeOrdered
<1> DEFINE m == tape'
           c == lastCommittedSeqId
<1>2. Staged(tape, c) /\ m = Moved(tape, q, st)
  BY <1>1
<1> HIDE DEF m, c
<1>3. /\ m \in Seq(EntryType) /\ Len(m) = Len(tape)
      /\ Staged(m, c) /\ BoundOf(m) /\ WaitingOf(m) = WaitingOf(tape)
      /\ \A i \in 1..Len(tape) :
           /\ m[i].seq = tape[i].seq /\ m[i].slot = tape[i].slot
           /\ tape[i].seq \in q => m[i].state = st
           /\ tape[i].seq \notin q => m[i] = tape[i]
           /\ m[i].state = "Writing" <=> tape[i].state = "Writing"
           /\ m[i].state = "Tentative" <=> tape[i].state = "Tentative"
  BY <1>1, <1>2, BehindEffect
<1> USE DEF m, c
<1>4. TapeOrdered'
  BY <1>3 DEF TapeOrdered, lastCommittedSeqId
<1>5. OpenLast'
  BY <1>1, <1>3, OpenLastMoved
<1> QED
  BY <1>1, <1>3, <1>4, <1>5

\* What a resident of a submittable source is.
LEMMA SubmitEffect ==
  ASSUME FlowInv, NEW s \in Seq(SourceType), \A x \in ToSet(s) : Submittable(x)
  PROVE  \A i \in 1..Len(tape) :
           tape[i].seq \in ResidentSeqs(s) => tape[i].state = "Represented"
<1>1. tape \in Seq(EntryType) /\ Staged(tape, lastCommittedSeqId)
      /\ DOMAIN tape = 1..Len(tape)
  BY DomainLen DEF FlowInv, FlowTypes, TapeOrdered
<1>2. ASSUME NEW i \in 1..Len(tape), tape[i].seq \in ResidentSeqs(s)
      PROVE  tape[i].state = "Represented"
  <2>1. PICK x \in Resident(s) : tape[i].seq = x.seq
    BY <1>2 DEF ResidentSeqs
  <2>2. x \in ToSet(s) /\ ~ x.receipt
    BY DEF Resident
  <2>3. PICK k \in Positions("Represented") : tape[k].seq = x.seq
    BY <2>2 DEF Submittable
  <2>4. k \in 1..Len(tape) /\ tape[k].state = "Represented"
    BY <1>1 DEF Positions
  <2>5. k = i
    BY <1>1, <2>1, <2>3, <2>4, StagedDistinct
  <2> QED
    BY <2>4, <2>5
<1> QED
  BY <1>2

\* A command buffer is handed to the watcher.
LEMMA SubmitFlow ==
  ASSUME FlowInv, pc["encoder"] \in {"wait", "encode"},
         NEW s \in Seq(SourceType), s # <<>>, Ascending(s), Submit(s)
  PROVE  /\ tape' \in Seq(EntryType) /\ TapeOrdered' /\ OpenLast'
         /\ WaitingOf(tape') = WaitingOf(tape)
         /\ pending' = Append(pending, s)
         /\ UNCHANGED <<writeIndex, writingSlot, nextSeqId, completedSeqId,
                        completedQueue, watching>>
         /\ \A i \in 1..Len(tape') : tape'[i].state # "Tentative"
         /\ pc'["finish"] = pc["finish"] /\ pc'["encoder"] \notin {"inline", "retire"}
              => HeadReclaimed'
<1>1. /\ tape' = Moved(tape, ResidentSeqs(s), "Submitted")
      /\ pending' = Append(pending, s)
      /\ UNCHANGED <<writeIndex, writingSlot, nextSeqId, completedSeqId, completedQueue,
                     watching>>
      /\ \A x \in ToSet(s) : Submittable(x)
  BY DEF Submit, HandOver, doneVars
<1> DEFINE q == ResidentSeqs(s)
<1>2. \A i \in 1..Len(tape) : tape[i].seq \in q => tape[i].state = "Represented"
  BY <1>1, SubmitEffect
<1> HIDE DEF q
<1>3. \A i \in 1..Len(tape) :
        tape[i].seq \in q => tape[i].state \notin {"Writing", "Ready", "Tentative"}
  BY <1>2
<1>4. tape' = Moved(tape, q, "Submitted")
  BY <1>1 DEF q
<1>5. /\ tape \in Seq(EntryType) /\ tape' \in Seq(EntryType) /\ Len(tape') = Len(tape)
      /\ TapeOrdered' /\ OpenLast' /\ WaitingOf(tape') = WaitingOf(tape)
      /\ \A i \in 1..Len(tape) :
           /\ tape'[i].seq = tape[i].seq
           /\ tape[i].seq \in q => tape'[i].state = "Submitted"
           /\ tape[i].seq \notin q => tape'[i] = tape[i]
           /\ tape'[i].state = "Tentative" <=> tape[i].state = "Tentative"
  BY <1>1, <1>3, <1>4, BehindFlow
<1>6. \A i \in 1..Len(tape') : tape'[i].state # "Tentative"
  BY <1>5 DEF FlowInv, EncoderHolds
<1>7. ASSUME pc'["finish"] = pc["finish"], pc'["encoder"] \notin {"inline", "retire"}
      PROVE  HeadReclaimed'
  <2>1. \A i \in 1..Len(tape) :
          /\ tape'[i].seq = tape[i].seq
          /\ tape'[i].state = "Reclaiming" <=> tape[i].state = "Reclaiming"
    BY <1>2, <1>5
  <2>2. HeadReclaimed /\ pc["encoder"] \notin {"inline", "retire"}
    BY DEF FlowInv
  <2> QED
    BY <1>1, <1>5, <1>7, <2>1, <2>2, HeadStays
<1> QED
  BY <1>1, <1>5, <1>6, <1>7

\* One source is submitted alone, or refused.
LEMMA EncodeSubmitFlow ==
  ASSUME FlowInv, EncodeSubmit
  PROVE  FlowInv'
<1> DEFINE x == batch[1]
           s == <<x>>
<1>0. pc["encoder"] = "encode" /\ session = <<>>
  BY DEF EncodeSubmit, EncoderAt
<1>1. /\ Head(batch) = x /\ x \in SourceType /\ x.seq \in Nat
      /\ Seqs(batch) = {x.seq} \cup Seqs(Tail(batch))
      /\ Before({x.seq}, Seqs(Tail(batch)))
      /\ Ascending(Tail(batch)) /\ Tail(batch) \in Seq(SourceType)
      /\ \A i \in 1..Len(Tail(batch)) : ~ Tail(batch)[i].receipt
      /\ Batched = batch
  BY <1>0, BatchHead DEF Batched
<1>2. CASE SubmitRefused(<<Head(batch)>>)
  BY <1>0, <1>2, ExitFlow DEF SubmitRefused, ringVars, tapeVars
<1>3. CASE Submit(<<Head(batch)>>) /\ NextSource /\ UNCHANGED session
  <2>1. /\ Places' /\ pc'["encoder"] \in {"wait", "encode"}
        /\ pc'["watcher"] = pc["watcher"] /\ pc'["finish"] = pc["finish"]
        /\ batch' = Tail(batch) /\ batch' \in Seq(SourceType) /\ Batched' = Tail(batch)
        /\ pc'["encoder"] = "wait" => batch' = <<>>
        /\ pc'["encoder"] = "encode" => batch' # <<>>
    BY <1>0, <1>3, NextSourceEffect
  <2>2. s \in Seq(SourceType) /\ s # <<>> /\ Submit(s) /\ Seqs(s) = {x.seq} /\ Ascending(s)
    <3>1. s \in Seq(SourceType) /\ s # <<>> /\ Submit(s) /\ Len(s) = 1 /\ s[1] = x
          /\ DOMAIN s = 1..1
      BY <1>1, <1>3
    <3>2. Ascending(s)
      BY <3>1 DEF Ascending
    <3>3. \A y : y \in Seqs(s) <=> y = x.seq
      BY <3>1 DEF Seqs
    <3> QED
      BY <3>1, <3>2, <3>3
  <2> HIDE DEF s, x
  <2>3. /\ tape' \in Seq(EntryType) /\ TapeOrdered' /\ OpenLast'
        /\ WaitingOf(tape') = WaitingOf(tape)
        /\ pending' = Append(pending, s)
        /\ UNCHANGED <<writeIndex, writingSlot, nextSeqId, completedSeqId,
                       completedQueue, watching>>
        /\ \A i \in 1..Len(tape') : tape'[i].state # "Tentative"
        /\ HeadReclaimed'
    <3>1. pc["encoder"] \in {"wait", "encode"} /\ pc'["encoder"] \notin {"inline", "retire"}
      BY <1>0, <2>1
    <3> QED
      BY <2>1, <2>2, <3>1, SubmitFlow
  <2>4. pending \in Seq(Seq(SourceType)) /\ Buffered(pending)
        /\ InOrder(Executed, Seqs(watching), HandedOf(pending), Seqs(session), Seqs(batch),
                   WaitingOf(tape), lastCommittedSeqId)
    BY <1>1 DEF FlowInv, FlowTypes, Chain
  <2>5. Seqs(session) = {}
    <3>1. \A y : y \notin Seqs(<<>>)
      BY DEF Seqs
    <3> QED
      BY <1>0, <3>1
  <2>6. /\ InOrder(Executed, Seqs(watching), HandedOf(pending), Seqs(s), Seqs(Tail(batch)),
                   WaitingOf(tape), lastCommittedSeqId)
        /\ Before(HandedOf(pending), Seqs(s))
    <3> DEFINE B == Seqs(batch)
               A == Seqs(Tail(batch))
    <3>1. A \in SUBSET B /\ x.seq \in B /\ Before({x.seq}, A)
      BY <1>1 DEF x
    <3> HIDE DEF A, B
    <3>2. InOrder(Executed, Seqs(watching), HandedOf(pending), {} \cup {x.seq}, A,
                  WaitingOf(tape), lastCommittedSeqId)
      BY <2>4, <2>5, <3>1, OrderRetain DEF B
    <3>3. {} \cup {x.seq} = Seqs(s)
      BY <2>2
    <3>4. InOrder(Executed, Seqs(watching), HandedOf(pending), Seqs(s), A,
                  WaitingOf(tape), lastCommittedSeqId)
      BY <3>2, <3>3
    <3> QED
      BY <3>4 DEF A, InOrder, Before
  <2>7. Buffered(Append(pending, s)) /\ HandedOf(Append(pending, s)) = HandedOf(pending) \cup Seqs(s)
    BY <2>2, <2>4, <2>6, HandedAppend
  <2>8. InOrder(Executed, Seqs(watching), HandedOf(pending) \cup Seqs(s), {}, Seqs(Tail(batch)),
                WaitingOf(tape), lastCommittedSeqId)
    BY <2>6, OrderSubmit
  <2>9. FlowTypes'
    <3>1. Append(pending, s) \in Seq(Seq(SourceType))
      BY <2>2, <2>4
    <3> QED
      BY <1>3, <2>1, <2>3, <3>1 DEF FlowInv, FlowTypes
  <2>10. Chain'
    <3>1. InOrder(Executed, Seqs(watching), HandedOf(pending), Seqs(session), Seqs(Batched),
                  WaitingOf(tape), lastCommittedSeqId)'
      BY <1>3, <2>1, <2>3, <2>5, <2>7, <2>8 DEF Executed, lastCommittedSeqId
    <3>2. /\ \A i \in 1..Len(completedQueue)' : completedQueue'[i] = completedSeqId' + i
          /\ Executed' <= lastCommittedSeqId'
          /\ Ascending(watching)' /\ Ascending(session)'
      BY <1>3, <2>3 DEF FlowInv, Chain, Executed, lastCommittedSeqId
    <3>3. Ascending(batch)' /\ \A i \in 1..Len(batch)' : ~ batch'[i].receipt
      BY <1>1, <2>1
    <3>4. Buffered(pending)'
      BY <2>3, <2>7
    <3> QED
      BY <3>1, <3>2, <3>3, <3>4 DEF Chain
  <2>11. EncoderHolds' /\ WatcherHolds'
    BY <1>0, <2>1, <2>3 DEF FlowInv, EncoderHolds, WatcherHolds
  <2> QED
    BY <2>1, <2>3, <2>9, <2>10, <2>11 DEF FlowInv
<1> QED
  BY <1>2, <1>3 DEF EncodeSubmit

\* The session is submitted, or refused.
LEMMA SubmitSessionFlow ==
  ASSUME FlowInv, SubmitSession
  PROVE  FlowInv'
<1>0. pc["encoder"] \in {"wait", "encode"} /\ session # <<>> /\ Batched = batch
  BY DEF SubmitSession, EncoderAt, Batched
<1>1. session \in Seq(SourceType) /\ Ascending(session)
  BY DEF FlowInv, FlowTypes, Chain
<1>2. CASE SubmitRefused(session)
  BY <1>0, <1>2, ExitFlow DEF SubmitRefused, ringVars, tapeVars
<1>3. CASE Submit(session) /\ session' = <<>> /\ UNCHANGED <<batch, pc>>
  <2>1. Batched' = batch
    BY <1>0, <1>3 DEF Batched
  <2>2. /\ tape' \in Seq(EntryType) /\ TapeOrdered' /\ OpenLast'
        /\ WaitingOf(tape') = WaitingOf(tape)
        /\ pending' = Append(pending, session)
        /\ UNCHANGED <<writeIndex, writingSlot, nextSeqId, completedSeqId,
                       completedQueue, watching>>
        /\ \A i \in 1..Len(tape') : tape'[i].state # "Tentative"
        /\ HeadReclaimed'
    <3>1. pc'["encoder"] \notin {"inline", "retire"} /\ pc'["finish"] = pc["finish"]
      BY <1>0, <1>3
    <3>2. Submit(session)
      BY <1>3
    <3> QED
      BY <1>0, <1>1, <3>1, <3>2, SubmitFlow
  <2>3. pending \in Seq(Seq(SourceType)) /\ Buffered(pending)
        /\ InOrder(Executed, Seqs(watching), HandedOf(pending), Seqs(session), Seqs(batch),
                   WaitingOf(tape), lastCommittedSeqId)
    BY <1>0 DEF FlowInv, FlowTypes, Chain
  <2>4. Seqs(<<>>) = {}
    <3>1. \A y : y \notin Seqs(<<>>)
      BY DEF Seqs
    <3> QED
      BY <3>1
  <2>5. Buffered(Append(pending, session))
        /\ HandedOf(Append(pending, session)) = HandedOf(pending) \cup Seqs(session)
    <3>1. Before(HandedOf(pending), Seqs(session))
      BY <2>3 DEF InOrder, Before
    <3> QED
      BY <1>0, <1>1, <2>3, <3>1, HandedAppend
  <2>6. InOrder(Executed, Seqs(watching), HandedOf(pending) \cup Seqs(session), {}, Seqs(batch),
                WaitingOf(tape), lastCommittedSeqId)
    BY <2>3, OrderSubmit
  <2>7. FlowTypes'
    <3>1. Append(pending, session) \in Seq(Seq(SourceType)) /\ <<>> \in Seq(SourceType)
      BY <1>1, <2>3
    <3> QED
      BY <1>3, <2>2, <3>1 DEF FlowInv, FlowTypes
  <2>8. Chain'
    <3>1. InOrder(Executed, Seqs(watching), HandedOf(pending), Seqs(session), Seqs(Batched),
                  WaitingOf(tape), lastCommittedSeqId)'
      BY <1>3, <2>1, <2>2, <2>4, <2>5, <2>6 DEF Executed, lastCommittedSeqId
    <3>2. /\ \A i \in 1..Len(completedQueue)' : completedQueue'[i] = completedSeqId' + i
          /\ Executed' <= lastCommittedSeqId'
          /\ Ascending(watching)' /\ Ascending(batch)'
          /\ \A i \in 1..Len(batch)' : ~ batch'[i].receipt
      BY <1>3, <2>2 DEF FlowInv, Chain, Executed, lastCommittedSeqId
    <3>3. Ascending(session)'
      BY <1>3 DEF Ascending
    <3>4. Buffered(pending)'
      BY <2>2, <2>5
    <3> QED
      BY <3>1, <3>2, <3>3, <3>4 DEF Chain
  <2>9. EncoderHolds' /\ WatcherHolds' /\ Places'
    BY <1>0, <1>3, <2>2 DEF FlowInv, EncoderHolds, WatcherHolds, Places
  <2> QED
    BY <2>2, <2>7, <2>8, <2>9 DEF FlowInv
<1> QED
  BY <1>2, <1>3 DEF SubmitSession

\* Residents leave the tape's head: the open chunk stays the last.
LEMMA OpenLastShift ==
  ASSUME OpenLast, UNCHANGED <<writeIndex, writingSlot>>, tape \in Seq(EntryType),
         tape' \in Seq(EntryType), tape # <<>>, tape[1].state # "Writing",
         Len(tape') + 1 = Len(tape),
         \A i \in 1..Len(tape') :
           /\ i + 1 \in 1..Len(tape) /\ tape'[i].slot = tape[i + 1].slot
           /\ tape'[i].state = "Writing" <=> tape[i + 1].state = "Writing"
  PROVE  OpenLast'
<1>1. CASE writingSlot = NoSlot
  BY <1>1 DEF OpenLast
<1>2. CASE writingSlot # NoSlot
  <2>1. tape[Len(tape)].state = "Writing"
        /\ tape[Len(tape)].slot = writingSlot /\ writingSlot = writeIndex
    BY <1>2 DEF OpenLast
  <2>2. Len(tape) # 1 /\ Len(tape) \in Nat /\ Len(tape') \in Nat
    BY <2>1, DomainLen
  <2>3. Len(tape') \in 1..Len(tape') /\ Len(tape') # 0
    BY <2>2
  <2>4. tape' # <<>>
    BY <2>3
  <2> QED
    BY <1>2, <2>1, <2>3, <2>4 DEF OpenLast
<1> QED
  BY <1>1, <1>2

\* The head of the tape is reclaimed.
LEMMA TailFlow ==
  ASSUME FlowInv, tape # <<>>, tape[1].state = "Reclaiming", tape' = Tail(tape),
         UNCHANGED <<writeIndex, writingSlot, nextSeqId>>
  PROVE  /\ tape' \in Seq(EntryType) /\ TapeOrdered' /\ OpenLast'
         /\ WaitingOf(tape') = WaitingOf(tape)
         /\ \A i \in 1..Len(tape') : tape'[i].state # "Reclaiming"
         /\ (\E i \in 1..Len(tape') : tape'[i].state = "Tentative")
              <=> \E i \in 1..Len(tape) : tape[i].state = "Tentative"
<1>1. tape \in Seq(EntryType) /\ Staged(tape, lastCommittedSeqId) /\ BoundOf(tape)
      /\ OpenLast /\ HeadReclaimed
  BY DEF FlowInv, FlowTypes, TapeOrdered
<1>2. /\ tape' \in Seq(EntryType) /\ Len(tape') = Len(tape) - 1 /\ Len(tape) \in Nat \ {0}
      /\ \A i \in 1..(Len(tape) - 1) : i + 1 \in 1..Len(tape) /\ tape'[i] = tape[i + 1]
  BY <1>1, TailEffect
<1>3. /\ Staged(tape', lastCommittedSeqId) /\ BoundOf(tape')
      /\ WaitingOf(tape') = WaitingOf(tape)
  <2>1. tape[1].state \notin Awaiting
    BY DEF Awaiting
  <2> QED
    BY <1>1, <2>1, StagedTail
<1>4. TapeOrdered'
  BY <1>3 DEF TapeOrdered, lastCommittedSeqId
<1>5. OpenLast'
  <2>1. Len(tape') + 1 = Len(tape)
    BY <1>2
  <2> QED
    BY <1>1, <1>2, <2>1, OpenLastShift
<1>6. \A i \in 1..Len(tape') : tape'[i].state # "Reclaiming"
  <2> SUFFICES ASSUME NEW i \in 1..Len(tape'), tape'[i].state = "Reclaiming" PROVE FALSE
    OBVIOUS
  <2>1. i + 1 \in 1..Len(tape) /\ tape[i + 1].state = "Reclaiming" /\ i + 1 # 1
    BY <1>2
  <2> QED
    BY <1>1, <2>1 DEF HeadReclaimed
<1>7. ASSUME NEW i \in 1..Len(tape), tape[i].state = "Tentative"
      PROVE  \E j \in 1..Len(tape') : tape'[j].state = "Tentative"
  <2>1. i - 1 \in 1..Len(tape') /\ (i - 1) + 1 = i
    BY <1>2, <1>7
  <2> QED
    BY <1>2, <1>7, <2>1
<1>8. ASSUME NEW i \in 1..Len(tape'), tape'[i].state = "Tentative"
      PROVE  \E j \in 1..Len(tape) : tape[j].state = "Tentative"
  BY <1>2, <1>8
<1> QED
  BY <1>2, <1>3, <1>4, <1>5, <1>6, <1>7, <1>8

\* The encoder and the finish thread never reclaim at the same time.
LEMMA OneReclaims ==
  ASSUME FlowInv, pc["encoder"] \in {"inline", "retire"}
  PROVE  pc["finish"] # "reclaim"
<1>1. batch[1].seq \in Seqs(session) \cup Seqs(Batched)
  BY BatchHead
<1>2. completedSeqId < batch[1].seq /\ batch[1].seq \in Nat /\ completedSeqId \in Nat
  BY <1>1, NotWaiting, TapeNumbers DEF FlowInv
<1>3. tape[1].seq = batch[1].seq
  BY DEF FlowInv, HeadReclaimed
<1>4. pc["finish"] = "reclaim" => tape[1].seq = completedSeqId
  BY DEF FlowInv, HeadReclaimed
<1> QED
  BY <1>2, <1>3, <1>4

\* The oldest resident starts to be reclaimed by the encoder.
LEMMA HeadTaken ==
  ASSUME FlowInv, NEW x \in Nat, IsHead(x, "Represented"),
         tape' = Moved(tape, {x}, "Reclaiming"),
         UNCHANGED <<writeIndex, writingSlot, nextSeqId>>
  PROVE  /\ pc["finish"] # "reclaim" /\ pc["encoder"] \notin {"inline", "retire"}
         /\ tape' \in Seq(EntryType) /\ TapeOrdered' /\ OpenLast'
         /\ WaitingOf(tape') = WaitingOf(tape)
         /\ tape' # <<>> /\ tape'[1].state = "Reclaiming" /\ tape'[1].seq = x
         /\ \A i \in 1..Len(tape') : tape'[i].state = "Reclaiming" => i = 1
         /\ Len(tape') = Len(tape)
         /\ \A i \in 1..Len(tape) : tape'[i].state = "Tentative" <=> tape[i].state = "Tentative"
<1>1. tape \in Seq(EntryType) /\ Staged(tape, lastCommittedSeqId) /\ HeadReclaimed
  BY DEF FlowInv, FlowTypes, TapeOrdered
<1>2. tape # <<>> /\ tape[1].seq = x /\ tape[1].state = "Represented" /\ 1 \in 1..Len(tape)
  BY <1>1, TailEffect DEF IsHead
<1>3. \A i \in 1..Len(tape) : tape[i].seq = x => i = 1
  BY <1>1, <1>2, StagedDistinct
<1>4. \A i \in 1..Len(tape) :
        tape[i].seq \in {x} => tape[i].state \notin {"Writing", "Ready", "Tentative"}
  BY <1>2, <1>3
<1>5. /\ tape' \in Seq(EntryType) /\ Len(tape') = Len(tape)
      /\ TapeOrdered' /\ OpenLast' /\ WaitingOf(tape') = WaitingOf(tape)
      /\ \A i \in 1..Len(tape) :
           /\ tape'[i].seq = tape[i].seq
           /\ tape[i].seq \in {x} => tape'[i].state = "Reclaiming"
           /\ tape[i].seq \notin {x} => tape'[i] = tape[i]
           /\ tape'[i].state = "Tentative" <=> tape[i].state = "Tentative"
  BY <1>4, BehindFlow
<1>6. pc["finish"] # "reclaim" /\ pc["encoder"] \notin {"inline", "retire"}
  BY <1>1, <1>2 DEF HeadReclaimed
<1>7. \A i \in 1..Len(tape') : tape'[i].state = "Reclaiming" => i = 1
  BY <1>1, <1>3, <1>5 DEF HeadReclaimed
<1>8. tape' # <<>>
  BY <1>2, <1>5
<1> QED
  BY <1>2, <1>5, <1>6, <1>7, <1>8

\* The first source of the batch joins the session.
LEMMA RetainEffect ==
  ASSUME FlowInv, pc["encoder"] = "encode", NEW s, s = Append(session, Head(batch))
  PROVE  /\ s \in Seq(SourceType) /\ s # <<>> /\ s[Len(s)] = batch[1] /\ Ascending(s)
         /\ InOrder(Executed, Seqs(watching), HandedOf(pending), Seqs(s), Seqs(Tail(batch)),
                    WaitingOf(tape), lastCommittedSeqId)
<1> DEFINE x == batch[1]
           A == Seqs(Tail(batch))
           B == Seqs(batch)
<1>1. Head(batch) = x /\ x \in SourceType /\ x.seq \in B /\ A \in SUBSET B
      /\ Before({x.seq}, A) /\ Batched = batch
  BY BatchHead DEF Batched
<1>2. session \in Seq(SourceType) /\ Ascending(session)
      /\ InOrder(Executed, Seqs(watching), HandedOf(pending), Seqs(session), B,
                 WaitingOf(tape), lastCommittedSeqId)
  BY <1>1 DEF FlowInv, FlowTypes, Chain
<1> HIDE DEF x, A, B
<1>3. Before(Seqs(session), {x.seq})
  BY <1>1, <1>2 DEF InOrder, Before
<1>4. Seqs(s) = Seqs(session) \cup {x.seq} /\ Ascending(s)
  BY <1>1, <1>2, <1>3, SeqsAppend
<1>5. s \in Seq(SourceType) /\ s # <<>> /\ s[Len(s)] = x
  <2>1. Len(session) \in Nat
    BY <1>2, DomainLen
  <2> QED
    BY <1>1, <1>2, <2>1, AppendEffect
<1>6. InOrder(Executed, Seqs(watching), HandedOf(pending), Seqs(session) \cup {x.seq}, A,
              WaitingOf(tape), lastCommittedSeqId)
  BY <1>1, <1>2, OrderRetain
<1> QED
  BY <1>4, <1>5, <1>6 DEF x, A

\* The session retains an encoded source.
LEMMA EncodeRetainFlow ==
  ASSUME FlowInv, EncodeRetain
  PROVE  FlowInv'
<1>0. pc["encoder"] = "encode" /\ session' = Append(session, Head(batch)) /\ NextSource
      /\ UNCHANGED <<writeIndex, writingSlot, nextSeqId, tape, completedSeqId, completedQueue,
                     pending, watching>>
  BY DEF EncodeRetain, EncoderAt, ringVars, tapeVars, doneVars, gpuVars
<1>1. /\ Places' /\ pc'["encoder"] \in {"wait", "encode"}
      /\ pc'["watcher"] = pc["watcher"] /\ pc'["finish"] = pc["finish"]
      /\ batch' = Tail(batch) /\ batch' \in Seq(SourceType) /\ Batched' = Tail(batch)
      /\ pc'["encoder"] = "wait" => batch' = <<>>
      /\ pc'["encoder"] = "encode" => batch' # <<>>
  BY <1>0, NextSourceEffect
<1>2. /\ session' \in Seq(SourceType) /\ Ascending(session')
      /\ InOrder(Executed, Seqs(watching), HandedOf(pending), Seqs(session'),
                 Seqs(Tail(batch)), WaitingOf(tape), lastCommittedSeqId)
  BY <1>0, RetainEffect
<1>3. FlowTypes' /\ TapeOrdered' /\ OpenLast'
  BY <1>0, <1>1, <1>2 DEF FlowInv, FlowTypes, TapeOrdered, OpenLast, lastCommittedSeqId
<1>4. Chain'
  <2>1. InOrder(Executed, Seqs(watching), HandedOf(pending), Seqs(session), Seqs(Batched),
                WaitingOf(tape), lastCommittedSeqId)'
    BY <1>0, <1>1, <1>2 DEF Executed, lastCommittedSeqId
  <2>2. Ascending(batch)' /\ \A i \in 1..Len(batch)' : ~ batch'[i].receipt
    BY <1>0, <1>1, BatchHead
  <2> QED
    BY <1>0, <1>2, <2>1, <2>2 DEF FlowInv, Chain, Executed, lastCommittedSeqId
<1>5. EncoderHolds' /\ WatcherHolds'
  BY <1>0, <1>1 DEF FlowInv, EncoderHolds, WatcherHolds
<1>6. HeadReclaimed'
  BY <1>0, <1>1, HeadStays DEF FlowInv, FlowTypes
<1> QED
  BY <1>1, <1>3, <1>4, <1>5, <1>6 DEF FlowInv

\* The oldest resident begins to retire.
LEMMA RetireBeginFlow ==
  ASSUME FlowInv, RetireBegin
  PROVE  FlowInv'
<1>0. /\ pc["encoder"] = "encode" /\ session' = Append(session, Head(batch))
      /\ IsHead(Head(batch).seq, "Represented") /\ EncoderGoes("retire")
      /\ tape' = Moved(tape, {Head(batch).seq}, "Reclaiming")
      /\ UNCHANGED <<writeIndex, writingSlot, nextSeqId, completedSeqId, completedQueue,
                     pending, watching, batch>>
  BY DEF RetireBegin, EncoderAt, doneVars, gpuVars
<1>1. /\ Places' /\ pc'["encoder"] = "retire"
      /\ pc'["watcher"] = pc["watcher"] /\ pc'["finish"] = pc["finish"]
  BY <1>0, EncoderMoves DEF FlowInv
<1>2. Head(batch) = batch[1] /\ batch[1].seq \in Nat /\ batch # <<>>
  BY <1>0, BatchHead
<1>3. /\ pc["finish"] # "reclaim"
      /\ tape' \in Seq(EntryType) /\ TapeOrdered' /\ OpenLast'
      /\ WaitingOf(tape') = WaitingOf(tape)
      /\ tape' # <<>> /\ tape'[1].state = "Reclaiming" /\ tape'[1].seq = batch[1].seq
      /\ \A i \in 1..Len(tape') : tape'[i].state = "Reclaiming" => i = 1
      /\ Len(tape') = Len(tape)
      /\ \A i \in 1..Len(tape) : tape'[i].state = "Tentative" <=> tape[i].state = "Tentative"
  BY <1>0, <1>2, HeadTaken
<1>4. /\ session' \in Seq(SourceType) /\ Ascending(session') /\ session' # <<>>
      /\ session'[Len(session')] = batch[1]
      /\ InOrder(Executed, Seqs(watching), HandedOf(pending), Seqs(session'),
                 Seqs(Tail(batch)), WaitingOf(tape), lastCommittedSeqId)
  BY <1>0, RetainEffect
<1>5. FlowTypes'
  BY <1>0, <1>3, <1>4 DEF FlowInv, FlowTypes
<1>6. Chain'
  <2>1. Batched' = Tail(batch)
    BY <1>0, <1>1 DEF Batched
  <2>2. InOrder(Executed, Seqs(watching), HandedOf(pending), Seqs(session), Seqs(Batched),
                WaitingOf(tape), lastCommittedSeqId)'
    BY <1>0, <1>3, <1>4, <2>1 DEF Executed, lastCommittedSeqId
  <2> QED
    BY <1>0, <1>4, <2>2 DEF FlowInv, Chain, Executed, lastCommittedSeqId
<1>7. EncoderHolds' /\ WatcherHolds'
  BY <1>0, <1>1, <1>2, <1>3, <1>4 DEF FlowInv, EncoderHolds, WatcherHolds
<1>8. HeadReclaimed'
  BY <1>0, <1>1, <1>3 DEF HeadReclaimed
<1> QED
  BY <1>1, <1>3, <1>5, <1>6, <1>7, <1>8 DEF FlowInv

\* It has retired: its entry leaves the tape, the source stays in the session.
LEMMA RetireFinishFlow ==
  ASSUME FlowInv, RetireFinish
  PROVE  FlowInv'
<1>0. /\ pc["encoder"] = "retire" /\ tape' = Tail(tape) /\ NextSource
      /\ session' = [session EXCEPT ![Len(session)].receipt = TRUE]
      /\ UNCHANGED <<writeIndex, writingSlot, nextSeqId, completedSeqId, completedQueue,
                     pending, watching>>
  BY DEF RetireFinish, EncoderAt, doneVars, gpuVars
<1>1. /\ Places' /\ pc'["encoder"] \in {"wait", "encode"}
      /\ pc'["watcher"] = pc["watcher"] /\ pc'["finish"] = pc["finish"]
      /\ batch' = Tail(batch) /\ batch' \in Seq(SourceType) /\ Batched' = Tail(batch)
      /\ pc'["encoder"] = "wait" => batch' = <<>>
      /\ pc'["encoder"] = "encode" => batch' # <<>>
  BY <1>0, NextSourceEffect
<1>2. tape # <<>> /\ tape[1].state = "Reclaiming" /\ pc["finish"] # "reclaim"
  BY <1>0, OneReclaims DEF FlowInv, HeadReclaimed
<1>3. /\ tape' \in Seq(EntryType) /\ TapeOrdered' /\ OpenLast'
      /\ WaitingOf(tape') = WaitingOf(tape)
      /\ \A i \in 1..Len(tape') : tape'[i].state # "Reclaiming"
      /\ \A i \in 1..Len(tape') : tape'[i].state # "Tentative"
  <2>1. \A i \in 1..Len(tape) : tape[i].state # "Tentative"
    BY <1>0 DEF FlowInv, EncoderHolds
  <2> QED
    BY <1>0, <1>2, <2>1, TailFlow
<1>4. session \in Seq(SourceType) /\ session # <<>> /\ Ascending(session)
      /\ Len(session) \in 1..Len(session) /\ DOMAIN session = 1..Len(session)
      /\ Batched = Tail(batch)
  BY <1>0, DomainLen DEF FlowInv, FlowTypes, Chain, EncoderHolds, Batched
<1>5. /\ session' \in Seq(SourceType) /\ Len(session') = Len(session)
      /\ \A i \in 1..Len(session) : session'[i].seq = session[i].seq
  <2> DEFINE n == Len(session)
             e == [session[n] EXCEPT !.receipt = TRUE]
  <2>1. session' = [session EXCEPT ![n] = e]
    BY <1>0
  <2>2. session[n] \in SourceType
    BY <1>4, DomainLen
  <2>3. e \in SourceType /\ e.seq = session[n].seq
    BY <2>2 DEF SourceType
  <2> HIDE DEF e
  <2>4. /\ session' \in Seq(SourceType) /\ Len(session') = n
        /\ \A j \in 1..n : session'[j] = IF j = n THEN e ELSE session[j]
    BY <1>4, <2>1, <2>3, ExceptSeq
  <2> QED
    BY <2>3, <2>4
<1>6. Seqs(session') = Seqs(session) /\ Ascending(session')
  <2> DEFINE s == session'
  <2>1. s \in Seq(SourceType) /\ Len(s) = Len(session)
        /\ \A i \in 1..Len(session) : s[i].seq = session[i].seq
    BY <1>5
  <2> HIDE DEF s
  <2>2. \A x : x \in Seqs(s) <=> \E i \in 1..Len(s) : x = s[i].seq
    BY <2>1, SeqsMembers
  <2>3. \A x : x \in Seqs(session) <=> \E i \in 1..Len(session) : x = session[i].seq
    BY <1>4, SeqsMembers
  <2>4. \A x : x \in Seqs(s) <=> x \in Seqs(session)
    BY <2>1, <2>2, <2>3
  <2>5. Ascending(s)
    <3>1. \A i, j \in 1..Len(session) : i < j => session[i].seq < session[j].seq
      BY <1>4, AscendingMeans
    <3>2. \A i, j \in 1..Len(s) : i < j => s[i].seq < s[j].seq
      BY <2>1, <3>1
    <3> QED
      BY <2>1, <3>2, AscendingMeans
  <2> QED
    BY <2>4, <2>5 DEF s
<1>7. FlowTypes'
  BY <1>0, <1>1, <1>3, <1>5 DEF FlowInv, FlowTypes
<1>8. Chain'
  <2>1. InOrder(Executed, Seqs(watching), HandedOf(pending), Seqs(session), Seqs(Batched),
                WaitingOf(tape), lastCommittedSeqId)'
    BY <1>0, <1>1, <1>3, <1>4, <1>6 DEF FlowInv, Chain, Executed, lastCommittedSeqId
  <2>2. Ascending(batch)' /\ \A i \in 1..Len(batch)' : ~ batch'[i].receipt
    BY <1>0, <1>1, BatchHead
  <2> QED
    BY <1>0, <1>6, <2>1, <2>2 DEF FlowInv, Chain, Executed, lastCommittedSeqId
<1>9. EncoderHolds' /\ WatcherHolds'
  BY <1>0, <1>1, <1>3 DEF FlowInv, EncoderHolds, WatcherHolds
<1>10. HeadReclaimed'
  BY <1>1, <1>2, <1>3 DEF HeadReclaimed
<1> QED
  BY <1>1, <1>3, <1>7, <1>8, <1>9, <1>10 DEF FlowInv

\* An inline completion fails: the encoder leaves, or drops the source.
LEMMA DropFlow ==
  ASSUME FlowInv, pc["encoder"] = "encode",
         (EncoderGoes("exited") /\ UNCHANGED batch) \/ NextSource,
         UNCHANGED <<writeIndex, writingSlot, nextSeqId, doneVars, gpuVars, session>>,
         tape' \in Seq(EntryType), Len(tape') = Len(tape), TapeOrdered', OpenLast',
         WaitingOf(tape') = WaitingOf(tape),
         \A i \in 1..Len(tape) :
           /\ tape'[i].seq = tape[i].seq
           /\ tape'[i].state = "Reclaiming" <=> tape[i].state = "Reclaiming"
           /\ tape'[i].state = "Tentative" <=> tape[i].state = "Tentative"
  PROVE  FlowInv'
<1>1. UNCHANGED <<completedSeqId, completedQueue, pending, watching>>
  BY DEF doneVars, gpuVars
<1>2. /\ Batched = batch /\ batch \in Seq(SourceType) /\ Ascending(batch)
      /\ Seqs(Tail(batch)) \in SUBSET Seqs(batch) /\ Ascending(Tail(batch))
      /\ \A i \in 1..Len(batch) : ~ batch[i].receipt
      /\ \A i \in 1..Len(Tail(batch)) : ~ Tail(batch)[i].receipt
  BY BatchHead DEF FlowInv, FlowTypes, Chain, Batched
<1>3. /\ Places' /\ pc'["encoder"] \in {"wait", "encode", "exited"}
      /\ pc'["watcher"] = pc["watcher"] /\ pc'["finish"] = pc["finish"]
      /\ batch' \in Seq(SourceType) /\ Batched' = batch' /\ batch' \in {batch, Tail(batch)}
      /\ pc'["encoder"] = "wait" => batch' = <<>>
      /\ pc'["encoder"] = "encode" => batch' # <<>>
  <2>1. CASE EncoderGoes("exited") /\ UNCHANGED batch
    <3>1. /\ Places' /\ pc'["encoder"] = "exited"
          /\ pc'["watcher"] = pc["watcher"] /\ pc'["finish"] = pc["finish"]
      BY <2>1, EncoderMoves DEF FlowInv
    <3> QED
      BY <1>2, <2>1, <3>1 DEF Batched
  <2>2. CASE NextSource
    BY <2>2, NextSourceEffect
  <2> QED
    BY <2>1, <2>2
<1>4. Seqs(batch') \in SUBSET Seqs(batch) /\ Ascending(batch')
      /\ \A i \in 1..Len(batch') : ~ batch'[i].receipt
  <2>1. CASE batch' = batch
    <3>1. Seqs(batch') = Seqs(batch) /\ Ascending(batch') /\ Len(batch') = Len(batch)
      BY <1>2, <2>1
    <3> QED
      BY <1>2, <2>1, <3>1
  <2>2. CASE batch' = Tail(batch)
    <3>1. Seqs(batch') = Seqs(Tail(batch)) /\ Ascending(batch')
          /\ Len(batch') = Len(Tail(batch))
      BY <1>2, <2>2
    <3> QED
      BY <1>2, <2>2, <3>1
  <2> QED
    BY <1>3, <2>1, <2>2
<1>5. FlowTypes'
  BY <1>1, <1>3 DEF FlowInv, FlowTypes
<1>6. Chain'
  <2>1. InOrder(Executed, Seqs(watching), HandedOf(pending), Seqs(session), Seqs(batch'),
                WaitingOf(tape), lastCommittedSeqId)
    <3>1. InOrder(Executed, Seqs(watching), HandedOf(pending), Seqs(session), Seqs(batch),
                  WaitingOf(tape), lastCommittedSeqId)
      BY <1>2 DEF FlowInv, Chain
    <3> DEFINE B == Seqs(batch')
    <3>2. B \in SUBSET Seqs(batch)
      BY <1>4
    <3> HIDE DEF B
    <3>3. InOrder(Executed, Seqs(watching), HandedOf(pending), Seqs(session), B,
                  WaitingOf(tape), lastCommittedSeqId)
      BY <3>1, <3>2, OrderFewer
    <3> QED
      BY <3>3 DEF B
  <2>2. InOrder(Executed, Seqs(watching), HandedOf(pending), Seqs(session), Seqs(Batched),
                WaitingOf(tape), lastCommittedSeqId)'
    BY <1>1, <1>3, <2>1 DEF Executed, lastCommittedSeqId
  <2> QED
    BY <1>1, <1>4, <2>2 DEF FlowInv, Chain, Executed, lastCommittedSeqId
<1>7. EncoderHolds' /\ WatcherHolds'
  BY <1>1, <1>3 DEF FlowInv, EncoderHolds, WatcherHolds
<1>8. HeadReclaimed'
  <2>1. HeadReclaimed /\ tape \in Seq(EntryType)
    BY DEF FlowInv, FlowTypes
  <2> QED
    BY <1>1, <1>3, <2>1, HeadStays
<1> QED
  BY <1>3, <1>5, <1>6, <1>7, <1>8 DEF FlowInv

\* An inline completion begins, or fails its check.
LEMMA InlineBeginFlow ==
  ASSUME FlowInv, InlineBegin
  PROVE  FlowInv'
<1> DEFINE x == Head(batch).seq
<1>0. /\ pc["encoder"] = "encode" /\ session = <<>>
      /\ UNCHANGED <<writeIndex, writingSlot, nextSeqId, doneVars, gpuVars, session>>
      /\ UNCHANGED <<completedSeqId, completedQueue, pending, watching>>
  BY DEF InlineBegin, EncoderAt, doneVars, gpuVars
<1>1. /\ Head(batch) = batch[1] /\ x \in Nat /\ batch # <<>>
      /\ x \in Seqs(session) \cup Seqs(Batched)
  BY <1>0, BatchHead
<1>2. /\ x \in Nat /\ completedSeqId < x
      /\ \A i \in 1..Len(tape) :
           tape[i].seq = x => tape[i].state \notin {"Writing", "Ready", "Tentative"}
  BY <1>1, NotWaiting
<1>3. tape \in Seq(EntryType) /\ TapeOrdered /\ OpenLast /\ completedSeqId \in Nat
  BY DEF FlowInv, FlowTypes
<1>4. CASE ~ InlineInOrder(x) /\ InlineFails("inlineOrder") /\ UNCHANGED <<slots, tape>>
  <2>1. TapeOrdered' /\ OpenLast'
    BY <1>0, <1>3, <1>4 DEF TapeOrdered, OpenLast, lastCommittedSeqId
  <2>2. (EncoderGoes("exited") /\ UNCHANGED batch) \/ NextSource
    BY <1>4 DEF InlineFails
  <2> QED
    BY <1>0, <1>3, <1>4, <2>1, <2>2, DropFlow
<1>5. CASE /\ InlineInOrder(x) /\ ~ IsHead(x, "Represented")
           /\ InlineFails("inlineReclaim")
           /\ tape' = Moved(tape, {x}, "Completed")
           /\ UNCHANGED slots
  <2>1. /\ tape' \in Seq(EntryType) /\ Len(tape') = Len(tape)
        /\ TapeOrdered' /\ OpenLast' /\ WaitingOf(tape') = WaitingOf(tape)
        /\ \A i \in 1..Len(tape) :
             /\ tape'[i].seq = tape[i].seq
             /\ tape[i].seq \in {x} => tape'[i].state = "Completed"
             /\ tape[i].seq \notin {x} => tape'[i] = tape[i]
             /\ tape'[i].state = "Tentative" <=> tape[i].state = "Tentative"
    <3> HIDE DEF x
    <3>1. \A i \in 1..Len(tape) :
            tape[i].seq \in {x} => tape[i].state \notin {"Writing", "Ready", "Tentative"}
      BY <1>2
    <3> QED
      BY <1>0, <1>5, <3>1, BehindFlow
  <2>2. (EncoderGoes("exited") /\ UNCHANGED batch) \/ NextSource
    BY <1>5 DEF InlineFails
  <2>3. \A i \in 1..Len(tape) : tape[i].seq = x => tape[i].state # "Reclaiming"
    BY <1>0, <1>2, <1>3 DEF FlowInv, HeadReclaimed
  <2>4. \A i \in 1..Len(tape) :
          /\ tape'[i].seq = tape[i].seq
          /\ tape'[i].state = "Reclaiming" <=> tape[i].state = "Reclaiming"
          /\ tape'[i].state = "Tentative" <=> tape[i].state = "Tentative"
    BY <2>1, <2>3
  <2> QED
    BY <1>0, <2>1, <2>2, <2>4, DropFlow
<1>6. CASE /\ InlineInOrder(x) /\ IsHead(x, "Represented")
           /\ tape' = Moved(tape, {x}, "Reclaiming")
           /\ EncoderGoes("inline") /\ UNCHANGED batch
  <2>1. /\ Places' /\ pc'["encoder"] = "inline"
        /\ pc'["watcher"] = pc["watcher"] /\ pc'["finish"] = pc["finish"]
    BY <1>6, EncoderMoves DEF FlowInv
  <2>2. /\ pc["finish"] # "reclaim"
        /\ tape' \in Seq(EntryType) /\ TapeOrdered' /\ OpenLast'
        /\ WaitingOf(tape') = WaitingOf(tape)
        /\ tape' # <<>> /\ tape'[1].state = "Reclaiming" /\ tape'[1].seq = x
        /\ \A i \in 1..Len(tape') : tape'[i].state = "Reclaiming" => i = 1
        /\ Len(tape') = Len(tape)
        /\ \A i \in 1..Len(tape) : tape'[i].state = "Tentative" <=> tape[i].state = "Tentative"
    <3> HIDE DEF x
    <3> QED
      BY <1>0, <1>2, <1>6, HeadTaken
  <2>3. FlowTypes'
    BY <1>0, <1>6, <2>2 DEF FlowInv, FlowTypes
  <2>4. Chain'
    <3>1. Batched' = Batched
      BY <1>0, <1>6, <2>1 DEF Batched
    <3> QED
      BY <1>0, <1>6, <2>2, <3>1 DEF FlowInv, Chain, Executed, lastCommittedSeqId
  <2>5. EncoderHolds' /\ WatcherHolds'
    <3>1. batch[1].seq = Executed + 1
      BY <1>1, <1>6 DEF InlineInOrder, Executed
    <3> QED
      BY <1>0, <1>1, <1>6, <2>1, <2>2, <3>1 DEF FlowInv, EncoderHolds, WatcherHolds, Executed
  <2>6. HeadReclaimed'
    BY <1>1, <1>6, <2>1, <2>2 DEF HeadReclaimed
  <2> QED
    BY <2>1, <2>2, <2>3, <2>4, <2>5, <2>6 DEF FlowInv
<1> QED
  BY <1>4, <1>5, <1>6 DEF InlineBegin

\* Sequences that follow c one by one.
Counts(q, c) == q \in Seq(Nat) /\ \A i \in 1..Len(q) : q[i] = c + i

\* Another one joins the completed ones.
LEMMA CountsAppend ==
  ASSUME NEW q, NEW c \in Nat, Counts(q, c), NEW x, x = c + Len(q) + 1
  PROVE  Counts(Append(q, x), c) /\ Len(Append(q, x)) = Len(q) + 1
<1>0. q \in Seq(Nat) /\ \A i \in 1..Len(q) : q[i] = c + i
  BY DEF Counts
<1>1. Len(q) \in Nat /\ x \in Nat
  BY <1>0, DomainLen
<1>2. /\ Append(q, x) \in Seq(Nat) /\ Len(Append(q, x)) = Len(q) + 1
      /\ \A i \in 1..Len(q) : Append(q, x)[i] = q[i]
      /\ Append(q, x)[Len(q) + 1] = x
  BY <1>0, <1>1, AppendEffect
<1>3. \A i \in 1..(Len(q) + 1) : i \in 1..Len(q) \/ i = Len(q) + 1
  BY <1>1
<1>4. c + (Len(q) + 1) = x
  BY <1>1
<1> QED
  BY <1>0, <1>2, <1>3, <1>4 DEF Counts

\* The first one is taken.
LEMMA CountsTail ==
  ASSUME NEW q, NEW c \in Nat, Counts(q, c), q # <<>>
  PROVE  /\ Head(q) = c + 1 /\ Counts(Tail(q), c + 1)
         /\ c + 1 + Len(Tail(q)) = c + Len(q)
<1>1. q \in Seq(Nat) /\ \A i \in 1..Len(q) : q[i] = c + i
  BY DEF Counts
<1>2. /\ Tail(q) \in Seq(Nat) /\ Len(Tail(q)) = Len(q) - 1 /\ Len(q) \in Nat \ {0}
      /\ Head(q) = q[1]
      /\ \A i \in 1..(Len(q) - 1) : i + 1 \in 1..Len(q) /\ Tail(q)[i] = q[i + 1]
  BY <1>1, TailEffect
<1>3. \A i \in 1..Len(Tail(q)) : Tail(q)[i] = c + 1 + i
  BY <1>1, <1>2
<1> QED
  BY <1>1, <1>2, <1>3 DEF Counts

\* Several join.
LEMMA CountsConcat ==
  ASSUME NEW q, NEW c \in Nat, Counts(q, c), NEW r, Counts(r, c + Len(q))
  PROVE  Counts(q \o r, c) /\ Len(q \o r) = Len(q) + Len(r)
<1>1. /\ q \in Seq(Nat) /\ r \in Seq(Nat) /\ Len(q) \in Nat /\ Len(r) \in Nat
      /\ \A i \in 1..Len(q) : q[i] = c + i
      /\ \A i \in 1..Len(r) : r[i] = c + Len(q) + i
  BY DomainLen DEF Counts
<1>2. /\ q \o r \in Seq(Nat) /\ Len(q \o r) = Len(q) + Len(r)
      /\ \A i \in 1..(Len(q) + Len(r)) :
           (q \o r)[i] = IF i <= Len(q) THEN q[i] ELSE r[i - Len(q)]
  BY <1>1, ConcatProperties
<1>3. \A i \in 1..(Len(q) + Len(r)) :
        \/ i <= Len(q) /\ i \in 1..Len(q)
        \/ ~(i <= Len(q)) /\ i - Len(q) \in 1..Len(r) /\ c + Len(q) + (i - Len(q)) = c + i
  BY <1>1
<1> QED
  BY <1>1, <1>2, <1>3 DEF Counts

\* It finishes: the next sequence has executed.
LEMMA InlineFinishFlow ==
  ASSUME FlowInv, InlineFinish
  PROVE  FlowInv' /\ Executed' = Executed + 1 /\ Executed' <= lastCommittedSeqId
<1>0. /\ pc["encoder"] = "inline" /\ tape' = Tail(tape) /\ NextSource
      /\ completedQueue' = Append(completedQueue, Head(batch).seq)
      /\ UNCHANGED <<writeIndex, writingSlot, nextSeqId, completedSeqId, pending, watching,
                     session>>
  BY DEF InlineFinish, EncoderAt, ringVars, gpuVars
<1>1. /\ Places' /\ pc'["encoder"] \in {"wait", "encode"}
      /\ pc'["watcher"] = pc["watcher"] /\ pc'["finish"] = pc["finish"]
      /\ batch' = Tail(batch) /\ batch' \in Seq(SourceType) /\ Batched' = Tail(batch)
      /\ pc'["encoder"] = "wait" => batch' = <<>>
      /\ pc'["encoder"] = "encode" => batch' # <<>>
  BY <1>0, NextSourceEffect
<1>2. tape # <<>> /\ tape[1].state = "Reclaiming" /\ pc["finish"] # "reclaim"
  BY <1>0, OneReclaims DEF FlowInv, HeadReclaimed
<1>3. /\ tape' \in Seq(EntryType) /\ TapeOrdered' /\ OpenLast'
      /\ WaitingOf(tape') = WaitingOf(tape)
      /\ \A i \in 1..Len(tape') : tape'[i].state # "Reclaiming"
      /\ \A i \in 1..Len(tape') : tape'[i].state # "Tentative"
  <2>1. \A i \in 1..Len(tape) : tape[i].state # "Tentative"
    BY <1>0 DEF FlowInv, EncoderHolds
  <2> QED
    BY <1>0, <1>2, <2>1, TailFlow
<1>4. /\ session = <<>> /\ batch[1].seq = Executed + 1 /\ Head(batch) = batch[1]
      /\ Seqs(batch) = {batch[1].seq} \cup Seqs(Tail(batch))
      /\ Before({batch[1].seq}, Seqs(Tail(batch))) /\ Batched = batch
      /\ Ascending(Tail(batch)) /\ \A i \in 1..Len(Tail(batch)) : ~ Tail(batch)[i].receipt
  BY <1>0, BatchHead DEF FlowInv, EncoderHolds, Batched
<1>5. /\ Executed \in Nat /\ completedSeqId \in Nat /\ Len(completedQueue) \in Nat
      /\ Seqs(watching) \in SUBSET Nat /\ HandedOf(pending) \in SUBSET Nat
  BY TapeNumbers DEF FlowInv
<1>6. /\ completedQueue' \in Seq(Nat) /\ Len(completedQueue') = Len(completedQueue) + 1
      /\ \A i \in 1..Len(completedQueue') : completedQueue'[i] = completedSeqId + i
  <2>1. completedQueue \in Seq(Nat)
        /\ \A i \in 1..Len(completedQueue) : completedQueue[i] = completedSeqId + i
    BY DEF FlowInv, FlowTypes, Chain
  <2>2. Head(batch).seq = completedSeqId + Len(completedQueue) + 1
    BY <1>4 DEF Executed
  <2> DEFINE q == completedQueue
             x == Head(batch).seq
  <2>3. completedQueue' = Append(q, x)
    BY <1>0
  <2> HIDE DEF x, q
  <2>4. Counts(q, completedSeqId)
    BY <2>1 DEF q, Counts
  <2>5. x = completedSeqId + Len(q) + 1
    BY <2>2 DEF q, x
  <2>6. Counts(Append(q, x), completedSeqId) /\ Len(Append(q, x)) = Len(q) + 1
    BY <1>5, <2>4, <2>5, CountsAppend
  <2> QED
    BY <2>3, <2>6 DEF q, Counts
<1>7. Executed' = Executed + 1
  BY <1>0, <1>5, <1>6 DEF Executed
<1>8. /\ InOrder(Executed + 1, Seqs(watching), HandedOf(pending), Seqs(session),
                 Seqs(Tail(batch)), WaitingOf(tape), lastCommittedSeqId)
      /\ Executed + 1 <= lastCommittedSeqId
  <2> DEFINE B == Seqs(batch)
             A == Seqs(Tail(batch))
             S == Seqs(session)
  <2>1. S = {}
    <3>1. \A y : y \notin Seqs(<<>>)
      BY DEF Seqs
    <3> QED
      BY <1>4, <3>1
  <2>2. A \in SUBSET B /\ Executed + 1 \in B /\ Before({Executed + 1}, A)
    BY <1>4
  <2>3. InOrder(Executed, Seqs(watching), HandedOf(pending), S, B, WaitingOf(tape),
                lastCommittedSeqId)
    BY <1>4 DEF FlowInv, Chain
  <2> DEFINE W == Seqs(watching)
             P == HandedOf(pending)
             T == WaitingOf(tape)
             c == lastCommittedSeqId
             x == Executed
  <2>4. x \in Nat /\ W \in SUBSET Nat /\ P \in SUBSET Nat /\ x + 1 \in B
        /\ InOrder(x, W, P, S, B, T, c) /\ A \in SUBSET B /\ Before({x + 1}, A)
    BY <1>5, <2>2, <2>3
  <2> HIDE DEF A, B, S, W, P, T, c, x
  <2>5. InOrder(x + 1, W, P, S, A, T, c) /\ x + 1 <= c
    BY <2>1, <2>4, OrderInline
  <2> QED
    BY <2>5 DEF A, S, W, P, T, c, x
<1>9. FlowTypes'
  BY <1>0, <1>1, <1>3, <1>6 DEF FlowInv, FlowTypes
<1>10. Chain'
  <2>1. InOrder(Executed, Seqs(watching), HandedOf(pending), Seqs(session), Seqs(Batched),
                WaitingOf(tape), lastCommittedSeqId)'
    BY <1>0, <1>1, <1>3, <1>7, <1>8 DEF lastCommittedSeqId
  <2>2. Executed' <= lastCommittedSeqId'
    BY <1>0, <1>7, <1>8 DEF lastCommittedSeqId
  <2> QED
    BY <1>0, <1>1, <1>4, <1>6, <2>1, <2>2 DEF FlowInv, Chain
<1>11. EncoderHolds' /\ WatcherHolds'
  BY <1>0, <1>1, <1>3 DEF FlowInv, EncoderHolds, WatcherHolds
<1>12. HeadReclaimed'
  BY <1>1, <1>2, <1>3 DEF HeadReclaimed
<1> QED
  BY <1>1, <1>3, <1>7, <1>8, <1>9, <1>10, <1>11, <1>12 DEF FlowInv

\* Every step of the encoder.
LEMMA EncodeFlow ==
  ASSUME FlowInv, EncodeStep \/ CommitPrefix \/ RestorePrefix \/ SubmitSession
  PROVE  FlowInv'
<1>1. CASE EncodeWait
  <2>1. UNCHANGED <<doneVars, gpuVars, encodeVars, pc, writeIndex, writingSlot, nextSeqId, tape>>
    BY <1>1 DEF EncodeWait, ringVars, tapeVars
  <2>2. WorkersStay
    BY <2>1, NobodyMoves DEF FlowInv
  <2> QED
    BY <2>1, <2>2, QuietFlow DEF Quiet, PipelineStays
<1>2. CASE EncodeExit
  BY <1>2, ExitFlow DEF EncodeExit, EncoderAt, ringVars, tapeVars
<1>3. CASE EncodeRefuse
  BY <1>3, ExitFlow DEF EncodeRefuse, EncoderAt, ringVars, tapeVars
<1>4. CASE EncodeThrow
  BY <1>4, ExitFlow DEF EncodeThrow, EncoderAt, ringVars, tapeVars
<1> QED
  BY <1>1, <1>2, <1>3, <1>4, DequeueFlow, ReservePrefixFlow, CommitPrefixFlow,
     RestorePrefixFlow, EncodeSubmitFlow, SubmitSessionFlow, EncodeRetainFlow,
     RetireBeginFlow, RetireFinishFlow, InlineBeginFlow, InlineFinishFlow DEF EncodeStep

-----------------------------------------------------------------------------
(* The completion watcher. *)

\* The watcher moves.
LEMMA WatcherMoves ==
  ASSUME Places, NEW l \in {"wait", "gpu", "exited"}, pc' = [pc EXCEPT !["watcher"] = l]
  PROVE  /\ Places' /\ pc'["watcher"] = l
         /\ pc'["encoder"] = pc["encoder"] /\ pc'["finish"] = pc["finish"]
         /\ \A c \in Clients : pc'[c] = pc[c]
<1>1. l \in Labels /\ "encoder" \in Workers /\ "watcher" \in Workers /\ "finish" \in Workers
      /\ "watcher" \notin Clients
  BY DEF Labels, Workers, Clients
<1>2. /\ pc' \in [Clients \cup Workers -> Labels] /\ pc'["watcher"] = l
      /\ \A d \in Clients \cup Workers : d # "watcher" => pc'[d] = pc[d]
  BY <1>1, WorkerMoves
<1>3. pc'["encoder"] = pc["encoder"] /\ pc'["finish"] = pc["finish"]
      /\ \A c \in Clients : pc'[c] = pc[c]
  BY <1>1, <1>2
<1> QED
  BY <1>2, <1>3 DEF Places

\* What the encoder and the finish thread hold does not change.
LEMMA OthersStay ==
  ASSUME FlowInv, UNCHANGED <<writeIndex, writingSlot, nextSeqId, completedSeqId, batch, session>>,
         pc'["encoder"] = pc["encoder"], pc'["finish"] = pc["finish"]
  PROVE  Batched' = Batched /\ (UNCHANGED tape => TapeOrdered' /\ OpenLast' /\ HeadReclaimed')
BY DEF FlowInv, Batched, TapeOrdered, OpenLast, HeadReclaimed, lastCommittedSeqId

\* The watcher leaves.
LEMMA WatchExitFlow ==
  ASSUME FlowInv, WatchExit
  PROVE  FlowInv'
<1>1. /\ pc["watcher"] = "wait" /\ pc' = [pc EXCEPT !["watcher"] = "exited"]
      /\ UNCHANGED <<writeIndex, writingSlot, nextSeqId, tape, completedSeqId, completedQueue,
                     pending, watching, batch, session>>
  BY DEF WatchExit, WatcherAt, ringVars, tapeVars, doneVars, gpuVars, encodeVars
<1>2. /\ Places' /\ pc'["watcher"] = "exited"
      /\ pc'["encoder"] = pc["encoder"] /\ pc'["finish"] = pc["finish"]
  BY <1>1, WatcherMoves DEF FlowInv
<1>3. Batched' = Batched /\ TapeOrdered' /\ OpenLast' /\ HeadReclaimed'
  BY <1>1, <1>2, OthersStay
<1>4. FlowTypes' /\ Chain'
  BY <1>1, <1>3 DEF FlowInv, FlowTypes, Chain, Executed, lastCommittedSeqId
<1>5. EncoderHolds' /\ WatcherHolds'
  BY <1>1, <1>2 DEF FlowInv, EncoderHolds, WatcherHolds, Executed
<1> QED
  BY <1>2, <1>3, <1>4, <1>5 DEF FlowInv

\* The watcher takes the oldest command buffer.
LEMMA WatchPopFlow ==
  ASSUME FlowInv, WatchPop
  PROVE  FlowInv'
<1>1. /\ pc["watcher"] = "wait" /\ pc' = [pc EXCEPT !["watcher"] = "gpu"]
      /\ pending # <<>> /\ watching' = Head(pending) /\ pending' = Tail(pending)
      /\ UNCHANGED <<writeIndex, writingSlot, nextSeqId, tape, completedSeqId, completedQueue,
                     batch, session>>
  BY DEF WatchPop, WatcherAt, ringVars, tapeVars, doneVars, encodeVars
<1>2. /\ Places' /\ pc'["watcher"] = "gpu"
      /\ pc'["encoder"] = pc["encoder"] /\ pc'["finish"] = pc["finish"]
  BY <1>1, WatcherMoves DEF FlowInv
<1>3. Batched' = Batched /\ TapeOrdered' /\ OpenLast' /\ HeadReclaimed'
  BY <1>1, <1>2, OthersStay
<1>4. /\ pending \in Seq(Seq(SourceType)) /\ Buffered(pending) /\ watching = <<>>
      /\ InOrder(Executed, Seqs(watching), HandedOf(pending), Seqs(session), Seqs(Batched),
                 WaitingOf(tape), lastCommittedSeqId)
  BY <1>1 DEF FlowInv, FlowTypes, Chain, WatcherHolds
<1>5. Head(pending) = pending[1] /\ pending[1] \in Seq(SourceType)
      /\ Tail(pending) \in Seq(Seq(SourceType))
  BY <1>1, <1>4, TailEffect
<1>6. /\ Buffered(Tail(pending)) /\ HandedOf(pending) = Seqs(pending[1]) \cup HandedOf(Tail(pending))
      /\ Before(Seqs(pending[1]), HandedOf(Tail(pending)))
      /\ pending[1] # <<>> /\ Ascending(pending[1])
  BY <1>1, <1>4, HandedTail
<1>7. InOrder(Executed, Seqs(pending[1]), HandedOf(Tail(pending)), Seqs(session), Seqs(Batched),
              WaitingOf(tape), lastCommittedSeqId)
  <2>1. Seqs(watching) = {}
    <3>1. \A y : y \notin Seqs(<<>>)
      BY DEF Seqs
    <3> QED
      BY <1>4, <3>1
  <2> DEFINE W == Seqs(pending[1])
             Q == HandedOf(Tail(pending))
             P == HandedOf(pending)
  <2>2. W \in SUBSET P /\ Q \in SUBSET P /\ Before(W, Q)
    BY <1>6
  <2>3. InOrder(Executed, {}, P, Seqs(session), Seqs(Batched), WaitingOf(tape),
                lastCommittedSeqId)
    BY <1>4, <2>1
  <2> HIDE DEF W, Q, P
  <2>4. InOrder(Executed, W, Q, Seqs(session), Seqs(Batched), WaitingOf(tape),
                lastCommittedSeqId)
    BY <2>2, <2>3, OrderPop
  <2> QED
    BY <2>4 DEF W, Q
<1>8. FlowTypes'
  BY <1>1, <1>5 DEF FlowInv, FlowTypes
<1>9. Chain'
  <2>1. InOrder(Executed, Seqs(watching), HandedOf(pending), Seqs(session), Seqs(Batched),
                WaitingOf(tape), lastCommittedSeqId)'
    BY <1>1, <1>3, <1>5, <1>7 DEF Executed, lastCommittedSeqId
  <2>2. Ascending(watching)' /\ Buffered(pending)'
    BY <1>1, <1>5, <1>6
  <2> QED
    BY <1>1, <2>1, <2>2 DEF FlowInv, Chain, Executed, lastCommittedSeqId
<1>10. EncoderHolds' /\ WatcherHolds'
  BY <1>1, <1>2, <1>5, <1>6 DEF FlowInv, EncoderHolds, WatcherHolds, Executed
<1> QED
  BY <1>2, <1>3, <1>8, <1>9, <1>10 DEF FlowInv

\* What Settleable says of the watched sources.
LEMMA SettleEffect ==
  ASSUME FlowInv, Settleable
  PROVE  /\ \A i \in 1..Len(tape) :
              tape[i].seq \in ResidentSeqs(watching) => tape[i].state = "Submitted"
         /\ Counts([i \in DOMAIN watching |-> watching[i].seq], Executed)
         /\ Len([i \in DOMAIN watching |-> watching[i].seq]) = Len(watching)
         /\ \A i \in 1..Len(watching) : watching[i].seq = Executed + i
<1>1. tape \in Seq(EntryType) /\ Staged(tape, lastCommittedSeqId)
      /\ DOMAIN tape = 1..Len(tape)
      /\ watching \in Seq(SourceType) /\ DOMAIN watching = 1..Len(watching)
      /\ Len(watching) \in Nat /\ Executed \in Nat
  BY DomainLen, TapeNumbers DEF FlowInv, FlowTypes, TapeOrdered
<1>2. \A i \in 1..Len(watching) : watching[i].seq = Executed + i
  BY <1>1 DEF Settleable, Executed
<1>3. ASSUME NEW i \in 1..Len(tape), tape[i].seq \in ResidentSeqs(watching)
      PROVE  tape[i].state = "Submitted"
  <2>1. PICK x \in Resident(watching) : tape[i].seq = x.seq
    BY <1>3 DEF ResidentSeqs
  <2>2. x \in ToSet(watching) /\ ~ x.receipt
    BY DEF Resident
  <2>3. PICK k \in 1..Len(watching) : x = watching[k]
    BY <1>1, <2>2 DEF ToSet
  <2>4. PICK m \in Positions("Submitted") : tape[m].seq = x.seq
    BY <1>1, <2>2, <2>3 DEF Settleable
  <2>5. m \in 1..Len(tape) /\ tape[m].state = "Submitted"
    BY <1>1 DEF Positions
  <2>6. m = i
    BY <1>1, <2>1, <2>4, <2>5, StagedDistinct
  <2> QED
    BY <2>5, <2>6
<1> DEFINE r == [i \in 1..Len(watching) |-> watching[i].seq]
<1>4. /\ r \in Seq(Nat) /\ Len(r) = Len(watching)
      /\ \A i \in 1..Len(watching) : r[i] = Executed + i
  <2>1. \A i \in 1..Len(watching) : watching[i].seq \in Nat
    BY <1>1, SeqsNat
  <2>2. r \in Seq(Nat) /\ Len(r) = Len(watching)
    BY <1>1, <2>1, IsASeq
  <2> QED
    BY <1>2, <2>2
<1>5. r = [i \in DOMAIN watching |-> watching[i].seq]
  BY <1>1
<1> HIDE DEF r
<1>6. Counts(r, Executed)
  BY <1>4 DEF Counts
<1> QED
  BY <1>2, <1>3, <1>4, <1>5, <1>6

\* The watcher settles a command buffer: its sequences have executed, or it stops.
LEMMA SettleFlow ==
  ASSUME FlowInv, Settle
  PROVE  /\ FlowInv' /\ completedSeqId' = completedSeqId
         /\ Executed' = Executed \/ (Executed' \in (Executed + 1)..lastCommittedSeqId
                                      /\ UNCHANGED stop)
<1>1. /\ pc["watcher"] = "gpu" /\ watching' = <<>>
      /\ UNCHANGED <<writeIndex, writingSlot, nextSeqId, completedSeqId, pending, batch, session>>
  BY DEF Settle, WatcherAt, ringVars, encodeVars
<1>2. watching # <<>> /\ watching \in Seq(SourceType) /\ tape \in Seq(EntryType)
  BY <1>1 DEF FlowInv, FlowTypes, WatcherHolds
<1>3. Seqs(<<>>) = {} /\ Ascending(<<>>) /\ <<>> \in Seq(SourceType)
  <2>1. \A y : y \notin Seqs(<<>>)
    BY DEF Seqs
  <2>2. Ascending(<<>>)
    BY DEF Ascending
  <2> QED
    BY <2>1, <2>2
<1>4. InOrder(Executed, Seqs(watching), HandedOf(pending), Seqs(session), Seqs(Batched),
              WaitingOf(tape), lastCommittedSeqId)
  BY DEF FlowInv, Chain
<1>5. CASE ~ Settleable
  <2>1. /\ pc' = [pc EXCEPT !["watcher"] = "exited"] /\ UNCHANGED <<tape, completedQueue>>
    BY <1>5 DEF Settle
  <2>2. /\ Places' /\ pc'["watcher"] = "exited"
        /\ pc'["encoder"] = pc["encoder"] /\ pc'["finish"] = pc["finish"]
    BY <2>1, WatcherMoves DEF FlowInv
  <2>3. Batched' = Batched /\ TapeOrdered' /\ OpenLast' /\ HeadReclaimed'
    BY <1>1, <2>1, <2>2, OthersStay
  <2>4. FlowTypes'
    BY <1>1, <1>3, <2>1 DEF FlowInv, FlowTypes
  <2>5. Chain'
    <3>1. InOrder(Executed, {}, HandedOf(pending), Seqs(session), Seqs(Batched),
                  WaitingOf(tape), lastCommittedSeqId)
      BY <1>4 DEF InOrder, Before
    <3>2. InOrder(Executed, Seqs(watching), HandedOf(pending), Seqs(session), Seqs(Batched),
                  WaitingOf(tape), lastCommittedSeqId)'
      BY <1>1, <1>3, <2>1, <2>3, <3>1 DEF Executed, lastCommittedSeqId
    <3> QED
      BY <1>1, <1>3, <2>1, <3>2 DEF FlowInv, Chain, Executed, lastCommittedSeqId
  <2>6. EncoderHolds' /\ WatcherHolds'
    BY <1>1, <2>1, <2>2 DEF FlowInv, EncoderHolds, WatcherHolds, Executed
  <2>7. Executed' = Executed
    BY <1>1, <2>1 DEF Executed
  <2> QED
    BY <1>1, <2>2, <2>3, <2>4, <2>5, <2>6, <2>7 DEF FlowInv
<1>6. CASE Settleable
  <2> DEFINE r == [i \in DOMAIN watching |-> watching[i].seq]
             q == ResidentSeqs(watching)
             n == Len(watching)
  <2>1. /\ pc' = [pc EXCEPT !["watcher"] = "wait"] /\ UNCHANGED stop
        /\ tape' = Moved(tape, q, "Completed")
        /\ completedQueue' = completedQueue \o r
    BY <1>6 DEF Settle, Wake
  <2>2. /\ Places' /\ pc'["watcher"] = "wait"
        /\ pc'["encoder"] = pc["encoder"] /\ pc'["finish"] = pc["finish"]
    BY <2>1, WatcherMoves DEF FlowInv
  <2>3. /\ \A i \in 1..Len(tape) : tape[i].seq \in q => tape[i].state = "Submitted"
        /\ Counts(r, Executed) /\ Len(r) = n
        /\ \A i \in 1..n : watching[i].seq = Executed + i
    BY <1>6, SettleEffect
  <2> HIDE DEF r, q
  <2>4. /\ tape' \in Seq(EntryType) /\ Len(tape') = Len(tape)
        /\ TapeOrdered' /\ OpenLast' /\ WaitingOf(tape') = WaitingOf(tape)
        /\ \A i \in 1..Len(tape) :
             /\ tape'[i].seq = tape[i].seq
             /\ tape[i].seq \in q => tape'[i].state = "Completed"
             /\ tape[i].seq \notin q => tape'[i] = tape[i]
             /\ tape'[i].state = "Tentative" <=> tape[i].state = "Tentative"
    <3>1. \A i \in 1..Len(tape) :
            tape[i].seq \in q => tape[i].state \notin {"Writing", "Ready", "Tentative"}
      BY <2>3
    <3> QED
      BY <1>1, <2>1, <3>1, BehindFlow
  <2>5. n \in Nat \ {0} /\ Executed \in Nat /\ completedSeqId \in Nat
        /\ Len(completedQueue) \in Nat /\ lastCommittedSeqId \in Nat
    BY <1>2, DomainLen, TapeNumbers DEF FlowInv
  <2>6. Counts(completedQueue', completedSeqId) /\ Len(completedQueue') = Len(completedQueue) + n
    <3>1. Counts(completedQueue, completedSeqId)
      BY DEF Counts, FlowInv, FlowTypes, Chain
    <3>2. Counts(r, completedSeqId + Len(completedQueue))
      BY <2>3 DEF Executed
    <3>3. completedSeqId \in Nat
      BY <2>5
    <3>4. Counts(completedQueue \o r, completedSeqId)
          /\ Len(completedQueue \o r) = Len(completedQueue) + Len(r)
      BY <3>1, <3>2, <3>3, CountsConcat
    <3> QED
      BY <2>1, <2>3, <3>4
  <2>7. Executed' = Executed + n
    BY <1>1, <2>5, <2>6 DEF Executed
  <2>8. Executed + n \in Seqs(watching) /\ Executed + 1 \in Seqs(watching)
    <3>1. n \in 1..n /\ 1 \in 1..n
      BY <2>5
    <3> QED
      BY <1>2, <2>3, <3>1, SeqsMembers
  <2>9. /\ InOrder(Executed + n, {}, HandedOf(pending), Seqs(session), Seqs(Batched),
                   WaitingOf(tape), lastCommittedSeqId)
        /\ Executed + n <= lastCommittedSeqId
    BY <1>4, <2>8, OrderSettle
  <2>10. pc["encoder"] # "inline"
    <3>1. ASSUME pc["encoder"] = "inline" PROVE FALSE
      <4>1. batch[1].seq = Executed + 1 /\ session = <<>> /\ Batched = batch
        BY <3>1 DEF FlowInv, EncoderHolds, Batched
      <4>2. batch[1].seq \in Seqs(session) \cup Seqs(Batched)
        BY <3>1, BatchHead
      <4>3. Executed + 1 \in Seqs(Batched)
        BY <1>3, <4>1, <4>2
      <4>4. Executed + 1 < Executed + 1
        BY <1>4, <2>8, <4>3 DEF InOrder, Before
      <4> QED
        BY <2>5, <4>4
    <3> QED
      BY <3>1
  <2>11. Batched' = Batched
    BY <1>1, <2>2, OthersStay
  <2>12. FlowTypes'
    BY <1>1, <1>3, <2>4, <2>6 DEF FlowInv, FlowTypes, Counts
  <2>13. Chain'
    <3>1. InOrder(Executed, Seqs(watching), HandedOf(pending), Seqs(session), Seqs(Batched),
                  WaitingOf(tape), lastCommittedSeqId)'
      BY <1>1, <1>3, <2>4, <2>7, <2>9, <2>11 DEF lastCommittedSeqId
    <3>2. Executed' <= lastCommittedSeqId'
      BY <1>1, <2>7, <2>9 DEF lastCommittedSeqId
    <3>3. \A i \in 1..Len(completedQueue') : completedQueue'[i] = completedSeqId' + i
      BY <1>1, <2>6 DEF Counts
    <3>4. Ascending(watching)' /\ Ascending(session)' /\ Ascending(batch)' /\ Buffered(pending)'
          /\ \A i \in 1..Len(batch)' : ~ batch'[i].receipt
      BY <1>1, <1>3 DEF FlowInv, Chain
    <3> QED
      BY <3>1, <3>2, <3>3, <3>4 DEF Chain
  <2>14. EncoderHolds' /\ WatcherHolds'
    BY <1>1, <2>2, <2>4, <2>10 DEF FlowInv, EncoderHolds, WatcherHolds
  <2>15. HeadReclaimed'
    <3>1. \A i \in 1..Len(tape) :
            /\ tape'[i].seq = tape[i].seq
            /\ tape'[i].state = "Reclaiming" <=> tape[i].state = "Reclaiming"
      BY <2>3, <2>4
    <3>2. HeadReclaimed
      BY DEF FlowInv
    <3> QED
      BY <1>1, <1>2, <2>2, <2>4, <3>1, <3>2, HeadStays
  <2>16. Executed' \in (Executed + 1)..lastCommittedSeqId
    BY <2>5, <2>7, <2>9
  <2> QED
    BY <1>1, <2>1, <2>2, <2>4, <2>12, <2>13, <2>14, <2>15, <2>16 DEF FlowInv
<1> QED
  BY <1>5, <1>6

\* Every step of the watcher.
LEMMA WatchFlow ==
  ASSUME FlowInv, WatchStep
  PROVE  FlowInv'
<1>1. CASE WatchWait
  <2>1. UNCHANGED <<doneVars, gpuVars, encodeVars, pc, writeIndex, writingSlot, nextSeqId, tape>>
    BY <1>1 DEF WatchWait, ringVars, tapeVars
  <2>2. WorkersStay
    BY <2>1, NobodyMoves DEF FlowInv
  <2> QED
    BY <2>1, <2>2, QuietFlow DEF Quiet, PipelineStays
<1> QED
  BY <1>1, WatchPopFlow, WatchExitFlow, SettleFlow DEF WatchStep

-----------------------------------------------------------------------------
(* The finish thread. *)

\* The finish thread moves.
LEMMA FinishMoves ==
  ASSUME Places, NEW l \in {"wait", "reclaim", "exited"}, FinishGoes(l)
  PROVE  /\ Places' /\ pc'["finish"] = l
         /\ pc'["encoder"] = pc["encoder"] /\ pc'["watcher"] = pc["watcher"]
         /\ \A c \in Clients : pc'[c] = pc[c]
<1>1. l \in Labels /\ "encoder" \in Workers /\ "watcher" \in Workers /\ "finish" \in Workers
      /\ "finish" \notin Clients
  BY DEF Labels, Workers, Clients
<1>2. /\ pc' \in [Clients \cup Workers -> Labels] /\ pc'["finish"] = l
      /\ \A d \in Clients \cup Workers : d # "finish" => pc'[d] = pc[d]
  BY <1>1, WorkerMoves DEF FinishGoes
<1>3. pc'["encoder"] = pc["encoder"] /\ pc'["watcher"] = pc["watcher"]
      /\ \A c \in Clients : pc'[c] = pc[c]
  BY <1>1, <1>2
<1> QED
  BY <1>2, <1>3 DEF Places

\* A prefix is reserved on a tape.
Reserved(t) == \E i \in 1..Len(t) : t[i].state = "Tentative"

\* The finish thread moves on, with the completed sequences in step.
LEMMA FinishFlowRest ==
  ASSUME FlowInv, UNCHANGED <<writeIndex, writingSlot, nextSeqId, gpuVars, encodeVars>>,
         Counts(completedQueue', completedSeqId'), completedSeqId' \in Nat,
         Executed' = Executed,
         Places', pc'["encoder"] = pc["encoder"], pc'["watcher"] = pc["watcher"],
         tape' \in Seq(EntryType), TapeOrdered', OpenLast',
         WaitingOf(tape') = WaitingOf(tape),
         Reserved(tape)' <=> Reserved(tape),
         HeadReclaimed'
  PROVE  FlowInv'
<1>1. UNCHANGED <<pending, watching, batch, session>> /\ Batched' = Batched
  BY DEF gpuVars, encodeVars, Batched
<1>2. FlowTypes'
  BY <1>1 DEF FlowInv, FlowTypes, Counts
<1>3. Chain'
  BY <1>1 DEF FlowInv, Chain, Counts, lastCommittedSeqId
<1>4. EncoderHolds' /\ WatcherHolds'
  BY <1>1 DEF FlowInv, EncoderHolds, WatcherHolds, Reserved
<1> QED
  BY <1>2, <1>3, <1>4 DEF FlowInv

\* The finish thread leaves.
LEMMA FinishExitFlow ==
  ASSUME FlowInv, FinishExit
  PROVE  FlowInv'
<1>1. /\ pc["finish"] = "wait" /\ FinishGoes("exited")
      /\ UNCHANGED <<writeIndex, writingSlot, nextSeqId, tape, completedSeqId, completedQueue,
                     gpuVars, encodeVars>>
  BY DEF FinishExit, FinishAt, ringVars, tapeVars, doneVars
<1>2. /\ Places' /\ pc'["finish"] = "exited"
      /\ pc'["encoder"] = pc["encoder"] /\ pc'["watcher"] = pc["watcher"]
  BY <1>1, FinishMoves DEF FlowInv
<1>3. TapeOrdered' /\ OpenLast' /\ Executed' = Executed
      /\ Counts(completedQueue', completedSeqId') /\ completedSeqId' \in Nat
      /\ tape' \in Seq(EntryType)
  BY <1>1 DEF FlowInv, FlowTypes, Chain, Counts, Executed, TapeOrdered, OpenLast,
     lastCommittedSeqId
<1>4. HeadReclaimed'
  BY <1>1, <1>2 DEF FlowInv, HeadReclaimed, encodeVars
<1>5. (Reserved(tape)' <=> Reserved(tape)) /\ WaitingOf(tape') = WaitingOf(tape)
  BY <1>1
<1> QED
  BY <1>1, <1>2, <1>3, <1>4, <1>5, FinishFlowRest

\* The finish thread completes the next sequence.
LEMMA DrainFlow ==
  ASSUME FlowInv, Drain
  PROVE  /\ FlowInv' /\ UNCHANGED nextSeqId /\ Executed' = Executed
         /\ completedSeqId' = completedSeqId + 1 /\ completedSeqId < Executed
<1> DEFINE x == Head(completedQueue)
<1>1. /\ pc["finish"] = "wait" /\ completedQueue # <<>>
      /\ completedQueue' = Tail(completedQueue)
      /\ completedSeqId' = Max({completedSeqId, x})
      /\ ReclaimHeads(tape, x, DrainWakes)
      /\ UNCHANGED <<writeIndex, writingSlot, nextSeqId, gpuVars, encodeVars>>
  BY DEF Drain, FinishAt, ringVars
<1>2. Counts(completedQueue, completedSeqId) /\ completedSeqId \in Nat
      /\ tape \in Seq(EntryType) /\ Staged(tape, lastCommittedSeqId) /\ HeadReclaimed
      /\ TapeOrdered /\ OpenLast
  BY DEF Counts, FlowInv, FlowTypes, Chain, TapeOrdered
<1>3. x = completedSeqId + 1 /\ Counts(Tail(completedQueue), completedSeqId + 1)
      /\ completedSeqId + 1 + Len(Tail(completedQueue)) = completedSeqId + Len(completedQueue)
  BY <1>1, <1>2, CountsTail
<1> HIDE DEF x
<1>4. completedSeqId' = completedSeqId + 1
  <2>1. completedSeqId \in Int /\ x \in Int
    BY <1>2, <1>3
  <2>2. Max({completedSeqId, x}) = IF completedSeqId >= x THEN completedSeqId ELSE x
    BY <2>1, TwoNumbers
  <2> QED
    BY <1>1, <1>2, <1>3, <2>2
<1>5. Executed' = Executed /\ Counts(completedQueue', completedSeqId') /\ completedSeqId' \in Nat
  BY <1>1, <1>2, <1>3, <1>4 DEF Executed
<1>6. completedSeqId < Executed
  <2>1. Len(completedQueue) \in Nat \ {0}
    BY <1>1, <1>2, DomainLen DEF Counts
  <2> QED
    BY <1>2, <2>1 DEF Executed
<1>7. ASSUME NEW l \in {"wait", "exited"}, tape' = tape, FinishGoes(l) PROVE FlowInv'
  <2>1. /\ Places' /\ pc'["finish"] = l
        /\ pc'["encoder"] = pc["encoder"] /\ pc'["watcher"] = pc["watcher"]
    BY <1>7, FinishMoves DEF FlowInv
  <2>2. TapeOrdered' /\ OpenLast' /\ tape' \in Seq(EntryType)
    BY <1>1, <1>2, <1>7 DEF TapeOrdered, OpenLast, lastCommittedSeqId
  <2>3. HeadReclaimed'
    BY <1>1, <1>2, <1>7, <2>1 DEF HeadReclaimed, encodeVars
  <2>4. (Reserved(tape)' <=> Reserved(tape)) /\ WaitingOf(tape') = WaitingOf(tape)
    BY <1>7
  <2> QED
    BY <1>1, <1>5, <2>1, <2>2, <2>3, <2>4, FinishFlowRest
<1>8. ASSUME ~ NothingToReclaim(tape, x),
             Head(tape).seq = x, Head(tape).state = "Completed",
             tape' = Moved(tape, {x}, "Reclaiming"), FinishGoes("reclaim")
      PROVE  FlowInv'
  <2>1. /\ Places' /\ pc'["finish"] = "reclaim"
        /\ pc'["encoder"] = pc["encoder"] /\ pc'["watcher"] = pc["watcher"]
    BY <1>8, FinishMoves DEF FlowInv
  <2>2. tape # <<>> /\ tape[1].seq = x /\ tape[1].state = "Completed" /\ 1 \in 1..Len(tape)
    <3>1. tape # <<>>
      BY <1>8 DEF NothingToReclaim
    <3> QED
      BY <1>2, <1>8, <3>1, TailEffect
  <2>3. \A i \in 1..Len(tape) : tape[i].seq = x => i = 1
    BY <1>2, <2>2, StagedDistinct
  <2>4. \A i \in 1..Len(tape) :
          tape[i].seq \in {x} => tape[i].state \notin {"Writing", "Ready", "Tentative"}
    BY <2>2, <2>3
  <2>5. /\ tape' \in Seq(EntryType) /\ Len(tape') = Len(tape)
        /\ TapeOrdered' /\ OpenLast' /\ WaitingOf(tape') = WaitingOf(tape)
        /\ \A i \in 1..Len(tape) :
             /\ tape'[i].seq = tape[i].seq
             /\ tape[i].seq \in {x} => tape'[i].state = "Reclaiming"
             /\ tape[i].seq \notin {x} => tape'[i] = tape[i]
             /\ tape'[i].state = "Tentative" <=> tape[i].state = "Tentative"
    BY <1>1, <1>8, <2>4, BehindFlow
  <2>6. pc["encoder"] \notin {"inline", "retire"}
    BY <1>2, <2>2 DEF HeadReclaimed
  <2>7. HeadReclaimed'
    <3>1. \A i \in 1..Len(tape') : tape'[i].state = "Reclaiming" => i = 1 /\ tape'[i].seq = x
      BY <1>2, <2>2, <2>3, <2>5 DEF HeadReclaimed
    <3>2. tape' # <<>> /\ tape'[1].state = "Reclaiming" /\ tape'[1].seq = x
      BY <2>2, <2>5
    <3> QED
      BY <1>3, <1>4, <2>1, <2>6, <3>1, <3>2 DEF HeadReclaimed
  <2>8. Reserved(tape)' <=> Reserved(tape)
    BY <2>5 DEF Reserved
  <2>9. tape' \in Seq(EntryType) /\ TapeOrdered' /\ OpenLast'
        /\ WaitingOf(tape') = WaitingOf(tape)
    BY <2>5
  <2>10. UNCHANGED <<writeIndex, writingSlot, nextSeqId, gpuVars, encodeVars>>
    BY <1>1
  <2>11. Places' /\ pc'["encoder"] = pc["encoder"] /\ pc'["watcher"] = pc["watcher"]
    BY <2>1
  <2> QED
    BY <1>5, <2>7, <2>8, <2>9, <2>10, <2>11, FinishFlowRest
<1>9. FlowInv'
  BY <1>1, <1>7, <1>8 DEF ReclaimHeads
<1> QED
  BY <1>1, <1>4, <1>5, <1>6, <1>9

\* It gives back the head it was reclaiming; nothing older than the completed
\* sequence is left behind it.
LEMMA FinishReclaimFlow ==
  ASSUME FlowInv, FinishReclaim
  PROVE  /\ FlowInv' /\ UNCHANGED <<nextSeqId, completedSeqId>> /\ Executed' = Executed
         /\ tape' = Tail(tape) /\ NothingToReclaim(Tail(tape), completedSeqId)
<1> DEFINE t == Tail(tape)
           x == completedSeqId
<1>1. /\ pc["finish"] = "reclaim"
      /\ ReclaimHeads(t, x, WriteWaiters \cup EncodeWaiters)
      /\ UNCHANGED <<writeIndex, writingSlot, nextSeqId, completedSeqId, completedQueue,
                     gpuVars, encodeVars>>
  BY DEF FinishReclaim, FinishAt, ringVars, doneVars
<1>2. Counts(completedQueue, completedSeqId) /\ completedSeqId \in Nat
      /\ tape \in Seq(EntryType) /\ Staged(tape, lastCommittedSeqId) /\ HeadReclaimed
  BY DEF Counts, FlowInv, FlowTypes, Chain, TapeOrdered
<1>3. tape # <<>> /\ tape[1].state = "Reclaiming" /\ tape[1].seq = completedSeqId
  BY <1>1, <1>2 DEF HeadReclaimed
<1>4. pc["encoder"] \notin {"inline", "retire"}
  BY <1>1, OneReclaims
<1>5. NothingToReclaim(t, x)
  <2>1. CASE t = <<>>
    BY <2>1 DEF NothingToReclaim
  <2>2. CASE t # <<>>
    <3>1. /\ t \in Seq(EntryType) /\ Len(t) = Len(tape) - 1 /\ Len(tape) \in Nat \ {0}
          /\ \A i \in 1..(Len(tape) - 1) : i + 1 \in 1..Len(tape) /\ t[i] = tape[i + 1]
      BY <1>2, <1>3, TailEffect
    <3> HIDE DEF t
    <3>2. Len(t) # 0 /\ Head(t) = t[1]
      BY <2>2, <3>1, TailEffect, DomainLen
    <3>3. 1 \in 1..(Len(tape) - 1) /\ 1 \in 1..Len(tape) /\ 1 + 1 \in 1..Len(tape)
      BY <3>1, <3>2
    <3>4. t[1] = tape[2]
      BY <3>1, <3>3
    <3>5. tape[2].state = "Writing" \/ tape[1].seq < tape[2].seq
      BY <1>2, <3>3 DEF Staged
    <3>6. tape[2].seq \in Nat
      BY <1>2, <3>3, EntryParts
    <3>7. Head(t).state = "Writing" \/ Head(t).seq > x
      BY <1>2, <1>3, <3>2, <3>4, <3>5, <3>6
    <3> QED
      BY <3>7 DEF NothingToReclaim
  <2> QED
    BY <2>1, <2>2
<1>6. tape' = t /\ FinishGoes("wait")
  BY <1>1, <1>5 DEF ReclaimHeads
<1>7. /\ Places' /\ pc'["finish"] = "wait"
      /\ pc'["encoder"] = pc["encoder"] /\ pc'["watcher"] = pc["watcher"]
  BY <1>6, FinishMoves DEF FlowInv
<1>8. /\ tape' \in Seq(EntryType) /\ TapeOrdered' /\ OpenLast'
      /\ WaitingOf(tape') = WaitingOf(tape)
      /\ \A i \in 1..Len(tape') : tape'[i].state # "Reclaiming"
      /\ Reserved(tape)' <=> Reserved(tape)
  BY <1>1, <1>3, <1>6, TailFlow DEF Reserved
<1>9. HeadReclaimed'
  BY <1>4, <1>7, <1>8 DEF HeadReclaimed
<1>10. Executed' = Executed /\ Counts(completedQueue', completedSeqId') /\ completedSeqId' \in Nat
  BY <1>1, <1>2 DEF Executed
<1>11. FlowInv'
  BY <1>1, <1>7, <1>8, <1>9, <1>10, FinishFlowRest
<1> QED
  BY <1>1, <1>5, <1>6, <1>10, <1>11

\* Every step of the finish thread.
LEMMA FinishFlow ==
  ASSUME FlowInv, FinishStep
  PROVE  FlowInv'
<1>1. CASE FinishWait
  <2>1. UNCHANGED <<doneVars, gpuVars, encodeVars, pc, writeIndex, writingSlot, nextSeqId, tape>>
    BY <1>1 DEF FinishWait, ringVars, tapeVars
  <2>2. WorkersStay
    BY <2>1, NobodyMoves DEF FlowInv
  <2> QED
    BY <2>1, <2>2, QuietFlow DEF Quiet, PipelineStays
<1> QED
  BY <1>1, FinishExitFlow, DrainFlow, FinishReclaimFlow DEF FinishStep

\* The stop changes nothing in the pipeline.
LEMMA StopFlow ==
  ASSUME FlowInv, StopThreads \/ UNCHANGED vars
  PROVE  FlowInv'
<1>1. UNCHANGED <<doneVars, gpuVars, encodeVars, pc, writeIndex, writingSlot, nextSeqId, tape>>
  BY DEF StopThreads, vars, ringVars, tapeVars
<1>2. WorkersStay
  BY <1>1, NobodyMoves DEF FlowInv
<1> QED
  BY <1>1, <1>2, QuietFlow DEF Quiet, PipelineStays

-----------------------------------------------------------------------------
(* What the workers' steps are to a caller. *)

WorkerStep ==
  \/ EncodeStep \/ CommitPrefix \/ RestorePrefix \/ SubmitSession
  \/ WatchStep \/ FinishStep \/ StopThreads

\* Nothing that a client has changes.
ClientsStay ==
  /\ UNCHANGED <<writingSlot, payload, nextSeqId, job, lastUsed, drawn, mapDrawn>>
  /\ \A c \in Clients : pc'[c] = pc[c]

\* Sequences execute, the next one completes, or neither.
Executes ==
  /\ UNCHANGED <<completedSeqId, stop>>
  /\ Executed' \in (Executed + 1)..lastCommittedSeqId
Completes ==
  /\ completedSeqId' = completedSeqId + 1 /\ completedSeqId < Executed
  /\ Executed' = Executed /\ stop' \in {stop, TRUE}
Settled == UNCHANGED completedSeqId /\ Executed' = Executed /\ stop' \in {stop, TRUE}

\* A worker that moves leaves the clients where they are.
LEMMA WorkerLeavesClients ==
  ASSUME Places, NEW w \in Workers, NEW l, pc' = [pc EXCEPT ![w] = l]
  PROVE  \A c \in Clients : pc'[c] = pc[c]
BY DEF Places, Clients, Workers

\* The encoder steps that execute nothing.
EncodeQuietly ==
  \/ EncodeWait \/ EncodeExit \/ EncodeRefuse \/ Dequeue
  \/ \E n \in 1..SlotCount : ReservePrefix(n)
  \/ EncodeSubmit \/ EncodeRetain \/ RetireBegin \/ RetireFinish
  \/ InlineBegin \/ EncodeThrow \/ CommitPrefix \/ RestorePrefix \/ SubmitSession

\* Such a step is invisible to a caller, but for a stop.
LEMMA EncodeQuietEffects ==
  ASSUME FlowInv, EncodeQuietly
  PROVE  ClientsStay /\ Settled
<1>1. (\E l : EncoderGoes(l)) \/ UNCHANGED pc
  BY DEF EncodeQuietly, EncodeWait, EncodeExit, EncodeRefuse, Dequeue, ReservePrefix,
     EncodeSubmit, EncodeRetain, RetireBegin, RetireFinish, InlineBegin, InlineFails,
     EncodeThrow, CommitPrefix, RestorePrefix, SubmitSession, SubmitRefused, NextSource,
     Represent
<1>2. \A c \in Clients : pc'[c] = pc[c]
  <2>1. CASE UNCHANGED pc
    BY <2>1
  <2>2. ASSUME NEW l, EncoderGoes(l) PROVE \A c \in Clients : pc'[c] = pc[c]
    BY <2>2, WorkerLeavesClients DEF EncoderGoes, Workers, FlowInv
  <2> QED
    BY <1>1, <2>1, <2>2
<1>3. /\ UNCHANGED <<writingSlot, payload, nextSeqId, job, lastUsed, drawn, mapDrawn>>
      /\ UNCHANGED <<completedSeqId, completedQueue>>
  BY DEF EncodeQuietly, EncodeWait, EncodeExit, EncodeRefuse, Dequeue, ReservePrefix,
     EncodeSubmit, EncodeRetain, RetireBegin, RetireFinish, InlineBegin, EncodeThrow,
     CommitPrefix, RestorePrefix, SubmitSession, SubmitRefused, Represent, Submit,
     ringVars, doneVars, useVars
<1>4. stop' \in {stop, TRUE}
  BY DEF EncodeQuietly, EncodeWait, EncodeExit, EncodeRefuse, Dequeue, ReservePrefix,
     EncodeSubmit, EncodeRetain, RetireBegin, RetireFinish, InlineBegin, EncodeThrow,
     CommitPrefix, RestorePrefix, SubmitSession, SubmitRefused, Represent, Submit,
     HandOver, InlineFails, Poison, Wake
<1> QED
  BY <1>2, <1>3, <1>4 DEF ClientsStay, Settled, Executed

\* An inline completion executes its sequence.
LEMMA InlineFinishEffects ==
  ASSUME FlowInv, InlineFinish
  PROVE  ClientsStay /\ Executes
<1>1. Executed' = Executed + 1 /\ Executed' <= lastCommittedSeqId
  <2>1. FlowInv' /\ Executed' = Executed + 1 /\ Executed' <= lastCommittedSeqId
    BY InlineFinishFlow
  <2> QED
    BY <2>1
<1>2. Executed' \in (Executed + 1)..lastCommittedSeqId
  BY <1>1, TapeNumbers DEF FlowInv
<1>3. /\ UNCHANGED <<writingSlot, payload, nextSeqId, job, lastUsed, drawn, mapDrawn>>
      /\ UNCHANGED <<completedSeqId, stop>> /\ \E l : EncoderGoes(l)
  BY DEF InlineFinish, NextSource, ringVars, useVars, Wake
<1>4. \A c \in Clients : pc'[c] = pc[c]
  BY <1>3, WorkerLeavesClients DEF EncoderGoes, Workers, FlowInv
<1> QED
  BY <1>2, <1>3, <1>4 DEF ClientsStay, Executes

\* The watcher executes, stops, or does neither.
LEMMA WatchEffects ==
  ASSUME FlowInv, WatchStep
  PROVE  ClientsStay /\ (Settled \/ Executes)
<1>1. UNCHANGED pc \/ \E l : pc' = [pc EXCEPT !["watcher"] = l]
  BY DEF WatchStep, WatchWait, WatchPop, WatchExit, Settle
<1>2. \A c \in Clients : pc'[c] = pc[c]
  BY <1>1, WorkerLeavesClients DEF Workers, FlowInv
<1>3. UNCHANGED <<writingSlot, payload, nextSeqId, job, lastUsed, drawn, mapDrawn>>
  BY DEF WatchStep, WatchWait, WatchPop, WatchExit, Settle, ringVars, useVars
<1>4. stop' \in {stop, TRUE}
  BY DEF WatchStep, WatchWait, WatchPop, WatchExit, Settle, Wake, Poison
<1>5. CASE Settle
  <2>1. /\ completedSeqId' = completedSeqId
        /\ Executed' = Executed \/ (Executed' \in (Executed + 1)..lastCommittedSeqId
                                     /\ UNCHANGED stop)
    BY <1>5, SettleFlow
  <2> QED
    BY <1>2, <1>3, <1>4, <2>1 DEF ClientsStay, Settled, Executes
<1>6. CASE WatchWait \/ WatchPop \/ WatchExit
  BY <1>2, <1>3, <1>4, <1>6
     DEF WatchWait, WatchPop, WatchExit, doneVars, ClientsStay, Settled, Executed
<1> QED
  BY <1>5, <1>6 DEF WatchStep

\* The finish thread completes the next sequence, or is invisible.
LEMMA FinishEffects ==
  ASSUME FlowInv, FinishStep
  PROVE  ClientsStay /\ (Settled \/ Completes)
<1>1. UNCHANGED pc \/ \E l : FinishGoes(l)
  BY DEF FinishStep, FinishWait, FinishExit, Drain, FinishReclaim, ReclaimHeads
<1>2. \A c \in Clients : pc'[c] = pc[c]
  BY <1>1, WorkerLeavesClients DEF Workers, FlowInv, FinishGoes
<1>3. UNCHANGED <<writingSlot, payload, nextSeqId, job, lastUsed, drawn, mapDrawn>>
  BY DEF FinishStep, FinishWait, FinishExit, Drain, FinishReclaim, ringVars, useVars
<1>4. stop' \in {stop, TRUE}
  BY DEF FinishStep, FinishWait, FinishExit, Drain, FinishReclaim, ReclaimHeads, Wake, Poison
<1>5. CASE Drain
  <2>1. /\ completedSeqId' = completedSeqId + 1 /\ completedSeqId < Executed
        /\ Executed' = Executed
    BY <1>5, DrainFlow
  <2> QED
    BY <1>2, <1>3, <1>4, <2>1 DEF ClientsStay, Completes
<1>6. CASE FinishReclaim
  <2>1. UNCHANGED completedSeqId /\ Executed' = Executed
    BY <1>6, FinishReclaimFlow
  <2> QED
    BY <1>2, <1>3, <1>4, <2>1 DEF ClientsStay, Settled
<1>7. CASE FinishWait \/ FinishExit
  BY <1>2, <1>3, <1>4, <1>7 DEF FinishWait, FinishExit, doneVars, ClientsStay, Settled, Executed
<1> QED
  BY <1>5, <1>6, <1>7 DEF FinishStep

\* Every step of a worker keeps the pipeline's order and is one of the three.
LEMMA WorkerEffects ==
  ASSUME FlowInv, WorkerStep
  PROVE  FlowInv' /\ ClientsStay /\ (Settled \/ Executes \/ Completes)
<1>1. CASE EncodeStep \/ CommitPrefix \/ RestorePrefix \/ SubmitSession
  <2>1. FlowInv'
    BY <1>1, EncodeFlow
  <2>2. InlineFinish \/ EncodeQuietly
    BY <1>1 DEF EncodeStep, EncodeQuietly
  <2> QED
    BY <2>1, <2>2, EncodeQuietEffects, InlineFinishEffects
<1>2. CASE WatchStep
  BY <1>2, WatchFlow, WatchEffects
<1>3. CASE FinishStep
  BY <1>3, FinishFlow, FinishEffects
<1>4. CASE StopThreads
  BY <1>4, StopFlow
     DEF StopThreads, ClientsStay, Settled, Executed, ringVars, useVars, doneVars
<1> QED
  BY <1>1, <1>2, <1>3, <1>4 DEF WorkerStep

-----------------------------------------------------------------------------
(* The calls of the clients. *)

\* The sequence a client waits for, 0 for none.
WaitsFor(c) == IF pc[c] = "seqWait" THEN job[c].target ELSE 0

CallTypes ==
  /\ job \in [Clients -> JobType]
  /\ lastUsed \in Nat /\ drawn \in Nat /\ mapDrawn \in Nat

\* Only an open chunk holds commands, and who waits for one has none.
ChunkOpen ==
  /\ payload => writingSlot # NoSlot
  /\ pc["writer"] = "ensureWait" => writingSlot = NoSlot

\* A stamp is never ahead of the open chunk, and a buffer that the open chunk
\* really draws makes it one that a commit publishes.
Stamped ==
  /\ drawn <= lastUsed /\ lastUsed <= nextSeqId
  /\ drawn = nextSeqId => payload

\* A client asleep for an inflight credit remembers the open chunk or one that
\* is committed by now; one that waits for a sequence waits for a committed one.
CallOf(c) ==
  /\ pc[c] = "commitWait" =>
       /\ job[c].slot # NoSlot /\ job[c].seq <= nextSeqId
       /\ job[c].seq = nextSeqId => writingSlot = job[c].slot /\ payload
  /\ IF pc[c] = "seqWait" THEN job[c].target \in 1..lastCommittedSeqId
                          ELSE job[c].target = 0

\* The mapper's call does not wait for less than the draws it must see.
MapSees ==
  /\ pc["mapper"] = "mapped" => stop \/ completedSeqId >= mapDrawn
  /\ pc["mapper"] = "seqWait" => stop \/ job["mapper"].target >= mapDrawn
  /\ pc["mapper"] = "commitWait" =>
       mapDrawn <= job["mapper"].want /\ mapDrawn <= job["mapper"].seq

CallInv ==
  /\ CallTypes /\ ChunkOpen /\ Stamped
  /\ \A c \in Clients : CallOf(c)
  /\ MapSees

\* What a step of a client is to the others.
Others(c) == \A d \in Clients : d # c => pc'[d] = pc[d] /\ job'[d] = job[d]

\* c has its answer once committed is the last sequence: it waits for a target
\* that covers everything it wants of the committed ones, or the target has
\* completed, or the queue has stopped.
Answered(c, want, committed) ==
  \E target \in 0..committed :
    /\ \A x \in Nat : x <= want /\ x <= committed => x <= target
    /\ \/ /\ pc'[c] = "seqWait" /\ job'[c].target = target
          /\ target > completedSeqId /\ ~ stop
       \/ /\ pc'[c] = Returned(c) /\ job'[c].target = 0
          /\ stop' \/ target <= completedSeqId

\* The open chunk stays, is published or aborted.
ChunkStays == UNCHANGED <<writingSlot, payload, nextSeqId>>
ChunkLeaves ==
  /\ writingSlot' = NoSlot /\ ~ payload'
  /\ \/ nextSeqId' = nextSeqId + 1
     \/ ~ payload /\ nextSeqId' = nextSeqId

Numbers ==
  /\ nextSeqId \in Nat /\ nextSeqId > 0 /\ nextSeqId' \in Nat /\ nextSeqId' > 0
  /\ completedSeqId \in Nat /\ completedSeqId' \in Nat

\* The call of a client that does not move.
LEMMA CallStays ==
  ASSUME Numbers, CallInv, ChunkStays \/ ChunkLeaves,
         NEW d \in Clients, pc'[d] = pc[d], job'[d] = job[d]
  PROVE  CallOf(d)'
<1>1. CallOf(d) /\ job[d] \in JobType
  BY DEF CallInv, CallTypes
<1>2. CASE ChunkStays
  BY <1>1, <1>2 DEF CallOf, ChunkStays, lastCommittedSeqId
<1>3. CASE ChunkLeaves
  BY <1>1, <1>3 DEF CallOf, ChunkLeaves, lastCommittedSeqId, Numbers, JobType
<1> QED
  BY <1>2, <1>3

\* The chunk and the stamps.
LEMMA ChunkMoves ==
  ASSUME Numbers, CallInv, ChunkStays \/ ChunkLeaves, UNCHANGED <<lastUsed, drawn>>,
         pc'["writer"] = "ensureWait" => pc["writer"] = "ensureWait"
  PROVE  ChunkOpen' /\ Stamped' /\ lastUsed' \in Nat /\ drawn' \in Nat
BY DEF CallInv, CallTypes, ChunkOpen, Stamped, ChunkStays, ChunkLeaves, Numbers

\* A mapper that does not move.
LEMMA MapperStays ==
  ASSUME Numbers, CallInv, pc'["mapper"] = pc["mapper"], job'["mapper"] = job["mapper"],
         UNCHANGED mapDrawn, stop => stop', completedSeqId <= completedSeqId'
  PROVE  MapSees' /\ mapDrawn' \in Nat
<1>1. mapDrawn \in Nat /\ job["mapper"] \in JobType
  BY DEF CallInv, CallTypes, Clients
<1> QED
  BY <1>1 DEF CallInv, MapSees, Numbers, JobType

\* The workers leave the calls as they must be.
LEMMA WorkerCalls ==
  ASSUME FlowInv, FlowInv', CallInv, ClientsStay, Settled \/ Executes \/ Completes
  PROVE  CallInv'
<1>1. Numbers
  <2>1. /\ nextSeqId \in Nat \ {0} /\ nextSeqId' \in Nat \ {0}
        /\ completedSeqId \in Nat /\ completedSeqId' \in Nat
    BY DEF FlowInv, FlowTypes
  <2> QED
    BY <2>1 DEF Numbers
<1>2. ChunkStays /\ UNCHANGED <<job, lastUsed, drawn, mapDrawn>>
  BY DEF ClientsStay, ChunkStays
<1>3. \A d \in Clients : pc'[d] = pc[d] /\ job'[d] = job[d]
  BY <1>2 DEF ClientsStay
<1>4. (stop => stop') /\ completedSeqId <= completedSeqId'
  <2>1. stop => stop'
    BY Zenon DEF Settled, Executes, Completes
  <2>2. completedSeqId' = completedSeqId \/ completedSeqId' = completedSeqId + 1
    BY DEF Settled, Executes, Completes
  <2> QED
    BY <1>1, <2>1, <2>2 DEF Numbers
<1>5. pc'["writer"] = pc["writer"] /\ pc'["mapper"] = pc["mapper"]
  BY <1>3 DEF Clients
<1>6. \A c \in Clients : CallOf(c)'
  BY <1>1, <1>2, <1>3, CallStays
<1>7. ChunkOpen' /\ Stamped'
  BY <1>1, <1>2, <1>5, ChunkMoves
<1>8. MapSees'
  BY <1>1, <1>2, <1>4, <1>5, MapperStays
<1>9. CallTypes'
  BY <1>2 DEF CallInv, CallTypes
<1> QED
  BY <1>6, <1>7, <1>8, <1>9 DEF CallInv

-----------------------------------------------------------------------------
(* The end of a client's commit. *)

\* The clamped target is a committed sequence, and covers all that is wanted of them.
LEMMA TargetEffect ==
  ASSUME NEW want \in Nat, NEW committed \in Nat
  PROVE  /\ WaitTarget(want, committed) \in 0..committed
         /\ \A x \in Nat : x <= want /\ x <= committed => x <= WaitTarget(want, committed)
<1>1. Min({want, committed}) = IF want <= committed THEN want ELSE committed
  BY TwoNumbers
<1> QED
  BY <1>1 DEF WaitTarget, committedSequenceWaitTarget

\* AfterCommit answers its caller and nobody else.
LEMMA AfterCommitEffect ==
  ASSUME Places, CallTypes, NEW c \in Clients, NEW want \in Nat, NEW committed \in Nat,
         completedSeqId \in Nat, NEW woken, AfterCommit(c, want, committed, woken)
  PROVE  /\ Answered(c, want, committed) /\ Others(c)
         /\ job' \in [Clients -> JobType] /\ UNCHANGED stop
<1> DEFINE target == WaitTarget(want, committed)
           waits  == target > completedSeqId /\ ~ stop
           answer == IF waits THEN [NoJob EXCEPT !.target = target] ELSE NoJob
           place  == IF waits THEN "seqWait" ELSE Returned(c)
<1>1. /\ pc' = [pc EXCEPT ![c] = place] /\ job' = [job EXCEPT ![c] = answer]
      /\ UNCHANGED stop
  BY DEF AfterCommit, Wake
<1>2. target \in 0..committed /\ \A x \in Nat : x <= want /\ x <= committed => x <= target
  BY TargetEffect
<1> HIDE DEF target
<1>3. /\ answer \in JobType /\ answer.target = IF waits THEN target ELSE 0
  BY <1>2, Sizes DEF NoJob, JobType, NoSlot
<1>4. (waits /\ target > completedSeqId /\ ~ stop)
      \/ (~ waits /\ (stop \/ target <= completedSeqId))
  BY <1>2
<1> HIDE DEF answer, waits
<1>5. pc'[c] = place /\ job'[c] = answer /\ Others(c)
  BY <1>1 DEF Others, Places, CallTypes, Clients
<1>6. job' \in [Clients -> JobType]
  BY <1>1, <1>3 DEF CallTypes
<1>7. Answered(c, want, committed)
  BY <1>1, <1>2, <1>3, <1>4, <1>5 DEF Answered
<1> QED
  BY <1>1, <1>5, <1>6, <1>7

\* A positive number has a predecessor.
LEMMA Predecessor ==
  ASSUME NEW n \in Nat, n > 0
  PROVE  n - 1 \in Nat
OBVIOUS

\* lastCommittedSeqId before and after a step.
LEMMA LastCommitted ==
  ASSUME Numbers
  PROVE  /\ lastCommittedSeqId' = nextSeqId' - 1 /\ lastCommittedSeqId' \in Nat
         /\ lastCommittedSeqId = nextSeqId - 1 /\ lastCommittedSeqId \in Nat
<1>1. /\ nextSeqId \in Nat /\ nextSeqId > 0 /\ nextSeqId' \in Nat /\ nextSeqId' > 0
  BY DEF Numbers
<1>2. nextSeqId - 1 \in Nat /\ nextSeqId' - 1 \in Nat
  BY <1>1, Predecessor
<1>3. lastCommittedSeqId = nextSeqId - 1 
  BY DEF lastCommittedSeqId
<1>4. lastCommittedSeqId' = nextSeqId' - 1 
  BY DEF lastCommittedSeqId
<1> QED
  BY <1>2, <1>3, <1>4

\* What an answered client waits for.
LEMMA AnswerInRange ==
  ASSUME NEW committed \in Nat, NEW target \in 0..committed, completedSeqId \in Nat,
         target > completedSeqId
  PROVE  target \in 1..committed
OBVIOUS

\* A client whose commit is over leaves the calls as they must be.
LEMMA AnsweredCalls ==
  ASSUME Numbers, CallInv, NEW c \in Clients, NEW want \in Nat,
         Answered(c, want, lastCommittedSeqId'), Others(c),
         job' \in [Clients -> JobType], stop => stop',
         UNCHANGED <<completedSeqId, lastUsed, drawn>>,
         ChunkStays \/ ChunkLeaves, mapDrawn' \in Nat,
         IF c = "mapper"
         THEN mapDrawn' <= want /\ (stop \/ mapDrawn' <= lastCommittedSeqId')
         ELSE UNCHANGED mapDrawn
  PROVE  CallInv'
<1> DEFINE committed == lastCommittedSeqId'
<1>0. committed = nextSeqId' - 1 /\ committed \in Nat
  BY LastCommitted
<1> HIDE DEF committed
<1>1. PICK target \in 0..committed :
        /\ \A x \in Nat : x <= want /\ x <= committed => x <= target
        /\ \/ /\ pc'[c] = "seqWait" /\ job'[c].target = target
              /\ target > completedSeqId /\ ~ stop
           \/ /\ pc'[c] = Returned(c) /\ job'[c].target = 0
              /\ stop' \/ target <= completedSeqId
  BY DEF Answered, committed
<1>2. CallOf(c)'
  <2>1. pc'[c] # "commitWait"
    BY <1>1 DEF Returned
  <2>2. IF pc'[c] = "seqWait" THEN job'[c].target \in 1..committed ELSE job'[c].target = 0
    <3>1. completedSeqId \in Nat
      BY DEF Numbers
    <3>2. target > completedSeqId => target \in 1..committed
      BY <1>0, <3>1, AnswerInRange
    <3>3. pc'[c] = Returned(c) => pc'[c] # "seqWait"
      BY DEF Returned
    <3> QED
      BY <1>1, <3>2, <3>3, Zenon
  <2> QED
    BY <2>1, <2>2 DEF CallOf, committed
<1>3. \A d \in Clients : CallOf(d)'
  <2> TAKE d \in Clients
  <2>1. CASE d = c
    BY <1>2, <2>1
  <2>2. CASE d # c
    BY <2>2, CallStays DEF Others
  <2> QED
    BY <2>1, <2>2
<1>4. ChunkOpen' /\ Stamped' /\ lastUsed' \in Nat /\ drawn' \in Nat
  <2>1. pc'["writer"] = "ensureWait" => pc["writer"] = "ensureWait"
    BY <1>1 DEF Others, Returned, Clients
  <2> QED
    BY <2>1, ChunkMoves
<1>5. MapSees'
  <2>1. CASE c = "mapper"
    <3>1. stop \/ mapDrawn' <= target
      BY <1>1, <2>1 DEF committed
    <3>2. \/ pc'["mapper"] = "seqWait" /\ job'["mapper"].target = target
          \/ pc'["mapper"] = "mapped" /\ (stop' \/ target <= completedSeqId)
      BY <1>1, <2>1 DEF Returned
    <3>3. target \in Nat /\ completedSeqId \in Nat /\ mapDrawn' \in Nat
      BY <1>0 DEF Numbers
    <3> QED
      BY <3>1, <3>2, <3>3 DEF MapSees
  <2>2. CASE c # "mapper"
    <3>1. pc'["mapper"] = pc["mapper"] /\ job'["mapper"] = job["mapper"]
      BY <2>2 DEF Others, Clients
    <3>2. completedSeqId <= completedSeqId'
      BY DEF Numbers
    <3> QED
      BY <2>2, <3>1, <3>2, MapperStays
  <2> QED
    BY <2>1, <2>2
<1>6. CallTypes'
  BY <1>4 DEF CallTypes
<1> QED
  BY <1>3, <1>4, <1>5, <1>6 DEF CallInv

-----------------------------------------------------------------------------
(* What the clients' steps do to their calls, and what they promise. *)

WaitSet(c, target) ==
  \A d \in Clients : WaitsFor(d)' = IF d = c THEN target ELSE WaitsFor(d)

\* No caller notices; one starts to wait; one commits and may wait; one commits
\* and the queue stops; one returns.
Idle == UNCHANGED <<nextSeqId, stop>> /\ \A d \in Clients : WaitsFor(d)' = WaitsFor(d)
Starts(c, target) ==
  /\ ~ stop /\ WaitsFor(c) = 0
  /\ target \in (completedSeqId + 1)..lastCommittedSeqId
  /\ WaitSet(c, target) /\ UNCHANGED <<nextSeqId, stop>>
Commits(c, target) ==
  /\ ~ stop /\ WaitsFor(c) = 0
  /\ target = 0 \/ target \in (completedSeqId + 1)..(lastCommittedSeqId + 1)
  /\ nextSeqId' = nextSeqId + 1
  /\ WaitSet(c, target) /\ UNCHANGED stop
CommitStops ==
  /\ ~ stop /\ stop' = TRUE /\ nextSeqId' = nextSeqId + 1
  /\ \A d \in Clients : WaitsFor(d)' = WaitsFor(d)
Returns(c) ==
  /\ WaitsFor(c) # 0 /\ (stop \/ completedSeqId >= WaitsFor(c))
  /\ WaitSet(c, 0) /\ UNCHANGED <<nextSeqId, stop>>

ClientPromise ==
  \/ Idle \/ CommitStops
  \/ \E c \in Clients :
       \/ \E target \in Nat : Starts(c, target) \/ Commits(c, target)
       \/ Returns(c)

\* Who does not move waits for what it waited for.
LEMMA OthersWait ==
  ASSUME NEW c \in Clients, Others(c), NEW target, WaitsFor(c)' = target
  PROVE  WaitSet(c, target)
<1>1. ASSUME NEW d \in Clients
      PROVE  WaitsFor(d)' = IF d = c THEN target ELSE WaitsFor(d)
  <2>1. CASE d = c
    BY <2>1
  <2>2. CASE d # c
    BY <2>2 DEF Others, WaitsFor
  <2> QED
    BY <2>1, <2>2
<1> QED
  BY <1>1 DEF WaitSet

\* A number in a range.
LEMMA InRange ==
  ASSUME NEW n \in Nat, NEW x \in 0..n
  PROVE  x \in Nat /\ x <= n
OBVIOUS

\* Who does not start or end a wait is not noticed.
LEMMA NobodyNotices ==
  ASSUME NEW c \in Clients, Others(c), WaitsFor(c)' = WaitsFor(c)
  PROVE  \A d \in Clients : WaitsFor(d)' = WaitsFor(d)
<1>1. WaitSet(c, WaitsFor(c))
  BY OthersWait
<1> QED
  BY <1>1 DEF WaitSet

\* An answered client has committed, has begun to wait, or was not noticed.
LEMMA AnsweredPromise ==
  ASSUME Numbers, NEW c \in Clients, NEW want \in Nat,
         Answered(c, want, lastCommittedSeqId'), Others(c), pc[c] # "seqWait",
         UNCHANGED stop,
         nextSeqId' = nextSeqId \/ (~ stop /\ nextSeqId' = nextSeqId + 1)
  PROVE  ClientPromise
<1>1. PICK target \in 0..lastCommittedSeqId' :
        \/ pc'[c] = "seqWait" /\ job'[c].target = target /\ target > completedSeqId /\ ~ stop
        \/ pc'[c] = Returned(c)
  BY DEF Answered
<1>2. WaitsFor(c) = 0
  BY DEF WaitsFor
<1>3. /\ lastCommittedSeqId' \in Nat /\ lastCommittedSeqId \in Nat /\ completedSeqId \in Nat
      /\ lastCommittedSeqId = nextSeqId - 1 /\ lastCommittedSeqId' = nextSeqId' - 1
      /\ nextSeqId \in Nat /\ nextSeqId' \in Nat
  BY LastCommitted DEF Numbers
<1>4. ASSUME pc'[c] = "seqWait", job'[c].target = target, target > completedSeqId, ~ stop
      PROVE  ClientPromise
  <2>1. WaitSet(c, target)
    <3>1. WaitsFor(c)' = target
      BY <1>4 DEF WaitsFor
    <3> QED
      BY <3>1, OthersWait
  <2>2. target \in Nat /\ target <= lastCommittedSeqId'
    BY <1>3, InRange
  <2>3. CASE nextSeqId' = nextSeqId
    <3>1. target \in (completedSeqId + 1)..lastCommittedSeqId
      BY <1>3, <1>4, <2>2, <2>3
    <3>2. Starts(c, target)
      BY <1>2, <1>4, <2>1, <2>3, <3>1 DEF Starts
    <3> QED
      BY <2>2, <3>2 DEF ClientPromise
  <2>4. CASE nextSeqId' = nextSeqId + 1
    <3>1. target \in (completedSeqId + 1)..(lastCommittedSeqId + 1)
      BY <1>3, <1>4, <2>2, <2>4
    <3>2. Commits(c, target)
      BY <1>2, <1>4, <2>1, <2>4, <3>1 DEF Commits
    <3> QED
      BY <2>2, <3>2 DEF ClientPromise
  <2> QED
    BY <2>3, <2>4
<1>5. ASSUME pc'[c] = Returned(c) PROVE ClientPromise
  <2>1. WaitsFor(c)' = 0
    BY <1>5 DEF WaitsFor, Returned
  <2>2. CASE nextSeqId' = nextSeqId
    <3>1. Idle
      BY <1>2, <2>1, <2>2, NobodyNotices DEF Idle
    <3> QED
      BY <3>1 DEF ClientPromise
  <2>3. CASE ~ stop /\ nextSeqId' = nextSeqId + 1
    <3>1. WaitSet(c, 0)
      BY <2>1, OthersWait
    <3>2. Commits(c, 0)
      BY <1>2, <2>3, <3>1 DEF Commits
    <3> QED
      BY <3>2 DEF ClientPromise
  <2> QED
    BY <2>2, <2>3
<1> QED
  BY <1>1, <1>4, <1>5

\* A client publishes the open chunk.
LEMMA PublishCalls ==
  ASSUME Places, Numbers, CallInv, NEW c \in Clients, NEW want \in Nat,
         CommitPublish(c, want) \/ CommitUnbound(c), ~ stop, pc[c] # "seqWait",
         UNCHANGED <<completedSeqId, lastUsed, drawn>>, mapDrawn' \in Nat,
         IF c = "mapper" THEN mapDrawn' <= want /\ mapDrawn' <= nextSeqId
         ELSE UNCHANGED mapDrawn
  PROVE  CallInv' /\ ClientPromise
<1>1. ChunkLeaves /\ nextSeqId' = nextSeqId + 1
  BY DEF CommitPublish, CommitUnbound, Publish, ChunkLeaves
<1>2. lastCommittedSeqId' = nextSeqId /\ nextSeqId \in Nat
  BY <1>1, LastCommitted DEF Numbers
<1>3. IF c = "mapper"
      THEN mapDrawn' <= want /\ (stop \/ mapDrawn' <= lastCommittedSeqId')
      ELSE UNCHANGED mapDrawn
  BY <1>2
<1>4. completedSeqId \in Nat
  BY DEF Numbers
<1>5. CASE CommitPublish(c, want)
  <2>1. AfterCommit(c, want, nextSeqId, EncodeWaiters)
    BY <1>5 DEF CommitPublish
  <2>2. /\ Answered(c, want, nextSeqId) /\ Others(c)
        /\ job' \in [Clients -> JobType] /\ UNCHANGED stop
    BY <1>2, <1>4, <2>1, AfterCommitEffect DEF CallInv
  <2>3. stop => stop'
    BY <2>2
  <2>4. CallInv'
    BY <1>1, <1>2, <1>3, <2>2, <2>3, AnsweredCalls
  <2>5. ClientPromise
    BY <1>1, <1>2, <2>2, AnsweredPromise
  <2> QED
    BY <2>4, <2>5
<1>6. CASE CommitUnbound(c)
  <2>1. /\ pc' = [pc EXCEPT ![c] = Returned(c)] /\ job' = [job EXCEPT ![c] = NoJob]
        /\ stop' = TRUE
    BY <1>6 DEF CommitUnbound, Poison
  <2>2. NoJob \in JobType /\ NoJob.target = 0
    BY Sizes DEF NoJob, JobType, NoSlot
  <2>3. /\ pc'[c] = Returned(c) /\ job'[c].target = 0 /\ Others(c)
        /\ job' \in [Clients -> JobType]
    BY <2>1, <2>2 DEF Others, Places, CallInv, CallTypes, Clients
  <2>4. Answered(c, want, nextSeqId)
    <3>1. nextSeqId \in 0..nextSeqId /\ \A x \in Nat : x <= want /\ x <= nextSeqId => x <= nextSeqId
      BY <1>2
    <3> QED
      BY <2>1, <2>3, <3>1 DEF Answered
  <2>5. CallInv'
    BY <1>1, <1>2, <1>3, <2>1, <2>3, <2>4, AnsweredCalls
  <2>6. WaitsFor(c)' = WaitsFor(c)
    BY <2>3 DEF WaitsFor, Returned
  <2>7. CommitStops
    BY <1>1, <2>1, <2>3, <2>6, NobodyNotices DEF CommitStops
  <2> QED
    BY <2>5, <2>7 DEF ClientPromise
<1> QED
  BY <1>5, <1>6

-----------------------------------------------------------------------------
(* Every step of a client. *)

\* A commit that publishes nothing.
LEMMA AnsweredStep ==
  ASSUME Places, Numbers, CallInv, NEW c \in Clients, NEW want \in Nat, NEW woken,
         AfterCommit(c, want, lastCommittedSeqId, woken), pc[c] # "seqWait",
         ChunkStays \/ ChunkLeaves, UNCHANGED nextSeqId,
         UNCHANGED <<completedSeqId, lastUsed, drawn>>, mapDrawn' \in Nat,
         IF c = "mapper"
         THEN mapDrawn' <= want /\ (stop \/ mapDrawn' <= lastCommittedSeqId)
         ELSE UNCHANGED mapDrawn
  PROVE  CallInv' /\ ClientPromise
<1>1. lastCommittedSeqId' = lastCommittedSeqId /\ lastCommittedSeqId \in Nat
  BY LastCommitted
<1>2. completedSeqId \in Nat
  BY DEF Numbers
<1>3. /\ Answered(c, want, lastCommittedSeqId) /\ Others(c)
      /\ job' \in [Clients -> JobType] /\ UNCHANGED stop
  BY <1>1, <1>2, AfterCommitEffect DEF CallInv
<1>4. stop => stop'
  BY <1>3
<1>5. IF c = "mapper"
      THEN mapDrawn' <= want /\ (stop \/ mapDrawn' <= lastCommittedSeqId')
      ELSE UNCHANGED mapDrawn
  BY <1>1
<1>6. CallInv'
  BY <1>1, <1>3, <1>4, <1>5, AnsweredCalls
<1>7. ClientPromise
  BY <1>1, <1>3, AnsweredPromise
<1> QED
  BY <1>6, <1>7

\* A client falls asleep for an inflight credit.
LEMMA SleepCalls ==
  ASSUME Places, FlowTypes, Numbers, CallInv, NEW c \in Clients, NEW want \in Nat,
         CommitSleep(c, want), writingSlot # NoSlot, pc[c] # "seqWait",
         UNCHANGED <<completedSeqId, lastUsed, drawn>>, mapDrawn' \in Nat,
         IF c = "mapper" THEN mapDrawn' <= want /\ mapDrawn' <= nextSeqId
         ELSE UNCHANGED mapDrawn
  PROVE  CallInv' /\ ClientPromise
<1> DEFINE asleep == [slot |-> writingSlot, seq |-> nextSeqId, want |-> want, target |-> 0]
<1>1. /\ pc' = [pc EXCEPT ![c] = "commitWait"] /\ job' = [job EXCEPT ![c] = asleep]
      /\ payload /\ ChunkStays /\ UNCHANGED stop
  BY DEF CommitSleep, Wake, ringVars, ChunkStays
<1>2. asleep \in JobType
  <2>1. writingSlot \in 0..SlotCount
    BY Sizes DEF FlowTypes, SlotIds, NoSlot
  <2> QED
    BY <2>1 DEF JobType, Numbers
<1>3. /\ asleep.slot = writingSlot /\ asleep.seq = nextSeqId /\ asleep.want = want
      /\ asleep.target = 0
  OBVIOUS
<1> HIDE DEF asleep
<1>4. pc'[c] = "commitWait" /\ job'[c] = asleep /\ Others(c) /\ job' \in [Clients -> JobType]
  BY <1>1, <1>2 DEF Others, Places, CallInv, CallTypes, Clients
<1>5. UNCHANGED <<nextSeqId, writingSlot, payload, stop>> /\ nextSeqId \in Nat
  BY <1>1 DEF ChunkStays, Numbers
<1>6. \A d \in Clients : CallOf(d)'
  <2> TAKE d \in Clients
  <2>1. CASE d = c
    <3>1. CallOf(c)'
      BY <1>1, <1>3, <1>4, <1>5 DEF CallOf
    <3> QED
      BY <2>1, <3>1
  <2>2. CASE d # c
    BY <1>1, <1>4, <2>2, CallStays DEF Others
  <2> QED
    BY <2>1, <2>2
<1>7. ChunkOpen' /\ Stamped' /\ lastUsed' \in Nat /\ drawn' \in Nat
  <2>1. pc'["writer"] = "ensureWait" => pc["writer"] = "ensureWait"
    BY <1>4 DEF Others, Clients
  <2> QED
    BY <1>1, <2>1, ChunkMoves
<1>8. MapSees'
  <2>1. CASE c = "mapper"
    BY <1>3, <1>4, <2>1 DEF MapSees
  <2>2. CASE c # "mapper"
    <3>1. pc'["mapper"] = pc["mapper"] /\ job'["mapper"] = job["mapper"]
      BY <1>4, <2>2 DEF Others, Clients
    <3>2. (stop => stop') /\ completedSeqId <= completedSeqId'
      BY <1>5 DEF Numbers
    <3> QED
      BY <2>2, <3>1, <3>2, MapperStays
  <2> QED
    BY <2>1, <2>2
<1>9. CallInv'
  BY <1>4, <1>6, <1>7, <1>8 DEF CallInv, CallTypes
<1>10. Idle
  <2>1. WaitsFor(c)' = WaitsFor(c)
    BY <1>4 DEF WaitsFor
  <2> QED
    BY <1>4, <1>5, <2>1, NobodyNotices DEF Idle
<1> QED
  BY <1>9, <1>10 DEF ClientPromise

\* commitCurrentChunk, whatever it finds.
LEMMA CommitCalls ==
  ASSUME Places, FlowTypes, Numbers, CallInv, NEW c \in Clients, NEW want \in Nat,
         pc[c] = "run", CommitCurrentChunk(c, want),
         UNCHANGED <<completedSeqId, lastUsed, drawn>>, mapDrawn' \in Nat,
         IF c = "mapper"
         THEN mapDrawn' <= want /\ mapDrawn' <= nextSeqId /\ (mapDrawn' = nextSeqId => payload)
         ELSE UNCHANGED mapDrawn
  PROVE  CallInv' /\ ClientPromise
<1>1. nextSeqId \in Nat /\ lastCommittedSeqId = nextSeqId - 1 /\ pc[c] # "seqWait"
  BY LastCommitted DEF Numbers
<1>2. ASSUME ~ payload \/ stop
      PROVE  IF c = "mapper"
             THEN mapDrawn' <= want /\ (stop \/ mapDrawn' <= lastCommittedSeqId)
             ELSE UNCHANGED mapDrawn
  <2>1. CASE c = "mapper"
    <3>1. mapDrawn' < nextSeqId => mapDrawn' <= lastCommittedSeqId
      BY <1>1
    <3>2. stop \/ mapDrawn' < nextSeqId
      BY <1>1, <1>2, <2>1
    <3> QED
      BY <2>1, <3>1, <3>2
  <2>2. CASE c # "mapper"
    BY <2>2
  <2> QED
    BY <2>1, <2>2
<1>3. ASSUME AfterCommit(c, want, lastCommittedSeqId, {}), UNCHANGED ringVars,
             ~ payload \/ stop
      PROVE  CallInv' /\ ClientPromise
  <2>1. ChunkStays /\ UNCHANGED nextSeqId
    BY <1>3 DEF ringVars, ChunkStays
  <2> QED
    BY <1>1, <1>2, <1>3, <2>1, AnsweredStep
<1>4. CASE writingSlot # NoSlot /\ CommitEmpty(c, want)
  <2>1. /\ ChunkLeaves /\ UNCHANGED nextSeqId /\ ~ payload
        /\ AfterCommit(c, want, lastCommittedSeqId, EncodeWaiters)
    BY <1>4 DEF CommitEmpty, ChunkLeaves
  <2> QED
    BY <1>1, <1>2, <2>1, AnsweredStep
<1>5. CASE writingSlot # NoSlot /\ CommitSleep(c, want)
  BY <1>1, <1>5, SleepCalls
<1>6. CASE ~ stop /\ (CommitPublish(c, want) \/ CommitUnbound(c))
  BY <1>1, <1>6, PublishCalls
<1>7. CASE writingSlot = NoSlot /\ AfterCommit(c, want, lastCommittedSeqId, {})
           /\ UNCHANGED ringVars
  <2>1. ~ payload
    BY <1>7 DEF CallInv, ChunkOpen
  <2> QED
    BY <1>3, <1>7, <2>1
<1>8. CASE stop /\ AfterCommit(c, want, lastCommittedSeqId, {}) /\ UNCHANGED ringVars
  BY <1>3, <1>8
<1> QED
  BY <1>4, <1>5, <1>6, <1>7, <1>8 DEF CommitCurrentChunk

\* mapBuffer: what the buffer's draws need is committed or about to be.
LEMMA MapCalls ==
  ASSUME FlowInv, Numbers, CallInv, Map
  PROVE  CallInv' /\ ClientPromise
<1>1. /\ pc["mapper"] = "run" /\ lastUsed \in Nat /\ "mapper" \in Clients
      /\ UNCHANGED <<completedSeqId, lastUsed, drawn>> /\ mapDrawn' = drawn /\ drawn \in Nat
  BY DEF Map, doneVars, useVars, CallInv, CallTypes, Clients
<1>2. /\ drawn <= lastUsed /\ lastUsed <= nextSeqId /\ drawn <= nextSeqId
      /\ drawn = nextSeqId => payload
  BY <1>1 DEF CallInv, Stamped, Numbers
<1>3. Places /\ FlowTypes
  BY DEF FlowInv
<1>4. CASE MapCommits(lastUsed)
  <2>1. CommitCurrentChunk("mapper", lastUsed)
    BY <1>4 DEF Map
  <2> QED
    BY <1>1, <1>2, <1>3, <2>1, CommitCalls
<1>5. CASE ~ MapCommits(lastUsed)
  <2>1. AfterCommit("mapper", lastUsed, lastCommittedSeqId, {})
    BY <1>5 DEF Map
  <2>2. ChunkStays /\ UNCHANGED nextSeqId
    BY <1>5 DEF Map, ringVars, ChunkStays
  <2>3. drawn <= lastCommittedSeqId
    <3>1. lastCommittedSeqId \in Nat
      BY LastCommitted
    <3> QED
      BY <1>1, <1>2, <1>5, <3>1 DEF MapCommits
  <2> QED
    BY <1>1, <1>2, <1>3, <2>1, <2>2, <2>3, AnsweredStep
<1> QED
  BY <1>4, <1>5

\* A client leaves its wait for a credit: if someone else has committed the chunk
\* meanwhile, the sequence it remembered is a committed one.
LEMMA CommitWakeCalls ==
  ASSUME FlowInv, Numbers, CallInv, NEW c \in Clients, CommitWake(c)
  PROVE  CallInv' /\ ClientPromise
<1> DEFINE want == job[c].want
<1>1. /\ pc[c] = "commitWait" /\ job[c] \in JobType /\ CallOf(c)
      /\ UNCHANGED <<completedSeqId, lastUsed, drawn, mapDrawn>> /\ mapDrawn \in Nat
      /\ completedSeqId \in Nat
  BY DEF CommitWake, doneVars, useVars, CallInv, CallTypes, Numbers
<1>2. /\ want \in Nat /\ job[c].seq \in Nat /\ job[c].slot # NoSlot
      /\ job[c].seq <= nextSeqId
      /\ job[c].seq = nextSeqId => writingSlot = job[c].slot /\ payload
  BY <1>1 DEF JobType, CallOf
<1>3. c = "mapper" => mapDrawn <= want /\ mapDrawn <= job[c].seq
  BY <1>1 DEF CallInv, MapSees
<1>4. /\ nextSeqId \in Nat /\ lastCommittedSeqId = nextSeqId - 1 /\ pc[c] # "seqWait"
      /\ lastCommittedSeqId \in Nat
  BY <1>1, LastCommitted DEF Numbers
<1>5. Places /\ FlowTypes
  BY DEF FlowInv
<1> HIDE DEF want
<1>6. CASE UNCHANGED <<ringVars, tape, inflight, pc, job>> /\ Wake({}, {c})
  <2>1. /\ ChunkStays /\ UNCHANGED <<nextSeqId, stop, pc, job>>
    BY <1>6 DEF ringVars, ChunkStays, Wake
  <2>2. \A d \in Clients : CallOf(d)'
    BY <2>1, CallStays
  <2>3. ChunkOpen' /\ Stamped' /\ lastUsed' \in Nat /\ drawn' \in Nat
    BY <1>1, <2>1, ChunkMoves
  <2>4. (stop => stop') /\ completedSeqId <= completedSeqId'
    BY <1>1, <2>1
  <2>5. MapSees' /\ mapDrawn' \in Nat
    BY <1>1, <2>1, <2>4, MapperStays
  <2>6. CallTypes'
    BY <2>1, <2>3, <2>5 DEF CallInv, CallTypes
  <2>7. Idle
    BY <2>1 DEF Idle, WaitsFor
  <2> QED
    BY <2>2, <2>3, <2>5, <2>6, <2>7 DEF CallInv, ClientPromise
<1>7. CASE /\ CommitRefused(c) /\ AfterCommit(c, want, lastCommittedSeqId, {})
           /\ UNCHANGED ringVars
  <2>1. ChunkStays /\ UNCHANGED nextSeqId
    BY <1>7 DEF ringVars, ChunkStays
  <2>2. stop \/ job[c].seq < nextSeqId
    BY <1>2, <1>4, <1>7 DEF CommitRefused
  <2>3. job[c].seq < nextSeqId => job[c].seq <= lastCommittedSeqId
    BY <1>2, <1>4
  <2>4. IF c = "mapper"
        THEN mapDrawn' <= want /\ (stop \/ mapDrawn' <= lastCommittedSeqId)
        ELSE UNCHANGED mapDrawn
    <3>1. mapDrawn' = mapDrawn
      BY <1>1
    <3>2. mapDrawn <= job[c].seq /\ job[c].seq <= lastCommittedSeqId => mapDrawn <= lastCommittedSeqId
      BY <1>1, <1>2, <1>4
    <3>3. c = "mapper" => stop \/ mapDrawn <= lastCommittedSeqId
      BY <1>3, <2>2, <2>3, <3>2, Zenon
    <3> QED
      BY <1>3, <3>1, <3>3
  <2> QED
    BY <1>1, <1>2, <1>4, <1>5, <1>7, <2>1, <2>4, AnsweredStep
<1>8. CASE ~ CommitRefused(c) /\ (CommitPublish(c, want) \/ CommitUnbound(c))
  <2>1. ~ stop /\ job[c].seq = nextSeqId
    BY <1>8 DEF CommitRefused
  <2>2. IF c = "mapper" THEN mapDrawn' <= want /\ mapDrawn' <= nextSeqId
        ELSE UNCHANGED mapDrawn
    BY <1>1, <1>3, <2>1
  <2> QED
    BY <1>1, <1>2, <1>4, <1>5, <1>8, <2>1, <2>2, PublishCalls
<1> QED
  BY <1>6, <1>7, <1>8 DEF CommitWake, want

-----------------------------------------------------------------------------
(* The client steps that commit nothing. *)

\* A client leaves its wait for a sequence.
LEMMA SequenceWakeCalls ==
  ASSUME FlowInv, Numbers, CallInv, NEW c \in Clients, SequenceWake(c)
  PROVE  CallInv' /\ ClientPromise
<1>1. /\ pc[c] = "seqWait" /\ job[c] \in JobType /\ CallOf(c)
      /\ UNCHANGED <<completedSeqId, lastUsed, drawn, mapDrawn, nextSeqId, stop>>
      /\ ChunkStays
  BY DEF SequenceWake, doneVars, useVars, ringVars, ChunkStays, CallInv, CallTypes, Wake
<1>2. /\ completedSeqId \in Nat /\ mapDrawn \in Nat
      /\ WaitsFor(c) = job[c].target /\ job[c].target \in Nat
  BY <1>1 DEF Numbers, CallInv, CallTypes, WaitsFor, JobType
<1>3. WaitsFor(c) # 0
  <2>1. job[c].target \in 1..lastCommittedSeqId
    BY <1>1 DEF CallOf
  <2>2. lastCommittedSeqId \in Nat
    BY LastCommitted
  <2> QED
    BY <1>2, <2>1, <2>2
<1>4. (stop => stop') /\ completedSeqId <= completedSeqId'
  BY <1>1, <1>2
<1>5. CASE (stop \/ completedSeqId >= job[c].target)
  <2>1. pc' = [pc EXCEPT ![c] = Returned(c)] /\ job' = [job EXCEPT ![c] = NoJob]
    BY <1>5 DEF SequenceWake
  <2>2. NoJob \in JobType /\ NoJob.target = 0
    BY Sizes DEF NoJob, JobType, NoSlot
  <2>3. /\ pc'[c] = Returned(c) /\ job'[c].target = 0 /\ Others(c)
        /\ job' \in [Clients -> JobType]
    BY <2>1, <2>2 DEF Others, FlowInv, Places, CallInv, CallTypes, Clients
  <2>4. \A d \in Clients : CallOf(d)'
    <3> TAKE d \in Clients
    <3>1. CASE d = c
      BY <2>3, <3>1 DEF CallOf, Returned
    <3>2. CASE d # c
      BY <1>1, <2>3, <3>2, CallStays DEF Others
    <3> QED
      BY <3>1, <3>2
  <2>5. ChunkOpen' /\ Stamped' /\ lastUsed' \in Nat /\ drawn' \in Nat
    <3>1. pc'["writer"] = "ensureWait" => pc["writer"] = "ensureWait"
      BY <2>3 DEF Others, Returned, Clients
    <3> QED
      BY <1>1, <3>1, ChunkMoves
  <2>6. MapSees'
    <3>1. CASE c = "mapper"
      <4>1. pc'["mapper"] = "mapped" /\ (stop \/ job["mapper"].target >= mapDrawn)
        BY <1>1, <2>3, <3>1 DEF Returned, CallInv, MapSees
      <4>2. job["mapper"].target \in Nat
        BY <1>2, <3>1
      <4>3. job["mapper"].target >= mapDrawn /\ completedSeqId >= job["mapper"].target
              => completedSeqId' >= mapDrawn'
        BY <1>1, <1>2, <4>2
      <4>4. stop' \/ completedSeqId' >= mapDrawn'
        BY <1>4, <1>5, <3>1, <4>1, <4>3, Zenon
      <4> QED
        BY <4>1, <4>4 DEF MapSees
    <3>2. CASE c # "mapper"
      <4>1. pc'["mapper"] = pc["mapper"] /\ job'["mapper"] = job["mapper"]
        BY <2>3, <3>2 DEF Others, Clients
      <4> QED
        BY <1>1, <1>4, <4>1, MapperStays
    <3> QED
      BY <3>1, <3>2
  <2>7. CallInv'
    BY <1>1, <1>2, <2>3, <2>4, <2>5, <2>6 DEF CallInv, CallTypes
  <2>8. Returns(c)
    <3>1. WaitsFor(c)' = 0
      BY <2>3 DEF WaitsFor, Returned
    <3>2. WaitSet(c, 0)
      BY <2>3, <3>1, OthersWait
    <3>3. stop \/ completedSeqId >= WaitsFor(c)
      BY <1>2, <1>5
    <3> QED
      BY <1>1, <1>3, <3>2, <3>3 DEF Returns
  <2> QED
    BY <2>7, <2>8 DEF ClientPromise
<1>6. CASE ~ (stop \/ completedSeqId >= job[c].target)
  <2>1. UNCHANGED <<pc, job>>
    BY <1>6 DEF SequenceWake
  <2>2. \A d \in Clients : CallOf(d)'
    BY <1>1, <2>1, CallStays
  <2>3. ChunkOpen' /\ Stamped' /\ lastUsed' \in Nat /\ drawn' \in Nat
    BY <1>1, <2>1, ChunkMoves
  <2>4. MapSees' /\ mapDrawn' \in Nat
    BY <1>1, <1>4, <2>1, MapperStays
  <2>5. CallTypes'
    BY <2>1, <2>3, <2>4 DEF CallInv, CallTypes
  <2>6. Idle
    BY <1>1, <2>1 DEF Idle, WaitsFor
  <2> QED
    BY <2>2, <2>3, <2>4, <2>5, <2>6 DEF CallInv, ClientPromise
<1> QED
  BY <1>5, <1>6

\* The writer draws, stamps or waits for a slot; the mapper ends its access.
Draws == AppendOpen \/ Mark \/ EnsureStep

\* Such a step moves the writer, and nothing that the others look at.
LEMMA DrawsEffect ==
  ASSUME FlowInv, CallInv, Draws
  PROVE  /\ UNCHANGED <<nextSeqId, completedSeqId, stop, job, mapDrawn>>
         /\ Others("writer") /\ pc["writer"] \in {"run", "ensureWait"}
         /\ pc'["writer"] \in {"run", "ensureWait", "undefined"}
<1>1. CASE AppendOpen \/ Mark
  BY <1>1 DEF AppendOpen, Mark, ringVars, doneVars, Others, FlowInv, Places
<1>2. ASSUME NEW l \in {"run", "ensureWait", "undefined"}, InEnsureLoop,
             pc' = [pc EXCEPT !["writer"] = l],
             UNCHANGED <<nextSeqId, completedSeqId, stop, job, mapDrawn>>
      PROVE  /\ UNCHANGED <<nextSeqId, completedSeqId, stop, job, mapDrawn>>
             /\ Others("writer") /\ pc["writer"] \in {"run", "ensureWait"}
             /\ pc'["writer"] \in {"run", "ensureWait", "undefined"}
  BY <1>2 DEF InEnsureLoop, Others, FlowInv, Places, Clients
<1>3. ASSUME NEW accepted \in BOOLEAN, EnsureAcquire(accepted)
      PROVE  /\ InEnsureLoop /\ pc' = [pc EXCEPT !["writer"] = "run"]
             /\ UNCHANGED <<nextSeqId, completedSeqId, stop, job, mapDrawn>>
  BY <1>3 DEF EnsureAcquire, doneVars
<1>4. ASSUME EnsureWait
      PROVE  /\ InEnsureLoop /\ pc' = [pc EXCEPT !["writer"] = "ensureWait"]
             /\ UNCHANGED <<nextSeqId, completedSeqId, stop, job, mapDrawn>>
  BY <1>4 DEF EnsureWait, doneVars, ringVars, Wake
<1>5. ASSUME NEW outcome \in {"run", "undefined"}, EnsureStopped(outcome)
      PROVE  /\ InEnsureLoop /\ pc' = [pc EXCEPT !["writer"] = outcome]
             /\ UNCHANGED <<nextSeqId, completedSeqId, stop, job, mapDrawn>>
  BY <1>5 DEF EnsureStopped, doneVars, ringVars
<1>6. CASE EnsureStep
  BY <1>2, <1>3, <1>4, <1>5, <1>6 DEF EnsureStep
<1> QED
  BY <1>1, <1>6 DEF Draws

\* A command in the open chunk stamps the buffer with the chunk's sequence.
DrawStamps ==
  /\ UNCHANGED drawn \/ (drawn' = nextSeqId /\ lastUsed' = nextSeqId /\ payload')
  /\ lastUsed' \in {lastUsed, nextSeqId}
  /\ payload => payload'
  /\ payload' => writingSlot' # NoSlot
  /\ writingSlot' = writingSlot \/ writingSlot = NoSlot
  /\ pc'["writer"] = "ensureWait" => writingSlot' = NoSlot

\* It draws into the chunk that is open afterwards.
LEMMA DrawsStamp ==
  ASSUME FlowInv, CallInv, Draws
  PROVE  DrawStamps
<1>1. ChunkOpen /\ (pc["writer"] = "run" => pc["writer"] # "ensureWait") /\ writeIndex \in SlotIds
      /\ NoSlot \notin SlotIds
  BY Sizes DEF CallInv, FlowInv, FlowTypes
<1>2. CASE AppendOpen
  BY <1>1, <1>2 DEF AppendOpen, DrawStamps, ChunkOpen
<1>3. CASE Mark
  BY <1>1, <1>3 DEF Mark, DrawStamps, ChunkOpen, ringVars
<1>4. ASSUME InEnsureLoop PROVE writingSlot = NoSlot /\ ~ payload
  BY <1>1, <1>4 DEF InEnsureLoop, ChunkOpen
<1>5. ASSUME NEW accepted \in BOOLEAN, EnsureAcquire(accepted) PROVE DrawStamps
  <2>1. writingSlot = NoSlot /\ ~ payload
    BY <1>4, <1>5 DEF EnsureAcquire
  <2>2. /\ writingSlot' = writeIndex /\ payload' = accepted
        /\ lastUsed' = IF accepted THEN nextSeqId ELSE lastUsed
        /\ drawn' = IF accepted THEN nextSeqId ELSE drawn
        /\ pc'["writer"] # "ensureWait"
    BY <1>5 DEF EnsureAcquire, FlowInv, Places, Clients
  <2> QED
    BY <1>1, <2>1, <2>2 DEF DrawStamps
<1>6. CASE EnsureWait
  <2>1. /\ UNCHANGED <<writingSlot, payload, lastUsed, drawn>>
        /\ writingSlot = NoSlot /\ ~ payload
    BY <1>4, <1>6 DEF EnsureWait, ringVars, useVars
  <2> QED
    BY <2>1 DEF DrawStamps
<1>7. ASSUME NEW outcome \in {"run", "undefined"}, EnsureStopped(outcome) PROVE DrawStamps
  <2>1. /\ UNCHANGED <<writingSlot, payload, lastUsed, drawn>>
        /\ writingSlot = NoSlot /\ ~ payload
    BY <1>4, <1>7 DEF EnsureStopped, ringVars, useVars
  <2> QED
    BY <2>1 DEF DrawStamps
<1> QED
  BY <1>2, <1>3, <1>5, <1>6, <1>7 DEF Draws, EnsureStep

\* It leaves the calls as they must be, and no caller notices.
LEMMA DrawsCalls ==
  ASSUME FlowInv, Numbers, CallInv, Draws
  PROVE  CallInv' /\ ClientPromise
<1>1. /\ UNCHANGED <<nextSeqId, completedSeqId, stop, job, mapDrawn>>
      /\ Others("writer") /\ pc["writer"] \in {"run", "ensureWait"}
      /\ pc'["writer"] \in {"run", "ensureWait", "undefined"}
  BY DrawsEffect
<1>2. DrawStamps
  BY DrawsStamp
<1>3. pc'["mapper"] = pc["mapper"] /\ job'["mapper"] = job["mapper"]
  BY <1>1 DEF Others, Clients
<1>4. \A d \in Clients : CallOf(d)'
  <2> TAKE d \in Clients
  <2>1. CallOf(d) /\ UNCHANGED lastCommittedSeqId
    BY <1>1 DEF CallInv, lastCommittedSeqId
  <2>2. pc'[d] = pc[d] \/ (d = "writer" /\ pc[d] # "seqWait" /\ pc'[d] \notin {"seqWait", "commitWait"})
    BY <1>1 DEF Others, Clients
  <2>3. pc[d] = "commitWait" /\ job[d].seq = nextSeqId
          => writingSlot' = writingSlot /\ payload'
    BY <1>2, <2>1 DEF CallOf, DrawStamps
  <2> QED
    BY <1>1, <2>1, <2>2, <2>3 DEF CallOf
<1>5. ChunkOpen' /\ Stamped' /\ lastUsed' \in Nat /\ drawn' \in Nat
  <2>1. /\ nextSeqId \in Nat /\ lastUsed \in Nat /\ drawn \in Nat
        /\ ChunkOpen /\ Stamped
    BY DEF Numbers, CallInv, CallTypes
  <2>2. ChunkOpen'
    BY <1>2 DEF ChunkOpen, DrawStamps
  <2>3. lastUsed' \in Nat /\ lastUsed' <= nextSeqId /\ lastUsed <= lastUsed'
    BY <1>2, <2>1 DEF DrawStamps, Stamped
  <2>4. drawn' \in Nat /\ drawn' <= lastUsed' /\ (drawn' = nextSeqId => payload')
    BY <1>2, <2>1, <2>3 DEF DrawStamps, Stamped
  <2> QED
    BY <1>1, <2>2, <2>3, <2>4 DEF Stamped
<1>6. MapSees'
  <2>1. (stop => stop') /\ completedSeqId <= completedSeqId'
    BY <1>1 DEF Numbers
  <2> QED
    BY <1>1, <1>3, <2>1, MapperStays
<1>7. CallInv'
  BY <1>1, <1>4, <1>5, <1>6 DEF CallInv, CallTypes
<1>8. Idle
  <2>1. WaitsFor("writer")' = WaitsFor("writer")
    BY <1>1 DEF WaitsFor
  <2> QED
    BY <1>1, <2>1, NobodyNotices DEF Idle, Clients
<1> QED
  BY <1>7, <1>8 DEF ClientPromise

\* The mapper's access ends.
LEMMA UnmapCalls ==
  ASSUME FlowInv, Numbers, CallInv, Unmap
  PROVE  CallInv' /\ ClientPromise
<1>1. /\ UNCHANGED <<nextSeqId, stop, job, lastUsed, drawn>> /\ ChunkStays
      /\ Others("mapper") /\ pc["mapper"] = "mapped" /\ pc'["mapper"] = "run"
      /\ mapDrawn' = 0
  BY DEF Unmap, ringVars, useVars, ChunkStays, Others, FlowInv, Places, Clients
<1>2. \A d \in Clients : CallOf(d)'
  <2> TAKE d \in Clients
  <2>1. CASE d = "mapper"
    BY <1>1, <2>1 DEF CallOf, CallInv
  <2>2. CASE d # "mapper"
    BY <1>1, <2>2, CallStays DEF Others
  <2> QED
    BY <2>1, <2>2
<1>3. ChunkOpen' /\ Stamped' /\ lastUsed' \in Nat /\ drawn' \in Nat
  <2>1. pc'["writer"] = pc["writer"]
    BY <1>1 DEF Others, Clients
  <2> QED
    BY <1>1, <2>1, ChunkMoves
<1>4. MapSees'
  BY <1>1 DEF MapSees
<1>5. CallInv'
  BY <1>1, <1>2, <1>3, <1>4 DEF CallInv, CallTypes
<1>6. Idle
  <2>1. WaitsFor("mapper")' = WaitsFor("mapper")
    BY <1>1 DEF WaitsFor
  <2> QED
    BY <1>1, <2>1, NobodyNotices DEF Idle, Clients
<1> QED
  BY <1>5, <1>6 DEF ClientPromise

-----------------------------------------------------------------------------
(* The inductive invariant, and what follows from it. *)

QueueInv == FlowInv /\ CallInv

\* The invariant holds at the start.
LEMMA InitFlow ==
  ASSUME Init
  PROVE  QueueInv
<1>1. Places
  BY DEF Init, Places, Clients, Workers, Labels
<1>2. FlowTypes
  BY Sizes DEF Init, FlowTypes, SlotIds
<1>3. /\ tape = <<>> /\ Len(tape) = 0 /\ completedQueue = <<>> /\ Len(completedQueue) = 0
      /\ pending = <<>> /\ Len(pending) = 0 /\ watching = <<>> /\ batch = <<>>
      /\ Len(batch) = 0 /\ session = <<>> /\ 1..0 = {}
      /\ nextSeqId = 1 /\ completedSeqId = 0 /\ writingSlot = NoSlot
      /\ pc["encoder"] = "wait" /\ pc["watcher"] = "wait" /\ pc["finish"] = "wait"
  BY DEF Init, Clients, Workers
<1>4. TapeOrdered /\ OpenLast
  BY <1>3 DEF TapeOrdered, Staged, BoundOf, OpenLast
<1>5. Chain
  <2>1. Seqs(<<>>) = {} /\ HandedOf(<<>>) = {} /\ WaitingOf(<<>>) = {}
    BY DEF Seqs, HandedOf, WaitingOf
  <2>2. Batched = <<>> /\ Executed = 0 /\ lastCommittedSeqId = 0
    BY <1>3 DEF Batched, Executed, lastCommittedSeqId
  <2>3. Ascending(<<>>) /\ Buffered(<<>>)
    BY DEF Ascending, Buffered
  <2>4. InOrder(0, {}, {}, {}, {}, {}, 0)
    BY DEF InOrder, Before
  <2>5. /\ Seqs(watching) = {} /\ HandedOf(pending) = {} /\ Seqs(session) = {}
        /\ Seqs(Batched) = {} /\ WaitingOf(tape) = {}
        /\ Ascending(watching) /\ Ascending(session) /\ Ascending(batch) /\ Buffered(pending)
    BY <1>3, <2>1, <2>2, <2>3
  <2>6. InOrder(Executed, Seqs(watching), HandedOf(pending), Seqs(session),
                Seqs(Batched), WaitingOf(tape), lastCommittedSeqId)
    BY <2>2, <2>4, <2>5
  <2>7. Executed <= lastCommittedSeqId
    BY <2>2
  <2> QED
    BY <1>3, <2>5, <2>6, <2>7 DEF Chain
<1>6. EncoderHolds /\ WatcherHolds /\ HeadReclaimed
  BY <1>3 DEF EncoderHolds, WatcherHolds, HeadReclaimed
<1>7. CallInv
  <2>1. NoJob \in JobType /\ NoJob.target = 0
    BY Sizes DEF NoJob, JobType, NoSlot
  <2>2. /\ job = [c \in Clients |-> NoJob] /\ lastUsed = 0 /\ drawn = 0 /\ mapDrawn = 0
        /\ payload = FALSE /\ \A c \in Clients : pc[c] = "run"
    BY DEF Init, Clients, Workers
  <2>3. CallTypes /\ ChunkOpen /\ Stamped
    BY <1>3, <2>1, <2>2 DEF CallTypes, ChunkOpen, Stamped, Clients
  <2>4. \A c \in Clients : CallOf(c)
    BY <2>1, <2>2 DEF CallOf
  <2>5. MapSees
    BY <2>2 DEF MapSees, Clients
  <2> QED
    BY <2>3, <2>4, <2>5 DEF CallInv
<1> QED
  BY <1>1, <1>2, <1>4, <1>5, <1>6, <1>7 DEF QueueInv, FlowInv

\* The counters of two states.
LEMMA NumbersOf ==
  ASSUME FlowInv, FlowInv'
  PROVE  Numbers
<1>1. /\ nextSeqId \in Nat \ {0} /\ nextSeqId' \in Nat \ {0}
      /\ completedSeqId \in Nat /\ completedSeqId' \in Nat
  BY DEF FlowInv, FlowTypes
<1> QED
  BY <1>1 DEF Numbers

\* A step of a client keeps the invariant and does what it promises.
LEMMA ClientPreserves ==
  ASSUME QueueInv, ClientStep
  PROVE  QueueInv' /\ ClientPromise /\ UNCHANGED <<completedSeqId, completedQueue>>
<1>1. /\ Places /\ (pc["writer"] = "ensureWait" => writingSlot = NoSlot)
      /\ \A c \in Clients : pc[c] = "commitWait" => job[c].slot # NoSlot
  BY DEF QueueInv, FlowInv, CallInv, ChunkOpen, CallOf
<1>2. \/ Quiet \/ Opens \/ Aborts
      \/ \E bound \in BOOLEAN : Publishes(bound)
  BY <1>1, ClientEffects
<1>3. FlowInv'
  BY <1>2, QuietFlow, OpensFlow, AbortsFlow, PublishesFlow DEF QueueInv
<1>4. UNCHANGED <<completedSeqId, completedQueue>>
  BY <1>2 DEF Quiet, Opens, Aborts, Publishes, PipelineStays, doneVars
<1>5. FlowInv /\ CallInv /\ Numbers /\ Places /\ FlowTypes
  BY <1>3, NumbersOf DEF QueueInv, FlowInv
<1>6. CASE Draws
  BY <1>3, <1>4, <1>5, <1>6, DrawsCalls DEF QueueInv
<1>7. ASSUME NEW want \in {0, Everything}, Commit(want)
      PROVE  CallInv' /\ ClientPromise
  <2>1. /\ pc["writer"] = "run" /\ CommitCurrentChunk("writer", want)
        /\ UNCHANGED <<completedSeqId, lastUsed, drawn, mapDrawn>>
        /\ mapDrawn \in Nat
    BY <1>5, <1>7 DEF Commit, doneVars, useVars, CallInv, CallTypes
  <2>2. want \in Nat /\ "writer" \in Clients
    BY Sizes DEF Clients
  <2>3. mapDrawn' \in Nat
    BY <2>1
  <2> QED
    BY <1>5, <2>1, <2>2, <2>3, CommitCalls
<1>8. CASE Map
  BY <1>3, <1>4, <1>5, <1>8, MapCalls DEF QueueInv
<1>9. CASE Unmap
  BY <1>3, <1>4, <1>5, <1>9, UnmapCalls DEF QueueInv
<1>10. ASSUME NEW c \in Clients, ClientWakes(c)
       PROVE  CallInv' /\ ClientPromise
  BY <1>5, <1>10, CommitWakeCalls, SequenceWakeCalls DEF ClientWakes
<1> QED
  BY <1>3, <1>4, <1>6, <1>7, <1>8, <1>9, <1>10 DEF ClientStep, Draws, QueueInv

\* A step that changes nothing.
LEMMA StutterPreserves ==
  ASSUME QueueInv, UNCHANGED vars
  PROVE  QueueInv'
<1>1. FlowInv'
  BY StopFlow DEF QueueInv
<1>2. CallInv'
  BY DEF QueueInv, CallInv, CallTypes, ChunkOpen, Stamped, CallOf, MapSees, vars, ringVars,
     doneVars, useVars, lastCommittedSeqId
<1> QED
  BY <1>1, <1>2 DEF QueueInv

\* A step of a worker keeps the invariant.
LEMMA WorkerPreserves ==
  ASSUME QueueInv, WorkerStep
  PROVE  QueueInv' /\ ClientsStay /\ (Settled \/ Executes \/ Completes)
<1>1. FlowInv' /\ ClientsStay /\ (Settled \/ Executes \/ Completes)
  BY WorkerEffects DEF QueueInv
<1>2. CallInv'
  BY <1>1, WorkerCalls DEF QueueInv
<1> QED
  BY <1>1, <1>2 DEF QueueInv

\* Every step is a client's or a worker's.
LEMMA StepKinds ==
  ASSUME [Next]_vars
  PROVE  ClientStep \/ WorkerStep \/ UNCHANGED vars
BY DEF Next, ClientStep, WorkerStep

\* The pipeline's order, the places of the threads and the calls of the clients
\* are kept by every step, also by the stop and by every refusal that poisons
\* the queue.
THEOREM QueueInvariant == Spec => []QueueInv
<1>1. Init => QueueInv
  BY InitFlow
<1>2. QueueInv /\ [Next]_vars => QueueInv'
  BY StepKinds, ClientPreserves, WorkerPreserves, StutterPreserves
<1> QED
  BY <1>1, <1>2, PTL DEF Spec

\* Even the draining of a stopped queue leaves a source whose query marker did
\* not take its sequence Ready: dequeueReadySlotBatch refuses it, for any number
\* of slots and any prefix that the coordinator reserves or restores.
THEOREM UnboundCorrect == Spec => []UnboundNeverEncoded
<1>1. QueueInv => UnboundNeverEncoded
  <2> SUFFICES ASSUME QueueInv PROVE UnboundNeverEncoded
    OBVIOUS
  <2>1. tape \in Seq(EntryType) /\ BoundOf(tape)
    BY DEF QueueInv, FlowInv, FlowTypes, TapeOrdered
  <2>2. DOMAIN tape = 1..Len(tape)
    BY <2>1, DomainLen
  <2> QED
    BY <2>1, <2>2 DEF BoundOf, UnboundNeverEncoded
<1> QED
  BY <1>1, QueueInvariant, PTL

\* mapBuffer returns only when every draw recorded from its buffer before the
\* call has completed, or the queue has stopped: its clamped wait target
\* (committedSequenceWaitTarget) covers them, whoever commits the chunk.
THEOREM MapCorrect == Spec => []MapObservesDraw
<1>1. QueueInv => MapObservesDraw
  BY DEF QueueInv, CallInv, MapSees, MapObservesDraw
<1> QED
  BY <1>1, QueueInvariant, PTL

\* No chunk is published once the queue has stopped: commitCurrentChunk looks at
\* stop_ again after its wait.
THEOREM StopCorrect == Spec => NoPublishAfterStop
<1>1. QueueInv /\ [Next]_vars => [stop => nextSeqId' = nextSeqId]_vars
  <2> SUFFICES ASSUME QueueInv, [Next]_vars, stop PROVE nextSeqId' = nextSeqId
    OBVIOUS
  <2>1. CASE ClientStep
    <3>1. ClientPromise
      BY <2>1, ClientPreserves
    <3> QED
      BY <3>1 DEF ClientPromise, Idle, Starts, Commits, CommitStops, Returns
  <2>2. CASE WorkerStep
    BY <2>2, WorkerPreserves DEF ClientsStay
  <2>3. CASE UNCHANGED vars
    BY <2>3 DEF vars, ringVars
  <2> QED
    BY <2>1, <2>2, <2>3, StepKinds
<1> QED
  BY <1>1, QueueInvariant, PTL DEF Spec, NoPublishAfterStop

-----------------------------------------------------------------------------
(* The queue implements OrderedCompletion, step by step. *)

\* Nobody starts or ends a wait.
LEMMA WaitingSame ==
  ASSUME \A d \in Clients : WaitsFor(d)' = WaitsFor(d)
  PROVE  Waiting' = Waiting
BY DEF Waiting, WaitsFor

\* One client starts or ends a wait.
LEMMA WaitingSet ==
  ASSUME NEW c \in Clients, NEW target, WaitSet(c, target)
  PROVE  Waiting' = [Waiting EXCEPT ![c] = target] /\ Waiting[c] = WaitsFor(c)
BY DEF Waiting, WaitSet, WaitsFor

\* A client's step commits, starts a wait, ends one, or is invisible.
LEMMA ClientRefines ==
  ASSUME Numbers, ClientPromise, UNCHANGED <<completedSeqId, completedQueue>>
  PROVE  [Ordered!Next]_Ordered!vars
<1>1. /\ lastCommittedSeqId \in Nat /\ lastCommittedSeqId = nextSeqId - 1
      /\ lastCommittedSeqId' = nextSeqId' - 1 /\ nextSeqId \in Nat
      /\ UNCHANGED Executed
  BY LastCommitted DEF Numbers, Executed
<1>3. CASE Idle
  <2>1. Waiting' = Waiting /\ UNCHANGED <<lastCommittedSeqId, completedSeqId, stop>>
    BY <1>1, <1>3, WaitingSame DEF Idle
  <2> QED
    BY <1>1, <2>1 DEF Ordered!vars
<1>4. CASE CommitStops
  <2>1. /\ Waiting' = Waiting /\ ~ stop /\ stop' = TRUE
        /\ lastCommittedSeqId' = lastCommittedSeqId + 1
    BY <1>1, <1>4, WaitingSame DEF CommitStops
  <2>2. Ordered!CommitAndStop
    BY <1>1, <2>1 DEF Ordered!CommitAndStop
  <2> QED
    BY <2>2 DEF Ordered!Next
<1>5. ASSUME NEW c \in Clients, NEW target \in Nat, Starts(c, target)
      PROVE  Ordered!Next
  <2>1. /\ Waiting' = [Waiting EXCEPT ![c] = target] /\ Waiting[c] = 0 /\ ~ stop
        /\ target \in (completedSeqId + 1)..lastCommittedSeqId
        /\ UNCHANGED <<lastCommittedSeqId, completedSeqId, stop>>
    BY <1>1, <1>5, WaitingSet DEF Starts
  <2>2. Ordered!Wait(c, target)
    BY <1>1, <2>1 DEF Ordered!Wait
  <2>3. target \in 0..(lastCommittedSeqId + 1)
    BY <1>1, <2>1 DEF Numbers
  <2> QED
    BY <2>2, <2>3 DEF Ordered!Next
<1>6. ASSUME NEW c \in Clients, NEW target \in Nat, Commits(c, target)
      PROVE  Ordered!Next
  <2>1. /\ Waiting' = [Waiting EXCEPT ![c] = target] /\ Waiting[c] = 0 /\ ~ stop
        /\ target = 0 \/ target \in (completedSeqId + 1)..(lastCommittedSeqId + 1)
        /\ lastCommittedSeqId' = lastCommittedSeqId + 1
        /\ UNCHANGED <<completedSeqId, stop>>
    BY <1>1, <1>6, WaitingSet DEF Commits
  <2>2. Ordered!Commit(c, target)
    BY <1>1, <2>1 DEF Ordered!Commit
  <2>3. target \in 0..(lastCommittedSeqId + 1)
    BY <1>1, <2>1 DEF Numbers
  <2> QED
    BY <2>2, <2>3 DEF Ordered!Next
<1>7. ASSUME NEW c \in Clients, Returns(c)
      PROVE  Ordered!Next
  <2>1. /\ Waiting' = [Waiting EXCEPT ![c] = 0] /\ Waiting[c] # 0
        /\ stop \/ completedSeqId >= Waiting[c]
        /\ UNCHANGED <<lastCommittedSeqId, completedSeqId, stop>>
    BY <1>1, <1>7, WaitingSet DEF Returns
  <2>2. Ordered!Return(c)
    BY <1>1, <2>1 DEF Ordered!Return
  <2> QED
    BY <2>2 DEF Ordered!Next
<1> QED
  BY <1>3, <1>4, <1>5, <1>6, <1>7 DEF ClientPromise

\* A worker's step executes, completes, stops, or is invisible.
LEMMA WorkerRefines ==
  ASSUME FlowInv, ClientsStay, Settled \/ Executes \/ Completes
  PROVE  [Ordered!Next]_Ordered!vars
<1>1. Waiting' = Waiting
  <2>1. \A d \in Clients : WaitsFor(d)' = WaitsFor(d)
    BY DEF ClientsStay, WaitsFor
  <2> QED
    BY <2>1, WaitingSame
<1>3. UNCHANGED lastCommittedSeqId
  BY DEF ClientsStay, lastCommittedSeqId
<1>4. CASE Executes
  <2>1. Ordered!Execute
    BY <1>1, <1>3, <1>4 DEF Executes, Ordered!Execute
  <2> QED
    BY <2>1 DEF Ordered!Next
<1>5. CASE Completes
  <2>1. Ordered!Complete
    BY <1>1, <1>3, <1>5 DEF Completes, Ordered!Complete
  <2> QED
    BY <2>1 DEF Ordered!Next
<1>6. CASE Settled
  <2>1. CASE stop' = stop
    BY <1>1, <1>3, <1>6, <2>1 DEF Settled, Ordered!vars
  <2>2. CASE stop' = TRUE /\ ~ stop
    <3>1. Ordered!Stop
      BY <1>1, <1>3, <1>6, <2>2 DEF Settled, Ordered!Stop
    <3> QED
      BY <3>1 DEF Ordered!Next
  <2>3. CASE stop' = TRUE /\ stop
    BY <1>1, <1>3, <1>6, <2>3 DEF Settled, Ordered!vars
  <2> QED
    BY <1>6, <2>1, <2>2, <2>3 DEF Settled
<1> QED
  BY <1>4, <1>5, <1>6

\* The queue keeps OrderedCompletion's promise for any number of slots, receipts
\* and session sources: sequences are committed, executed and completed one by
\* one in that order, no caller waits for a sequence that was never published,
\* and none returns from waitForSequence before its sequence has completed,
\* unless the queue has stopped.
THEOREM QueueRefines == Spec => CompletesInOrder
<1>1. Init => Ordered!Init
  <2> SUFFICES ASSUME Init PROVE Ordered!Init
    OBVIOUS
  <2>1. /\ nextSeqId = 1 /\ completedSeqId = 0 /\ completedQueue = <<>> /\ stop = FALSE
        /\ \A c \in Clients : pc[c] = "run"
    BY DEF Init, Clients, Workers
  <2>2. lastCommittedSeqId = 0 /\ Executed = 0
    BY <2>1 DEF lastCommittedSeqId, Executed
  <2>3. Waiting = [c \in Clients |-> 0]
    BY <2>1 DEF Waiting
  <2> QED
    BY <2>1, <2>2, <2>3 DEF Ordered!Init
<1>2. QueueInv /\ QueueInv' /\ [Next]_vars => [Ordered!Next]_Ordered!vars
  <2> SUFFICES ASSUME QueueInv, QueueInv', [Next]_vars
               PROVE  [Ordered!Next]_Ordered!vars
    OBVIOUS
  <2>1. FlowInv /\ Numbers
    BY NumbersOf DEF QueueInv
  <2>2. CASE ClientStep
    <3>1. ClientPromise /\ UNCHANGED <<completedSeqId, completedQueue>>
      BY <2>2, ClientPreserves
    <3> QED
      BY <2>1, <3>1, ClientRefines
  <2>3. CASE WorkerStep
    <3>1. ClientsStay /\ (Settled \/ Executes \/ Completes)
      BY <2>3, WorkerPreserves
    <3> QED
      BY <2>1, <3>1, WorkerRefines
  <2>4. CASE UNCHANGED vars
    <3>1. UNCHANGED <<pc, job, nextSeqId, completedSeqId, completedQueue, stop>>
      BY <2>4 DEF vars, ringVars, doneVars
    <3> QED
      BY <3>1 DEF Ordered!vars, Executed, Waiting, lastCommittedSeqId
  <2> QED
    BY <2>2, <2>3, <2>4, StepKinds
<1> QED
  BY <1>1, <1>2, QueueInvariant, PTL DEF Spec, CompletesInOrder, Ordered!Spec

(***************************************************************************)
(* Sleep.  Whoever sleeps has nothing to do yet.                           *)
(***************************************************************************)

\* What the condition variables read besides the tape.
SlotStates == {"Free", "Writing", "Pending", "Encoding", "Retiring"}

\* The types of that state.
SleepTypes ==
  /\ slots \in [SlotIds -> [state : SlotStates, seq : Nat]]
  /\ inflight \in Int
  /\ parked \subseteq Clients \cup Workers

\* The producer finds no room for a chunk.
NoRoom == ~ (ProbeReady /\ slots[writeIndex].state = "Free")

\* The encoder has nothing to encode and no reason to end its session.
EncoderIdle == Ready = <<>> /\ (session = <<>> \/ ~ SequenceRequested)

\* A client sleeps in one of the three waits, and its wait is not over; only
\* between the two holds of an inline completion may there be room for the writer.
ClientAsleep(c) ==
  \/ pc[c] = "commitWait" /\ ~ CommitRoom
  \/ pc[c] = "seqWait" /\ ~ completedSeqId >= job[c].target
  \/ c = "writer" /\ pc[c] = "ensureWait" /\ (pc["encoder"] = "inline" \/ NoRoom)

\* Whoever sleeps on a condition variable has nothing to do, and nobody sleeps after a
\* stop.
SleepInv ==
  /\ SleepTypes
  /\ stop => parked = {}
  /\ "encoder" \in parked => EncoderIdle
  /\ "watcher" \in parked => pending = <<>>
  /\ "finish" \in parked => completedQueue = <<>>
  /\ \A c \in Clients : c \in parked => ClientAsleep(c)

\* No chunk on the tape is Ready.
NoReady(t) == \A i \in 1..Len(t) : t[i].state # "Ready"

\* The ready FIFO is empty when nothing on the tape is Ready.
LEMMA ReadyEmpty == FlowInv => (Ready = <<>> <=> NoReady(tape))
<1> SUFFICES ASSUME FlowInv PROVE Ready = <<>> <=> NoReady(tape)
  OBVIOUS
<1>1. CASE Ready = <<>> /\ \A i \in 1..Len(tape) : tape[i].state # "Ready"
  BY <1>1 DEF NoReady
<1>2. ASSUME Ready # <<>>, NEW a \in 1..Len(tape), NEW b \in 1..Len(tape),
             SpanAt(Ready, "Ready", a, b)
      PROVE  Ready = <<>> <=> NoReady(tape)
  <2>1. tape \in Seq(EntryType)
    BY DEF FlowInv, FlowTypes
  <2>2. Len(tape) \in Nat
    BY <2>1, EntryParts
  <2>3. tape[a].state = "Ready"
    BY <1>2, <2>2 DEF SpanAt
  <2>. QED
    BY <1>2, <2>3 DEF NoReady
<1>. QED
  BY <1>1, <1>2, ReadyAt

\* Two tapes with their waiting residents at the same places count the same.
LEMMA SameReservations ==
  ASSUME NEW t \in Seq(EntryType), NEW m \in Seq(EntryType), Len(m) = Len(t),
         \A i \in 1..Len(t) : m[i].state \in {"Writing", "Ready", "Tentative"}
                                <=> t[i].state \in {"Writing", "Ready", "Tentative"}
  PROVE  ReadyReservations(m) = ReadyReservations(t)
<1>1. DOMAIN t = 1..Len(t) /\ DOMAIN m = 1..Len(t)
  OBVIOUS
<1>2. {i \in DOMAIN m : m[i].state \in {"Writing", "Ready", "Tentative"}}
        = {i \in DOMAIN t : t[i].state \in {"Writing", "Ready", "Tentative"}}
  BY <1>1
<1>. QED
  BY <1>2 DEF ReadyReservations

\* When nobody sleeps there is nothing to prove.
LEMMA NobodySleeps ==
  ASSUME SleepTypes', parked' = {}
  PROVE  SleepInv'
BY DEF SleepInv

\* Every stop wakes everyone.
LEMMA StoppedAwake ==
  ASSUME parked' = parked \cap LeftAsleep
  PROVE  parked' = {}
BY DEF LeftAsleep

\* Only a client in one of the three waits sleeps.
LEMMA AwakeAt ==
  ASSUME SleepInv, NEW c \in Clients, pc[c] \notin {"ensureWait", "commitWait", "seqWait"}
  PROVE  c \notin parked
BY DEF SleepInv, ClientAsleep

\* A step of client c: it may fall asleep itself, and for the other sleepers
\* nothing changes that they wait for.
ClientSleeps(c) ==
  /\ Others(c) /\ pc'["encoder"] = pc["encoder"]
  /\ UNCHANGED <<completedSeqId, completedQueue, pending, session, stop>>
  /\ parked' \subseteq parked \cup {c}
  /\ c \in parked' => ~ stop /\ ClientAsleep(c)'
  /\ inflight' \in Int /\ inflight <= inflight'
  /\ slots' \in [SlotIds -> [state : SlotStates, seq : Nat]]
  /\ c = "mapper" /\ pc["writer"] = "ensureWait" =>
       UNCHANGED <<tape, closed, slots, writeIndex>>
  /\ "encoder" \in parked' =>
       /\ NoReady(tape) => NoReady(tape')
       /\ pc'[c] = "seqWait" => pc[c] = "seqWait"

\* Room is what the tape and the slots say.
LEMMA SameRoom ==
  ASSUME UNCHANGED <<tape, closed, slots, writeIndex>>
  PROVE  NoRoom' <=> NoRoom
BY DEF NoRoom, ProbeReady, ReadyReservations

\* A client that slept before the step, and for which nothing has changed, sleeps on.
LEMMA ClientSleepsOn ==
  ASSUME FlowInv, FlowInv', SleepInv, NEW c \in Clients, ClientSleeps(c)
  PROVE  SleepInv'
<1>1. SleepTypes'
  BY DEF SleepInv, SleepTypes, ClientSleeps
<1>2. stop' => parked' = {}
  BY DEF SleepInv, SleepTypes, ClientSleeps
<1>3. "watcher" \in parked' => pending' = <<>>
  BY DEF SleepInv, ClientSleeps, Clients
<1>4. "finish" \in parked' => completedQueue' = <<>>
  BY DEF SleepInv, ClientSleeps, Clients
<1>5. ASSUME "encoder" \in parked' PROVE EncoderIdle'
  <2>1. "encoder" \in parked /\ EncoderIdle
    BY <1>5 DEF SleepInv, ClientSleeps, Clients
  <2>2. Ready = <<>> <=> NoReady(tape)
    BY ReadyEmpty
  <2>3. (Ready = <<>> <=> NoReady(tape))'
    BY ReadyEmpty, PTL
  <2>4. NoReady(tape')
    BY <1>5, <2>1, <2>2 DEF ClientSleeps, EncoderIdle
  <2>5. Ready' = <<>>
    BY <2>3, <2>4 DEF NoReady
  <2>6. session = <<>> => session' = <<>>
    BY DEF ClientSleeps
  <2>7. SequenceRequested' => SequenceRequested
    <3>. SUFFICES ASSUME NEW d \in Clients, pc'[d] = "seqWait" PROVE pc[d] = "seqWait"
      BY DEF SequenceRequested
    <3>. QED
      BY <1>5 DEF ClientSleeps, Others
  <2>. QED
    BY <2>1, <2>5, <2>6, <2>7 DEF EncoderIdle
<1>6. ASSUME NEW d \in Clients, d \in parked' PROVE ClientAsleep(d)'
  <2>1. CASE d = c
    BY <1>6, <2>1 DEF ClientSleeps
  <2>2. CASE d # c
    <3>1. d \in parked /\ ClientAsleep(d) /\ pc'[d] = pc[d] /\ job'[d] = job[d]
      BY <1>6, <2>2 DEF SleepInv, ClientSleeps, Others
    <3>2. CASE pc[d] = "commitWait" /\ ~ CommitRoom
      <4>1. InflightLimit \in Int /\ inflight \in Int /\ inflight' \in Int /\ inflight <= inflight'
        BY Sizes DEF InflightLimit, SleepInv, SleepTypes, ClientSleeps
      <4>2. ~ CommitRoom'
        BY <3>2, <4>1 DEF CommitRoom, InflightLimit
      <4>. QED
        BY <3>1, <3>2, <4>2 DEF ClientAsleep
    <3>3. CASE pc[d] = "seqWait" /\ ~ completedSeqId >= job[d].target
      <4>1. completedSeqId' = completedSeqId
        BY DEF ClientSleeps
      <4>. QED
        BY <3>1, <3>3, <4>1 DEF ClientAsleep
    <3>4. CASE d = "writer" /\ pc[d] = "ensureWait" /\ (pc["encoder"] = "inline" \/ NoRoom)
      <4>1. c = "mapper"
        BY <2>2, <3>4 DEF Clients
      <4>2. NoRoom' <=> NoRoom
        BY <3>4, <4>1, SameRoom DEF ClientSleeps
      <4>3. pc'["encoder"] = pc["encoder"]
        BY DEF ClientSleeps
      <4>. QED
        BY <3>1, <3>4, <4>2, <4>3 DEF ClientAsleep
    <3>. QED
      BY <3>1, <3>2, <3>3, <3>4 DEF ClientAsleep
  <2>. QED
    BY <2>1, <2>2
<1>. QED
  BY <1>1, <1>2, <1>3, <1>4, <1>5, <1>6 DEF SleepInv

\* What follows a commit puts at most the caller to sleep, and only with the
\* encoder told.
LEMMA AfterCommitSleeps ==
  ASSUME Places, CallTypes, NEW c \in Clients, NEW want \in Nat, NEW committed \in Nat,
         completedSeqId \in Nat, NEW woken, AfterCommit(c, want, committed, woken),
         c \notin parked
  PROVE  /\ Others(c) /\ UNCHANGED stop /\ pc'["encoder"] = pc["encoder"]
         /\ parked' \subseteq parked \cup {c}
         /\ "encoder" \in woken => "encoder" \notin parked'
         /\ c \in parked' => ~ stop /\ pc'[c] = "seqWait" /\ ~ completedSeqId >= job'[c].target
         /\ "encoder" \in parked' => pc'[c] # "seqWait"
<1> DEFINE target == WaitTarget(want, committed)
           waits  == target > completedSeqId /\ ~ stop
<1>1. target \in Nat
  BY TargetEffect, InRange
<1>2. pc' = [pc EXCEPT ![c] = IF waits THEN "seqWait" ELSE Returned(c)]
  BY DEF AfterCommit
<1>3. job' = [job EXCEPT ![c] = IF waits THEN [NoJob EXCEPT !.target = target] ELSE NoJob]
  BY DEF AfterCommit
<1>4. IF waits THEN Wake(woken \cup EncodeWaiters, {c}) ELSE Wake(woken, {})
  BY DEF AfterCommit
<1>5. Others(c) /\ UNCHANGED stop
  BY AfterCommitEffect
<1>6. pc \in [Clients \cup Workers -> Labels] /\ job \in [Clients -> JobType]
  BY DEF Places, CallTypes
<1>7. c # "encoder" /\ c \in Clients \cup Workers
  BY DEF Clients
<1>8. pc'["encoder"] = pc["encoder"]
  BY <1>2, <1>6, <1>7
<1>9. Returned(c) # "seqWait"
  BY DEF Returned
<1>10. CASE waits
  <2>1. pc'[c] = "seqWait" /\ job'[c] = [NoJob EXCEPT !.target = target]
    BY <1>2, <1>3, <1>6, <1>7, <1>10
  <2>2. job'[c].target = target
    BY <2>1 DEF NoJob
  <2>3. ~ completedSeqId >= target
    BY <1>1, <1>10
  <2>4. parked' = (parked \ (woken \cup EncodeWaiters)) \cup {c}
    BY <1>4, <1>10 DEF Wake
  <2>5. "encoder" \notin parked'
    BY <2>4, <1>7 DEF EncodeWaiters
  <2>6. parked' \subseteq parked \cup {c}
    BY <2>4
  <2>7. ~ stop
    BY <1>10
  <2>. HIDE DEF target, waits
  <2>. QED
    BY <1>5, <1>8, <2>1, <2>2, <2>3, <2>5, <2>6, <2>7
<1>11. CASE ~ waits
  <2>1. pc'[c] = Returned(c)
    BY <1>2, <1>6, <1>7, <1>11
  <2>2. parked' = parked \ woken
    BY <1>4, <1>11 DEF Wake
  <2>. HIDE DEF target, waits
  <2>. QED
    BY <1>5, <1>8, <1>9, <2>1, <2>2
<1>. QED
  BY <1>10, <1>11

\* A writer inside ensureWriterSlot has no open chunk to commit.
LEMMA NoChunkToCommit ==
  ASSUME CallInv, writingSlot # NoSlot
  PROVE  pc["writer"] # "ensureWait"
BY DEF CallInv, ChunkOpen

\* Writing a slot keeps the slots' type.
LEMMA FreeSlots ==
  ASSUME SleepTypes, NEW i \in SlotIds
  PROVE  /\ [slots EXCEPT ![i] = FreeSlot] \in [SlotIds -> [state : SlotStates, seq : Nat]]
         /\ \A n \in Nat, st \in SlotStates :
              [slots EXCEPT ![i] = [state |-> st, seq |-> n]]
                \in [SlotIds -> [state : SlotStates, seq : Nat]]
         /\ slots[i] \in [state : SlotStates, seq : Nat]
<1>1. FreeSlot \in [state : SlotStates, seq : Nat]
  BY DEF FreeSlot, SlotStates
<1>2. \A n \in Nat, st \in SlotStates :
        [state |-> st, seq |-> n] \in [state : SlotStates, seq : Nat]
  OBVIOUS
<1>. HIDE DEF FreeSlot
<1>. DEFINE R == [state : SlotStates, seq : Nat]
<1>3. slots \in [SlotIds -> R]
  BY DEF SleepTypes
<1>4. FreeSlot \in R /\ \A n \in Nat, st \in SlotStates : [state |-> st, seq |-> n] \in R
  BY <1>1, <1>2
<1>. HIDE DEF R
<1>5. [slots EXCEPT ![i] = FreeSlot] \in [SlotIds -> R]
  BY <1>3, <1>4
<1>6. ASSUME NEW n \in Nat, NEW st \in SlotStates
      PROVE  [slots EXCEPT ![i] = [state |-> st, seq |-> n]] \in [SlotIds -> R]
  BY <1>3, <1>4
<1>7. slots[i] \in R
  BY <1>3
<1>. USE DEF R
<1>. QED
  BY <1>5, <1>6, <1>7

\* What a commit leaves alone.
CommitKeeps == UNCHANGED <<completedSeqId, completedQueue, pending, session>>

\* A commit that publishes nothing and touches nothing, and then waits or not.
LEMMA AnsweredSleeps ==
  ASSUME Places, CallTypes, FlowTypes, SleepInv, NEW c \in Clients, NEW want \in Nat,
         AfterCommit(c, want, lastCommittedSeqId, {}), c \notin parked, CommitKeeps,
         UNCHANGED <<slots, writeIndex, tape, inflight>>, UNCHANGED closed
  PROVE  ClientSleeps(c)
<1>1. completedSeqId \in Nat /\ lastCommittedSeqId \in Nat
  BY TapeNumbers
<1>2. /\ Others(c) /\ UNCHANGED stop /\ pc'["encoder"] = pc["encoder"]
      /\ parked' \subseteq parked \cup {c}
      /\ c \in parked' => ~ stop /\ pc'[c] = "seqWait" /\ ~ completedSeqId >= job'[c].target
      /\ "encoder" \in parked' => pc'[c] # "seqWait"
  BY <1>1, AfterCommitSleeps
<1>3. inflight' \in Int /\ inflight <= inflight'
  BY DEF SleepInv, SleepTypes
<1>4. slots' \in [SlotIds -> [state : SlotStates, seq : Nat]]
  BY DEF SleepInv, SleepTypes
<1>5. c \in parked' => ~ stop /\ ClientAsleep(c)'
  BY <1>2 DEF ClientAsleep, CommitKeeps
<1>. QED
  BY <1>2, <1>3, <1>4, <1>5 DEF ClientSleeps, CommitKeeps

\* An aborted empty chunk.
LEMMA EmptySleeps ==
  ASSUME Places, CallTypes, FlowTypes, FlowInv, CallInv, SleepInv, NEW c \in Clients,
         NEW want \in Nat, CommitEmpty(c, want), writingSlot # NoSlot, c \notin parked, CommitKeeps
  PROVE  ClientSleeps(c)
<1>1. completedSeqId \in Nat /\ lastCommittedSeqId \in Nat
  BY TapeNumbers
<1>2. AfterCommit(c, want, lastCommittedSeqId, EncodeWaiters) /\ UNCHANGED inflight
      /\ slots' = [slots EXCEPT ![writingSlot] = FreeSlot]
  BY DEF CommitEmpty
<1>3. /\ Others(c) /\ UNCHANGED stop /\ pc'["encoder"] = pc["encoder"]
      /\ parked' \subseteq parked \cup {c}
      /\ "encoder" \notin parked'
      /\ c \in parked' => ~ stop /\ pc'[c] = "seqWait" /\ ~ completedSeqId >= job'[c].target
  BY <1>1, <1>2, AfterCommitSleeps DEF EncodeWaiters
<1>4. inflight' \in Int /\ inflight <= inflight'
  BY <1>2 DEF SleepInv, SleepTypes
<1>5. writingSlot \in SlotIds
  BY DEF FlowTypes
<1>6. slots' \in [SlotIds -> [state : SlotStates, seq : Nat]]
  BY <1>2, <1>5, FreeSlots DEF SleepInv
<1>7. c \in parked' => ~ stop /\ ClientAsleep(c)'
  BY <1>3 DEF ClientAsleep, CommitKeeps
<1>. QED
  BY <1>3, <1>4, <1>6, <1>7, NoChunkToCommit DEF ClientSleeps, CommitKeeps

\* A published chunk: the encoder is told, and one more chunk is in flight.
LEMMA PublishSleeps ==
  ASSUME Places, CallTypes, FlowTypes, FlowInv, CallInv, SleepInv, NEW c \in Clients,
         NEW want \in Nat, CommitPublish(c, want), writingSlot # NoSlot, c \notin parked, CommitKeeps
  PROVE  ClientSleeps(c)
<1>1. completedSeqId \in Nat /\ nextSeqId \in Nat
  BY TapeNumbers
<1>2. AfterCommit(c, want, nextSeqId, EncodeWaiters) /\ inflight' = inflight + 1
      /\ slots' = [slots EXCEPT ![writingSlot] = [state |-> "Pending", seq |-> nextSeqId]]
  BY DEF CommitPublish, Publish
<1>3. /\ Others(c) /\ UNCHANGED stop /\ pc'["encoder"] = pc["encoder"]
      /\ parked' \subseteq parked \cup {c}
      /\ "encoder" \notin parked'
      /\ c \in parked' => ~ stop /\ pc'[c] = "seqWait" /\ ~ completedSeqId >= job'[c].target
  BY <1>1, <1>2, AfterCommitSleeps DEF EncodeWaiters
<1>4. inflight' \in Int /\ inflight <= inflight'
  BY <1>2 DEF SleepInv, SleepTypes
<1>5. writingSlot \in SlotIds /\ "Pending" \in SlotStates
  BY DEF FlowTypes, SlotStates
<1>6. slots' \in [SlotIds -> [state : SlotStates, seq : Nat]]
  BY <1>1, <1>2, <1>5, FreeSlots DEF SleepInv
<1>7. c \in parked' => ~ stop /\ ClientAsleep(c)'
  BY <1>3 DEF ClientAsleep, CommitKeeps
<1>. QED
  BY <1>3, <1>4, <1>6, <1>7, NoChunkToCommit DEF ClientSleeps, CommitKeeps

\* A refused query binding stops the queue and wakes everyone.
LEMMA UnboundSleeps ==
  ASSUME FlowTypes, SleepInv, NEW c \in Clients, CommitUnbound(c), writingSlot # NoSlot
  PROVE  SleepInv'
<1>1. nextSeqId \in Nat /\ writingSlot \in SlotIds /\ "Pending" \in SlotStates
  BY TapeNumbers DEF FlowTypes, SlotStates
<1>2. slots' = [slots EXCEPT ![writingSlot] = [state |-> "Pending", seq |-> nextSeqId]]
      /\ inflight' = inflight + 1 /\ parked' = {}
  BY StoppedAwake DEF CommitUnbound, Publish, Poison
<1>3. slots' \in [SlotIds -> [state : SlotStates, seq : Nat]]
  BY <1>1, <1>2, FreeSlots DEF SleepInv
<1>4. SleepTypes'
  BY <1>2, <1>3 DEF SleepInv, SleepTypes
<1>. QED
  BY <1>2, <1>4, NobodySleeps

\* At the inflight cap the client itself falls asleep.
LEMMA CapSleeps ==
  ASSUME Places, CallTypes, SleepInv, CallInv, NEW c \in Clients, NEW want \in Nat,
         CommitSleep(c, want), writingSlot # NoSlot, CommitKeeps
  PROVE  ClientSleeps(c)
<1>1. pc \in [Clients \cup Workers -> Labels] /\ job \in [Clients -> JobType]
  BY DEF Places, CallTypes
<1>2. c # "encoder" /\ c \in Clients \cup Workers
  BY DEF Clients
<1>3. /\ pc' = [pc EXCEPT ![c] = "commitWait"]
      /\ \E j : job' = [job EXCEPT ![c] = j]
      /\ UNCHANGED <<slots, writeIndex, tape, closed, inflight, stop>>
      /\ parked' = parked \cup {c} /\ ~ stop /\ ~ CommitRoom
  BY DEF CommitSleep, Wake, ringVars, tapeVars
<1>4. Others(c) /\ pc'["encoder"] = pc["encoder"] /\ pc'[c] = "commitWait"
  BY <1>1, <1>2, <1>3 DEF Others
<1>5. ClientAsleep(c)'
  BY <1>3, <1>4 DEF ClientAsleep, CommitRoom
<1>6. inflight' \in Int /\ inflight <= inflight'
  BY <1>3 DEF SleepInv, SleepTypes
<1>7. slots' \in [SlotIds -> [state : SlotStates, seq : Nat]]
  BY <1>3 DEF SleepInv, SleepTypes
<1>. QED
  BY <1>3, <1>4, <1>5, <1>6, <1>7 DEF ClientSleeps, CommitKeeps

\* A commit as a whole.
LEMMA CommitSleeps ==
  ASSUME FlowInv, FlowInv', CallInv, SleepInv, NEW c \in Clients, NEW want \in Nat,
         CommitCurrentChunk(c, want), pc[c] = "run", CommitKeeps
  PROVE  SleepInv'
<1>1. c \notin parked
  BY AwakeAt
<1>2. Places /\ CallTypes /\ FlowTypes
  BY DEF FlowInv, CallInv
<1>3. CASE /\ AfterCommit(c, want, lastCommittedSeqId, {})
           /\ UNCHANGED <<ringVars, tapeVars, inflight>>
  <2>1. UNCHANGED <<slots, writeIndex, tape, inflight>> /\ UNCHANGED closed
    BY <1>3 DEF ringVars, tapeVars
  <2>. QED
    BY <1>1, <1>2, <1>3, <2>1, AnsweredSleeps, ClientSleepsOn
<1>4. CASE writingSlot # NoSlot /\ CommitEmpty(c, want)
  BY <1>1, <1>2, <1>4, EmptySleeps, ClientSleepsOn
<1>5. CASE writingSlot # NoSlot /\ CommitSleep(c, want)
  BY <1>2, <1>5, CapSleeps, ClientSleepsOn
<1>6. CASE writingSlot # NoSlot /\ CommitPublish(c, want)
  BY <1>1, <1>2, <1>6, PublishSleeps, ClientSleepsOn
<1>7. CASE writingSlot # NoSlot /\ CommitUnbound(c)
  BY <1>2, <1>7, UnboundSleeps
<1>. QED
  BY <1>3, <1>4, <1>5, <1>6, <1>7 DEF CommitCurrentChunk

\* A client's commitCurrentChunk, whatever it finds.
LEMMA CommitActionSleeps ==
  ASSUME FlowInv, FlowInv', CallInv, SleepInv, NEW want \in {0, Everything}, Commit(want)
  PROVE  SleepInv'
<1>1. want \in Nat
  BY Sizes
<1>2. "writer" \in Clients /\ CommitKeeps
  BY DEF Commit, Clients, CommitKeeps, doneVars, gpuVars, encodeVars
<1>. QED
  BY <1>1, <1>2, CommitSleeps DEF Commit

\* A mapper that reads the buffer's last sequence and waits for it.
LEMMA MapSleeps ==
  ASSUME FlowInv, FlowInv', CallInv, SleepInv, Map
  PROVE  SleepInv'
<1>1. lastUsed \in Nat /\ "mapper" \in Clients /\ pc["mapper"] = "run" /\ CommitKeeps
  BY DEF Map, CallInv, CallTypes, Clients, CommitKeeps, doneVars, gpuVars, encodeVars
<1>2. CASE CommitCurrentChunk("mapper", lastUsed)
  BY <1>1, <1>2, CommitSleeps
<1>3. CASE /\ AfterCommit("mapper", lastUsed, lastCommittedSeqId, {})
           /\ UNCHANGED <<ringVars, tapeVars, inflight>>
  <2>1. UNCHANGED <<slots, writeIndex, tape, inflight>> /\ UNCHANGED closed
    BY <1>3 DEF ringVars, tapeVars
  <2>2. "mapper" \notin parked
    BY <1>1, AwakeAt
  <2>3. Places /\ CallTypes /\ FlowTypes
    BY DEF FlowInv, CallInv
  <2>. QED
    BY <1>1, <1>3, <2>1, <2>2, <2>3, AnsweredSleeps, ClientSleepsOn
<1>. QED
  BY <1>2, <1>3 DEF Map

\* A client that was woken at the inflight cap.
LEMMA CommitWakeSleeps ==
  ASSUME FlowInv, FlowInv', CallInv, SleepInv, NEW c \in Clients, CommitWake(c)
  PROVE  SleepInv'
<1>1. /\ pc[c] = "commitWait" /\ c \notin parked /\ CommitKeeps /\ UNCHANGED closed
  BY DEF CommitWake, CommitKeeps, doneVars, gpuVars, encodeVars
<1>2. Places /\ CallTypes /\ FlowTypes /\ job[c].want \in Nat
  BY DEF FlowInv, CallInv, CallTypes, JobType
<1>3. CASE /\ ~ stop /\ ~ CommitRoom /\ Wake({}, {c})
           /\ UNCHANGED <<ringVars, tape, inflight, pc, job>>
  <2>1. /\ parked' = parked \cup {c} /\ UNCHANGED stop
        /\ UNCHANGED <<slots, writeIndex, tape, inflight, pc, job>>
    BY <1>3 DEF Wake, ringVars
  <2>2. Others(c) /\ pc'["encoder"] = pc["encoder"] /\ pc'[c] = "commitWait"
    BY <1>1, <2>1 DEF Others
  <2>3. ClientAsleep(c)'
    BY <1>3, <2>1, <2>2 DEF ClientAsleep, CommitRoom
  <2>4. inflight' \in Int /\ inflight <= inflight'
    BY <2>1 DEF SleepInv, SleepTypes
  <2>5. slots' \in [SlotIds -> [state : SlotStates, seq : Nat]]
    BY <2>1 DEF SleepInv, SleepTypes
  <2>6. ClientSleeps(c)
    BY <1>1, <1>3, <2>1, <2>2, <2>3, <2>4, <2>5 DEF ClientSleeps, CommitKeeps
  <2>. QED
    BY <2>6, ClientSleepsOn
<1>4. CASE /\ AfterCommit(c, job[c].want, lastCommittedSeqId, {})
           /\ UNCHANGED <<ringVars, tape, inflight>>
  <2>1. UNCHANGED <<slots, writeIndex, tape, inflight>>
    BY <1>4 DEF ringVars
  <2>. QED
    BY <1>1, <1>2, <1>4, <2>1, AnsweredSleeps, ClientSleepsOn
<1>5. CASE ~ CommitRefused(c) /\ (CommitPublish(c, job[c].want) \/ CommitUnbound(c))
  <2>1. writingSlot # NoSlot
    BY <1>1, <1>5 DEF CommitRefused, CallInv, CallOf
  <2>. QED
    BY <1>1, <1>2, <1>5, <2>1, PublishSleeps, UnboundSleeps, ClientSleepsOn
<1>. QED
  BY <1>3, <1>4, <1>5 DEF CommitWake

\* A client that was woken in waitForSequence.
LEMMA SequenceWakeSleeps ==
  ASSUME FlowInv, FlowInv', CallInv, SleepInv, NEW c \in Clients, SequenceWake(c)
  PROVE  SleepInv'
<1>1. /\ pc[c] = "seqWait" /\ c \notin parked /\ CommitKeeps
      /\ UNCHANGED <<closed, slots, writeIndex, tape, inflight>>
  BY DEF SequenceWake, CommitKeeps, doneVars, gpuVars, encodeVars, ringVars, tapeVars
<1>2. pc \in [Clients \cup Workers -> Labels] /\ job \in [Clients -> JobType]
      /\ c # "encoder" /\ c \in Clients \cup Workers
  BY DEF FlowInv, Places, CallInv, CallTypes, Clients
<1>3. inflight' \in Int /\ inflight <= inflight'
  BY <1>1 DEF SleepInv, SleepTypes
<1>4. slots' \in [SlotIds -> [state : SlotStates, seq : Nat]]
  BY <1>1 DEF SleepInv, SleepTypes
<1>5. CASE stop \/ completedSeqId >= job[c].target
  <2>1. /\ pc' = [pc EXCEPT ![c] = Returned(c)] /\ job' = [job EXCEPT ![c] = NoJob]
        /\ UNCHANGED <<stop, parked>>
    BY <1>5 DEF SequenceWake
  <2>2. Others(c) /\ pc'["encoder"] = pc["encoder"]
    BY <1>2, <2>1 DEF Others
  <2>3. ClientSleeps(c)
    BY <1>1, <1>3, <1>4, <2>1, <2>2 DEF ClientSleeps, CommitKeeps
  <2>. QED
    BY <2>3, ClientSleepsOn
<1>6. CASE ~ (stop \/ completedSeqId >= job[c].target)
  <2>1. UNCHANGED <<pc, job, stop>> /\ parked' = parked \cup {c}
    BY <1>6 DEF SequenceWake, Wake
  <2>2. ClientAsleep(c)'
    BY <1>1, <1>6, <2>1 DEF ClientAsleep, CommitKeeps
  <2>3. ClientSleeps(c)
    BY <1>1, <1>3, <1>4, <1>6, <2>1, <2>2 DEF ClientSleeps, CommitKeeps, Others
  <2>. QED
    BY <2>3, ClientSleepsOn
<1>. QED
  BY <1>5, <1>6

\* A mapper that ends its call.
LEMMA UnmapSleeps ==
  ASSUME FlowInv, FlowInv', CallInv, SleepInv, Unmap
  PROVE  SleepInv'
<1>1. /\ pc["mapper"] = "mapped" /\ pc' = [pc EXCEPT !["mapper"] = "run"]
      /\ UNCHANGED <<job, stop, parked, inflight, slots, writeIndex, tape, closed>>
      /\ CommitKeeps
  BY DEF Unmap, CommitKeeps, doneVars, gpuVars, encodeVars, ringVars, tapeVars
<1>2. "mapper" \in Clients /\ "mapper" \notin parked
  BY <1>1, AwakeAt DEF Clients
<1>3. pc \in [Clients \cup Workers -> Labels]
  BY DEF FlowInv, Places
<1>4. Others("mapper") /\ pc'["encoder"] = pc["encoder"] /\ pc'["mapper"] = "run"
  BY <1>1, <1>2, <1>3 DEF Others
<1>5. inflight' \in Int /\ inflight <= inflight'
  BY <1>1 DEF SleepInv, SleepTypes
<1>6. slots' \in [SlotIds -> [state : SlotStates, seq : Nat]]
  BY <1>1 DEF SleepInv, SleepTypes
<1>7. ClientSleeps("mapper")
  BY <1>1, <1>2, <1>4, <1>5, <1>6 DEF ClientSleeps, CommitKeeps
<1>. QED
  BY <1>2, <1>7, ClientSleepsOn

\* Drawing: the producer opens a chunk or sleeps for want of room.
LEMMA DrawsSleep ==
  ASSUME FlowInv, FlowInv', CallInv, SleepInv, Draws
  PROVE  SleepInv'
<1>1. /\ UNCHANGED <<completedSeqId, job, stop>> /\ Others("writer")
      /\ pc["writer"] \in {"run", "ensureWait"} /\ pc'["writer"] \in {"run", "ensureWait", "undefined"}
  BY DrawsEffect
<1>2. CommitKeeps /\ UNCHANGED inflight /\ "writer" \in Clients
  BY DEF Draws, AppendOpen, Mark, EnsureStep, EnsureAcquire, EnsureWait, EnsureStopped,
         CommitKeeps, doneVars, gpuVars, encodeVars, Clients
<1>3. pc'["encoder"] = pc["encoder"]
  <2>1. UNCHANGED pc \/ \E l : pc' = [pc EXCEPT !["writer"] = l]
    BY DEF Draws, AppendOpen, Mark, EnsureStep, EnsureAcquire, EnsureWait, EnsureStopped
  <2>2. pc \in [Clients \cup Workers -> Labels]
    BY DEF FlowInv, Places
  <2>. QED
    BY <2>1, <2>2 DEF Workers
<1>4. inflight' \in Int /\ inflight <= inflight'
  BY <1>2 DEF SleepInv, SleepTypes
<1>5. writeIndex \in SlotIds /\ tape \in Seq(EntryType)
  BY DEF FlowInv, FlowTypes
<1>6. slots' \in [SlotIds -> [state : SlotStates, seq : Nat]]
  <2>1. CASE UNCHANGED slots
    BY <2>1 DEF SleepInv, SleepTypes
  <2>2. CASE slots' = [slots EXCEPT ![writeIndex] = [state |-> "Writing", seq |-> 0]]
    BY <1>5, <2>2, FreeSlots DEF SleepInv, SlotStates
  <2>. QED
    BY <2>1, <2>2 DEF Draws, AppendOpen, Mark, EnsureStep, EnsureAcquire, EnsureWait,
                      EnsureStopped, ringVars
<1>7. NoReady(tape) => NoReady(tape')
  <2>1. CASE UNCHANGED tape
    BY <2>1 DEF NoReady
  <2>2. ASSUME NEW e \in EntryType, e.state = "Writing", tape' = Append(tape, e)
        PROVE  NoReady(tape) => NoReady(tape')
    <3>1. /\ Len(tape') = Len(tape) + 1 /\ tape'[Len(tape) + 1] = e
          /\ \A i \in 1..Len(tape) : tape'[i] = tape[i]
      BY <1>5, <2>2, AppendEffect
    <3>2. Len(tape) \in Nat
      BY <1>5, EntryParts
    <3>. QED
      BY <2>2, <3>1, <3>2 DEF NoReady
  <2>3. [seq |-> 0, slot |-> writeIndex, state |-> "Writing", bound |-> FALSE] \in EntryType
    BY <1>5 DEF EntryType, TapeStates
  <2>. QED
    BY <2>1, <2>2, <2>3 DEF Draws, AppendOpen, Mark, EnsureStep, EnsureAcquire, EnsureWait,
                      EnsureStopped, ringVars, tapeVars
<1>8. CASE EnsureWait
  <2>1. /\ parked' = parked \cup {"writer"} /\ ~ stop /\ NoRoom
        /\ UNCHANGED <<tape, slots, writeIndex>>
        /\ closed' = (closed \/ ReadyReservations(tape) >= HighWaterReady)
    BY <1>8 DEF EnsureWait, Wake, NoRoom, ringVars
  <2>2. pc'["writer"] = "ensureWait"
    BY <1>8 DEF EnsureWait, FlowInv, Places, Clients
  <2>3. closed => closed'
    BY <2>1
  <2>4. UNCHANGED <<tape, slots, writeIndex>> /\ NoRoom
    BY <2>1
  <2>5. NoRoom'
    BY <2>3, <2>4 DEF NoRoom, ProbeReady, ReadyReservations
  <2>6. ClientAsleep("writer")'
    BY <2>2, <2>5 DEF ClientAsleep
  <2>7. ClientSleeps("writer")
    BY <1>1, <1>2, <1>3, <1>4, <1>6, <1>7, <2>1, <2>2, <2>6 DEF ClientSleeps, CommitKeeps
  <2>. QED
    BY <1>2, <2>7, ClientSleepsOn
<1>9. CASE ~ EnsureWait
  <2>1. UNCHANGED parked
    BY <1>9 DEF Draws, AppendOpen, Mark, EnsureStep, EnsureAcquire, EnsureStopped
  <2>2. pc["writer"] = "run" \/ "writer" \notin parked
    BY <1>9 DEF Draws, AppendOpen, Mark, EnsureStep, EnsureAcquire, EnsureStopped, InEnsureLoop
  <2>3. "writer" \notin parked
    BY <1>2, <2>2, AwakeAt
  <2>4. ClientSleeps("writer")
    BY <1>1, <1>2, <1>3, <1>4, <1>6, <1>7, <2>1, <2>3 DEF ClientSleeps, CommitKeeps
  <2>. QED
    BY <1>2, <2>4, ClientSleepsOn
<1>. QED
  BY <1>8, <1>9

\* Whatever a client does, whoever sleeps has nothing to do.
LEMMA ClientStepSleeps ==
  ASSUME FlowInv, FlowInv', CallInv, SleepInv, ClientStep
  PROVE  SleepInv'
<1>1. CASE Draws
  BY <1>1, DrawsSleep
<1>2. CASE \E want \in {0, Everything} : Commit(want)
  BY <1>2, CommitActionSleeps
<1>3. CASE Map
  BY <1>3, MapSleeps
<1>4. CASE Unmap
  BY <1>4, UnmapSleeps
<1>5. CASE \E c \in Clients : ClientWakes(c)
  BY <1>5, CommitWakeSleeps, SequenceWakeSleeps DEF ClientWakes
<1>. QED
  BY <1>1, <1>2, <1>3, <1>4, <1>5 DEF ClientStep, Draws

\* What a worker's step does not take from the clients that go on sleeping: those
\* that wait for room are woken or find none.
RoomQuiet ==
  \/ \A c \in Clients : c \in parked' => pc[c] \notin {"ensureWait", "commitWait"}
  \/ /\ UNCHANGED inflight
     /\ pc'["encoder"] = "inline" \/ (pc["encoder"] # "inline" /\ (NoRoom => NoRoom'))

\* No sequence that a client waits for has completed unannounced.
SequenceQuiet ==
  \/ UNCHANGED completedSeqId
  \/ \A c \in Clients : c \in parked' => pc[c] # "seqWait"

\* A worker's step: no client falls asleep, and a worker that sleeps is idle.
WorkerSleeps ==
  /\ SleepTypes' /\ ClientsStay /\ UNCHANGED stop
  /\ \A c \in Clients : c \in parked' => c \in parked
  /\ parked' # {} => ~ stop
  /\ RoomQuiet /\ SequenceQuiet
  /\ "encoder" \in parked' => EncoderIdle'
  /\ "watcher" \in parked' => pending' = <<>>
  /\ "finish" \in parked' => completedQueue' = <<>>

\* A worker's step that is quiet about room and sequences keeps the sleepers asleep rightly.
LEMMA WorkerSleepsOn ==
  ASSUME SleepInv, WorkerSleeps
  PROVE  SleepInv'
<1>1. ASSUME NEW c \in Clients, c \in parked' PROVE ClientAsleep(c)'
  <2>1. c \in parked /\ ClientAsleep(c) /\ pc'[c] = pc[c] /\ job'[c] = job[c]
    BY <1>1 DEF SleepInv, WorkerSleeps, ClientsStay
  <2>2. CASE pc[c] = "commitWait" /\ ~ CommitRoom
    <3>1. UNCHANGED inflight
      BY <1>1, <2>2 DEF WorkerSleeps, RoomQuiet
    <3>. QED
      BY <2>1, <2>2, <3>1 DEF ClientAsleep, CommitRoom
  <2>3. CASE pc[c] = "seqWait" /\ ~ completedSeqId >= job[c].target
    <3>1. UNCHANGED completedSeqId
      BY <1>1, <2>3 DEF WorkerSleeps, SequenceQuiet
    <3>. QED
      BY <2>1, <2>3, <3>1 DEF ClientAsleep
  <2>4. CASE c = "writer" /\ pc[c] = "ensureWait" /\ (pc["encoder"] = "inline" \/ NoRoom)
    <3>1. pc'["encoder"] = "inline" \/ NoRoom'
      BY <1>1, <2>4 DEF WorkerSleeps, RoomQuiet
    <3>. QED
      BY <2>1, <2>4, <3>1 DEF ClientAsleep
  <2>. QED
    BY <2>1, <2>2, <2>3, <2>4 DEF ClientAsleep
<1>. QED
  BY <1>1 DEF SleepInv, WorkerSleeps

\* The slots keep their type when those of some sources change state.
LEMMA SlotsMoved ==
  ASSUME SleepTypes, NEW T, NEW st \in SlotStates
  PROVE  /\ [i \in SlotIds |-> IF i \in T THEN [slots[i] EXCEPT !.state = st] ELSE slots[i]]
              \in [SlotIds -> [state : SlotStates, seq : Nat]]
         /\ [i \in SlotIds |-> IF i \in T THEN FreeSlot ELSE slots[i]]
              \in [SlotIds -> [state : SlotStates, seq : Nat]]
<1>1. FreeSlot \in [state : SlotStates, seq : Nat]
  BY DEF FreeSlot, SlotStates
<1>2. ASSUME NEW i \in SlotIds
      PROVE  /\ slots[i] \in [state : SlotStates, seq : Nat]
             /\ [slots[i] EXCEPT !.state = st] \in [state : SlotStates, seq : Nat]
  BY DEF SleepTypes
<1>. HIDE DEF FreeSlot
<1>. QED
  BY <1>1, <1>2

\* Sleepers of a step that only wakes.
LEMMA OnlyWoken ==
  ASSUME NEW woken, Wake(woken, {}), SleepInv
  PROVE  /\ parked' = parked \ woken /\ UNCHANGED stop /\ parked' \subseteq parked
         /\ parked' # {} => ~ stop
         /\ parked' \subseteq Clients \cup Workers
BY DEF Wake, SleepInv, SleepTypes

\* The encoder is awake during its own steps.
EncoderAwake == "encoder" \notin parked'

\* An encoder step that hands nothing to the watcher or the finish thread.
LEMMA EncoderSleepsOn ==
  ASSUME SleepInv, SleepTypes', ClientsStay, UNCHANGED <<stop, completedSeqId>>,
         parked' \subseteq parked, EncoderAwake, RoomQuiet,
         UNCHANGED pending \/ "watcher" \notin parked',
         UNCHANGED completedQueue \/ "finish" \notin parked'
  PROVE  SleepInv'
<1>1. parked' # {} => ~ stop
  BY DEF SleepInv
<1>2. \A c \in Clients : c \in parked' => c \in parked
  OBVIOUS
<1>3. "watcher" \in parked' => pending' = <<>>
  BY DEF SleepInv
<1>4. "finish" \in parked' => completedQueue' = <<>>
  BY DEF SleepInv
<1>5. WorkerSleeps
  BY <1>1, <1>2, <1>3, <1>4 DEF WorkerSleeps, SequenceQuiet, EncoderAwake
<1>. QED
  BY <1>5, WorkerSleepsOn

\* A step that moves no resident in or out of the waiting part leaves as little
\* room as there was.
LEMMA NoMoreRoom ==
  ASSUME FlowTypes, UNCHANGED <<closed, writeIndex>>,
         tape' \in Seq(EntryType), Len(tape') = Len(tape),
         \A i \in 1..Len(tape) : tape'[i].state \in {"Writing", "Ready", "Tentative"}
                                   <=> tape[i].state \in {"Writing", "Ready", "Tentative"},
         slots'[writeIndex].state = "Free" => slots[writeIndex].state = "Free",
         NoRoom
  PROVE  NoRoom'
<1> DEFINE u == tape'
<1>1. tape \in Seq(EntryType) /\ u \in Seq(EntryType) /\ Len(u) = Len(tape)
  BY DEF FlowTypes
<1>2. \A i \in 1..Len(tape) : u[i].state \in {"Writing", "Ready", "Tentative"}
                                <=> tape[i].state \in {"Writing", "Ready", "Tentative"}
  OBVIOUS
<1> HIDE DEF u
<1>3. ReadyReservations(u) = ReadyReservations(tape)
  BY <1>1, <1>2, SameReservations
<1>4. ReadyReservations(tape)' = ReadyReservations(tape)
  BY <1>3 DEF u, ReadyReservations
<1>5. ProbeReady' => ProbeReady
  BY <1>1, <1>4 DEF ProbeReady, HighWaterReady, HighWaterSources, u
<1>. QED
  BY <1>5 DEF NoRoom

\* A poison wakes everyone.
LEMMA PoisonSleeps ==
  ASSUME SleepInv, NEW origin, Poison(origin), UNCHANGED <<slots, inflight>>
  PROVE  SleepInv'
<1>1. parked' = {}
  BY StoppedAwake DEF Poison
<1>2. SleepTypes'
  BY <1>1 DEF SleepInv, SleepTypes
<1>. QED
  BY <1>1, <1>2, NobodySleeps

\* The encoder takes sources from the tape: the producer is told.
LEMMA RepresentSleeps ==
  ASSUME SleepInv, ClientsStay, "encoder" \notin parked, NEW p, Represent(p)
  PROVE  SleepInv'
<1>1. /\ UNCHANGED <<inflight, completedSeqId, completedQueue, pending>>
      /\ Wake(WriteWaiters, {})
      /\ slots' = [i \in SlotIds |->
           IF \E e \in ToSet(p) : e.slot = i
           THEN [slots[i] EXCEPT !.state = "Encoding"] ELSE slots[i]]
  BY DEF Represent, doneVars, gpuVars
<1>2. parked' = parked \ WriteWaiters /\ UNCHANGED stop
  BY <1>1, OnlyWoken
<1> DEFINE T == {i \in SlotIds : \E e \in ToSet(p) : e.slot = i}
<1>3. slots' = [i \in SlotIds |-> IF i \in T THEN [slots[i] EXCEPT !.state = "Encoding"]
                                  ELSE slots[i]]
  BY <1>1
<1> HIDE DEF T
<1>4. slots' \in [SlotIds -> [state : SlotStates, seq : Nat]]
  BY <1>3, SlotsMoved DEF SleepInv, SlotStates
<1>5. SleepTypes'
  BY <1>1, <1>2, <1>4 DEF SleepInv, SleepTypes
<1>6. RoomQuiet
  BY <1>2 DEF RoomQuiet, WriteWaiters
<1>7. EncoderAwake /\ parked' \subseteq parked
  BY <1>2 DEF EncoderAwake
<1>. QED
  BY <1>1, <1>2, <1>5, <1>6, <1>7, EncoderSleepsOn

\* Sources that go back and forth between Ready and Tentative take as much room.
LEMMA ReserveSleeps ==
  ASSUME FlowInv, FlowInv', SleepInv, ClientsStay, NEW n \in 1..SlotCount, ReservePrefix(n)
  PROVE  SleepInv'
<1>1. /\ EncoderAt("wait") /\ tape' = Moved(tape, Seqs(SubSeq(Ready, 1, n)), "Tentative")
      /\ UNCHANGED <<slots, writeIndex, closed, inflight, completedSeqId, completedQueue,
                     pending, stop, parked>>
  BY DEF ReservePrefix, ringVars, doneVars, gpuVars
<1> DEFINE q == Seqs(SubSeq(Ready, 1, n))
<1>2. \A i \in 1..Len(tape) : tape[i].seq \in q => tape[i].state = "Ready"
  <2>1. PICK a \in 1..Len(tape) :
          /\ Together(SubSeq(Ready, 1, n), a, n)
          /\ \A i \in 1..Len(tape) : a <= i /\ i <= a + n - 1 => tape[i].state = "Ready"
    BY ReserveEffect
  <2>. QED
    BY <2>1, TogetherSeqs
<1>. HIDE DEF q
<1>3. tape' = Moved(tape, q, "Tentative")
  BY <1>1 DEF q
<1>4. tape \in Seq(EntryType) /\ FlowTypes /\ "Tentative" \in TapeStates
  BY DEF FlowInv, FlowTypes, TapeStates
<1> DEFINE u == Moved(tape, q, "Tentative")
<1>5. /\ u \in Seq(EntryType) /\ Len(u) = Len(tape)
      /\ \A i \in 1..Len(tape) :
           /\ tape[i].seq \in q => u[i].state = "Tentative"
           /\ tape[i].seq \notin q => u[i] = tape[i]
  BY <1>4, MovedEffect
<1>6. tape' = u
  BY <1>3
<1> HIDE DEF u
<1>7. \A i \in 1..Len(tape) : u[i].state \in {"Writing", "Ready", "Tentative"}
                                <=> tape[i].state \in {"Writing", "Ready", "Tentative"}
  BY <1>2, <1>5
<1>8. NoRoom => NoRoom'
  BY <1>1, <1>4, <1>5, <1>6, <1>7, NoMoreRoom
<1>9. RoomQuiet
  BY <1>1, <1>8 DEF RoomQuiet, EncoderAt
<1>10. SleepTypes' /\ EncoderAwake /\ parked' \subseteq parked
  BY <1>1 DEF SleepInv, SleepTypes, EncoderAwake, EncoderAt
<1>. QED
  BY <1>1, <1>9, <1>10, EncoderSleepsOn

\* A session handed back: its sources are Ready again and the encoder is awake.
LEMMA RestoreSleeps ==
  ASSUME FlowInv, FlowInv', SleepInv, ClientsStay, RestorePrefix
  PROVE  SleepInv'
<1>1. /\ EncoderAt("window") /\ tape' = Moved(tape, Seqs(Tentative), "Ready")
      /\ Wake(EncodeWaiters, {})
      /\ UNCHANGED <<slots, writeIndex, closed, inflight, completedSeqId, completedQueue,
                     pending>>
  BY DEF RestorePrefix, ringVars, doneVars, gpuVars
<1>2. parked' = parked \ EncodeWaiters /\ UNCHANGED stop
  BY <1>1, OnlyWoken
<1> DEFINE q == Seqs(Tentative)
<1>3. \A i \in 1..Len(tape) : tape[i].seq \in q => tape[i].state = "Tentative"
  <2>1. PICK a \in 1..Len(tape) :
          /\ Together(Tentative, a, Len(Tentative))
          /\ \A i \in 1..Len(tape) :
               a <= i /\ i <= a + Len(Tentative) - 1 <=> tape[i].state = "Tentative"
    BY <1>1, TentativeEffect DEF EncoderAt
  <2> DEFINE n == Len(Tentative)
             p == Tentative
  <2>2. /\ Together(p, a, n)
        /\ \A i \in 1..Len(tape) : a <= i /\ i <= a + n - 1 <=> tape[i].state = "Tentative"
    BY <2>1
  <2> HIDE DEF n, p
  <2>3. \A i \in 1..Len(tape) : tape[i].seq \in Seqs(p) => tape[i].state = "Tentative"
    BY <2>2, TogetherSeqs
  <2>. QED
    BY <2>3 DEF p
<1>. HIDE DEF q
<1>4. tape' = Moved(tape, q, "Ready")
  BY <1>1 DEF q
<1>5. tape \in Seq(EntryType) /\ FlowTypes
  BY DEF FlowInv, FlowTypes
<1> DEFINE u == Moved(tape, q, "Ready")
<1>6. /\ u \in Seq(EntryType) /\ Len(u) = Len(tape)
      /\ \A i \in 1..Len(tape) :
           /\ tape[i].seq \in q => u[i].state = "Ready"
           /\ tape[i].seq \notin q => u[i] = tape[i]
  BY <1>5, MovedEffect DEF TapeStates
<1>7. tape' = u
  BY <1>4
<1> HIDE DEF u
<1>8. \A i \in 1..Len(tape) : u[i].state \in {"Writing", "Ready", "Tentative"}
                                <=> tape[i].state \in {"Writing", "Ready", "Tentative"}
  BY <1>3, <1>6
<1>9. NoRoom => NoRoom'
  BY <1>1, <1>5, <1>6, <1>7, <1>8, NoMoreRoom
<1>10. RoomQuiet
  BY <1>1, <1>9 DEF RoomQuiet, EncoderAt
<1>11. SleepTypes' /\ EncoderAwake /\ parked' \subseteq parked
  BY <1>1, <1>2 DEF SleepInv, SleepTypes, EncoderAwake, EncodeWaiters
<1>. QED
  BY <1>1, <1>2, <1>10, <1>11, EncoderSleepsOn

\* A submission tells the producer and the watcher.
LEMMA SubmitSleeps ==
  ASSUME SleepInv, ClientsStay, "encoder" \notin parked, NEW s, Submit(s)
  PROVE  SleepInv'
<1>1. /\ UNCHANGED <<inflight, completedSeqId, completedQueue>>
      /\ Wake(WriteWaiters \cup PendingWaiters, {})
      /\ slots' = [i \in SlotIds |->
           IF \E x \in Resident(s) : x.slot = i THEN FreeSlot ELSE slots[i]]
  BY DEF Submit, HandOver, doneVars
<1>2. parked' = parked \ (WriteWaiters \cup PendingWaiters) /\ UNCHANGED stop
  BY <1>1, OnlyWoken
<1> DEFINE T == {i \in SlotIds : \E x \in Resident(s) : x.slot = i}
<1>3. slots' = [i \in SlotIds |-> IF i \in T THEN FreeSlot ELSE slots[i]]
  BY <1>1
<1> HIDE DEF T
<1>4. slots' \in [SlotIds -> [state : SlotStates, seq : Nat]]
  BY <1>3, SlotsMoved DEF SleepInv, SlotStates
<1>5. SleepTypes'
  BY <1>1, <1>2, <1>4 DEF SleepInv, SleepTypes
<1>6. RoomQuiet
  BY <1>2 DEF RoomQuiet, WriteWaiters
<1>7. EncoderAwake /\ parked' \subseteq parked /\ "watcher" \notin parked'
  BY <1>2 DEF EncoderAwake, PendingWaiters
<1>. QED
  BY <1>1, <1>2, <1>5, <1>6, <1>7, EncoderSleepsOn

\* A refused submission is a poison.
LEMMA RefusedSleeps ==
  ASSUME SleepInv, NEW s, SubmitRefused(s)
  PROVE  SleepInv'
BY PoisonSleeps DEF SubmitRefused, ringVars

\* The batch's first source names a slot.
LEMMA HeadSlot ==
  ASSUME FlowInv, pc["encoder"] \in {"encode", "inline", "retire"}
  PROVE  Head(batch) \in SourceType /\ Head(batch).slot \in SlotIds
BY BatchHead DEF SourceType

\* A retiring source has left the waiting part of the tape before, and its slot is
\* not free yet.
LEMMA RetireBeginSleeps ==
  ASSUME FlowInv, FlowInv', SleepInv, ClientsStay, RetireBegin
  PROVE  SleepInv'
<1> DEFINE x == Head(batch)
<1>1. /\ EncoderAt("encode") /\ IsHead(x.seq, "Represented")
      /\ tape' = Moved(tape, {x.seq}, "Reclaiming")
      /\ slots' = [slots EXCEPT ![x.slot].state = "Retiring"]
      /\ UNCHANGED <<writeIndex, closed, inflight, completedSeqId, completedQueue,
                     pending, stop, parked>>
  BY DEF RetireBegin, doneVars, gpuVars
<1>2. x.slot \in SlotIds
  BY <1>1, HeadSlot DEF EncoderAt
<1>3. tape \in Seq(EntryType) /\ FlowTypes /\ TapeOrdered /\ writeIndex \in SlotIds
  BY DEF FlowInv, FlowTypes
<1>4. tape # <<>> /\ tape[1].seq = x.seq /\ tape[1].state = "Represented" /\ 1 \in 1..Len(tape)
  BY <1>1, <1>3, TailEffect DEF IsHead
<1>5. \A i \in 1..Len(tape) : tape[i].seq \in {x.seq} => tape[i].state = "Represented"
  BY <1>3, <1>4, StagedDistinct DEF TapeOrdered
<1> DEFINE q == {x.seq}
           u == Moved(tape, q, "Reclaiming")
<1>6. /\ u \in Seq(EntryType) /\ Len(u) = Len(tape)
      /\ \A i \in 1..Len(tape) :
           /\ tape[i].seq \in q => u[i].state = "Reclaiming"
           /\ tape[i].seq \notin q => u[i] = tape[i]
  BY <1>3, MovedEffect DEF TapeStates
<1>7. tape' = u /\ \A i \in 1..Len(tape) : tape[i].seq \in q => tape[i].state = "Represented"
  BY <1>1, <1>5
<1>8. slots \in [SlotIds -> [state : SlotStates, seq : Nat]]
  BY DEF SleepInv, SleepTypes
<1>9. slots[x.slot] \in [state : SlotStates, seq : Nat]
  BY <1>2, <1>8
<1>10. slots' = [slots EXCEPT ![x.slot] = [slots[x.slot] EXCEPT !.state = "Retiring"]]
  BY <1>1
<1>11. [slots[x.slot] EXCEPT !.state = "Retiring"] \in [state : SlotStates, seq : Nat]
       /\ [slots[x.slot] EXCEPT !.state = "Retiring"].state # "Free"
  BY <1>9 DEF SlotStates
<1> DEFINE r == [slots[x.slot] EXCEPT !.state = "Retiring"]
           k == x.slot
<1>12. slots' = [slots EXCEPT ![k] = r] /\ r \in [state : SlotStates, seq : Nat]
       /\ r.state # "Free" /\ k \in SlotIds
  BY <1>2, <1>10, <1>11
<1> HIDE DEF u, q, x, r, k
<1>13. slots' \in [SlotIds -> [state : SlotStates, seq : Nat]]
       /\ (slots'[writeIndex].state = "Free" => slots[writeIndex].state = "Free")
  BY <1>3, <1>8, <1>12
<1>14. \A i \in 1..Len(tape) : u[i].state \in {"Writing", "Ready", "Tentative"}
                                 <=> tape[i].state \in {"Writing", "Ready", "Tentative"}
  BY <1>6, <1>7
<1>15. UNCHANGED <<closed, writeIndex>>
  BY <1>1
<1>16. NoRoom => NoRoom'
  BY <1>3, <1>6, <1>7, <1>13, <1>14, <1>15, NoMoreRoom
<1>17. RoomQuiet
  BY <1>1, <1>16 DEF RoomQuiet, EncoderAt
<1>18. SleepTypes' /\ EncoderAwake /\ parked' \subseteq parked
  BY <1>1, <1>13 DEF SleepInv, SleepTypes, EncoderAwake, EncoderAt
<1>. QED
  BY <1>1, <1>17, <1>18, EncoderSleepsOn

\* The second hold of a retirement: the slot is free and the writers are told.
LEMMA RetireFinishSleeps ==
  ASSUME FlowInv, SleepInv, ClientsStay, RetireFinish
  PROVE  SleepInv'
<1>1. /\ EncoderAt("retire") /\ Wake(WriteWaiters \cup EncodeWaiters, {})
      /\ slots' = [slots EXCEPT ![Head(batch).slot] = FreeSlot] /\ inflight' = inflight - 1
      /\ UNCHANGED <<completedSeqId, completedQueue, pending>>
  BY DEF RetireFinish, doneVars, gpuVars
<1>2. parked' = parked \ (WriteWaiters \cup EncodeWaiters) /\ UNCHANGED stop
  BY <1>1, OnlyWoken
<1>3. Head(batch).slot \in SlotIds
  BY <1>1, HeadSlot DEF EncoderAt
<1>4. slots' \in [SlotIds -> [state : SlotStates, seq : Nat]]
  BY <1>1, <1>3, FreeSlots DEF SleepInv
<1>5. inflight' \in Int
  BY <1>1 DEF SleepInv, SleepTypes
<1>6. SleepTypes'
  BY <1>2, <1>4, <1>5 DEF SleepInv, SleepTypes
<1>7. RoomQuiet
  BY <1>2 DEF RoomQuiet, WriteWaiters
<1>8. EncoderAwake /\ parked' \subseteq parked
  BY <1>2 DEF EncoderAwake, EncodeWaiters
<1>. QED
  BY <1>1, <1>2, <1>6, <1>7, <1>8, EncoderSleepsOn

\* An inline completion: fail-stop, or the slot is free and the encoder will notify.
LEMMA InlineBeginSleeps ==
  ASSUME FlowInv, SleepInv, ClientsStay, InlineBegin
  PROVE  SleepInv'
<1> DEFINE seq == Head(batch).seq
<1>1. EncoderAt("encode") /\ UNCHANGED <<inflight, completedSeqId, completedQueue, pending>>
  BY DEF InlineBegin, doneVars, gpuVars
<1>2. CASE InlineFails("inlineOrder") /\ UNCHANGED <<slots, tape>>
  BY <1>1, <1>2, PoisonSleeps DEF InlineFails
<1>3. CASE InlineFails("inlineReclaim") /\ UNCHANGED slots
  BY <1>1, <1>3, PoisonSleeps DEF InlineFails
<1>4. CASE /\ slots' = [slots EXCEPT ![Head(batch).slot] = FreeSlot]
           /\ EncoderGoes("inline") /\ UNCHANGED <<stop, parked>>
  <2>1. Head(batch).slot \in SlotIds
    BY <1>1, HeadSlot DEF EncoderAt
  <2>2. slots' \in [SlotIds -> [state : SlotStates, seq : Nat]]
    BY <1>4, <2>1, FreeSlots DEF SleepInv
  <2>3. SleepTypes'
    BY <1>1, <1>4, <2>2 DEF SleepInv, SleepTypes
  <2>4. pc'["encoder"] = "inline"
    BY <1>4, EncoderMoves DEF FlowInv
  <2>5. RoomQuiet
    BY <1>1, <2>4 DEF RoomQuiet
  <2>6. EncoderAwake /\ parked' \subseteq parked
    BY <1>1, <1>4 DEF EncoderAwake, EncoderAt
  <2>. QED
    BY <1>1, <1>4, <2>3, <2>5, <2>6, EncoderSleepsOn
<1>. QED
  BY <1>2, <1>3, <1>4 DEF InlineBegin

\* The second hold of an inline completion: the producer is told of the room.
LEMMA InlineFinishSleeps ==
  ASSUME FlowInv, SleepInv, ClientsStay, InlineFinish
  PROVE  SleepInv'
<1>1. /\ Wake(WriteWaiters \cup EncodeWaiters \cup FinishWaiters, {})
      /\ UNCHANGED <<slots, inflight, completedSeqId, pending>>
  BY DEF InlineFinish, ringVars, gpuVars
<1>2. parked' = parked \ (WriteWaiters \cup EncodeWaiters \cup FinishWaiters) /\ UNCHANGED stop
  BY <1>1, OnlyWoken
<1>3. SleepTypes'
  BY <1>1, <1>2 DEF SleepInv, SleepTypes
<1>4. RoomQuiet
  BY <1>2 DEF RoomQuiet, WriteWaiters
<1>5. EncoderAwake /\ parked' \subseteq parked /\ "finish" \notin parked'
  BY <1>2 DEF EncoderAwake, EncodeWaiters, FinishWaiters
<1>. QED
  BY <1>1, <1>2, <1>3, <1>4, <1>5, EncoderSleepsOn

\* The encoder falls asleep only with nothing to do.
LEMMA EncodeWaitSleeps ==
  ASSUME SleepInv, ClientsStay, EncodeWait
  PROVE  SleepInv'
<1>1. /\ EncoderAt("wait") /\ ~ stop /\ EncoderIdle
      /\ parked' = parked \cup {"encoder"}
      /\ UNCHANGED <<slots, writeIndex, tape, closed, inflight, completedSeqId, completedQueue,
                     pending, session, stop, pc>>
  BY DEF EncodeWait, Wake, EncoderIdle, ringVars, tapeVars, doneVars, gpuVars, encodeVars
<1>2. EncoderIdle'
  BY <1>1 DEF EncoderIdle, Ready, Span, Positions, SequenceRequested
<1>3. SleepTypes' /\ \A c \in Clients : c \in parked' => c \in parked
  BY <1>1 DEF SleepInv, SleepTypes, Workers, Clients
<1>4. RoomQuiet
  <2>1. NoRoom' <=> NoRoom
    BY <1>1, SameRoom
  <2>. QED
    BY <1>1, <2>1 DEF RoomQuiet, EncoderAt
<1>5. "watcher" \in parked' => pending' = <<>>
  BY <1>1 DEF SleepInv
<1>6. "finish" \in parked' => completedQueue' = <<>>
  BY <1>1 DEF SleepInv
<1>7. WorkerSleeps
  BY <1>1, <1>2, <1>3, <1>4, <1>5, <1>6 DEF WorkerSleeps, SequenceQuiet
<1>. QED
  BY <1>7, WorkerSleepsOn

\* A step that changes neither the tape nor the slots.
LEMMA EncodeOnSleeps ==
  ASSUME SleepInv, ClientsStay, EncodeExit \/ EncodeRetain
  PROVE  SleepInv'
<1>1. /\ "encoder" \notin parked /\ pc["encoder"] # "inline"
      /\ UNCHANGED <<slots, writeIndex, tape, closed, inflight, completedSeqId, completedQueue,
                     pending, stop, parked>>
  BY DEF EncodeExit, EncodeRetain, EncoderAt, ringVars, tapeVars, doneVars, gpuVars
<1>2. NoRoom' <=> NoRoom
  BY <1>1, SameRoom
<1>3. RoomQuiet
  BY <1>1, <1>2 DEF RoomQuiet
<1>4. SleepTypes' /\ EncoderAwake /\ parked' \subseteq parked
  BY <1>1 DEF SleepInv, SleepTypes, EncoderAwake
<1>. QED
  BY <1>1, <1>3, <1>4, EncoderSleepsOn

\* The encoder's own steps, each of them.
LEMMA EncodeSleeps ==
  ASSUME FlowInv, FlowInv', SleepInv, ClientsStay,
         EncodeStep \/ CommitPrefix \/ RestorePrefix \/ SubmitSession
  PROVE  SleepInv'
<1>1. CASE EncodeWait
  BY <1>1, EncodeWaitSleeps
<1>2. CASE EncodeExit \/ EncodeRetain
  BY <1>2, EncodeOnSleeps
<1>3. CASE EncodeRefuse
  BY <1>3, PoisonSleeps DEF EncodeRefuse, ringVars
<1>4. CASE Dequeue
  BY <1>4, RepresentSleeps DEF Dequeue, EncoderAt
<1>5. CASE \E n \in 1..SlotCount : ReservePrefix(n)
  BY <1>5, ReserveSleeps
<1>6. CASE EncodeSubmit
  BY <1>6, SubmitSleeps, RefusedSleeps DEF EncodeSubmit, EncoderAt
<1>7. CASE RetireBegin
  BY <1>7, RetireBeginSleeps
<1>8. CASE RetireFinish
  BY <1>8, RetireFinishSleeps
<1>9. CASE InlineBegin
  BY <1>9, InlineBeginSleeps
<1>10. CASE InlineFinish
  BY <1>10, InlineFinishSleeps
<1>11. CASE EncodeThrow
  BY <1>11, PoisonSleeps DEF EncodeThrow, ringVars
<1>12. CASE CommitPrefix
  BY <1>12, RepresentSleeps DEF CommitPrefix, EncoderAt
<1>13. CASE RestorePrefix
  BY <1>13, RestoreSleeps
<1>14. CASE SubmitSession
  BY <1>14, SubmitSleeps, RefusedSleeps DEF SubmitSession, EncoderAt
<1>. QED
  BY <1>1, <1>2, <1>3, <1>4, <1>5, <1>6, <1>7, <1>8, <1>9, <1>10, <1>11, <1>12, <1>13, <1>14
     DEF EncodeStep

\* The watcher's and the finish thread's steps leave the encoder's sources alone.
LEMMA EncoderStaysIdle ==
  ASSUME FlowInv, FlowInv', SleepInv, ClientsStay, UNCHANGED session,
         NoReady(tape) => NoReady(tape'), "encoder" \in parked
  PROVE  EncoderIdle'
<1>1. EncoderIdle
  BY DEF SleepInv
<1>2. Ready = <<>> <=> NoReady(tape)
  BY ReadyEmpty
<1>3. (Ready = <<>> <=> NoReady(tape))'
  BY ReadyEmpty, PTL
<1>4. NoReady(tape)'
  BY <1>1, <1>2 DEF EncoderIdle, NoReady
<1>5. SequenceRequested' <=> SequenceRequested
  BY DEF SequenceRequested, ClientsStay
<1>. QED
  BY <1>1, <1>3, <1>4, <1>5 DEF EncoderIdle

\* A resident that is settled or reclaimed does not become Ready.
LEMMA MovedNotReady ==
  ASSUME NEW t \in Seq(EntryType), NEW q, NEW st \in {"Completed", "Reclaiming"}
  PROVE  NoReady(t) => NoReady(Moved(t, q, st))
<1> DEFINE u == Moved(t, q, st)
<1>1. /\ Len(u) = Len(t)
      /\ \A i \in 1..Len(t) : /\ t[i].seq \in q => u[i].state = st
                              /\ t[i].seq \notin q => u[i] = t[i]
  BY MovedEffect DEF TapeStates
<1> HIDE DEF u
<1>2. NoReady(t) => NoReady(u)
  BY <1>1 DEF NoReady
<1>. QED
  BY <1>2 DEF u

\* Taking the reclaimed head away makes no source Ready.
LEMMA TailNotReady ==
  ASSUME NEW t \in Seq(EntryType), t # <<>>
  PROVE  NoReady(t) => NoReady(Tail(t))
<1> DEFINE u == Tail(t)
<1>1. /\ Len(u) = Len(t) - 1 /\ Len(t) \in Nat \ {0}
      /\ \A i \in 1..(Len(t) - 1) : i + 1 \in 1..Len(t) /\ u[i] = t[i + 1]
  BY TailEffect
<1> HIDE DEF u
<1>2. NoReady(t) => NoReady(u)
  BY <1>1 DEF NoReady
<1>. QED
  BY <1>2 DEF u

\* A step of the watcher or the finish thread that stops nothing.
LEMMA OtherSleepsOn ==
  ASSUME FlowInv, FlowInv', SleepInv, SleepTypes', ClientsStay, UNCHANGED <<stop, session>>,
         NoReady(tape) => NoReady(tape'),
         \A t \in parked' : t \in Clients \cup {"encoder"} => t \in parked,
         parked' # {} => ~ stop,
         RoomQuiet, SequenceQuiet,
         "watcher" \in parked' => pending' = <<>>,
         "finish" \in parked' => completedQueue' = <<>>
  PROVE  SleepInv'
<1>1. "encoder" \in parked' => EncoderIdle'
  BY EncoderStaysIdle
<1>2. \A c \in Clients : c \in parked' => c \in parked
  OBVIOUS
<1>3. WorkerSleeps
  BY <1>1, <1>2 DEF WorkerSleeps
<1>. QED
  BY <1>3, WorkerSleepsOn

\* Nothing changes that a client waits for.
LEMMA NothingMoves ==
  ASSUME UNCHANGED <<tape, closed, slots, writeIndex, inflight, completedSeqId>>,
         pc'["encoder"] = pc["encoder"]
  PROVE  RoomQuiet /\ SequenceQuiet /\ (NoReady(tape) => NoReady(tape'))
<1>1. NoRoom' <=> NoRoom
  BY SameRoom
<1>2. RoomQuiet
  BY <1>1 DEF RoomQuiet
<1>. QED
  BY <1>2 DEF SequenceQuiet, NoReady

\* The steps of the watcher and the finish thread that settle nothing.
LEMMA WatchQuietSleeps ==
  ASSUME FlowInv, FlowInv', SleepInv, ClientsStay,
         WatchWait \/ WatchPop \/ WatchExit \/ FinishWait \/ FinishExit
  PROVE  SleepInv'
<1>1. /\ UNCHANGED <<tape, closed, slots, writeIndex, inflight, completedSeqId, completedQueue,
                     session, stop>>
  BY DEF WatchWait, WatchPop, WatchExit, FinishWait, FinishExit, FinishGoes, Wake, ringVars,
         tapeVars, doneVars, encodeVars
<1>2. pc'["encoder"] = pc["encoder"]
  <2>1. UNCHANGED pc \/ \E w \in {"watcher", "finish"}, l \in Labels : pc' = [pc EXCEPT ![w] = l]
    BY DEF WatchWait, WatchPop, WatchExit, FinishWait, FinishExit, FinishGoes, Labels
  <2>2. pc \in [Clients \cup Workers -> Labels] /\ "encoder" \in Workers
    BY DEF FlowInv, Places, Workers
  <2>. QED
    BY <2>1, <2>2
<1>3. RoomQuiet /\ SequenceQuiet /\ (NoReady(tape) => NoReady(tape'))
  BY <1>1, <1>2, NothingMoves
<1>4. \/ parked' = parked /\ (UNCHANGED pending \/ "watcher" \notin parked)
      \/ parked' = parked \cup {"watcher"} /\ pending' = <<>> /\ ~ stop
      \/ parked' = parked \cup {"finish"} /\ completedQueue = <<>> /\ UNCHANGED pending /\ ~ stop
  BY DEF WatchWait, WatchPop, WatchExit, FinishWait, FinishExit, Wake, WatcherAt, gpuVars
<1>5. SleepTypes'
  BY <1>1, <1>4 DEF SleepInv, SleepTypes, Workers
<1>6. \A t \in parked' : t \in Clients \cup {"encoder"} => t \in parked
  BY <1>4 DEF Clients
<1>7. parked' # {} => ~ stop
  BY <1>4 DEF SleepInv
<1>8. "watcher" \in parked' => pending' = <<>>
  BY <1>4 DEF SleepInv
<1>9. "finish" \in parked' => completedQueue' = <<>>
  BY <1>1, <1>4 DEF SleepInv
<1>. QED
  BY <1>1, <1>3, <1>5, <1>6, <1>7, <1>8, <1>9, OtherSleepsOn

\* A settled command buffer: the finish thread is told.
LEMMA SettleSleeps ==
  ASSUME FlowInv, FlowInv', SleepInv, ClientsStay, Settle
  PROVE  SleepInv'
<1>1. /\ UNCHANGED <<slots, writeIndex, closed, inflight, completedSeqId, pending, session>>
  BY DEF Settle, ringVars, encodeVars
<1>2. CASE Poison("completion")
  BY <1>1, <1>2, PoisonSleeps
<1>3. CASE /\ Settleable /\ tape' = Moved(tape, ResidentSeqs(watching), "Completed")
           /\ Wake(SettleWakes, {})
  <2>1. parked' = parked \ FinishWaiters /\ UNCHANGED stop /\ (parked' # {} => ~ stop)
    BY <1>3, OnlyWoken DEF SettleWakes
  <2> DEFINE q == ResidentSeqs(watching)
             u == Moved(tape, q, "Completed")
  <2>2. \A i \in 1..Len(tape) : tape[i].seq \in q => tape[i].state = "Submitted"
    BY <1>3, SettleEffect
  <2>3. tape \in Seq(EntryType) /\ FlowTypes /\ "Completed" \in TapeStates
    BY DEF FlowInv, FlowTypes, TapeStates
  <2> HIDE DEF q
  <2>4. /\ u \in Seq(EntryType) /\ Len(u) = Len(tape)
        /\ \A i \in 1..Len(tape) :
             /\ tape[i].seq \in q => u[i].state = "Completed"
             /\ tape[i].seq \notin q => u[i] = tape[i]
    BY <2>3, MovedEffect
  <2>5. NoReady(tape) => NoReady(u)
    BY <2>3, MovedNotReady
  <2>6. tape' = u
    BY <1>3 DEF q
  <2> HIDE DEF u
  <2>7. \A i \in 1..Len(tape) : u[i].state \in {"Writing", "Ready", "Tentative"}
                                  <=> tape[i].state \in {"Writing", "Ready", "Tentative"}
    BY <2>2, <2>4
  <2>8. NoRoom => NoRoom'
    BY <1>1, <2>3, <2>4, <2>6, <2>7, NoMoreRoom
  <2>9. pc'["encoder"] = pc["encoder"]
    <3>1. \E l \in Labels : pc' = [pc EXCEPT !["watcher"] = l]
      BY DEF Settle, Labels
    <3>2. pc \in [Clients \cup Workers -> Labels]
      BY DEF FlowInv, Places
    <3>. QED
      BY <3>1, <3>2
  <2>10. RoomQuiet /\ SequenceQuiet
    BY <1>1, <2>8, <2>9 DEF RoomQuiet, SequenceQuiet
  <2>11. SleepTypes'
    BY <1>1, <2>1 DEF SleepInv, SleepTypes
  <2>12. "watcher" \in parked' => pending' = <<>>
    BY <1>1, <2>1 DEF SleepInv
  <2>13. "finish" \notin parked'
    BY <2>1 DEF FinishWaiters
  <2>. QED
    BY <1>1, <2>1, <2>5, <2>6, <2>10, <2>11, <2>12, <2>13, OtherSleepsOn
<1>. QED
  BY <1>2, <1>3 DEF Settle

\* What the reclaim check of the finish thread does to the sleepers.
LEMMA ReclaimSleeps ==
  ASSUME NEW t \in Seq(EntryType), NEW seq, NEW woken, ReclaimHeads(t, seq, woken), SleepInv
  PROVE  \/ parked' = {}
         \/ /\ parked' = parked \ woken /\ UNCHANGED stop /\ (parked' # {} => ~ stop)
            /\ NoReady(t) => NoReady(tape')
<1>1. CASE tape' = t /\ Wake(woken, {})
  BY <1>1, OnlyWoken
<1>2. CASE tape' = Moved(t, {seq}, "Reclaiming") /\ Wake(woken, {})
  BY <1>2, OnlyWoken, MovedNotReady
<1>3. CASE Poison("reclaim")
  BY <1>3, StoppedAwake DEF Poison
<1>. QED
  BY <1>1, <1>2, <1>3 DEF ReclaimHeads

\* The finish thread's completions and reclaims: whoever waits for them is told.
LEMMA FinishSleeps ==
  ASSUME FlowInv, FlowInv', SleepInv, ClientsStay, Drain \/ FinishReclaim
  PROVE  SleepInv'
<1>1. UNCHANGED <<slots, pending, session>> /\ "finish" \notin parked
  BY DEF Drain, FinishReclaim, FinishAt, ringVars, gpuVars, encodeVars
<1>2. tape \in Seq(EntryType)
  BY DEF FlowInv, FlowTypes
<1>3. inflight' \in Int
  <2>1. inflight \in Int
    BY DEF SleepInv, SleepTypes
  <2>2. Max({inflight - 1, 0}) \in Int
    BY <2>1, TwoNumbers
  <2>3. inflight' = inflight \/ inflight' = Max({inflight - 1, 0})
    BY DEF Drain, FinishReclaim
  <2>. QED
    BY <2>1, <2>2, <2>3
<1>4. \/ parked' = {}
      \/ /\ parked' \subseteq parked /\ parked' \cap WriteWaiters = {}
         /\ UNCHANGED completedSeqId \/ parked' \cap FinishWaiters = {}
         /\ UNCHANGED stop /\ (parked' # {} => ~ stop)
         /\ NoReady(tape) => NoReady(tape')
  <2>1. CASE Drain
    <3>1. ReclaimHeads(tape, Head(completedQueue), DrainWakes)
      BY <2>1 DEF Drain
    <3>2. \/ parked' = {}
          \/ /\ parked' = parked \ DrainWakes /\ UNCHANGED stop /\ (parked' # {} => ~ stop)
             /\ NoReady(tape) => NoReady(tape')
      BY <1>2, <3>1, ReclaimSleeps
    <3>. QED
      BY <3>2 DEF DrainWakes
  <2>2. CASE FinishReclaim
    <3>1. /\ ReclaimHeads(Tail(tape), completedSeqId, WriteWaiters \cup EncodeWaiters)
          /\ UNCHANGED completedSeqId /\ tape # <<>>
      BY <2>2 DEF FinishReclaim, FinishAt, doneVars, FlowInv, HeadReclaimed
    <3>2. Tail(tape) \in Seq(EntryType) /\ (NoReady(tape) => NoReady(Tail(tape)))
      BY <1>2, <3>1, TailEffect, TailNotReady
    <3> DEFINE u == Tail(tape)
    <3>3. /\ u \in Seq(EntryType) /\ (NoReady(tape) => NoReady(u))
          /\ ReclaimHeads(u, completedSeqId, WriteWaiters \cup EncodeWaiters)
      BY <3>1, <3>2
    <3> HIDE DEF u
    <3>4. \/ parked' = {}
          \/ /\ parked' = parked \ (WriteWaiters \cup EncodeWaiters)
             /\ UNCHANGED stop /\ (parked' # {} => ~ stop)
             /\ NoReady(u) => NoReady(tape')
      BY <3>3, ReclaimSleeps
    <3>. QED
      BY <3>1, <3>3, <3>4
  <2>. QED
    BY <2>1, <2>2
<1>5. parked' \subseteq Clients \cup Workers
  BY <1>4 DEF SleepInv, SleepTypes
<1>6. SleepTypes'
  BY <1>1, <1>3, <1>5 DEF SleepInv, SleepTypes
<1>7. CASE parked' = {}
  BY <1>6, <1>7, NobodySleeps
<1>8. CASE /\ parked' \subseteq parked /\ parked' \cap WriteWaiters = {}
           /\ UNCHANGED completedSeqId \/ parked' \cap FinishWaiters = {}
           /\ UNCHANGED stop /\ (parked' # {} => ~ stop)
           /\ NoReady(tape) => NoReady(tape')
  <2>1. RoomQuiet
    BY <1>8 DEF RoomQuiet, WriteWaiters
  <2>2. SequenceQuiet
    BY <1>8 DEF SequenceQuiet, FinishWaiters
  <2>3. "watcher" \in parked' => pending' = <<>>
    BY <1>1, <1>8 DEF SleepInv
  <2>4. "finish" \notin parked'
    BY <1>1, <1>8
  <2>5. \A t \in parked' : t \in Clients \cup {"encoder"} => t \in parked
    BY <1>8
  <2>. QED
    BY <1>1, <1>6, <1>8, <2>1, <2>2, <2>3, <2>4, <2>5, OtherSleepsOn
<1>. QED
  BY <1>4, <1>7, <1>8

\* Whatever a worker does, whoever sleeps has nothing to do.
LEMMA WorkerStepSleeps ==
  ASSUME FlowInv, FlowInv', SleepInv, ClientsStay, WorkerStep
  PROVE  SleepInv'
<1>1. CASE EncodeStep \/ CommitPrefix \/ RestorePrefix \/ SubmitSession
  BY <1>1, EncodeSleeps
<1>2. CASE WatchWait \/ WatchPop \/ WatchExit \/ FinishWait \/ FinishExit
  BY <1>2, WatchQuietSleeps
<1>3. CASE Settle
  BY <1>3, SettleSleeps
<1>4. CASE Drain \/ FinishReclaim
  BY <1>4, FinishSleeps
<1>5. CASE StopThreads
  <2>1. parked' = {} /\ UNCHANGED <<slots, inflight>>
    BY <1>5, StoppedAwake DEF StopThreads, ringVars
  <2>2. SleepTypes'
    BY <2>1 DEF SleepInv, SleepTypes
  <2>. QED
    BY <2>1, <2>2, NobodySleeps
<1>. QED
  BY <1>1, <1>2, <1>3, <1>4, <1>5 DEF WorkerStep, WatchStep, FinishStep

\* Nobody sleeps at first.
LEMMA InitSleeps ==
  ASSUME Init
  PROVE  SleepInv
<1>1. slots \in [SlotIds -> [state : SlotStates, seq : Nat]]
  BY DEF Init, FreeSlot, SlotStates
<1>2. inflight \in Int /\ parked = {}
  BY DEF Init
<1>. QED
  BY <1>1, <1>2 DEF SleepInv, SleepTypes

\* A stuttering step changes nothing that a sleeper waits for.
LEMMA StutterSleeps ==
  ASSUME SleepInv, UNCHANGED vars
  PROVE  SleepInv'
<1>1. /\ UNCHANGED <<slots, writeIndex, tape, closed, inflight, completedSeqId, completedQueue>>
      /\ UNCHANGED <<pending, session, stop, pc, job, parked>>
  BY DEF vars, ringVars, tapeVars, doneVars, gpuVars, encodeVars
<1>2. SleepTypes' /\ (stop' => parked' = {})
  BY <1>1 DEF SleepInv, SleepTypes
<1>3. EncoderIdle' <=> EncoderIdle
  BY <1>1 DEF EncoderIdle, Ready, Span, Positions, SequenceRequested
<1>4. ("watcher" \in parked' => pending' = <<>>) /\ ("finish" \in parked' => completedQueue' = <<>>)
  BY <1>1 DEF SleepInv
<1>5. NoRoom' <=> NoRoom
  BY <1>1, SameRoom
<1>6. \A c \in Clients : ClientAsleep(c)' <=> ClientAsleep(c)
  BY <1>1, <1>5 DEF ClientAsleep, CommitRoom
<1>. QED
  BY <1>1, <1>2, <1>3, <1>4, <1>6 DEF SleepInv

\* What SleepInv says is that no wakeup is lost.
LEMMA SleepersWait ==
  ASSUME SleepInv, FlowInv
  PROVE  NoLostWakeup
<1> SUFFICES ASSUME pc["encoder"] # "inline", NEW t \in parked, WaitOver(t) PROVE FALSE
  BY DEF NoLostWakeup
<1>1. t \in Clients \cup Workers /\ ~ stop
  BY DEF SleepInv, SleepTypes
<1>2. CASE t = "encoder"
  BY <1>1, <1>2 DEF SleepInv, EncoderIdle, WaitOver, Clients
<1>3. CASE t = "watcher"
  BY <1>1, <1>3 DEF SleepInv, WaitOver, Clients
<1>4. CASE t = "finish"
  BY <1>1, <1>4 DEF SleepInv, WaitOver, Clients
<1>5. CASE t \in Clients
  <2>1. ClientAsleep(t)
    BY <1>5 DEF SleepInv
  <2>2. t \notin {"encoder", "watcher", "finish"}
    BY <1>5 DEF Clients
  <2>. QED
    BY <1>1, <2>1, <2>2 DEF ClientAsleep, WaitOver, NoRoom
<1>. QED
  BY <1>1, <1>2, <1>3, <1>4, <1>5 DEF Workers

\* No wakeup is lost: whatever the clients, the encoder, the watcher and the finish
\* thread do, the hold that makes a wait predicate true also notifies its condition
\* variable, with any number of slots, receipts, sources of a session and sequences.
THEOREM WakeupCorrect == Spec => []NoLostWakeup
<1>1. Init => SleepInv
  BY InitSleeps
<1>2. SleepInv /\ QueueInv /\ QueueInv' /\ [Next]_vars => SleepInv'
  <2> SUFFICES ASSUME SleepInv, QueueInv, QueueInv', [Next]_vars PROVE SleepInv'
    OBVIOUS
  <2>1. FlowInv /\ FlowInv' /\ CallInv
    BY DEF QueueInv
  <2>2. CASE ClientStep
    BY <2>1, <2>2, ClientStepSleeps
  <2>3. CASE WorkerStep
    BY <2>1, <2>3, WorkerEffects, WorkerStepSleeps
  <2>4. CASE UNCHANGED vars
    BY <2>4, StutterSleeps
  <2>. QED
    BY <2>2, <2>3, <2>4, StepKinds
<1>3. SleepInv /\ QueueInv => NoLostWakeup
  BY SleepersWait DEF QueueInv
<1>. QED
  BY <1>1, <1>2, <1>3, QueueInvariant, PTL DEF Spec

=============================================================================

------------------------ MODULE BufferVersionsProofs ------------------------
(***************************************************************************)
(* Proofs about BufferVersions, for every flavour, any cells and spans and *)
(* any number of draws, writes and sequences: first that what a draw       *)
(* captured outlives it, then that a draw reads what the application had   *)
(* written when it issued the draw.                                        *)
(***************************************************************************)
EXTENDS BufferVersions, WellFoundedInduction, TLAPS

-----------------------------------------------------------------------------
(* The invariant behind LifetimeCovered, in parts. *)

BufferRecord ==
    [live : BOOLEAN, destroyPending : BOOLEAN, lastUsed : Nat, ring : Seq(Entry),
     active : Nat, shadow : [Cells -> Nat]]
Chunk == [kind : {"chunk"}, backing : Nat, draws : Seq(DrawRec)]
Mutation ==
    [kind : {"mutation"}, backing : Nat, span : SUBSET Cells, bytes : [Cells -> Nat]]
Task == Chunk \cup Mutation
Call ==
    [pc : {"idle", "fence", "map", "finalize", "wait", "locked", "unlock"},
     mode : Modes \cup {"none"}, span : SUBSET Cells, seq : Nat]

\* A record that can be used: its active entry exists, and no entry was used
\* later than the record.
RecordSound(b) ==
    /\ b \in BufferRecord
    /\ b.active \in 1..Len(b.ring)
    /\ flavour = "plain" => Len(b.ring) = 1
    /\ \A i \in 1..Len(b.ring) : b.ring[i].used <= b.lastUsed

\* The types of the variables, and the sequence numbers of what is published.
StateTypes ==
    /\ flavour \in Flavours
    /\ storage \in [Cells -> Nat] /\ app \in Call /\ handle \in BOOLEAN
    /\ recorder \in Seq(DrawRec) /\ fifo \in Seq(Task)
    /\ slot \in Seq(DrawRec) /\ gpu \in Seq(Seq(DrawRec))
    /\ ticket \in Nat /\ completed \in Nat /\ era \in Nat
    /\ writes \in Nat /\ drawn \in Nat /\ finish \in BOOLEAN
    /\ nextSeq = completed + Len(gpu) + 1

\* What the worker holds, by where it is.
WorkerShape ==
    \/ wpc = "idle" /\ task = NoTask
    \/ wpc \in {"ticket", "stamp", "restamp", "append"} /\ task \in Chunk
    \/ wpc \in {"apply", "replayed"} /\ task \in Mutation
    \/ wpc = "settle" /\ task \in Mutation
    \/ wpc = "settle" /\ task \in Chunk /\ task.draws = <<>>

\* Every captured backing is an entry of the ring, and the draws of a chunk have
\* captured the one the chunk leases.
Captured ==
    /\ \A t \in Held :
         /\ t.backing \in 1..Len(buf.ring)
         /\ t.kind = "chunk" =>
              \A i \in 1..Len(t.draws) : t.draws[i].backing = t.backing
    /\ \A i \in 1..Len(slot) : slot[i].backing \in 1..Len(buf.ring)
    /\ \A i \in 1..Len(gpu) : \A j \in 1..Len(gpu[i]) :
         gpu[i][j].backing \in 1..Len(buf.ring)

\* The record is destroyed behind the last reference and reclaimed behind the
\* last sequence that used it.
Referenced ==
    /\ app.pc # "idle" => handle
    /\ buf.destroyPending =>
         ~handle /\ recorder = <<>> /\ fifo = <<>> /\ wpc = "idle"
    /\ ~buf.live => buf.destroyPending /\ buf.lastUsed <= completed

\* The stamps cover the draws of the writing slot and of the published ones.
Covered ==
    /\ \A i \in 1..Len(slot) :
         /\ buf.lastUsed >= nextSeq
         /\ Versioned => buf.ring[slot[i].backing].used >= nextSeq
    /\ \A i \in 1..Len(gpu) : \A j \in 1..Len(gpu[i]) :
         /\ buf.lastUsed >= completed + i
         /\ Versioned => buf.ring[gpu[i][j].backing].used >= completed + i

LifeInv ==
    /\ RecordSound(buf) /\ StateTypes /\ WorkerShape
    /\ Captured /\ Referenced /\ Covered

-----------------------------------------------------------------------------
(* The operators on the record. *)

\* Every nonempty set of naturals has a least element.
LEMMA SmallestOf ==
  ASSUME NEW T \in SUBSET Nat, T # {}
  PROVE  \E x \in T : \A y \in T : x <= y
<1> DEFINE R == OpToRel(<, Nat)
<1>1. IsWellFoundedOn(R, Nat)
  BY NatLessThanWellFounded
<1>2. \A x, y \in Nat : y < x => <<y, x>> \in R
  BY DEF OpToRel
<1> HIDE DEF R
<1>3. PICK x \in T : \A y \in T : ~ (<<y, x>> \in R)
  BY <1>1, WFMin
<1>4. \A y \in T : x <= y
  <2> TAKE y \in T
  <2>1. ~(y < x)
    BY <1>2, <1>3
  <2> QED
    BY <2>1
<1> QED
  BY <1>4

\* c is b after some use: nothing is unstamped, no entry is lost.
Grows(b, c) ==
    /\ RecordSound(c)
    /\ c.live = b.live /\ c.destroyPending = b.destroyPending
    /\ Len(c.ring) >= Len(b.ring)
    /\ c.lastUsed >= b.lastUsed
    /\ \A i \in 1..Len(b.ring) : c.ring[i].used >= b.ring[i].used

\* What a sound record is made of.
LEMMA RecordParts ==
  ASSUME NEW b, RecordSound(b)
  PROVE  /\ b.lastUsed \in Nat /\ b.active \in Nat /\ b.ring \in Seq(Entry)
         /\ Len(b.ring) \in Nat /\ DOMAIN b.ring = 1..Len(b.ring)
         /\ b.active \in 1..Len(b.ring)
         /\ b.shadow \in [Cells -> Nat]
         /\ b.live \in BOOLEAN /\ b.destroyPending \in BOOLEAN
         /\ \A i \in 1..Len(b.ring) :
              /\ b.ring[i] \in Entry
              /\ b.ring[i].used \in Nat /\ b.ring[i].bytes \in [Cells -> Nat]
              /\ b.ring[i].used <= b.lastUsed
<1>1. b \in BufferRecord /\ b.active \in 1..Len(b.ring)
      /\ \A i \in 1..Len(b.ring) : b.ring[i].used <= b.lastUsed
  BY DEF RecordSound
<1>2. /\ b.lastUsed \in Nat /\ b.active \in Nat /\ b.ring \in Seq(Entry)
      /\ b.shadow \in [Cells -> Nat]
      /\ b.live \in BOOLEAN /\ b.destroyPending \in BOOLEAN
  BY <1>1 DEF BufferRecord
<1>3. \A i \in 1..Len(b.ring) : b.ring[i] \in Entry
  BY <1>2
<1>4. \A e \in Entry : e.used \in Nat /\ e.bytes \in [Cells -> Nat]
  BY DEF Entry
<1>5. Len(b.ring) \in Nat /\ DOMAIN b.ring = 1..Len(b.ring)
  BY <1>2
<1> QED
  BY <1>1, <1>2, <1>3, <1>4, <1>5

\* A record with another ring, stamp, active entry or shadow is a record.
LEMMA RecordUpdate ==
  ASSUME NEW b \in BufferRecord
  PROVE  /\ \A l \in BOOLEAN : [b EXCEPT !.live = l] \in BufferRecord
         /\ \A d \in BOOLEAN : [b EXCEPT !.destroyPending = d] \in BufferRecord
         /\ \A u \in Nat, r \in Seq(Entry) :
              [b EXCEPT !.lastUsed = u, !.ring = r] \in BufferRecord
         /\ \A a \in Nat : [b EXCEPT !.active = a] \in BufferRecord
         /\ \A r \in Seq(Entry), a \in Nat :
              [b EXCEPT !.ring = r, !.active = a] \in BufferRecord
         /\ \A r \in Seq(Entry), s \in [Cells -> Nat] :
              [b EXCEPT !.ring = r, !.shadow = s] \in BufferRecord
BY Zenon DEF BufferRecord

\* An entry is a stamp and the content of a backing.
LEMMA EntryMade ==
  ASSUME NEW u \in Nat, NEW v \in [Cells -> Nat]
  PROVE  [used |-> u, bytes |-> v] \in Entry
BY DEF Entry

\* A function on 1..n is a sequence.
LEMMA FunctionIsSequence ==
  ASSUME NEW S, NEW n \in Nat, NEW f \in [1..n -> S]
  PROVE  f \in Seq(S) /\ Len(f) = n
OBVIOUS

\* c is b with the entries K stamped with seq.
Stamps(b, c, K, seq) ==
    /\ Grows(b, c)
    /\ Len(c.ring) = Len(b.ring) /\ c.active = b.active /\ c.shadow = b.shadow
    /\ \A i \in 1..Len(b.ring) : c.ring[i].bytes = b.ring[i].bytes
    /\ b.live /\ K # {} => c.lastUsed >= seq
    /\ \A k \in K : b.live /\ Versioned /\ k \in 1..Len(b.ring)
                      => c.ring[k].used >= seq

\* applyBufferUseStamp.
LEMMA StampedGrows ==
  ASSUME NEW b, RecordSound(b), NEW K \in SUBSET Nat, NEW seq \in Nat
  PROVE  Stamps(b, Stamped(b, K, seq), K, seq)
<1> DEFINE c == Stamped(b, K, seq)
           touched == {IF k = 0 THEN b.active ELSE k : k \in K}
           new == [i \in DOMAIN b.ring |->
                     IF Versioned /\ i \in touched
                     THEN [used |-> StampUpper(b.ring[i].used, seq),
                           bytes |-> b.ring[i].bytes]
                     ELSE b.ring[i]]
<1>0. /\ b \in BufferRecord /\ b.lastUsed \in Nat /\ b.active \in Nat
      /\ Len(b.ring) \in Nat /\ DOMAIN b.ring = 1..Len(b.ring)
      /\ b.active \in 1..Len(b.ring)
      /\ \A i \in 1..Len(b.ring) :
           /\ b.ring[i] \in Entry
           /\ b.ring[i].used \in Nat /\ b.ring[i].bytes \in [Cells -> Nat]
           /\ b.ring[i].used <= b.lastUsed
  BY RecordParts DEF RecordSound
<1>1. CASE ~b.live \/ K = {}
  <2>1. c = b
    BY <1>1 DEF Stamped
  <2> HIDE DEF c
  <2>2. Grows(b, c)
    BY <1>0, <2>1 DEF Grows
  <2> QED
    BY <1>0, <1>1, <2>1, <2>2 DEF c, Stamps
<1>2. CASE b.live /\ K # {}
  <2>1. c = [b EXCEPT !.lastUsed = StampUpper(@, seq), !.ring = new]
    BY <1>2 DEF Stamped
  <2>2. \A n \in Nat : /\ StampUpper(n, seq) \in Nat
                       /\ StampUpper(n, seq) >= n /\ StampUpper(n, seq) >= seq
    BY DEF StampUpper
  <2>3. \A m, n \in Nat : m <= n => StampUpper(m, seq) <= StampUpper(n, seq)
    BY DEF StampUpper
  <2>4. ASSUME NEW i \in 1..Len(b.ring)
        PROVE  /\ new[i] \in Entry /\ new[i].bytes = b.ring[i].bytes
               /\ new[i].used >= b.ring[i].used
               /\ new[i].used <= StampUpper(b.lastUsed, seq)
               /\ Versioned /\ i \in touched => new[i].used >= seq
    <3>1. CASE Versioned /\ i \in touched
      <4>1. new[i] = [used |-> StampUpper(b.ring[i].used, seq),
                      bytes |-> b.ring[i].bytes]
        BY <1>0, <2>4, <3>1
      <4> HIDE DEF new
      <4>2. new[i].used = StampUpper(b.ring[i].used, seq)
            /\ new[i].bytes = b.ring[i].bytes
        BY <4>1
      <4>3. new[i] \in Entry
        <5>1. StampUpper(b.ring[i].used, seq) \in Nat
              /\ b.ring[i].bytes \in [Cells -> Nat]
          BY <1>0, <2>2
        <5> QED
          BY <4>1, <5>1, EntryMade
      <4> QED
        BY <1>0, <2>2, <2>3, <4>2, <4>3
    <3>2. CASE ~(Versioned /\ i \in touched)
      <4>1. new[i] = b.ring[i]
        BY <1>0, <2>4, <3>2
      <4>2. b.lastUsed <= StampUpper(b.lastUsed, seq)
            /\ StampUpper(b.lastUsed, seq) \in Nat
        BY <1>0, <2>2
      <4> HIDE DEF new, touched
      <4> QED
        BY <1>0, <3>2, <4>1, <4>2
    <3> QED
      BY <3>1, <3>2
  <2>5. new \in Seq(Entry) /\ Len(new) = Len(b.ring)
    <3>1. new \in [1..Len(b.ring) -> Entry]
      BY <1>0, <2>4
    <3> HIDE DEF new
    <3> QED
      BY <1>0, <3>1, FunctionIsSequence
  <2> HIDE DEF new
  <2>6. /\ c.live = b.live /\ c.destroyPending = b.destroyPending /\ c.ring = new
        /\ c.lastUsed = StampUpper(b.lastUsed, seq)
        /\ c.active = b.active /\ c.shadow = b.shadow
    BY <1>0, <2>1, Zenon DEF BufferRecord
  <2> HIDE DEF c
  <2>7. c \in BufferRecord
    <3>1. StampUpper(b.lastUsed, seq) \in Nat
      BY <1>0, <2>2
    <3> QED
      BY <1>0, <2>1, <2>5, <3>1, RecordUpdate, Zenon
  <2>8. RecordSound(c)
    BY <1>0, <2>4, <2>5, <2>6, <2>7 DEF RecordSound
  <2>9. \A k \in K : k \in 1..Len(b.ring) => k \in touched
    OBVIOUS
  <2>10. Grows(b, c)
    <3>0. StampUpper(b.lastUsed, seq) >= b.lastUsed
      BY <1>0, <2>2
    <3>1. c.lastUsed >= b.lastUsed /\ Len(c.ring) >= Len(b.ring)
      BY <1>0, <2>5, <2>6, <3>0
    <3>2. \A i \in 1..Len(b.ring) : c.ring[i].used >= b.ring[i].used
      BY <2>4, <2>6
    <3> QED
      BY <2>6, <2>8, <3>1, <3>2 DEF Grows
  <2> HIDE DEF touched
  <2> QED
    BY <1>0, <1>2, <2>2, <2>4, <2>5, <2>6, <2>9, <2>10 DEF c, Stamps
<1> QED
  BY <1>1, <1>2

\* c is b with an active entry that was idle, or is new.
Turns(b, c, done) ==
    /\ Grows(b, c)
    /\ c.lastUsed = b.lastUsed /\ c.shadow = b.shadow
    /\ \A i \in 1..Len(b.ring) : c.ring[i] = b.ring[i]
    /\ c.active \in 1..Len(b.ring) => IdleEntry(b, c.active, done)

\* rotateBufferBacking.
LEMMA RotatedGrows ==
  ASSUME NEW b, RecordSound(b), NEW done \in Nat, flavour # "plain"
  PROVE  Turns(b, Rotated(b, done), done)
<1> DEFINE c == Rotated(b, done)
           idle == {i \in DOMAIN b.ring : IdleEntry(b, i, done)}
<1>0. /\ b \in BufferRecord /\ b.lastUsed \in Nat /\ b.ring \in Seq(Entry)
      /\ Len(b.ring) \in Nat /\ DOMAIN b.ring = 1..Len(b.ring)
      /\ b.active \in 1..Len(b.ring)
      /\ \A i \in 1..Len(b.ring) :
           /\ b.ring[i].used \in Nat /\ b.ring[i].used <= b.lastUsed
  BY RecordParts DEF RecordSound
<1>1. CASE b.active \in idle
  <2>1. c = b
    BY <1>1 DEF Rotated
  <2> HIDE DEF c
  <2>2. Grows(b, c)
    BY <1>0, <2>1 DEF Grows
  <2> QED
    BY <1>0, <1>1, <2>1, <2>2 DEF c, Turns
<1>2. CASE b.active \notin idle /\ idle # {}
  <2> DEFINE a == CHOOSE i \in idle : \A j \in idle : i <= j
  <2>1. c = [b EXCEPT !.active = a]
    BY <1>2 DEF Rotated
  <2>2. a \in idle
    <3>1. idle \in SUBSET Nat
      BY <1>0
    <3>2. \E i \in idle : \A j \in idle : i <= j
      BY <1>2, <3>1, SmallestOf
    <3> HIDE DEF idle
    <3> QED
      BY <3>2
  <2>3. a \in 1..Len(b.ring) /\ IdleEntry(b, a, done)
    BY <1>0, <2>2
  <2> HIDE DEF a
  <2>4. /\ c.live = b.live /\ c.destroyPending = b.destroyPending /\ c.ring = b.ring
        /\ c.lastUsed = b.lastUsed /\ c.active = a /\ c.shadow = b.shadow
    BY <1>0, <2>1, Zenon DEF BufferRecord
  <2> HIDE DEF c
  <2>5. c \in BufferRecord
    <3>1. a \in Nat
      BY <1>0, <2>3
    <3> QED
      BY <1>0, <2>1, <3>1, RecordUpdate, Zenon
  <2>6. RecordSound(c)
    BY <1>0, <2>3, <2>4, <2>5 DEF RecordSound
  <2> QED
    BY <1>0, <2>3, <2>4, <2>6 DEF Grows, Turns, c
<1>3. CASE idle = {}
  <2> DEFINE e == [used |-> 0, bytes |-> Blank]
             r == Append(b.ring, e)
  <2>1. c = [b EXCEPT !.ring = r, !.active = Len(b.ring) + 1]
    BY <1>3 DEF Rotated
  <2>2. e \in Entry /\ e.used = 0
    BY DEF Entry, Blank
  <2> HIDE DEF e
  <2>3. /\ r \in Seq(Entry) /\ Len(r) = Len(b.ring) + 1
        /\ \A i \in 1..Len(b.ring) : r[i] = b.ring[i]
        /\ r[Len(b.ring) + 1] = e
    BY <1>0, <2>2
  <2> HIDE DEF r
  <2>4. /\ c.live = b.live /\ c.destroyPending = b.destroyPending /\ c.ring = r
        /\ c.lastUsed = b.lastUsed /\ c.active = Len(b.ring) + 1 /\ c.shadow = b.shadow
    BY <1>0, <2>1, Zenon DEF BufferRecord
  <2> HIDE DEF c
  <2>5. c \in BufferRecord
    <3>1. Len(b.ring) + 1 \in Nat
      BY <1>0
    <3> QED
      BY <1>0, <2>1, <2>3, <3>1, RecordUpdate, Zenon
  <2>6. \A i \in 1..Len(c.ring) : c.ring[i].used <= c.lastUsed
    <3> TAKE i \in 1..Len(c.ring)
    <3>1. CASE i = Len(b.ring) + 1
      BY <1>0, <2>2, <2>3, <2>4, <3>1
    <3>2. CASE i \in 1..Len(b.ring)
      BY <1>0, <2>3, <2>4, <3>2
    <3> QED
      BY <1>0, <2>3, <2>4, <3>1, <3>2
  <2>7. RecordSound(c)
    BY <1>0, <2>3, <2>4, <2>5, <2>6 DEF RecordSound
  <2> QED
    BY <1>0, <2>3, <2>4, <2>7 DEF Grows, Turns, c
<1> QED
  BY <1>1, <1>2, <1>3

\* A copy into one backing and the shadow.
Written(b, k, v, s) == [b EXCEPT !.ring[k].bytes = v, !.shadow = s]

\* c is b with new content v in entry k and s in the shadow.
Wrote(b, c, k, v, s) ==
    /\ Grows(b, c)
    /\ c.lastUsed = b.lastUsed /\ Len(c.ring) = Len(b.ring)
    /\ c.active = b.active /\ c.shadow = s /\ c.ring[k].bytes = v
    /\ \A i \in 1..Len(b.ring) : /\ c.ring[i].used = b.ring[i].used
                                 /\ i # k => c.ring[i] = b.ring[i]

\* A write into the backing k keeps the record sound and marks nothing older.
LEMMA WrittenGrows ==
  ASSUME NEW b, RecordSound(b), NEW k \in 1..Len(b.ring),
         NEW v \in [Cells -> Nat], NEW s \in [Cells -> Nat]
  PROVE  Wrote(b, Written(b, k, v, s), k, v, s)
<1> DEFINE c == Written(b, k, v, s)
           r == [b.ring EXCEPT ![k].bytes = v]
<1>0. /\ b \in BufferRecord /\ b.lastUsed \in Nat /\ b.ring \in Seq(Entry)
      /\ Len(b.ring) \in Nat /\ DOMAIN b.ring = 1..Len(b.ring)
      /\ b.active \in 1..Len(b.ring)
      /\ \A i \in 1..Len(b.ring) :
           /\ b.ring[i] \in Entry
           /\ b.ring[i].used \in Nat /\ b.ring[i].used <= b.lastUsed
  BY RecordParts DEF RecordSound
<1>1. c = [b EXCEPT !.ring = r, !.shadow = s]
  BY <1>0, Zenon DEF BufferRecord, Written
<1>2. [b.ring[k] EXCEPT !.bytes = v] \in Entry
      /\ [b.ring[k] EXCEPT !.bytes = v].used = b.ring[k].used
      /\ [b.ring[k] EXCEPT !.bytes = v].bytes = v
  <2>1. b.ring[k] \in Entry
    BY <1>0
  <2> QED
    BY <2>1 DEF Entry
<1>3. /\ DOMAIN r = 1..Len(b.ring)
      /\ r[k] = [b.ring[k] EXCEPT !.bytes = v]
      /\ \A i \in 1..Len(b.ring) : i # k => r[i] = b.ring[i]
  BY <1>0
<1>4. r \in [1..Len(b.ring) -> Entry]
  BY <1>0, <1>2, <1>3
<1> HIDE DEF r
<1>5. r \in Seq(Entry) /\ Len(r) = Len(b.ring)
  BY <1>0, <1>4, FunctionIsSequence
<1>6. /\ c.live = b.live /\ c.destroyPending = b.destroyPending /\ c.ring = r
      /\ c.lastUsed = b.lastUsed /\ c.active = b.active /\ c.shadow = s
  BY <1>0, <1>1, Zenon DEF BufferRecord
<1> HIDE DEF c
<1>7. c \in BufferRecord
  BY <1>0, <1>1, <1>5, RecordUpdate, Zenon
<1>8. \A i \in 1..Len(b.ring) : r[i].used = b.ring[i].used
  BY <1>2, <1>3
<1>9. RecordSound(c)
  BY <1>0, <1>5, <1>6, <1>7, <1>8 DEF RecordSound
<1>10. Grows(b, c)
  BY <1>0, <1>5, <1>6, <1>8, <1>9 DEF Grows
<1> QED
  BY <1>2, <1>3, <1>5, <1>6, <1>8, <1>10 DEF c, Wrote

\* Growing is reflexive and transitive.
LEMMA GrowsSelf ==
  ASSUME NEW b, RecordSound(b)
  PROVE  Grows(b, b)
BY RecordParts DEF Grows

\* Growing the ring in two steps is growing it.
LEMMA GrowsAgain ==
  ASSUME NEW b, NEW c, NEW d, RecordSound(b), Grows(b, c), Grows(c, d)
  PROVE  Grows(b, d)
<1>1. /\ Len(b.ring) \in Nat /\ Len(c.ring) \in Nat /\ Len(d.ring) \in Nat
      /\ b.lastUsed \in Nat /\ c.lastUsed \in Nat /\ d.lastUsed \in Nat
      /\ \A i \in 1..Len(b.ring) : b.ring[i].used \in Nat
      /\ \A i \in 1..Len(c.ring) : c.ring[i].used \in Nat
      /\ \A i \in 1..Len(d.ring) : d.ring[i].used \in Nat
  BY RecordParts DEF Grows
<1>2. \A i \in 1..Len(b.ring) : i \in 1..Len(c.ring) /\ i \in 1..Len(d.ring)
  BY <1>1 DEF Grows
<1>3. \A i \in 1..Len(b.ring) : d.ring[i].used >= b.ring[i].used
  <2> TAKE i \in 1..Len(b.ring)
  <2>1. c.ring[i].used >= b.ring[i].used /\ d.ring[i].used >= c.ring[i].used
    BY <1>2 DEF Grows
  <2> QED
    BY <1>1, <1>2, <2>1
<1> QED
  BY <1>1, <1>3 DEF Grows

\* What a patch is made of.
LEMMA PatchedType ==
  ASSUME NEW old \in [Cells -> Nat], NEW new \in [Cells -> Nat], NEW span
  PROVE  /\ Patched(old, new, span) \in [Cells -> Nat]
         /\ \A c \in Cells : Patched(old, new, span)[c] = IF c \in span THEN new[c] ELSE old[c]
BY DEF Patched

\* Buffer::unlock's copy.
LEMMA CopiedGrows ==
  ASSUME NEW b, RecordSound(b), NEW span, storage \in [Cells -> Nat]
  PROVE  Wrote(b, Copied(b, span), b.active,
               Patched(b.ring[b.active].bytes, storage, span),
               Patched(b.shadow, storage, span))
<1> DEFINE v == Patched(b.ring[b.active].bytes, storage, span)
           s == Patched(b.shadow, storage, span)
<1>0. /\ b \in BufferRecord /\ b.active \in 1..Len(b.ring)
      /\ b.ring[b.active].bytes \in [Cells -> Nat] /\ b.shadow \in [Cells -> Nat]
  BY RecordParts DEF RecordSound
<1>1. v \in [Cells -> Nat] /\ s \in [Cells -> Nat]
  BY <1>0, PatchedType
<1>2. Copied(b, span) = [b EXCEPT !.ring[b.active].bytes = v, !.shadow = s]
  <2>1. /\ DOMAIN b = {"live", "destroyPending", "lastUsed", "ring", "active", "shadow"}
        /\ b.active \in DOMAIN b.ring
    BY <1>0, RecordParts DEF BufferRecord
  <2> QED
    BY <2>1 DEF Copied
<1>3. Copied(b, span) = Written(b, b.active, v, s)
  BY <1>2 DEF Written
<1> HIDE DEF v, s
<1>4. Wrote(b, Written(b, b.active, v, s), b.active, v, s)
  BY <1>0, <1>1, WrittenGrows
<1> QED
  BY <1>3, <1>4 DEF v, s

\* c is what finalizeBufferMap makes of the record.
Finalizes(c, done) ==
    \/ c = buf /\ (app.mode # "discard" \/ flavour = "managed")
    \/ /\ app.mode = "discard" /\ flavour = "plain"
       /\ Wrote(buf, c, buf.active, Blank, Blank)
    \/ /\ app.mode = "discard" /\ flavour = "dynamic"
       /\ \E b : Turns(buf, b, done) /\ Wrote(b, c, b.active, Blank, Blank)

\* finalizeBufferMap keeps the record sound whichever backing it hands out.
LEMMA FinalizedGrows ==
  ASSUME RecordSound(buf), flavour \in Flavours, NEW done \in Nat
  PROVE  Finalizes(Finalized(done), done) /\ Grows(buf, Finalized(done))
<1> DEFINE c == Finalized(done)
<1>1. Blank \in [Cells -> Nat] /\ flavour \in {"dynamic", "managed", "plain"}
  BY VersionConstants DEF Blank
<1>2. CASE app.mode # "discard" \/ flavour = "managed"
  <2>1. c = buf
    BY <1>2 DEF Finalized
  <2> QED
    BY <1>2, <2>1, GrowsSelf DEF Finalizes
<1>3. CASE app.mode = "discard" /\ flavour = "plain"
  <2>1. c = Written(buf, buf.active, Blank, Blank)
    BY <1>3 DEF Finalized, Written
  <2>2. Wrote(buf, c, buf.active, Blank, Blank)
    BY <1>1, <2>1, WrittenGrows DEF RecordSound
  <2> QED
    BY <1>3, <2>2 DEF Finalizes, Wrote
<1>4. CASE app.mode = "discard" /\ flavour = "dynamic"
  <2> DEFINE b == Rotated(buf, done)
  <2>1. c = Written(b, b.active, Blank, Blank)
    BY <1>4 DEF Finalized, Written
  <2>2. Turns(buf, b, done)
    BY <1>4, RotatedGrows
  <2> HIDE DEF b, c
  <2>3. RecordSound(b) /\ b.active \in 1..Len(b.ring) /\ Grows(buf, b)
    BY <2>2 DEF Turns, Grows, RecordSound
  <2>4. Wrote(b, c, b.active, Blank, Blank)
    BY <1>1, <2>1, <2>3, WrittenGrows
  <2>5. Grows(buf, c)
    BY <2>3, <2>4, GrowsAgain DEF Wrote
  <2> QED
    BY <1>4, <2>2, <2>4, <2>5 DEF Finalizes, c
<1> QED
  BY <1>1, <1>2, <1>3, <1>4

\* c is b, and freed perhaps if nothing unfinished uses it.
Ends(b, c) ==
    /\ RecordSound(c) /\ c.ring = b.ring /\ c.lastUsed = b.lastUsed
    /\ c.active = b.active /\ c.shadow = b.shadow
    /\ b.destroyPending => c.destroyPending
    /\ c.live = b.live \/ (~c.live /\ c.destroyPending /\ c.lastUsed <= completed)

\* markBufferDestroyAndGc and reclaimCompleted.
LEMMA ReclaimedParts ==
  ASSUME NEW b, RecordSound(b)
  PROVE  /\ Ends(b, Reclaimed(b))
         /\ Reclaimed(b).destroyPending = b.destroyPending
         /\ Ends(b, Destroyed(b))
         /\ Destroyed(b).destroyPending = TRUE
<1> DEFINE e == [b EXCEPT !.destroyPending = TRUE]
<1>1. ASSUME NEW x, RecordSound(x)
      PROVE  Ends(x, Reclaimed(x)) /\ Reclaimed(x).destroyPending = x.destroyPending
  <2> DEFINE c == Reclaimed(x)
  <2>1. CASE CanReclaim(x)
    <3>1. c = [x EXCEPT !.live = FALSE]
      BY <2>1 DEF Reclaimed
    <3>2. x \in BufferRecord
      BY <1>1 DEF RecordSound
    <3> HIDE DEF c
    <3>3. c \in BufferRecord
      BY <3>1, <3>2, RecordUpdate, Zenon
    <3>4. /\ c.ring = x.ring /\ c.lastUsed = x.lastUsed /\ c.active = x.active
          /\ c.shadow = x.shadow /\ c.destroyPending = x.destroyPending /\ c.live = FALSE
      BY <3>1, <3>2, Zenon DEF BufferRecord
    <3>5. RecordSound(c)
      BY <1>1, <3>3, <3>4 DEF RecordSound
    <3> QED
      BY <2>1, <3>4, <3>5 DEF c, Ends, CanReclaim
  <2>2. CASE ~CanReclaim(x)
    <3>1. Reclaimed(x) = x
      BY <2>2 DEF Reclaimed
    <3> QED
      BY <1>1, <3>1 DEF Ends
  <2> QED
    BY <2>1, <2>2
<1>2. b \in BufferRecord
  BY DEF RecordSound
<1>3. e \in BufferRecord
  BY <1>2, RecordUpdate, Zenon
<1>4. /\ e.ring = b.ring /\ e.lastUsed = b.lastUsed /\ e.active = b.active
      /\ e.shadow = b.shadow /\ e.destroyPending = TRUE /\ e.live = b.live
  BY <1>2, Zenon DEF BufferRecord
<1> HIDE DEF e
<1>5. RecordSound(e)
  BY <1>3, <1>4 DEF RecordSound
<1>6. Destroyed(b) = Reclaimed(e)
  BY DEF Destroyed, e
<1>7. Ends(e, Reclaimed(e)) /\ Reclaimed(e).destroyPending = TRUE
  BY <1>1, <1>4, <1>5
<1>8. Ends(b, Destroyed(b))
  BY <1>4, <1>6, <1>7 DEF Ends
<1> QED
  BY <1>1, <1>6, <1>7, <1>8

-----------------------------------------------------------------------------
(* Sequences of draws and of tasks. *)

\* The elements of a sequence that grows or shrinks.
LEMMA RangeOps ==
  ASSUME NEW S, NEW s \in Seq(S)
  PROVE  /\ \A x \in S : Range(Append(s, x)) = Range(s) \cup {x}
         /\ s # <<>> => Range(s) = {Head(s)} \cup Range(Tail(s))
<1>1. ASSUME NEW x \in S
      PROVE  Range(Append(s, x)) = Range(s) \cup {x}
  <2>1. /\ DOMAIN Append(s, x) = 1..(Len(s) + 1) /\ DOMAIN s = 1..Len(s)
        /\ Len(s) \in Nat
        /\ \A i \in 1..Len(s) : Append(s, x)[i] = s[i]
        /\ Append(s, x)[Len(s) + 1] = x
    OBVIOUS
  <2>2. ASSUME NEW y \in Range(Append(s, x))
        PROVE  y \in Range(s) \cup {x}
    <3>1. PICK i \in 1..(Len(s) + 1) : y = Append(s, x)[i]
      BY <2>1, <2>2 DEF Range
    <3>2. CASE i = Len(s) + 1
      BY <2>1, <3>1, <3>2
    <3>3. CASE i \in 1..Len(s)
      BY <2>1, <3>1, <3>3 DEF Range
    <3> QED
      BY <2>1, <3>2, <3>3
  <2>3. ASSUME NEW y \in Range(s) \cup {x}
        PROVE  y \in Range(Append(s, x))
    <3>1. CASE y = x
      BY <2>1, <3>1 DEF Range
    <3>2. CASE y \in Range(s)
      <4>1. PICK i \in 1..Len(s) : y = s[i]
        BY <2>1, <3>2 DEF Range
      <4>2. i \in 1..(Len(s) + 1) /\ y = Append(s, x)[i]
        BY <2>1, <4>1
      <4> QED
        BY <2>1, <4>2 DEF Range
    <3> QED
      BY <2>3, <3>1, <3>2
  <2> QED
    BY <2>2, <2>3
<1>2. ASSUME s # <<>>
      PROVE  Range(s) = {Head(s)} \cup Range(Tail(s))
  <2>1. /\ DOMAIN Tail(s) = 1..(Len(s) - 1) /\ DOMAIN s = 1..Len(s)
        /\ Len(s) \in Nat /\ Len(s) >= 1
        /\ \A i \in 1..(Len(s) - 1) : Tail(s)[i] = s[i + 1]
        /\ Head(s) = s[1]
    BY <1>2
  <2>2. ASSUME NEW y \in Range(s)
        PROVE  y \in {Head(s)} \cup Range(Tail(s))
    <3>1. PICK i \in 1..Len(s) : y = s[i]
      BY <2>1, <2>2 DEF Range
    <3>2. CASE i = 1
      BY <2>1, <3>1, <3>2
    <3>3. CASE i # 1
      <4>1. i - 1 \in 1..(Len(s) - 1) /\ (i - 1) + 1 = i
        BY <2>1, <3>3
      <4>2. y = Tail(s)[i - 1]
        BY <2>1, <3>1, <4>1
      <4> QED
        BY <2>1, <4>1, <4>2 DEF Range
    <3> QED
      BY <3>2, <3>3
  <2>3. ASSUME NEW y \in {Head(s)} \cup Range(Tail(s))
        PROVE  y \in Range(s)
    <3>1. CASE y = Head(s)
      BY <2>1, <3>1 DEF Range
    <3>2. CASE y \in Range(Tail(s))
      <4>1. PICK i \in 1..(Len(s) - 1) : y = Tail(s)[i]
        BY <2>1, <3>2 DEF Range
      <4>2. i + 1 \in 1..Len(s) /\ y = s[i + 1]
        BY <2>1, <4>1
      <4> QED
        BY <2>1, <4>2 DEF Range
    <3> QED
      BY <2>3, <3>1, <3>2
  <2> QED
    BY <2>2, <2>3
<1> QED
  BY <1>1, <1>2

\* The parts of tasks and draws.
LEMMA TaskParts ==
  /\ \A t \in Chunk : t.kind = "chunk" /\ t.backing \in Nat /\ t.draws \in Seq(DrawRec)
  /\ \A t \in Mutation : /\ t.kind = "mutation" /\ t.backing \in Nat
                         /\ t.span \in SUBSET Cells /\ t.bytes \in [Cells -> Nat]
  /\ \A d \in DrawRec : /\ d.backing \in Nat /\ d.era \in Nat /\ d.reads \in Spans
                        /\ d.want \in [Cells -> Nat] /\ d.reads \subseteq Cells
<1>1. \A t \in Chunk : t.kind = "chunk" /\ t.backing \in Nat /\ t.draws \in Seq(DrawRec)
  BY DEF Chunk
<1>2. \A t \in Mutation : /\ t.kind = "mutation" /\ t.backing \in Nat
                          /\ t.span \in SUBSET Cells /\ t.bytes \in [Cells -> Nat]
  BY DEF Mutation
<1>3. \A d \in DrawRec : /\ d.backing \in Nat /\ d.era \in Nat /\ d.reads \in Spans
                         /\ d.want \in [Cells -> Nat]
  BY DEF DrawRec
<1>4. \A x \in Spans : x \subseteq Cells
  BY VersionConstants
<1> QED
  BY <1>1, <1>2, <1>3, <1>4

\* The task that captureChunkBufferBindings makes of the recorded draws.
SealedDraws == [i \in DOMAIN recorder |-> [recorder[i] EXCEPT !.backing = buf.active]]
SealedChunk == [kind |-> "chunk", backing |-> buf.active, draws |-> SealedDraws]

\* Sealing a chunk gives every recorded draw the active backing and nothing else.
LEMMA SealedTask ==
  ASSUME recorder \in Seq(DrawRec), buf.active \in Nat
  PROVE  /\ SealedDraws \in Seq(DrawRec) /\ Len(SealedDraws) = Len(recorder)
         /\ \A i \in 1..Len(recorder) :
              /\ SealedDraws[i].backing = buf.active
              /\ SealedDraws[i].reads = recorder[i].reads
              /\ SealedDraws[i].want = recorder[i].want
              /\ SealedDraws[i].era = recorder[i].era
         /\ SealedChunk \in Chunk
         /\ SealedChunk.kind = "chunk" /\ SealedChunk.backing = buf.active
         /\ SealedChunk.draws = SealedDraws
         /\ Sealed = IF recorder = <<>> THEN fifo ELSE Append(fifo, SealedChunk)
<1>1. Len(recorder) \in Nat /\ DOMAIN recorder = 1..Len(recorder)
      /\ \A i \in 1..Len(recorder) : recorder[i] \in DrawRec
  OBVIOUS
<1>3. \A i \in 1..Len(recorder) :
        SealedDraws[i] = [recorder[i] EXCEPT !.backing = buf.active]
  BY <1>1 DEF SealedDraws
<1>4. \A i \in 1..Len(recorder) :
        /\ SealedDraws[i] \in DrawRec
        /\ SealedDraws[i].backing = buf.active
        /\ SealedDraws[i].reads = recorder[i].reads
        /\ SealedDraws[i].want = recorder[i].want
        /\ SealedDraws[i].era = recorder[i].era
  <2> TAKE i \in 1..Len(recorder)
  <2>1. recorder[i] \in DrawRec
    BY <1>1
  <2>2. SealedDraws[i] = [recorder[i] EXCEPT !.backing = buf.active]
    BY <1>3
  <2> QED
    BY <2>1, <2>2, Zenon DEF DrawRec
<1>5. SealedDraws \in [1..Len(recorder) -> DrawRec]
  BY <1>1, <1>4 DEF SealedDraws
<1>6. SealedDraws \in Seq(DrawRec) /\ Len(SealedDraws) = Len(recorder)
  BY <1>1, <1>5, FunctionIsSequence
<1>7. SealedChunk \in Chunk
  BY <1>6, Zenon DEF SealedChunk, Chunk
<1>8. SealedChunk.kind = "chunk" /\ SealedChunk.backing = buf.active
      /\ SealedChunk.draws = SealedDraws
  BY DEF SealedChunk
<1>9. Sealed = IF recorder = <<>> THEN fifo ELSE Append(fifo, SealedChunk)
  BY DEF Sealed, SealedChunk, SealedDraws
<1> QED
  BY <1>4, <1>6, <1>7, <1>8, <1>9

-----------------------------------------------------------------------------
(* The invariant is kept. *)

\* prepareSlotForPublish stamps what the draws of the slot captured.
SlotBackings == {d.backing : d \in Range(slot)}

\* The stamp at publication raises the marks of the backings of the slot.
LEMMA SlotStampedGrows ==
  ASSUME RecordSound(buf), slot \in Seq(DrawRec), nextSeq \in Nat
  PROVE  Stamps(buf, SlotStamped, SlotBackings, nextSeq)
<1>1. \A d \in Range(slot) : d \in DrawRec
  BY DEF Range
<1>2. SlotBackings \in SUBSET Nat
  BY <1>1, TaskParts DEF SlotBackings
<1>3. SlotStamped = Stamped(buf, SlotBackings, nextSeq)
  BY DEF SlotStamped, SlotBackings
<1> QED
  BY <1>2, <1>3, StampedGrows

\* The active entry takes a write of the application.
UploadedFrom == IF flavour = "managed" THEN Rotated(buf, completed) ELSE buf

\* What every action does to the record: it is used, or, at the end of a
\* reference or a sequence, perhaps freed.
LEMMA BufferStep ==
  ASSUME RecordSound(buf), StateTypes, WorkerShape, Captured, Next
  PROVE  /\ flavour' = flavour
         /\ \/ Grows(buf, buf')
            \/ (Release \/ Settle \/ Reclaim) /\ Ends(buf, buf')
<1>0. /\ flavour \in Flavours /\ storage \in [Cells -> Nat] /\ completed \in Nat
      /\ nextSeq \in Nat /\ slot \in Seq(DrawRec) /\ ticket \in Nat /\ app.seq \in Nat
  BY DEF StateTypes, Call
<1>1. ASSUME UNCHANGED buf
      PROVE  Grows(buf, buf')
  BY <1>1, GrowsSelf
<1>2. Stamps(buf, SlotStamped, SlotBackings, nextSeq)
  BY <1>0, SlotStampedGrows
<1>3. CASE (\E reads \in Spans : Draw(reads)) \/ CommitChunk
  BY <1>1, <1>3 DEF Draw, CommitChunk
<1>4. CASE \E mode \in Modes, span \in SUBSET Cells : Lock(mode, span)
  BY <1>1, <1>4 DEF Lock
<1>5. CASE LockFence \/ MapFast \/ Write
  BY <1>1, <1>5 DEF LockFence, MapFast, Write
<1>6. CASE FinalizeFast
  BY <1>0, <1>6, FinalizedGrows DEF FinalizeFast
<1>7. CASE MapWaited
  BY <1>0, <1>7, FinalizedGrows DEF MapWaited
<1>8. CASE MapSlow
  BY <1>1, <1>2, <1>8 DEF MapSlow, PublishWritingSlot, Stamps
<1>9. CASE UnlockOffload
  <2>1. flavour = "managed" /\ buf' = Rotated(buf, completed) /\ flavour' = flavour
    BY <1>9 DEF UnlockOffload, Offloaded
  <2> QED
    BY <1>0, <2>1, RotatedGrows DEF Turns
<1>10. CASE UnlockUpload
  <2>1. Grows(buf, UploadedFrom) /\ RecordSound(UploadedFrom)
    <3>1. CASE flavour = "managed"
      BY <1>0, <3>1, RotatedGrows DEF UploadedFrom, Turns, Grows
    <3>2. CASE flavour # "managed"
      BY <3>2, GrowsSelf DEF UploadedFrom
    <3> QED
      BY <3>1, <3>2
  <2>2. CASE buf' = Copied(buf, app.span)
    BY <1>0, <1>10, <2>2, CopiedGrows DEF Wrote, UnlockUpload
  <2>3. CASE buf' = Copied(UploadedFrom, Cells)
    <3>1. Grows(UploadedFrom, Copied(UploadedFrom, Cells))
      BY <1>0, <2>1, CopiedGrows DEF Wrote
    <3> QED
      BY <1>10, <2>1, <2>3, <3>1, GrowsAgain DEF UnlockUpload
  <2> QED
    BY <1>10, <2>2, <2>3 DEF UnlockUpload, UploadedFrom
<1>11. CASE Release
  <2>1. flavour' = flavour /\ (buf' = buf \/ buf' = Destroyed(buf))
    BY <1>11 DEF Release
  <2> QED
    BY <1>1, <1>11, <2>1, ReclaimedParts
<1>12. CASE Pop \/ ReadTicket \/ EmitNothing \/ PublishReplayed
  BY <1>1, <1>12 DEF Pop, ReadTicket, EmitNothing, PublishReplayed
<1>13. CASE StampLockFree
  <2>1. buf' = Stamped(buf, {0}, ticket) /\ flavour' = flavour
    BY <1>13 DEF StampLockFree
  <2>2. Stamps(buf, Stamped(buf, {0}, ticket), {0}, ticket)
    BY <1>0, StampedGrows
  <2> QED
    BY <2>1, <2>2 DEF Stamps
<1>14. CASE Restamp
  <2>1. (buf' = Stamped(buf, {0}, nextSeq) \/ buf' = buf) /\ flavour' = flavour
    BY <1>14 DEF Restamp
  <2>2. Stamps(buf, Stamped(buf, {0}, nextSeq), {0}, nextSeq)
    BY <1>0, StampedGrows
  <2> QED
    BY <1>1, <2>1, <2>2 DEF Stamps
<1>15. CASE AppendDraw
  <2>1. buf' = Stamped(buf, {task.backing, 0}, nextSeq) /\ flavour' = flavour
    BY <1>15 DEF AppendDraw, DrawStamped
  <2>2. task.backing \in Nat
    BY <1>15, TaskParts DEF AppendDraw, WorkerShape
  <2>3. Stamps(buf, Stamped(buf, {task.backing, 0}, nextSeq), {task.backing, 0}, nextSeq)
    BY <1>0, <2>2, StampedGrows
  <2> QED
    BY <2>1, <2>3 DEF Stamps
<1>16. CASE Apply
  <2> DEFINE new == Patched(buf.shadow, task.bytes, task.span)
  <2>1. buf' = Written(buf, task.backing, new, new) /\ flavour' = flavour
    BY <1>16 DEF Apply, Written
  <2>2. task \in Mutation /\ wpc # "idle"
    BY <1>16 DEF Apply, WorkerShape
  <2>3. task.backing \in 1..Len(buf.ring)
    BY <2>2 DEF Captured, Held
  <2>4. new \in [Cells -> Nat]
    <3>1. buf.shadow \in [Cells -> Nat] /\ task.bytes \in [Cells -> Nat]
      BY <2>2, TaskParts, RecordParts
    <3> QED
      BY <3>1, PatchedType
  <2> HIDE DEF new
  <2> QED
    BY <2>1, <2>3, <2>4, WrittenGrows DEF Wrote
<1>17. CASE Settle
  <2>1. flavour' = flavour /\ (buf' = buf \/ buf' = Destroyed(buf))
    BY <1>17 DEF Settle
  <2> QED
    BY <1>1, <1>17, <2>1, ReclaimedParts
<1>18. CASE PublishSlot \/ PublishOther
  BY <1>2, <1>18 DEF PublishSlot, PublishOther, PublishWritingSlot, Stamps
<1>19. CASE Complete
  BY <1>1, <1>19 DEF Complete
<1>20. CASE Reclaim
  BY <1>20, ReclaimedParts DEF Reclaim
<1>21. \A span \in Spans \cup {Cells} : span \in SUBSET Cells
  BY VersionConstants
<1> QED
  BY <1>3, <1>4, <1>5, <1>6, <1>7, <1>8, <1>9, <1>10, <1>11, <1>12, <1>13, <1>14,
     <1>15, <1>16, <1>17, <1>18, <1>19, <1>20, <1>21
     DEF Next, InCall, WorkerStep, Modes

\* The types are kept, and the numbers of what is published.
LEMMA StateTypesStep ==
  ASSUME LifeInv, Next
  PROVE  StateTypes'
<1> USE DEF LifeInv, StateTypes
<1>0. flavour' = flavour
  BY BufferStep
<1>1. /\ recorder \in Seq(DrawRec) /\ fifo \in Seq(Task) /\ slot \in Seq(DrawRec)
      /\ gpu \in Seq(Seq(DrawRec)) /\ storage \in [Cells -> Nat] /\ app \in Call
      /\ nextSeq \in Nat /\ Len(gpu) \in Nat /\ completed \in Nat
  OBVIOUS
<1>2. Sealed \in Seq(Task)
  <2>1. buf.active \in Nat
    BY RecordParts
  <2>2. SealedChunk \in Task /\ Sealed = IF recorder = <<>> THEN fifo ELSE Append(fifo, SealedChunk)
    BY <1>1, <2>1, SealedTask DEF Task
  <2> HIDE DEF Sealed, SealedChunk
  <2>3. CASE recorder = <<>>
    BY <1>1, <2>2, <2>3
  <2>4. CASE recorder # <<>>
    <3>1. Sealed = Append(fifo, SealedChunk)
      BY <2>2, <2>4
    <3> QED
      BY <1>1, <2>2, <3>1
  <2> QED
    BY <2>3, <2>4
<1>3. Blank \in [Cells -> Nat] /\ NoCall \in Call
  BY DEF Blank, NoCall, Call, Modes
<1>4. ASSUME NEW p \in {"idle", "fence", "map", "finalize", "wait", "locked", "unlock"},
             NEW n \in Nat
      PROVE  [app EXCEPT !.pc = p] \in Call /\ [app EXCEPT !.pc = p, !.seq = n] \in Call
  BY Zenon DEF Call
<1>5. ASSUME NEW reads \in Spans, Draw(reads)
      PROVE  StateTypes'
  <2>1. [backing |-> 0, era |-> era, reads |-> reads, want |-> storage] \in DrawRec
    BY <1>5 DEF DrawRec
  <2> QED
    BY <1>5, <2>1 DEF Draw, wvars, qvars
<1>6. CASE CommitChunk
  BY <1>2, <1>6 DEF CommitChunk, wvars, qvars
<1>7. ASSUME NEW mode \in Modes, NEW span \in SUBSET Cells, Lock(mode, span)
      PROVE  StateTypes'
  <2>1. [pc |-> "fence", mode |-> mode, span |-> span, seq |-> 0] \in Call
    BY <1>7 DEF Call
  <2>2. /\ app' \in Call /\ fifo' \in Seq(Task) /\ recorder' \in Seq(DrawRec)
        /\ storage' \in [Cells -> Nat] /\ era' \in Nat
    BY <1>2, <1>3, <1>7, <2>1 DEF Lock
  <2>3. UNCHANGED <<flavour, handle, writes, drawn, ticket, slot, nextSeq, gpu,
                    completed, finish>>
    BY <1>7 DEF Lock, wvars, qvars
  <2> QED
    BY <2>2, <2>3
<1>8. CASE LockFence
  BY <1>4, <1>8 DEF LockFence, wvars, qvars
<1>9. CASE MapFast
  BY <1>4, <1>9 DEF MapFast, wvars, qvars
<1>10. CASE FinalizeFast
  BY <1>4, <1>10 DEF FinalizeFast, wvars, qvars
<1>11. ASSUME PublishWritingSlot
       PROVE  /\ slot' \in Seq(DrawRec) /\ gpu' \in Seq(Seq(DrawRec))
              /\ completed' \in Nat /\ finish' \in BOOLEAN /\ nextSeq' \in Nat
              /\ nextSeq' = completed' + Len(gpu') + 1
  <2>1. /\ gpu' = Append(gpu, slot) /\ slot' = <<>> /\ nextSeq' = nextSeq + 1
        /\ UNCHANGED <<completed, finish>>
    BY <1>11 DEF PublishWritingSlot
  <2>2. gpu' \in Seq(Seq(DrawRec)) /\ Len(gpu') = Len(gpu) + 1
    BY <1>1, <2>1
  <2> QED
    BY <1>1, <2>1, <2>2
<1>12. CASE MapSlow
  <2>1. /\ slot' \in Seq(DrawRec) /\ gpu' \in Seq(Seq(DrawRec))
        /\ completed' \in Nat /\ finish' \in BOOLEAN /\ nextSeq' \in Nat
        /\ nextSeq' = completed' + Len(gpu') + 1 /\ nextSeq' - 1 \in Nat
    <3>1. CASE PublishWritingSlot
      BY <1>1, <1>11, <3>1
    <3>2. CASE UNCHANGED <<buf, qvars>>
      BY <1>1, <3>2 DEF qvars
    <3> QED
      BY <1>12, <3>1, <3>2 DEF MapSlow
  <2>2. MapWaitSeq \in Nat
    BY RecordParts DEF MapWaitSeq
  <2>3. CommittedWaitTarget(MapWaitSeq, nextSeq' - 1) \in Nat
    BY <2>1, <2>2 DEF CommittedWaitTarget
  <2>4. app' \in Call
    BY <1>4, <1>12, <2>3 DEF MapSlow
  <2>5. UNCHANGED <<flavour, storage, handle, recorder, era, writes, drawn, fifo, ticket>>
    BY <1>12 DEF MapSlow, wvars
  <2> QED
    BY <2>1, <2>4, <2>5
<1>13. CASE MapWaited
  BY <1>4, <1>13 DEF MapWaited, wvars, qvars
<1>14. CASE Write
  <2>1. storage' \in [Cells -> Nat] /\ writes' \in Nat
    BY <1>14 DEF Write
  <2>2. app' \in Call
    BY <1>4, <1>14 DEF Write
  <2> QED
    BY <1>14, <2>1, <2>2 DEF Write, wvars, qvars
<1>15. CASE UnlockOffload
  <2> DEFINE t == [kind |-> "mutation", backing |-> buf'.active,
                   span |-> app.span, bytes |-> storage]
  <2>1. buf'.active \in Nat
    <3>1. flavour = "managed" /\ buf' = Rotated(buf, completed)
      BY <1>15 DEF UnlockOffload, Offloaded
    <3>2. RecordSound(buf')
      BY <1>1, <3>1, RotatedGrows DEF Turns, Grows
    <3> QED
      BY <3>2, RecordParts
  <2>2. app.span \in SUBSET Cells
    BY <1>1 DEF Call
  <2>3. t \in Mutation
    BY <1>1, <2>1, <2>2, Zenon DEF Mutation
  <2>4. fifo' = Append(fifo, t)
    BY <1>15 DEF UnlockOffload
  <2> HIDE DEF t
  <2>5. fifo' \in Seq(Task)
    BY <1>1, <2>3, <2>4 DEF Task
  <2> QED
    BY <1>3, <1>15, <2>5 DEF UnlockOffload, wvars, qvars
<1>16. CASE UnlockUpload
  BY <1>3, <1>16 DEF UnlockUpload, wvars, qvars
<1>17. CASE Release
  BY <1>17 DEF Release, wvars, qvars
<1>18. CASE Pop
  <2>1. fifo' \in Seq(Task)
    BY <1>1, <1>18 DEF Pop
  <2> QED
    BY <1>18, <2>1 DEF Pop, avars, qvars
<1>19. CASE ReadTicket \/ StampLockFree \/ Restamp \/ EmitNothing \/ Apply
            \/ PublishReplayed \/ Settle
  BY <1>1, <1>19 DEF ReadTicket, StampLockFree, Restamp, EmitNothing, Apply,
     PublishReplayed, Settle, avars, qvars
<1>20. CASE AppendDraw
  <2>1. task.draws \in Seq(DrawRec) /\ task.draws # <<>>
    BY <1>20, TaskParts DEF AppendDraw, WorkerShape
  <2>2. slot' \in Seq(DrawRec)
    BY <1>1, <1>20, <2>1 DEF AppendDraw
  <2> QED
    BY <1>20, <2>2 DEF AppendDraw, avars
<1>21. CASE PublishSlot \/ PublishOther
  BY <1>11, <1>21 DEF PublishSlot, PublishOther, PublishWritingSlot, avars, wvars
<1>22. CASE Complete
  <2>1. /\ gpu # <<>> /\ gpu' = Tail(gpu) /\ completed' = completed + 1 /\ finish' = TRUE
        /\ UNCHANGED <<flavour, storage, app, handle, recorder, fifo, slot, ticket, era,
                       writes, drawn, nextSeq>>
    BY <1>22 DEF Complete, avars, wvars
  <2>2. gpu' \in Seq(Seq(DrawRec)) /\ Len(gpu') = Len(gpu) - 1
    BY <1>1, <2>1
  <2> QED
    BY <1>1, <2>1, <2>2
<1>23. CASE Reclaim
  BY <1>23 DEF Reclaim, avars, wvars
<1>24. \A span \in Spans \cup {Cells} : span \in SUBSET Cells
  BY VersionConstants
<1> QED
  BY <1>5, <1>6, <1>7, <1>8, <1>9, <1>10, <1>12, <1>13, <1>14, <1>15, <1>16, <1>17,
     <1>18, <1>19, <1>20, <1>21, <1>22, <1>23, <1>24
     DEF Next, InCall, WorkerStep, Modes

\* The worker goes through a task from its kind's first step to the settlement.
LEMMA WorkerShapeStep ==
  ASSUME LifeInv, Next
  PROVE  WorkerShape'
<1> USE DEF LifeInv, WorkerShape
<1>1. CASE Pop
  <2>1. wpc = "idle" /\ fifo # <<>> /\ task' = Head(fifo)
        /\ wpc' = IF task'.kind = "chunk" THEN "ticket" ELSE "apply"
    BY <1>1 DEF Pop
  <2>2. task' \in Task
    BY <2>1 DEF StateTypes
  <2> QED
    BY <2>1, <2>2, TaskParts DEF Task
<1>2. CASE ReadTicket \/ StampLockFree \/ Restamp \/ Apply
  BY <1>2 DEF ReadTicket, StampLockFree, Restamp, Apply
<1>3. CASE AppendDraw \/ EmitNothing
  <2>1. wpc = "append" /\ wpc' = wpc /\ task \in Chunk /\ task.draws # <<>>
    BY <1>3 DEF AppendDraw, EmitNothing
  <2>2. Tail(task.draws) \in Seq(DrawRec) /\ <<>> \in Seq(DrawRec)
    BY <2>1, TaskParts
  <2>3. \A s \in Seq(DrawRec) : [task EXCEPT !.draws = s] \in Chunk
    BY <2>1, Zenon DEF Chunk
  <2> QED
    BY <1>3, <2>1, <2>2, <2>3 DEF AppendDraw, EmitNothing
<1>4. CASE PublishReplayed
  BY <1>4 DEF PublishReplayed
<1>5. CASE Settle
  BY <1>5 DEF Settle
<1>6. CASE UNCHANGED wvars
  BY <1>6 DEF wvars
<1> QED
  BY <1>1, <1>2, <1>3, <1>4, <1>5, <1>6
     DEF Next, InCall, WorkerStep, Draw, CommitChunk, Lock, LockFence, MapFast,
         FinalizeFast, MapSlow, MapWaited, UnlockOffload, UnlockUpload, Write,
         Release, PublishSlot, PublishOther, Complete, Reclaim

\* Where a task that is held after a step comes from.
ComesFrom(t) ==
    \/ t \in Held
    \/ recorder # <<>> /\ t = SealedChunk /\ buf' = buf /\ app.pc = "idle"
    \/ t \in Mutation /\ t.backing = buf'.active
    \/ /\ task \in Held /\ task \in Chunk /\ t \in Chunk /\ t.backing = task.backing
       /\ \A i \in 1..Len(t.draws) :
            \E j \in 1..Len(task.draws) : t.draws[i] = task.draws[j]

\* Where a task of the fifo or of the worker can come from in one step.
LEMMA HeldStep ==
  ASSUME LifeInv, Next, NEW t \in Held'
  PROVE  ComesFrom(t)
<1>1. /\ recorder \in Seq(DrawRec) /\ fifo \in Seq(Task) /\ storage \in [Cells -> Nat]
      /\ app.span \in SUBSET Cells /\ buf.active \in Nat
  BY RecordParts DEF LifeInv, StateTypes, Call
<1>2. Held' = Range(fifo') \cup (IF wpc' = "idle" THEN {} ELSE {task'})
  BY DEF Held
<1>3. CASE fifo' = fifo /\ (wpc' = "idle" \/ (wpc # "idle" /\ task' = task))
  <2>1. t \in Held
    BY <1>2, <1>3 DEF Held
  <2> QED
    BY <2>1 DEF ComesFrom
<1>4. CASE /\ fifo' = Sealed /\ wpc' = wpc /\ task' = task /\ buf' = buf
           /\ app.pc = "idle"
  <2>1. /\ SealedChunk \in Task
        /\ Sealed = IF recorder = <<>> THEN fifo ELSE Append(fifo, SealedChunk)
    BY <1>1, SealedTask DEF Task
  <2>2. CASE recorder = <<>>
    BY <1>3, <1>4, <2>1, <2>2 DEF Held
  <2>3. CASE recorder # <<>>
    <3>1. Range(fifo') = Range(fifo) \cup {SealedChunk}
      BY <1>1, <1>4, <2>1, <2>3, RangeOps
    <3>2. t \in Held \/ t = SealedChunk
      BY <1>2, <1>4, <3>1 DEF Held
    <3> QED
      BY <1>4, <2>3, <3>2 DEF ComesFrom
  <2> QED
    BY <2>2, <2>3
<1>5. CASE UnlockOffload
  <2> DEFINE m == [kind |-> "mutation", backing |-> buf'.active,
                   span |-> app.span, bytes |-> storage]
  <2>1. fifo' = Append(fifo, m) /\ UNCHANGED <<wpc, task>>
    BY <1>5 DEF UnlockOffload, wvars
  <2>2. buf'.active \in Nat
    <3>1. RecordSound(buf')
      BY BufferStep DEF LifeInv, Grows, Ends
    <3> QED
      BY <3>1, RecordParts
  <2>3. m \in Mutation
    BY <1>1, <2>2, Zenon DEF Mutation
  <2>4. m.backing = buf'.active
    OBVIOUS
  <2> HIDE DEF m
  <2>5. Range(fifo') = Range(fifo) \cup {m}
    BY <1>1, <2>1, <2>3, RangeOps DEF Task
  <2>6. t \in Held \/ t = m
    BY <1>2, <2>1, <2>5 DEF Held
  <2> QED
    BY <2>3, <2>4, <2>6 DEF ComesFrom
<1>6. CASE Pop
  <2>1. fifo # <<>> /\ task' = Head(fifo) /\ fifo' = Tail(fifo)
    BY <1>6 DEF Pop
  <2>2. Range(fifo) = {Head(fifo)} \cup Range(Tail(fifo))
    BY <1>1, <2>1, RangeOps
  <2> QED
    BY <1>2, <2>1, <2>2 DEF ComesFrom, Held
<1>7. CASE AppendDraw \/ EmitNothing
  <2>1. /\ wpc = "append" /\ task.draws # <<>> /\ UNCHANGED <<wpc, fifo>>
        /\ \/ task' = [task EXCEPT !.draws = Tail(task.draws)]
           \/ task' = [task EXCEPT !.draws = <<>>]
    BY <1>7 DEF AppendDraw, EmitNothing
  <2>2. task \in Chunk /\ task \in Held
    BY <2>1 DEF LifeInv, WorkerShape, Held
  <2>3. task.draws \in Seq(DrawRec)
    BY <2>2, TaskParts
  <2>4. \A s \in Seq(DrawRec) :
          /\ [task EXCEPT !.draws = s] \in Chunk
          /\ [task EXCEPT !.draws = s].backing = task.backing
          /\ [task EXCEPT !.draws = s].draws = s
    BY <2>2, Zenon DEF Chunk
  <2>5. task' \in Chunk /\ task'.backing = task.backing
        /\ (task'.draws = Tail(task.draws) \/ task'.draws = <<>>)
    <3>1. Tail(task.draws) \in Seq(DrawRec) /\ <<>> \in Seq(DrawRec)
      BY <2>1, <2>3
    <3> QED
      BY <2>1, <2>4, <3>1, Zenon
  <2>6. \A i \in 1..Len(task'.draws) :
          \E j \in 1..Len(task.draws) : task'.draws[i] = task.draws[j]
    <3>1. CASE task'.draws = <<>>
      BY <3>1
    <3>2. CASE task'.draws = Tail(task.draws)
      <4> TAKE i \in 1..Len(task'.draws)
      <4>1. i + 1 \in 1..Len(task.draws) /\ task'.draws[i] = task.draws[i + 1]
        BY <2>1, <2>3, <3>2
      <4> QED
        BY <4>1
    <3> QED
      BY <2>5, <3>1, <3>2
  <2>7. t \in Held \/ t = task'
    BY <1>2, <2>1 DEF Held
  <2> QED
    BY <2>2, <2>5, <2>6, <2>7 DEF ComesFrom
<1>8. CASE \E mode \in Modes, span \in Spans \cup {Cells} : Lock(mode, span)
  <2>1. /\ fifo' = Sealed \/ fifo' = fifo
        /\ app.pc = "idle" /\ UNCHANGED <<buf, wpc, task>>
    BY <1>8 DEF Lock, wvars
  <2> QED
    BY <1>3, <1>4, <2>1
<1>9. CASE CommitChunk
  BY <1>4, <1>9 DEF CommitChunk, wvars
<1>10. CASE (\E reads \in Spans : Draw(reads)) \/ LockFence \/ MapFast \/ FinalizeFast
            \/ MapSlow \/ MapWaited \/ Write \/ UnlockUpload \/ Release
  BY <1>3, <1>10 DEF Draw, LockFence, MapFast, FinalizeFast, MapSlow, MapWaited, Write,
     UnlockUpload, Release, wvars
<1>11. CASE ReadTicket \/ StampLockFree \/ Restamp \/ Apply \/ PublishReplayed \/ Settle
  BY <1>3, <1>11 DEF ReadTicket, StampLockFree, Restamp, Apply, PublishReplayed, Settle
<1>12. CASE PublishSlot \/ PublishOther \/ Complete \/ Reclaim
  BY <1>3, <1>12 DEF PublishSlot, PublishOther, Complete, Reclaim, wvars
<1> QED
  BY <1>5, <1>6, <1>7, <1>8, <1>9, <1>10, <1>11, <1>12
     DEF Next, InCall, WorkerStep, Modes

\* What a step does to the slots.
SlotsKept == UNCHANGED <<slot, nextSeq, gpu, completed>>
SlotGrew ==
    /\ wpc = "append" /\ task \in Held /\ task \in Chunk /\ task.draws # <<>> /\ buf.live
    /\ slot' = Append(slot, Head(task.draws)) /\ UNCHANGED <<nextSeq, gpu, completed>>
    /\ Stamps(buf, buf', {task.backing, 0}, nextSeq)
SlotPublished ==
    /\ gpu' = Append(gpu, slot) /\ slot' = <<>> /\ nextSeq' = nextSeq + 1
    /\ UNCHANGED completed
    /\ Stamps(buf, buf', SlotBackings, nextSeq)
SlotDone ==
    /\ gpu # <<>> /\ gpu' = Tail(gpu) /\ completed' = completed + 1
    /\ UNCHANGED <<slot, nextSeq, buf>>

\* What one step can do to the slot that is being filled and to the GPU.
LEMMA SlotStep ==
  ASSUME LifeInv, Next
  PROVE  SlotsKept \/ SlotGrew \/ SlotPublished \/ SlotDone
<1>0. /\ RecordSound(buf) /\ slot \in Seq(DrawRec) /\ nextSeq \in Nat
  BY DEF LifeInv, StateTypes
<1>1. CASE AppendDraw
  <2>1. /\ wpc = "append" /\ task.draws # <<>> /\ buf' = DrawStamped
        /\ slot' = Append(slot, Head(task.draws)) /\ UNCHANGED <<nextSeq, gpu, completed>>
    BY <1>1 DEF AppendDraw
  <2>2. task \in Held /\ task \in Chunk /\ buf.live
    BY <2>1 DEF LifeInv, WorkerShape, Held, Referenced
  <2>3. {task.backing, 0} \in SUBSET Nat
    BY <2>2, TaskParts
  <2>4. Stamps(buf, Stamped(buf, {task.backing, 0}, nextSeq), {task.backing, 0}, nextSeq)
    BY <1>0, <2>3, StampedGrows
  <2> QED
    BY <2>1, <2>2, <2>4 DEF SlotGrew, DrawStamped
<1>2. CASE PublishWritingSlot
  BY <1>0, <1>2, SlotStampedGrows DEF PublishWritingSlot, SlotPublished
<1>3. CASE Complete
  BY <1>3 DEF Complete, SlotDone
<1>4. CASE UNCHANGED qvars
  BY <1>4 DEF qvars, SlotsKept
<1>5. CASE Reclaim
  BY <1>5 DEF Reclaim, SlotsKept
<1>6. CASE MapSlow
  BY <1>2, <1>4, <1>6 DEF MapSlow, qvars
<1> QED
  BY <1>1, <1>2, <1>3, <1>4, <1>5, <1>6
     DEF Next, InCall, WorkerStep, Draw, CommitChunk, Lock, LockFence, MapFast,
         FinalizeFast, MapWaited, UnlockOffload, UnlockUpload, Write,
         Release, PublishSlot, PublishOther, Pop, ReadTicket, StampLockFree, Restamp,
         EmitNothing, Apply, PublishReplayed, Settle

\* Captured backings stay in the ring, which never shrinks.
LEMMA CapturedStep ==
  ASSUME LifeInv, Next
  PROVE  Captured'
<1> DEFINE In(d) == d.backing \in 1..Len(buf.ring)
           Good(t) == /\ t.backing \in 1..Len(buf.ring)
                      /\ t.kind = "chunk" =>
                           \A i \in 1..Len(t.draws) : t.draws[i].backing = t.backing
<1>1. /\ Len(buf.ring) \in Nat /\ Len(buf'.ring) \in Nat /\ Len(buf'.ring) >= Len(buf.ring)
      /\ buf'.active \in 1..Len(buf'.ring) /\ buf.active \in 1..Len(buf.ring)
      /\ buf.active \in Nat
  BY BufferStep, RecordParts DEF LifeInv, Grows, Ends
<1>2. \A k : k \in 1..Len(buf.ring) => k \in 1..Len(buf'.ring)
  BY <1>1
<1>3. /\ \A t \in Held : Good(t)
      /\ \A i \in 1..Len(slot) : In(slot[i])
      /\ \A i \in 1..Len(gpu) : \A j \in 1..Len(gpu[i]) : In(gpu[i][j])
  BY DEF LifeInv, Captured
<1>4. recorder \in Seq(DrawRec) /\ slot \in Seq(DrawRec) /\ gpu \in Seq(Seq(DrawRec))
  BY DEF LifeInv, StateTypes
<1>5. ASSUME NEW t \in Held'
      PROVE  /\ t.backing \in 1..Len(buf'.ring)
             /\ t.kind = "chunk" =>
                  \A i \in 1..Len(t.draws) : t.draws[i].backing = t.backing
  <2>1. CASE t \in Held
    BY <1>2, <1>3, <2>1
  <2>2. CASE t = SealedChunk /\ buf' = buf
    <3>1. /\ SealedChunk.backing = buf.active /\ SealedChunk.draws = SealedDraws
          /\ Len(SealedDraws) = Len(recorder)
          /\ \A i \in 1..Len(recorder) : SealedDraws[i].backing = buf.active
      BY <1>1, <1>4, SealedTask
    <3> QED
      BY <1>1, <2>2, <3>1
  <2>3. CASE t \in Mutation /\ t.backing = buf'.active
    BY <1>1, <2>3, TaskParts
  <2>4. CASE /\ task \in Held /\ task \in Chunk /\ t \in Chunk /\ t.backing = task.backing
             /\ \A i \in 1..Len(t.draws) :
                  \E j \in 1..Len(task.draws) : t.draws[i] = task.draws[j]
    <3>1. task.kind = "chunk" /\ Good(task)
      BY <1>3, <2>4, TaskParts
    <3> QED
      BY <1>2, <2>4, <3>1
  <2> QED
    BY <1>5, <2>1, <2>2, <2>3, <2>4, HeldStep DEF ComesFrom
<1>6. ASSUME NEW i \in 1..Len(slot')
      PROVE  slot'[i].backing \in 1..Len(buf'.ring)
  <2>1. CASE slot' = slot
    BY <1>2, <1>3, <1>6, <2>1
  <2>2. CASE SlotGrew
    <3> DEFINE d == Head(task.draws)
    <3>1. task.draws \in Seq(DrawRec) /\ task.draws # <<>> /\ Good(task)
          /\ task.kind = "chunk" /\ slot' = Append(slot, d)
      BY <1>3, <2>2, TaskParts DEF SlotGrew
    <3>2. d \in DrawRec /\ d = task.draws[1] /\ 1 \in 1..Len(task.draws)
      BY <3>1
    <3>3. In(d)
      BY <3>1, <3>2
    <3> HIDE DEF d
    <3>4. CASE i = Len(slot) + 1
      BY <1>2, <1>4, <3>1, <3>2, <3>3, <3>4
    <3>5. CASE i \in 1..Len(slot)
      <4>1. slot'[i] = slot[i]
        BY <1>4, <3>1, <3>2, <3>5
      <4> QED
        BY <1>2, <1>3, <3>5, <4>1
    <3> QED
      BY <1>4, <1>6, <3>1, <3>2, <3>4, <3>5
  <2>3. CASE slot' = <<>>
    BY <1>6, <2>3
  <2> QED
    BY <2>1, <2>2, <2>3, SlotStep DEF SlotsKept, SlotPublished, SlotDone
<1>7. ASSUME NEW i \in 1..Len(gpu'), NEW j \in 1..Len(gpu'[i])
      PROVE  gpu'[i][j].backing \in 1..Len(buf'.ring)
  <2>1. CASE gpu' = gpu
    BY <1>2, <1>3, <1>7, <2>1
  <2>2. CASE gpu' = Append(gpu, slot)
    <3>1. CASE i = Len(gpu) + 1
      <4>1. gpu'[i] = slot
        BY <1>4, <2>2, <3>1
      <4> QED
        BY <1>2, <1>3, <1>7, <4>1
    <3>2. CASE i \in 1..Len(gpu)
      <4>1. gpu'[i] = gpu[i]
        BY <1>4, <2>2, <3>2
      <4> QED
        BY <1>2, <1>3, <1>7, <3>2, <4>1
    <3> QED
      BY <1>4, <1>7, <2>2, <3>1, <3>2
  <2>3. CASE gpu # <<>> /\ gpu' = Tail(gpu)
    <3>1. i + 1 \in 1..Len(gpu) /\ gpu'[i] = gpu[i + 1]
      BY <1>4, <1>7, <2>3
    <3> QED
      BY <1>2, <1>3, <1>7, <3>1
  <2> QED
    BY <2>1, <2>2, <2>3, SlotStep DEF SlotsKept, SlotGrew, SlotPublished, SlotDone
<1> QED
  BY <1>5, <1>6, <1>7 DEF Captured

\* No step leaves a reference behind that it destroys, and none is taken again.
LEMMA ReferencedStep ==
  ASSUME LifeInv, Next
  PROVE  Referenced'
<1> USE DEF LifeInv, Referenced
<1>0. /\ buf.lastUsed \in Nat /\ buf.live \in BOOLEAN /\ buf.destroyPending \in BOOLEAN
      /\ completed \in Nat /\ fifo \in Seq(Task)
  BY RecordParts DEF StateTypes
<1>1. app'.pc # "idle" => handle'
  <2>1. app \in Call
    BY DEF StateTypes
  <2>2. CASE Release
    BY <2>2 DEF Release
  <2>3. CASE \E mode \in Modes, span \in Spans \cup {Cells} : Lock(mode, span)
    BY <2>3 DEF Lock
  <2>4. CASE UNCHANGED <<app, handle>>
    BY <2>4
  <2>5. CASE InCall \/ Write
    BY <2>5 DEF InCall, LockFence, MapFast, FinalizeFast, MapSlow, MapWaited, Write,
       UnlockOffload, UnlockUpload, NoCall
  <2> QED
    BY <2>2, <2>3, <2>4, <2>5
       DEF Next, Modes, Draw, CommitChunk, WorkerStep, Pop, ReadTicket, StampLockFree,
           Restamp, AppendDraw, EmitNothing, Apply, PublishReplayed, Settle, PublishSlot,
           PublishOther, Complete, Reclaim, avars
<1>2. ASSUME buf.destroyPending
      PROVE  /\ ~handle' /\ recorder' = <<>> /\ fifo' = <<>> /\ wpc' = "idle"
             /\ app' = app
  <2>1. ~handle /\ recorder = <<>> /\ fifo = <<>> /\ wpc = "idle" /\ app.pc = "idle"
    BY <1>2
  <2> QED
    BY <2>1 DEF Next, Modes, InCall, WorkerStep, Draw, CommitChunk, Lock, LockFence,
       MapFast, FinalizeFast, MapSlow, MapWaited, Write, UnlockOffload, UnlockUpload,
       Release, Pop, ReadTicket, StampLockFree, Restamp, AppendDraw, EmitNothing, Apply,
       PublishReplayed, Settle, PublishSlot, PublishOther, Complete, Reclaim, avars, wvars
<1>3. ASSUME buf'.destroyPending
      PROVE  ~handle' /\ recorder' = <<>> /\ fifo' = <<>> /\ wpc' = "idle"
  <2>1. CASE buf.destroyPending
    BY <1>2, <2>1
  <2>2. CASE ~buf.destroyPending
    <3>1. (Release \/ Settle \/ Reclaim) /\ buf' # buf
      BY <1>3, <2>2, BufferStep DEF Grows
    <3>2. CASE Release
      <4>1. OnlyReference /\ ~handle' /\ UNCHANGED <<recorder, fifo, wpc>>
        BY <3>1, <3>2 DEF Release, wvars
      <4>2. fifo = <<>> /\ wpc = "idle"
        <5>1. Range(fifo) = {} /\ wpc = "idle"
          BY <4>1 DEF OnlyReference, Held
        <5>2. fifo # <<>> => fifo[1] \in Range(fifo)
          BY <1>0 DEF Range
        <5> QED
          BY <5>1, <5>2
      <4> QED
        BY <4>1, <4>2 DEF OnlyReference
    <3>3. CASE Settle
      BY <3>1, <3>3 DEF Settle, avars
    <3>4. CASE Reclaim
      <4>1. buf' = Reclaimed(buf)
        BY <3>4 DEF Reclaim
      <4> QED
        BY <1>3, <2>2, <4>1, ReclaimedParts
    <3> QED
      BY <3>1, <3>2, <3>3, <3>4
  <2> QED
    BY <1>0, <2>1, <2>2
<1>4. ASSUME ~buf'.live
      PROVE  buf'.destroyPending /\ buf'.lastUsed <= completed'
  <2>0. completed' \in Nat /\ completed' >= completed
    BY <1>0, SlotStep DEF SlotsKept, SlotGrew, SlotPublished, SlotDone
  <2>1. CASE buf.live
    <3>1. (Release \/ Settle \/ Reclaim) /\ Ends(buf, buf')
      BY <1>4, <2>1, BufferStep DEF Grows
    <3>2. buf'.destroyPending /\ buf'.lastUsed = buf.lastUsed /\ buf'.lastUsed <= completed
      BY <1>4, <2>1, <3>1, Zenon DEF Ends
    <3> QED
      BY <1>0, <2>0, <3>2
  <2>2. CASE ~buf.live
    <3>1. buf' = buf \/ buf' = Reclaimed(buf)
      <4>1. ~handle /\ recorder = <<>> /\ fifo = <<>> /\ wpc = "idle" /\ app.pc = "idle"
        BY <2>2
      <4>2. \A K, n : Stamped(buf, K, n) = buf
        BY <2>2 DEF Stamped
      <4>3. SlotStamped = buf
        BY <4>2 DEF SlotStamped
      <4> QED
        BY <4>1, <4>3 DEF Next, Modes, InCall, WorkerStep, Draw, CommitChunk, Lock, LockFence,
           MapFast, FinalizeFast, MapSlow, MapWaited, Write, UnlockOffload, UnlockUpload,
           Release, Pop, ReadTicket, StampLockFree, Restamp, AppendDraw, EmitNothing, Apply,
           PublishReplayed, Settle, PublishSlot, PublishOther, PublishWritingSlot,
           Complete, Reclaim
    <3>2. buf'.lastUsed = buf.lastUsed /\ buf'.destroyPending
      BY <2>2, <3>1, ReclaimedParts DEF Ends
    <3>3. buf.lastUsed <= completed
      BY <2>2
    <3> QED
      BY <1>0, <2>0, <3>2, <3>3
  <2> QED
    BY <1>0, <2>1, <2>2
<1> QED
  BY <1>1, <1>3, <1>4

\* What is appended is stamped in the same step, what is published keeps its
\* number, and no stamp is taken back.
LEMMA CoveredStep ==
  ASSUME LifeInv, Next
  PROVE  Covered'
<1> DEFINE Cov(b, d, n) == b.lastUsed >= n /\ (Versioned => b.ring[d.backing].used >= n)
<1>0. /\ slot \in Seq(DrawRec) /\ gpu \in Seq(Seq(DrawRec)) /\ completed \in Nat
      /\ Len(gpu) \in Nat /\ nextSeq \in Nat /\ nextSeq = completed + Len(gpu) + 1
      /\ flavour' = flavour /\ RecordSound(buf) /\ RecordSound(buf')
  BY BufferStep DEF LifeInv, StateTypes, Grows, Ends
<1>1. /\ buf.lastUsed \in Nat /\ buf'.lastUsed \in Nat /\ Len(buf.ring) \in Nat
      /\ Len(buf'.ring) \in Nat /\ Len(buf'.ring) >= Len(buf.ring)
      /\ buf'.lastUsed >= buf.lastUsed
      /\ \A i \in 1..Len(buf.ring) :
           /\ buf.ring[i].used \in Nat /\ buf'.ring[i].used \in Nat
           /\ buf'.ring[i].used >= buf.ring[i].used
  <2>1. /\ Len(buf'.ring) >= Len(buf.ring) /\ buf'.lastUsed >= buf.lastUsed
        /\ \A i \in 1..Len(buf.ring) : buf'.ring[i].used >= buf.ring[i].used
    <3>1. CASE Grows(buf, buf')
      BY <3>1 DEF Grows
    <3>2. CASE Ends(buf, buf')
      BY <1>0, <3>2, RecordParts DEF Ends
    <3> QED
      BY <3>1, <3>2, BufferStep DEF LifeInv
  <2>2. \A i \in 1..Len(buf.ring) : i \in 1..Len(buf'.ring)
    BY <1>0, <2>1, RecordParts
  <2> QED
    BY <1>0, <2>1, <2>2, RecordParts
<1>2. ASSUME NEW d, d.backing \in 1..Len(buf.ring), NEW n \in Nat, Cov(buf, d, n)
      PROVE  Cov(buf', d, n)
  BY <1>1, <1>2
<1>3. /\ \A i \in 1..Len(slot) : slot[i].backing \in 1..Len(buf.ring)
      /\ \A i \in 1..Len(gpu) : \A j \in 1..Len(gpu[i]) :
           gpu[i][j].backing \in 1..Len(buf.ring)
      /\ \A t \in Held : /\ t.backing \in 1..Len(buf.ring)
                         /\ t.kind = "chunk" =>
                              \A i \in 1..Len(t.draws) : t.draws[i].backing = t.backing
  BY DEF LifeInv, Captured
<1>4. /\ \A i \in 1..Len(slot) : Cov(buf, slot[i], nextSeq)
      /\ \A i \in 1..Len(gpu) : \A j \in 1..Len(gpu[i]) : Cov(buf, gpu[i][j], completed + i)
  BY DEF LifeInv, Covered
<1> HIDE DEF Cov
<1>5. \A i \in 1..Len(slot) : Cov(buf', slot[i], nextSeq)
  BY <1>0, <1>2, <1>3, <1>4
<1>6. ASSUME NEW i \in 1..Len(gpu), NEW j \in 1..Len(gpu[i])
      PROVE  Cov(buf', gpu[i][j], completed + i)
  <2>1. completed + i \in Nat
    BY <1>0
  <2> QED
    BY <1>2, <1>3, <1>4, <2>1
<1>7. SUFFICES
        /\ \A i \in 1..Len(slot') : Cov(buf', slot'[i], nextSeq')
        /\ \A i \in 1..Len(gpu') : \A j \in 1..Len(gpu'[i]) :
             Cov(buf', gpu'[i][j], completed' + i)
  BY <1>0 DEF Covered, Cov, Versioned
<1>8. CASE SlotsKept
  BY <1>5, <1>6, <1>8 DEF SlotsKept
<1>9. CASE SlotGrew
  <2> DEFINE d == Head(task.draws)
  <2>1. /\ task \in Held /\ task \in Chunk /\ task.draws # <<>> /\ buf.live
        /\ slot' = Append(slot, d) /\ UNCHANGED <<nextSeq, gpu, completed>>
        /\ Stamps(buf, buf', {task.backing, 0}, nextSeq)
    BY <1>9 DEF SlotGrew
  <2>2. task.draws \in Seq(DrawRec) /\ task.kind = "chunk"
    BY <2>1, TaskParts
  <2>3. d \in DrawRec /\ d = task.draws[1] /\ 1 \in 1..Len(task.draws)
    BY <2>1, <2>2
  <2>4. d.backing = task.backing /\ d.backing \in 1..Len(buf.ring)
    BY <1>3, <2>1, <2>2, <2>3
  <2> HIDE DEF d
  <2>5. Cov(buf', d, nextSeq)
    BY <2>1, <2>4 DEF Stamps, Cov
  <2>6. ASSUME NEW i \in 1..Len(slot')
        PROVE  Cov(buf', slot'[i], nextSeq')
    <3>1. CASE i = Len(slot) + 1
      <4>1. slot'[i] = d
        BY <1>0, <2>1, <2>3, <3>1
      <4> QED
        BY <2>1, <2>5, <4>1
    <3>2. CASE i \in 1..Len(slot)
      <4>1. slot'[i] = slot[i]
        BY <1>0, <2>1, <2>3, <3>2
      <4> QED
        BY <1>5, <2>1, <3>2, <4>1
    <3> QED
      BY <1>0, <2>1, <2>3, <3>1, <3>2
  <2> QED
    BY <1>6, <2>1, <2>6
<1>10. CASE SlotPublished
  <2>1. gpu' = Append(gpu, slot) /\ slot' = <<>> /\ completed' = completed
    BY <1>10 DEF SlotPublished
  <2>2. ASSUME NEW i \in 1..Len(gpu'), NEW j \in 1..Len(gpu'[i])
        PROVE  Cov(buf', gpu'[i][j], completed' + i)
    <3>1. CASE i = Len(gpu) + 1
      <4>1. gpu'[i] = slot
        BY <1>0, <2>1, <3>1
      <4>2. completed' + i = nextSeq
        BY <1>0, <2>1, <3>1
      <4> QED
        BY <1>5, <2>2, <4>1, <4>2
    <3>2. CASE i \in 1..Len(gpu)
      <4>1. gpu'[i] = gpu[i]
        BY <1>0, <2>1, <3>2
      <4> QED
        BY <1>6, <2>1, <2>2, <3>2, <4>1
    <3> QED
      BY <1>0, <2>1, <2>2, <3>1, <3>2
  <2> QED
    BY <2>1, <2>2
<1>11. CASE SlotDone
  <2>1. gpu # <<>> /\ gpu' = Tail(gpu) /\ completed' = completed + 1
        /\ UNCHANGED <<slot, nextSeq>>
    BY <1>11 DEF SlotDone
  <2>2. ASSUME NEW i \in 1..Len(gpu'), NEW j \in 1..Len(gpu'[i])
        PROVE  Cov(buf', gpu'[i][j], completed' + i)
    <3>1. i + 1 \in 1..Len(gpu) /\ gpu'[i] = gpu[i + 1]
      BY <1>0, <2>1, <2>2
    <3>2. completed' + i = completed + (i + 1)
      BY <1>0, <2>1, <2>2
    <3> QED
      BY <1>6, <2>2, <3>1, <3>2
  <2> QED
    BY <1>5, <2>1, <2>2
<1> QED
  BY <1>8, <1>9, <1>10, <1>11, SlotStep

-----------------------------------------------------------------------------
(* Lifetime. *)

\* The initial states satisfy the inductive invariant.
LEMMA LifeInit ==
  ASSUME Init
  PROVE  LifeInv
<1> DEFINE e == [used |-> 0, bytes |-> Blank]
<1>1. /\ flavour \in Flavours
      /\ buf = [live |-> TRUE, destroyPending |-> FALSE, lastUsed |-> 0,
                ring |-> <<e>>, active |-> 1, shadow |-> Blank]
      /\ storage = Blank /\ app = NoCall /\ handle = TRUE /\ recorder = <<>>
      /\ fifo = <<>> /\ wpc = "idle" /\ task = NoTask /\ ticket = 0
      /\ slot = <<>> /\ nextSeq = 1 /\ gpu = <<>> /\ completed = 0
      /\ finish = FALSE /\ era = 0 /\ writes = 0 /\ drawn = 0
  BY DEF Init
<1>2. Blank \in [Cells -> Nat] /\ e \in Entry /\ e.used = 0
  BY DEF Blank, Entry
<1> HIDE DEF e
<1>3. <<e>> \in Seq(Entry) /\ Len(<<e>>) = 1 /\ <<e>>[1] = e
  BY <1>2
<1>4. buf \in BufferRecord
  BY <1>1, <1>2, <1>3 DEF BufferRecord
<1>5. buf.ring = <<e>> /\ buf.active = 1 /\ buf.lastUsed = 0 /\ ~buf.destroyPending /\ buf.live
  BY <1>1
<1>6. RecordSound(buf)
  BY <1>2, <1>3, <1>4, <1>5 DEF RecordSound
<1>7. app \in Call
  BY <1>1 DEF NoCall, Call, Modes
<1>8. StateTypes
  <2>1. /\ recorder \in Seq(DrawRec) /\ slot \in Seq(DrawRec)
        /\ gpu \in Seq(Seq(DrawRec)) /\ Len(gpu) = 0
    BY <1>1
  <2>2. fifo \in Seq(Task)
    BY <1>1
  <2>3. handle \in BOOLEAN /\ finish \in BOOLEAN /\ flavour \in Flavours
    BY <1>1
  <2>4. /\ ticket \in Nat /\ completed \in Nat /\ era \in Nat /\ writes \in Nat
        /\ drawn \in Nat /\ nextSeq = completed + Len(gpu) + 1
    BY <1>1, <2>1
  <2>5. storage \in [Cells -> Nat]
    BY <1>1, <1>2
  <2> QED
    BY <1>7, <2>1, <2>2, <2>3, <2>4, <2>5 DEF StateTypes
<1>9. Held = {}
  BY <1>1 DEF Held, Range
<1> QED
  BY <1>1, <1>5, <1>6, <1>8, <1>9
     DEF LifeInv, WorkerShape, Captured, Referenced, Covered, NoCall

\* Every step preserves the inductive invariant.
LEMMA LifeNext ==
  ASSUME LifeInv, [Next]_vars
  PROVE  LifeInv'
<1>1. CASE Next
  <2>1. RecordSound(buf)'
    <3>1. flavour' = flavour /\ RecordSound(buf')
      BY <1>1, BufferStep DEF LifeInv, Grows, Ends
    <3> QED
      BY <3>1 DEF RecordSound, BufferRecord, Entry
  <2> QED
    BY <1>1, <2>1, StateTypesStep, WorkerShapeStep, CapturedStep, ReferencedStep,
       CoveredStep DEF LifeInv
<1>2. CASE UNCHANGED vars
  BY <1>2 DEF vars, avars, wvars, qvars, LifeInv, RecordSound, StateTypes, WorkerShape,
     Captured, Referenced, Covered, Held, Versioned
<1> QED
  BY <1>1, <1>2

\* The inductive invariant holds throughout.
LEMMA LifeInvariant == Spec => []LifeInv
BY LifeInit, LifeNext, PTL DEF Spec

\* The parts of LifetimeCovered follow.
LEMMA LifeImplies ==
  ASSUME LifeInv
  PROVE  LifetimeCovered
<1>0. /\ recorder \in Seq(DrawRec) /\ fifo \in Seq(Task) /\ slot \in Seq(DrawRec)
      /\ gpu \in Seq(Seq(DrawRec))
  BY DEF LifeInv, StateTypes
<1>1. ASSUME NEW d \in Unfinished
      PROVE  /\ d \in DrawRec
             /\ \/ d \in Range(recorder)
                \/ d \in Range(slot)
                \/ \E i \in 1..Len(gpu) : d \in Range(gpu[i])
                \/ Held # {}
  <2>1. PICK s \in {recorder, slot} \cup Range(gpu)
                     \cup {t.draws : t \in {h \in Held : h.kind = "chunk"}} : d \in Range(s)
    BY DEF Unfinished, Draws
  <2>2. \A r \in Seq(DrawRec) : \A x \in Range(r) : x \in DrawRec
    BY DEF Range
  <2>3. CASE s = recorder \/ s = slot
    BY <1>0, <2>1, <2>2, <2>3
  <2>4. CASE s \in Range(gpu)
    <3>1. PICK i \in 1..Len(gpu) : s = gpu[i]
      BY <1>0, <2>4 DEF Range
    <3>2. s \in Seq(DrawRec)
      BY <1>0, <3>1
    <3> QED
      BY <2>1, <2>2, <3>1, <3>2
  <2>5. CASE s \in {t.draws : t \in {h \in Held : h.kind = "chunk"}}
    <3>1. PICK t \in Held : t.kind = "chunk" /\ s = t.draws
      BY <2>5
    <3>2. t \in Task
      BY <1>0, <3>1 DEF Held, Range, LifeInv, WorkerShape, Task, NoTask
    <3>3. t \in Chunk
      BY <3>1, <3>2, TaskParts DEF Task
    <3>4. s \in Seq(DrawRec)
      BY <3>1, <3>3, TaskParts
    <3> QED
      BY <2>1, <2>2, <3>1, <3>4
  <2> QED
    BY <2>1, <2>3, <2>4, <2>5
<1>2. TypeOK
  <2>1. /\ buf.ring \in Seq(Entry) /\ buf.active \in DOMAIN buf.ring
        /\ ~Versioned => Len(buf.ring) = 1
    BY RecordParts DEF LifeInv, RecordSound, Versioned
  <2>2. app.pc \in {"idle", "fence", "map", "finalize", "wait", "locked", "unlock"}
    BY DEF LifeInv, StateTypes, Call
  <2>3. wpc \in {"idle", "ticket", "stamp", "restamp", "append", "apply",
                 "replayed", "settle"}
    BY DEF LifeInv, WorkerShape
  <2> QED
    BY <1>1, <2>1, <2>2, <2>3 DEF TypeOK, LifeInv, StateTypes
<1>3. NoUseAfterFree
  <2>1. SUFFICES ASSUME ~buf.live
                 PROVE  ~handle /\ Held = {} /\ Unfinished = {}
    BY DEF NoUseAfterFree
  <2>2. /\ ~handle /\ recorder = <<>> /\ fifo = <<>> /\ wpc = "idle"
        /\ buf.lastUsed <= completed
    BY <2>1 DEF LifeInv, Referenced
  <2>3. Held = {} /\ Range(recorder) = {}
    BY <2>2 DEF Held, Range
  <2>4. /\ buf.lastUsed \in Nat /\ completed \in Nat /\ Len(gpu) \in Nat
        /\ nextSeq = completed + Len(gpu) + 1
    BY RecordParts DEF LifeInv, StateTypes
  <2>5. Range(slot) = {}
    <3>1. ASSUME NEW i \in 1..Len(slot)
          PROVE  FALSE
      BY <2>2, <2>4, <3>1 DEF LifeInv, Covered
    <3> QED
      BY <1>0, <3>1 DEF Range
  <2>6. ASSUME NEW i \in 1..Len(gpu)
        PROVE  Range(gpu[i]) = {}
    <3>1. ASSUME NEW j \in 1..Len(gpu[i])
          PROVE  FALSE
      <4>1. buf.lastUsed >= completed + i
        BY <2>6, <3>1 DEF LifeInv, Covered
      <4> QED
        BY <2>2, <2>4, <2>6, <4>1
    <3>2. gpu[i] \in Seq(DrawRec)
      BY <1>0, <2>6
    <3> QED
      BY <3>1, <3>2 DEF Range
  <2> QED
    BY <1>1, <2>2, <2>3, <2>5, <2>6
<1>4. StampsCoverDraws
  <2>1. \A i \in DOMAIN buf.ring : buf.ring[i].used <= buf.lastUsed
    BY RecordParts DEF LifeInv
  <2>2. ASSUME NEW d \in Range(slot)
        PROVE  buf.lastUsed >= nextSeq /\ (Versioned => buf.ring[d.backing].used >= nextSeq)
    <3>1. PICK i \in 1..Len(slot) : d = slot[i]
      BY <1>0 DEF Range
    <3> QED
      BY <3>1 DEF LifeInv, Covered
  <2>3. ASSUME NEW i \in DOMAIN gpu, NEW d \in Range(gpu[i])
        PROVE  /\ buf.lastUsed >= completed + i
               /\ Versioned => buf.ring[d.backing].used >= completed + i
    <3>1. i \in 1..Len(gpu) /\ gpu[i] \in Seq(DrawRec)
      BY <1>0
    <3>2. PICK j \in 1..Len(gpu[i]) : d = gpu[i][j]
      BY <3>1 DEF Range
    <3> QED
      BY <3>1, <3>2 DEF LifeInv, Covered
  <2> QED
    BY <2>1, <2>2, <2>3 DEF StampsCoverDraws
<1> QED
  BY <1>2, <1>3, <1>4 DEF LifetimeCovered

\* Whatever is drawn, locked, renamed, published and dropped, and whichever
\* reference is the last, a buffer record is freed only when no draw that reads
\* it is unfinished, and every draw that a slot or the GPU holds is covered by a
\* stamp of the record and of the backing it captured: what makes reclaimCompleted
\* and rotateBufferBacking safe to ask nothing but the stamps and the residency.
THEOREM LifetimeCorrect == Spec => []LifetimeCovered
BY LifeInvariant, LifeImplies, PTL

-----------------------------------------------------------------------------
(* Where a draw is. *)

\* Appended to the writing slot, or published.
Submitted == Range(slot) \cup UNION {Range(gpu[i]) : i \in 1..Len(gpu)}

\* Committed and not replayed yet.
Chunked == UNION {Range(t.draws) : t \in {h \in Held : h.kind = "chunk"}}

\* The draws that have captured a backing.
InFlight == Submitted \cup Chunked

-----------------------------------------------------------------------------
(* What the backings hold, now and when the queued mutation has been applied. *)

\* A mutation waits for the worker, or is about to be applied.
Mutating == wpc = "apply" \/ (Len(fifo) > 0 /\ fifo[1].kind = "mutation")
TheMutation == IF wpc = "apply" THEN task ELSE fifo[1]

\* The bytes that the draws of a queued chunk will find in backing k.
Content(k) ==
    IF Mutating /\ k = buf.active
    THEN Patched(buf.shadow, TheMutation.bytes, TheMutation.span)
    ELSE buf.ring[k].bytes

-----------------------------------------------------------------------------
(* The invariant, in parts. *)

\* A mutation is queued in front of every chunk, and leases the active backing;
\* between two mutations the shadow is the active backing.
MutationFirst ==
    /\ \A k \in 1..Len(fifo) :
         fifo[k].kind = "mutation" => k = 1 /\ wpc \in {"idle", "settle"}
    /\ Mutating => flavour = "managed" /\ TheMutation.backing = buf.active
    /\ flavour = "managed" /\ ~Mutating => buf.shadow = buf.ring[buf.active].bytes

\* The lock waits for the GPU.
WaitsForGpu == ~BypassesReplay /\ flavour # "managed"

\* What a call has behind it at each of its steps.
CallQuiet ==
    /\ app.pc = "idle" <=> app.mode = "none"
    /\ app.mode = "discard" => app.span = Cells
    /\ app.pc # "idle" /\ app.mode # "nooverwrite" => recorder = <<>>
    /\ app.pc \in {"map", "finalize", "wait", "locked", "unlock"} /\ ~BypassesReplay
         => ~Pending
    /\ app.pc = "finalize" => app.seq <= completed
    /\ app.pc = "finalize" /\ WaitsForGpu => Submitted = {}
    /\ app.pc = "wait" =>
         /\ WaitsForGpu /\ slot = <<>>
         /\ \A i \in 1..Len(gpu) : gpu[i] # <<>> => completed + i <= app.seq
    /\ app.pc \in {"locked", "unlock"} /\ WaitsForGpu => Submitted = {}
    /\ app.pc \in {"locked", "unlock"} /\ app.mode = "discard" /\ flavour = "dynamic"
         => \A d \in InFlight : d.backing # buf.active

\* The cells the application may have changed and not handed over yet.
Open == IF app.pc = "unlock" THEN app.span ELSE {}

\* The active backing has, or will have, what the application sees.
ActiveCurrent ==
    app.pc = "idle" \/ app.mode = "nooverwrite" \/ flavour = "managed" =>
        \A c \in Cells \ Open : Content(buf.active)[c] = storage[c]

\* A draw that reads the present contents captured the active backing and no
\* other draw did.
EraCurrent ==
    /\ \A d \in Range(recorder) : d.era = era
    /\ flavour # "managed" /\ app.mode # "discard" =>
         \A d \in InFlight : d.backing = buf.active => d.era = era

\* What a NOOVERWRITE lock promised still holds.
PromiseHolds ==
    app.mode = "nooverwrite" =>
        \A d \in Range(recorder) \cup InFlight : d.era = era => d.reads \cap app.span = {}

\* Every draw finds, or will find, what was there when it was issued.
DrawsAgree ==
    /\ \A d \in Range(recorder) : \A c \in d.reads : storage[c] = d.want[c]
    /\ \A d \in InFlight : \A c \in d.reads : Content(d.backing)[c] = d.want[c]
    /\ \A d \in Submitted : Mutating => d.backing # buf.active

ContentInv ==
    /\ MutationFirst /\ CallQuiet /\ ActiveCurrent /\ EraCurrent
    /\ PromiseHolds /\ DrawsAgree

-----------------------------------------------------------------------------
(* The draws. *)

\* A held chunk is a chunk, and its draws captured what it leases.
LEMMA HeldTask ==
  ASSUME LifeInv, NEW t \in Held
  PROVE  /\ t \in Task
         /\ t.kind = "chunk" => t \in Chunk /\ t.draws \in Seq(DrawRec)
         /\ t.kind # "chunk" => t \in Mutation
<1>1. t \in Task
  BY DEF LifeInv, StateTypes, WorkerShape, Held, Range, Task, NoTask
<1> QED
  BY <1>1, TaskParts DEF Task

\* The elements of a sequence, by index.
LEMMA RangeIndexed ==
  ASSUME NEW S, NEW s \in Seq(S)
  PROVE  /\ \A i \in 1..Len(s) : s[i] \in Range(s)
         /\ \A x \in Range(s) : x \in S /\ \E i \in 1..Len(s) : x = s[i]
BY DEF Range

\* A draw in flight captured a backing of the ring that is still in use.
LEMMA FlightTypes ==
  ASSUME LifeInv, NEW d \in InFlight
  PROVE  /\ d \in DrawRec /\ d.backing \in 1..Len(buf.ring)
         /\ d \in Submitted => /\ buf.lastUsed > completed
                               /\ Versioned => buf.ring[d.backing].used > completed
         /\ d \in Chunked => Resident(d.backing)
<1>0. /\ slot \in Seq(DrawRec) /\ gpu \in Seq(Seq(DrawRec)) /\ completed \in Nat
      /\ Len(gpu) \in Nat /\ nextSeq = completed + Len(gpu) + 1
      /\ buf.lastUsed \in Nat /\ \A i \in 1..Len(buf.ring) : buf.ring[i].used \in Nat
  BY RecordParts DEF LifeInv, StateTypes
<1>1. ASSUME d \in Range(slot)
      PROVE  /\ d \in DrawRec /\ d.backing \in 1..Len(buf.ring)
             /\ buf.lastUsed > completed
             /\ Versioned => buf.ring[d.backing].used > completed
  <2>1. PICK i \in 1..Len(slot) : d = slot[i]
    BY <1>0, <1>1, RangeIndexed
  <2>2. d \in DrawRec /\ d.backing \in 1..Len(buf.ring) /\ buf.lastUsed >= nextSeq
        /\ (Versioned => buf.ring[d.backing].used >= nextSeq)
    BY <1>0, <2>1 DEF LifeInv, Captured, Covered
  <2> QED
    BY <1>0, <2>2
<1>2. ASSUME NEW i \in 1..Len(gpu), d \in Range(gpu[i])
      PROVE  /\ d \in DrawRec /\ d.backing \in 1..Len(buf.ring)
             /\ buf.lastUsed > completed
             /\ Versioned => buf.ring[d.backing].used > completed
  <2>0. gpu[i] \in Seq(DrawRec)
    BY <1>0
  <2>1. PICK j \in 1..Len(gpu[i]) : d = gpu[i][j]
    BY <1>2, <2>0, RangeIndexed
  <2>2. d \in DrawRec /\ d.backing \in 1..Len(buf.ring) /\ buf.lastUsed >= completed + i
        /\ (Versioned => buf.ring[d.backing].used >= completed + i)
    BY <2>0, <2>1 DEF LifeInv, Captured, Covered
  <2>3. completed + i \in Nat /\ completed + i > completed
    BY <1>0
  <2>4. \A u \in Nat : u >= completed + i => u > completed
    BY <1>0, <2>3
  <2> QED
    BY <1>0, <2>2, <2>4
<1>3. ASSUME d \in Chunked
      PROVE  d \in DrawRec /\ d.backing \in 1..Len(buf.ring) /\ Resident(d.backing)
  <2>1. PICK t \in Held : t.kind = "chunk" /\ d \in Range(t.draws)
    BY <1>3 DEF Chunked
  <2>2. t.draws \in Seq(DrawRec)
    BY <2>1, HeldTask
  <2>3. PICK i \in 1..Len(t.draws) : d = t.draws[i]
    BY <2>1, <2>2, RangeIndexed
  <2>4. d.backing = t.backing /\ t.backing \in 1..Len(buf.ring)
    BY <2>1, <2>3 DEF LifeInv, Captured
  <2> QED
    BY <2>2, <2>3, <2>4 DEF Resident
<1> QED
  BY <1>1, <1>2, <1>3 DEF InFlight, Submitted

\* A rotation hands out a backing that no draw has captured.
LEMMA TurnedFree ==
  ASSUME LifeInv, NEW b, NEW done \in Nat, done <= completed,
         Turns(buf, b, done), Versioned, NEW d \in InFlight
  PROVE  /\ d.backing # b.active /\ b.ring[d.backing] = buf.ring[d.backing]
         /\ d.backing \in 1..Len(b.ring)
<1>1. /\ d.backing \in 1..Len(buf.ring)
      /\ Resident(d.backing) \/ buf.ring[d.backing].used > completed
  BY FlightTypes DEF InFlight
<1>2. /\ completed \in Nat /\ buf.ring[d.backing].used \in Nat /\ Len(buf.ring) \in Nat
      /\ Len(b.ring) \in Nat /\ Len(b.ring) >= Len(buf.ring)
  BY <1>1, RecordParts DEF LifeInv, StateTypes, Turns, Grows
<1>3. ~IdleEntry(buf, d.backing, done)
  BY <1>1, <1>2 DEF IdleEntry
<1> QED
  BY <1>1, <1>2, <1>3 DEF Turns

\* What is unfinished is recorded or in flight.
LEMMA UnfinishedIs ==
  ASSUME LifeInv
  PROVE  Unfinished = Range(recorder) \cup InFlight
<1>0. gpu \in Seq(Seq(DrawRec))
  BY DEF LifeInv, StateTypes
<1>1. Range(gpu) = {gpu[i] : i \in 1..Len(gpu)}
  BY <1>0 DEF Range
<1> QED
  BY <1>1, Zenon DEF Unfinished, Draws, InFlight, Submitted, Chunked

\* A draw that a commit or a lock takes from the recorder.
JustSealed(d) ==
    /\ app.pc = "idle" /\ buf' = buf
    /\ \E r \in Range(recorder) :
         d.backing = buf.active /\ d.reads = r.reads /\ d.want = r.want /\ d.era = r.era

\* Where the draws in flight come from.
LEMMA SubmittedStep ==
  ASSUME LifeInv, Next, NEW d \in Submitted'
  PROVE  d \in Submitted \/ (wpc = "append" /\ d \in Chunked)
<1>0. slot \in Seq(DrawRec) /\ gpu \in Seq(Seq(DrawRec)) /\ Len(gpu) \in Nat
  BY DEF LifeInv, StateTypes
<1>1. Submitted' = Range(slot') \cup UNION {Range(gpu'[i]) : i \in 1..Len(gpu')}
  BY DEF Submitted
<1>2. CASE SlotsKept
  BY <1>1, <1>2 DEF SlotsKept, Submitted
<1>3. CASE SlotGrew
  <2>1. /\ wpc = "append" /\ task \in Held /\ task \in Chunk /\ task.draws # <<>>
        /\ slot' = Append(slot, Head(task.draws)) /\ gpu' = gpu
    BY <1>3 DEF SlotGrew
  <2>2. task.draws \in Seq(DrawRec) /\ task.kind = "chunk"
    BY <2>1, TaskParts
  <2>3. Head(task.draws) \in DrawRec /\ Head(task.draws) = task.draws[1]
        /\ 1 \in 1..Len(task.draws)
    BY <2>1, <2>2
  <2>4. Range(slot') = Range(slot) \cup {Head(task.draws)}
    BY <1>0, <2>1, <2>3, RangeOps
  <2>5. Head(task.draws) \in Range(task.draws)
    BY <2>2, <2>3, RangeIndexed
  <2>6. Head(task.draws) \in Chunked
    BY <2>1, <2>2, <2>5 DEF Chunked
  <2> QED
    BY <1>1, <2>1, <2>4, <2>6 DEF Submitted
<1>4. CASE SlotPublished
  <2>1. gpu' = Append(gpu, slot) /\ slot' = <<>>
    BY <1>4 DEF SlotPublished
  <2>2. Range(slot') = {}
    BY <2>1 DEF Range
  <2>3. PICK i \in 1..Len(gpu') : d \in Range(gpu'[i])
    BY <1>1, <2>2
  <2>4. CASE i = Len(gpu) + 1
    <3>1. gpu'[i] = slot
      BY <1>0, <2>1, <2>4
    <3> QED
      BY <2>3, <3>1 DEF Submitted
  <2>5. CASE i \in 1..Len(gpu)
    <3>1. gpu'[i] = gpu[i]
      BY <1>0, <2>1, <2>5
    <3> QED
      BY <2>3, <2>5, <3>1 DEF Submitted
  <2> QED
    BY <1>0, <2>1, <2>4, <2>5
<1>5. CASE SlotDone
  <2>1. gpu # <<>> /\ gpu' = Tail(gpu) /\ slot' = slot
    BY <1>5 DEF SlotDone
  <2>2. ASSUME NEW i \in 1..Len(gpu')
        PROVE  i + 1 \in 1..Len(gpu) /\ gpu'[i] = gpu[i + 1]
    BY <1>0, <2>1, <2>2
  <2> QED
    BY <1>1, <2>1, <2>2 DEF Submitted
<1> QED
  BY <1>2, <1>3, <1>4, <1>5, SlotStep

\* A draw of a queued chunk was queued before or has just been sealed.
LEMMA ChunkedStep ==
  ASSUME LifeInv, Next, NEW d \in Chunked'
  PROVE  d \in Chunked \/ JustSealed(d)
<1>0. recorder \in Seq(DrawRec) /\ buf.active \in Nat
  BY RecordParts DEF LifeInv, StateTypes
<1>1. PICK t \in Held' : t.kind = "chunk" /\ d \in Range(t.draws)
  BY DEF Chunked
<1>2. CASE t \in Held
  BY <1>1, <1>2 DEF Chunked
<1>3. CASE t = SealedChunk /\ buf' = buf /\ app.pc = "idle"
  <2>1. /\ SealedDraws \in Seq(DrawRec) /\ Len(SealedDraws) = Len(recorder)
        /\ SealedChunk.draws = SealedDraws
        /\ \A i \in 1..Len(recorder) :
             /\ SealedDraws[i].backing = buf.active
             /\ SealedDraws[i].reads = recorder[i].reads
             /\ SealedDraws[i].want = recorder[i].want
             /\ SealedDraws[i].era = recorder[i].era
    BY <1>0, SealedTask
  <2>2. PICK i \in 1..Len(recorder) : d = SealedDraws[i]
    BY <1>1, <1>3, <2>1, RangeIndexed
  <2>3. recorder[i] \in Range(recorder)
    BY <1>0, RangeIndexed
  <2> QED
    BY <1>3, <2>1, <2>2, <2>3 DEF JustSealed
<1>4. CASE t \in Mutation
  BY <1>1, <1>4, TaskParts
<1>5. CASE /\ task \in Held /\ task \in Chunk /\ t \in Chunk
           /\ \A i \in 1..Len(t.draws) :
                \E j \in 1..Len(task.draws) : t.draws[i] = task.draws[j]
  <2>1. task.draws \in Seq(DrawRec) /\ task.kind = "chunk" /\ t.draws \in Seq(DrawRec)
    BY <1>5, TaskParts
  <2>2. PICK i \in 1..Len(t.draws) : d = t.draws[i]
    BY <1>1, <2>1, RangeIndexed
  <2>3. PICK j \in 1..Len(task.draws) : d = task.draws[j]
    BY <1>5, <2>2
  <2>4. d \in Range(task.draws)
    BY <2>1, <2>3, RangeIndexed
  <2> QED
    BY <1>5, <2>1, <2>4 DEF Chunked
<1> QED
  BY <1>2, <1>3, <1>4, <1>5, HeldStep DEF ComesFrom

-----------------------------------------------------------------------------
(* The contents. *)

\* A step that changes no content, now or to come.
Kept ==
    /\ buf'.active = buf.active /\ buf'.shadow = buf.shadow
    /\ Len(buf'.ring) = Len(buf.ring)
    /\ \A i \in 1..Len(buf.ring) : buf'.ring[i].bytes = buf.ring[i].bytes
    /\ Mutating' <=> Mutating
    /\ Mutating => TheMutation' = TheMutation

\* A step that touches no bytes keeps what a queued chunk will find.
LEMMA KeptContent ==
  ASSUME Kept, NEW k \in 1..Len(buf.ring)
  PROVE  Content(k)' = Content(k)
BY DEF Kept, Content

\* The fifo and the worker, as far as mutations go.
LEMMA MutatingKept ==
  ASSUME LifeInv, MutationFirst, Next
  PROVE  \/ Apply \/ UnlockOffload
         \/ (Mutating' <=> Mutating) /\ (Mutating => TheMutation' = TheMutation)
<1>0. /\ recorder \in Seq(DrawRec) /\ fifo \in Seq(Task) /\ Len(fifo) \in Nat
      /\ buf.active \in Nat
  BY RecordParts DEF LifeInv, StateTypes
<1>1. ASSUME fifo' = fifo, wpc = "apply" <=> wpc' = "apply", wpc = "apply" => task' = task
      PROVE  (Mutating' <=> Mutating) /\ (Mutating => TheMutation' = TheMutation)
  BY <1>1 DEF Mutating, TheMutation
<1>2. ASSUME fifo' = Sealed, wpc' = wpc, task' = task
      PROVE  (Mutating' <=> Mutating) /\ (Mutating => TheMutation' = TheMutation)
  <2>1. /\ SealedChunk \in Task /\ SealedChunk.kind = "chunk"
        /\ Sealed = IF recorder = <<>> THEN fifo ELSE Append(fifo, SealedChunk)
    BY <1>0, SealedTask DEF Task
  <2>2. CASE recorder = <<>>
    BY <1>1, <1>2, <2>1, <2>2
  <2>3. CASE recorder # <<>>
    <3>1. fifo' = Append(fifo, SealedChunk)
      BY <1>2, <2>1, <2>3
    <3>2. CASE Len(fifo) > 0
      <4>1. Len(fifo') > 0 /\ fifo'[1] = fifo[1]
        BY <1>0, <2>1, <3>1, <3>2
      <4> QED
        BY <1>2, <3>2, <4>1 DEF Mutating, TheMutation
    <3>3. CASE Len(fifo) = 0
      <4>1. fifo'[1] = SealedChunk
        BY <1>0, <2>1, <3>1, <3>3
      <4> QED
        BY <1>0, <1>2, <2>1, <3>3, <4>1 DEF Mutating, TheMutation
    <3> QED
      BY <1>0, <3>2, <3>3
  <2> QED
    BY <2>2, <2>3
<1>3. CASE Pop
  <2>1. /\ wpc = "idle" /\ fifo # <<>> /\ task' = Head(fifo) /\ fifo' = Tail(fifo)
        /\ wpc' = IF task'.kind = "chunk" THEN "ticket" ELSE "apply"
    BY <1>3 DEF Pop
  <2>2. task' = fifo[1] /\ Len(fifo) > 0 /\ task' \in Task /\ Len(fifo') = Len(fifo) - 1
        /\ (Len(fifo') > 0 => fifo'[1] = fifo[2] /\ 2 \in 1..Len(fifo))
    BY <1>0, <2>1
  <2>3. task'.kind \in {"chunk", "mutation"}
    BY <2>2, TaskParts DEF Task
  <2>4. ~(Len(fifo') > 0 /\ fifo'[1].kind = "mutation")
    BY <2>2 DEF MutationFirst
  <2>5. Mutating' <=> fifo[1].kind = "mutation"
    BY <2>1, <2>2, <2>3, <2>4 DEF Mutating
  <2>6. Mutating <=> fifo[1].kind = "mutation"
    BY <2>1, <2>2 DEF Mutating
  <2>7. Mutating => TheMutation' = TheMutation
    BY <2>1, <2>2, <2>3, <2>5, <2>6 DEF TheMutation
  <2> QED
    BY <2>5, <2>6, <2>7
<1>4. CASE \E mode \in Modes, span \in Spans \cup {Cells} : Lock(mode, span)
  <2>1. (fifo' = Sealed \/ fifo' = fifo) /\ UNCHANGED <<wpc, task>>
    BY <1>4 DEF Lock, wvars
  <2> QED
    BY <1>1, <1>2, <2>1
<1>5. CASE CommitChunk
  BY <1>2, <1>5 DEF CommitChunk, wvars
<1>6. CASE (\E reads \in Spans : Draw(reads)) \/ LockFence \/ MapFast \/ FinalizeFast
           \/ MapSlow \/ MapWaited \/ Write \/ UnlockUpload \/ Release
  BY <1>1, <1>6 DEF Draw, LockFence, MapFast, FinalizeFast, MapSlow, MapWaited, Write,
     UnlockUpload, Release, wvars
<1>7. CASE ReadTicket \/ StampLockFree \/ Restamp \/ AppendDraw \/ EmitNothing
           \/ PublishReplayed \/ Settle
  BY <1>1, <1>7 DEF ReadTicket, StampLockFree, Restamp, AppendDraw, EmitNothing,
     PublishReplayed, Settle
<1>8. CASE PublishSlot \/ PublishOther \/ Complete \/ Reclaim
  BY <1>1, <1>8 DEF PublishSlot, PublishOther, Complete, Reclaim, wvars
<1> QED
  BY <1>3, <1>4, <1>5, <1>6, <1>7, <1>8 DEF Next, InCall, WorkerStep, Modes

\* Only a map's end, an Unlock and an applied mutation change contents.
LEMMA ContentChanges ==
  ASSUME LifeInv, MutationFirst, Next
  PROVE  Kept \/ FinalizeFast \/ MapWaited \/ UnlockOffload \/ UnlockUpload \/ Apply
<1> DEFINE Same == /\ buf'.active = buf.active /\ buf'.shadow = buf.shadow
                   /\ Len(buf'.ring) = Len(buf.ring)
                   /\ \A i \in 1..Len(buf.ring) : buf'.ring[i].bytes = buf.ring[i].bytes
<1>0. /\ RecordSound(buf) /\ slot \in Seq(DrawRec) /\ nextSeq \in Nat /\ ticket \in Nat
  BY DEF LifeInv, StateTypes
<1>1. ASSUME buf' = buf
      PROVE  Same
  BY <1>1
<1>2. ASSUME NEW K, NEW n, Stamps(buf, buf', K, n)
      PROVE  Same
  BY <1>2 DEF Stamps
<1>3. ASSUME Ends(buf, buf')
      PROVE  Same
  BY <1>3 DEF Ends
<1> HIDE DEF Same
<1>4. ASSUME \/ (\E reads \in Spans : Draw(reads)) \/ CommitChunk \/ LockFence \/ MapFast
                \/ Write \/ Pop \/ ReadTicket \/ EmitNothing \/ PublishReplayed \/ Complete
             \/ \E mode \in Modes, span \in Spans \cup {Cells} : Lock(mode, span)
      PROVE  Same
  BY <1>1, <1>4 DEF Draw, CommitChunk, LockFence, MapFast, Write, Pop, ReadTicket,
     EmitNothing, PublishReplayed, Complete, Lock
<1>5. ASSUME MapSlow \/ PublishSlot \/ PublishOther
      PROVE  Same
  <2>1. buf' = buf \/ buf' = SlotStamped
    BY <1>5 DEF MapSlow, PublishSlot, PublishOther, PublishWritingSlot
  <2>2. Stamps(buf, SlotStamped, SlotBackings, nextSeq)
    BY <1>0, SlotStampedGrows
  <2> QED
    BY <1>1, <1>2, <2>1, <2>2
<1>6. ASSUME StampLockFree \/ Restamp
      PROVE  Same
  <2>1. buf' = buf \/ buf' = Stamped(buf, {0}, ticket) \/ buf' = Stamped(buf, {0}, nextSeq)
    BY <1>6 DEF StampLockFree, Restamp
  <2>2. \A n \in Nat : Stamps(buf, Stamped(buf, {0}, n), {0}, n)
    BY <1>0, StampedGrows
  <2> QED
    BY <1>0, <1>1, <1>2, <2>1, <2>2
<1>7. ASSUME AppendDraw
      PROVE  Same
  <2>1. buf' = Stamped(buf, {task.backing, 0}, nextSeq)
    BY <1>7 DEF AppendDraw, DrawStamped
  <2>2. task.backing \in Nat
    BY <1>7, TaskParts DEF AppendDraw, LifeInv, WorkerShape
  <2>3. Stamps(buf, Stamped(buf, {task.backing, 0}, nextSeq), {task.backing, 0}, nextSeq)
    BY <1>0, <2>2, StampedGrows
  <2> QED
    BY <1>2, <2>1, <2>3
<1>8. ASSUME Release \/ Settle \/ Reclaim
      PROVE  Same
  <2>1. buf' = buf \/ buf' = Destroyed(buf) \/ buf' = Reclaimed(buf)
    BY <1>8 DEF Release, Settle, Reclaim
  <2> QED
    BY <1>0, <1>1, <1>3, <2>1, ReclaimedParts
<1>9. \/ Same \/ FinalizeFast \/ MapWaited \/ UnlockOffload \/ UnlockUpload \/ Apply
  BY <1>4, <1>5, <1>6, <1>7, <1>8 DEF Next, InCall, WorkerStep, Modes
<1> QED
  BY <1>9, MutatingKept DEF Kept, Same

\* No draw in flight has captured the backing that is active after the step, and
\* what it captured is as it was.
FlightClear ==
    \A d \in InFlight : /\ d.backing # buf'.active
                        /\ buf'.ring[d.backing].bytes = buf.ring[d.backing].bytes

\* Behind the fence nothing is left to replay.
LEMMA DrainedChunks ==
  ASSUME LifeInv, ~Pending
  PROVE  Chunked = {} /\ ~Mutating /\ fifo = <<>> /\ wpc \in {"idle", "settle"}
<1>1. fifo = <<>> /\ wpc \in {"idle", "settle"}
  BY DEF Pending
<1>2. ~Mutating
  BY <1>1 DEF Mutating
<1>3. ASSUME NEW t \in Held, t.kind = "chunk"
      PROVE  Range(t.draws) = {}
  <2>1. Range(fifo) = {}
    BY <1>1 DEF Range
  <2>2. t = task /\ wpc = "settle"
    BY <1>1, <2>1 DEF Held
  <2>3. task \notin Mutation
    BY <1>3, <2>2, TaskParts
  <2>4. t.draws = <<>>
    BY <2>2, <2>3 DEF LifeInv, WorkerShape
  <2> QED
    BY <2>4 DEF Range
<1>4. Chunked = {}
  BY <1>3 DEF Chunked
<1> QED
  BY <1>1, <1>2, <1>4

\* A rotation and a copy into what it hands out, over draws in flight.
LEMMA RotatedWriteClear ==
  ASSUME LifeInv, Versioned, NEW done \in Nat, done <= completed,
         NEW b, Turns(buf, b, done), NEW v, NEW s, Wrote(b, buf', b.active, v, s)
  PROVE  FlightClear
<1> SUFFICES ASSUME NEW d \in InFlight
             PROVE  /\ d.backing # buf'.active
                    /\ buf'.ring[d.backing].bytes = buf.ring[d.backing].bytes
  BY DEF FlightClear
<1>1. /\ d.backing # b.active /\ b.ring[d.backing] = buf.ring[d.backing]
      /\ d.backing \in 1..Len(b.ring)
  BY TurnedFree
<1> QED
  BY <1>1 DEF Wrote

\* finalizeBufferMap clears a backing that no draw uses.
LEMMA FinalizeEffect ==
  ASSUME LifeInv, ContentInv, FinalizeFast \/ MapWaited
  PROVE  /\ flavour' = flavour /\ UNCHANGED <<storage, recorder, era, fifo, wpc, task>>
         /\ \/ buf' = buf /\ (app.mode # "discard" \/ flavour = "managed")
            \/ flavour # "managed" /\ app.mode = "discard" /\ FlightClear
<1>0. /\ RecordSound(buf) /\ flavour \in Flavours /\ completed \in Nat /\ app.seq \in Nat
  BY DEF LifeInv, StateTypes, Call
<1>1. /\ flavour' = flavour /\ UNCHANGED <<storage, recorder, era, fifo, wpc, task>>
      /\ app.pc \in {"finalize", "wait"}
  BY DEF FinalizeFast, MapWaited, wvars
<1>2. PICK done \in Nat : done <= completed /\ buf' = Finalized(done)
  <2>1. CASE FinalizeFast
    BY <1>0, <2>1 DEF FinalizeFast, ContentInv, CallQuiet
  <2>2. CASE MapWaited
    BY <1>0, <2>2 DEF MapWaited
  <2> QED
    BY <2>1, <2>2
<1>3. Finalizes(buf', done)
  BY <1>0, <1>2, FinalizedGrows
<1>4. CASE app.mode = "discard" /\ flavour = "plain"
  <2>1. WaitsForGpu
    BY <1>4 DEF WaitsForGpu, BypassesReplay
  <2>2. ~Pending
    BY <1>1, <2>1 DEF ContentInv, CallQuiet, WaitsForGpu
  <2>3. Submitted = {}
    <3>1. CASE FinalizeFast
      BY <2>1, <3>1 DEF FinalizeFast, ContentInv, CallQuiet
    <3>2. CASE MapWaited
      <4>1. /\ app.seq <= completed /\ slot = <<>>
            /\ \A i \in 1..Len(gpu) : gpu[i] # <<>> => completed + i <= app.seq
        BY <3>2 DEF MapWaited, ContentInv, CallQuiet
      <4>2. \A i \in 1..Len(gpu) : gpu[i] = <<>>
        BY <1>0, <4>1
      <4>3. Range(slot) = {} /\ \A i \in 1..Len(gpu) : Range(gpu[i]) = {}
        BY <4>1, <4>2 DEF Range
      <4> QED
        BY <4>3 DEF Submitted
    <3> QED
      BY <3>1, <3>2
  <2>4. InFlight = {}
    BY <2>2, <2>3, DrainedChunks DEF InFlight
  <2> QED
    BY <1>1, <1>4, <2>4 DEF FlightClear
<1>5. CASE app.mode = "discard" /\ flavour = "dynamic"
  <2>1. PICK b : Turns(buf, b, done) /\ Wrote(b, buf', b.active, Blank, Blank)
    BY <1>3, <1>5 DEF Finalizes
  <2>2. FlightClear
    BY <1>2, <1>5, <2>1, RotatedWriteClear DEF Versioned
  <2> QED
    BY <1>1, <1>5, <2>2
<1> QED
  BY <1>1, <1>3, <1>4, <1>5 DEF Finalizes

\* Buffer::unlock: the active backing has what the application sees, and no draw
\* in flight sees a difference.
LEMMA UploadEffect ==
  ASSUME LifeInv, ContentInv, UnlockUpload
  PROVE  /\ flavour' = flavour /\ UNCHANGED <<storage, recorder, era, fifo, wpc, task>>
         /\ app.pc = "unlock" /\ app' = NoCall /\ ~Mutating
         /\ \A c \in Cells : buf'.ring[buf'.active].bytes[c] = storage[c]
         /\ flavour = "managed" => buf'.shadow = buf'.ring[buf'.active].bytes
         /\ \/ FlightClear
            \/ /\ app.mode = "nooverwrite" /\ flavour # "managed"
               /\ buf'.active = buf.active
               /\ \A i \in 1..Len(buf.ring) :
                    i # buf.active => buf'.ring[i].bytes = buf.ring[i].bytes
               /\ \A c \in Cells \ app.span :
                    buf'.ring[buf.active].bytes[c] = buf.ring[buf.active].bytes[c]
<1>0. /\ RecordSound(buf) /\ flavour \in {"dynamic", "managed", "plain"} /\ completed \in Nat
      /\ storage \in [Cells -> Nat] /\ app.mode \in Modes \cup {"none"}
  BY VersionConstants DEF LifeInv, StateTypes, Call
<1>1. /\ flavour' = flavour /\ UNCHANGED <<storage, recorder, era, fifo, wpc, task>>
      /\ app.pc = "unlock" /\ app' = NoCall /\ ~Offloaded
      /\ (BypassesReplay /\ ~MutationHazard) \/ ~Pending
  BY DEF UnlockUpload, wvars
<1>2. ~Mutating
  <2>1. CASE flavour = "managed"
    BY <1>1, <2>1, DrainedChunks DEF MutationHazard
  <2>2. CASE flavour # "managed"
    BY <2>2 DEF ContentInv, MutationFirst
  <2> QED
    BY <2>1, <2>2
<1>3. app.mode \in Modes
  BY <1>0, <1>1 DEF ContentInv, CallQuiet
<1>4. CASE flavour = "managed"
  <2> DEFINE b == Rotated(buf, completed)
  <2>1. buf' = Copied(b, Cells)
    BY <1>4 DEF UnlockUpload
  <2>2. Turns(buf, b, completed)
    BY <1>0, <1>4, RotatedGrows
  <2> HIDE DEF b
  <2>3. RecordSound(b)
    BY <2>2 DEF Turns, Grows
  <2>4. Wrote(b, buf', b.active, Patched(b.ring[b.active].bytes, storage, Cells),
              Patched(b.shadow, storage, Cells))
    BY <1>0, <2>1, <2>3, CopiedGrows
  <2>5. FlightClear
    BY <1>0, <1>4, <2>2, <2>4, RotatedWriteClear DEF Versioned
  <2>6. Patched(b.ring[b.active].bytes, storage, Cells) = [c \in Cells |-> storage[c]]
        /\ Patched(b.shadow, storage, Cells) = [c \in Cells |-> storage[c]]
    BY DEF Patched
  <2>7. buf'.ring[buf'.active].bytes = [c \in Cells |-> storage[c]]
        /\ buf'.shadow = [c \in Cells |-> storage[c]]
    BY <2>4, <2>6 DEF Wrote
  <2> QED
    BY <1>1, <1>2, <2>5, <2>7
<1>5. ASSUME flavour # "managed", NEW span,
             buf' = Copied(buf, span)
      PROVE  /\ buf'.active = buf.active
             /\ \A i \in 1..Len(buf.ring) :
                  i # buf.active => buf'.ring[i].bytes = buf.ring[i].bytes
             /\ \A c \in Cells : buf'.ring[buf.active].bytes[c] =
                  IF c \in span THEN storage[c] ELSE buf.ring[buf.active].bytes[c]
  <2>1. Wrote(buf, buf', buf.active, Patched(buf.ring[buf.active].bytes, storage, span),
              Patched(buf.shadow, storage, span))
    BY <1>0, <1>5, CopiedGrows
  <2> QED
    BY <2>1 DEF Wrote, Patched
<1>6. CASE flavour # "managed" /\ app.mode = "nooverwrite"
  <2>1. \A c \in Cells \ app.span : buf.ring[buf.active].bytes[c] = storage[c]
    BY <1>1, <1>2, <1>6 DEF ContentInv, ActiveCurrent, Open, Content
  <2>2. CASE buf' = Copied(buf, app.span)
    BY <1>1, <1>2, <1>5, <1>6, <2>1, <2>2
  <2>3. CASE buf' = Copied(buf, Cells)
    BY <1>1, <1>2, <1>5, <1>6, <2>1, <2>3
  <2> QED
    BY <1>6, <2>2, <2>3 DEF UnlockUpload
<1>7. CASE flavour # "managed" /\ app.mode # "nooverwrite"
  <2>1. buf' = Copied(buf, Cells)
    BY <1>7 DEF UnlockUpload
  <2>2. \A d \in InFlight : d.backing # buf.active
    <3>1. CASE app.mode = "discard" /\ flavour = "dynamic"
      BY <1>1, <3>1 DEF ContentInv, CallQuiet
    <3>2. CASE ~(app.mode = "discard" /\ flavour = "dynamic")
      <4>1. WaitsForGpu
        BY <1>7, <3>2 DEF WaitsForGpu, BypassesReplay
      <4>2. ~Pending /\ Submitted = {}
        BY <1>1, <4>1 DEF ContentInv, CallQuiet, WaitsForGpu
      <4> QED
        BY <4>2, DrainedChunks DEF InFlight
    <3> QED
      BY <3>1, <3>2
  <2>3. \A d \in InFlight : d.backing \in 1..Len(buf.ring)
    BY FlightTypes
  <2>4. FlightClear
    BY <1>5, <1>7, <2>1, <2>2, <2>3 DEF FlightClear
  <2> QED
    BY <1>1, <1>2, <1>5, <1>7, <2>1, <2>4
<1> QED
  BY <1>4, <1>6, <1>7

\* offloadManagedBufferMutation leases a backing that no draw uses.
LEMMA OffloadEffect ==
  ASSUME LifeInv, ContentInv, UnlockOffload
  PROVE  /\ flavour' = flavour /\ UNCHANGED <<storage, recorder, era, wpc, task>>
         /\ app.pc = "unlock" /\ app' = NoCall /\ flavour = "managed"
         /\ fifo = <<>> /\ Len(fifo') = 1 /\ wpc \in {"idle", "settle"}
         /\ ~Mutating /\ Mutating' /\ TheMutation'.backing = buf'.active
         /\ FlightClear
         /\ \A c \in Cells : Content(buf.active)'[c] = storage[c]
<1> DEFINE m == [kind |-> "mutation", backing |-> buf'.active,
                 span |-> app.span, bytes |-> storage]
<1>0. /\ RecordSound(buf) /\ completed \in Nat /\ storage \in [Cells -> Nat]
      /\ buf.shadow \in [Cells -> Nat]
  BY RecordParts DEF LifeInv, StateTypes
<1>1. /\ flavour' = flavour /\ UNCHANGED <<storage, recorder, era, wpc, task>>
      /\ app.pc = "unlock" /\ app' = NoCall /\ flavour = "managed" /\ app.mode = "plain"
      /\ buf' = Rotated(buf, completed) /\ fifo' = Append(fifo, m)
  BY DEF UnlockOffload, Offloaded, wvars
<1>2. ~Pending
  BY <1>1 DEF ContentInv, CallQuiet, BypassesReplay
<1>3. fifo = <<>> /\ wpc \in {"idle", "settle"} /\ ~Mutating
  BY <1>2, DrainedChunks
<1>4. /\ m.kind = "mutation" /\ m.backing = buf'.active /\ m.span = app.span
      /\ m.bytes = storage
  OBVIOUS
<1> HIDE DEF m
<1>5. Len(fifo') = 1 /\ fifo'[1] = m
  BY <1>1, <1>3
<1>6. Mutating' /\ TheMutation' = m
  BY <1>1, <1>3, <1>4, <1>5 DEF Mutating, TheMutation
<1>7. Turns(buf, buf', completed)
  BY <1>0, <1>1, RotatedGrows
<1>8. FlightClear
  <2> SUFFICES ASSUME NEW d \in InFlight
               PROVE  /\ d.backing # buf'.active
                      /\ buf'.ring[d.backing].bytes = buf.ring[d.backing].bytes
    BY DEF FlightClear
  <2> QED
    BY <1>0, <1>1, <1>7, TurnedFree DEF Versioned
<1>9. \A c \in Cells : Content(buf.active)'[c] = storage[c]
  <2>1. \A c \in Cells \ app.span : buf.shadow[c] = storage[c]
    BY <1>1, <1>3 DEF ContentInv, ActiveCurrent, MutationFirst, Open, Content
  <2>2. buf'.shadow = buf.shadow
    BY <1>7 DEF Turns
  <2>3. Content(buf.active)' = Patched(buf.shadow, storage, app.span)
    BY <1>4, <1>6, <2>2 DEF Content
  <2>4. \A c \in Cells : Patched(buf.shadow, storage, app.span)[c] = storage[c]
    BY <2>1 DEF Patched
  <2> QED
    BY <2>3, <2>4
<1> QED
  BY <1>1, <1>3, <1>4, <1>5, <1>6, <1>8, <1>9

\* applyManagedBufferMutation does what was expected of it.
LEMMA ApplyEffect ==
  ASSUME LifeInv, ContentInv, Apply
  PROVE  /\ flavour' = flavour /\ UNCHANGED <<storage, recorder, era, app, fifo>>
         /\ wpc = "apply" /\ wpc' = "replayed" /\ flavour = "managed"
         /\ Mutating /\ ~Mutating' /\ buf'.active = buf.active
         /\ buf'.shadow = buf'.ring[buf'.active].bytes
         /\ \A k \in 1..Len(buf.ring) : Content(k)' = Content(k)
<1> DEFINE new == Patched(buf.shadow, task.bytes, task.span)
<1>0. RecordSound(buf) /\ buf.shadow \in [Cells -> Nat]
  BY RecordParts DEF LifeInv
<1>1. /\ flavour' = flavour /\ UNCHANGED <<storage, recorder, era, app, fifo, task>>
      /\ wpc = "apply" /\ wpc' = "replayed" /\ buf' = Written(buf, task.backing, new, new)
  BY DEF Apply, Written, avars
<1>2. Mutating /\ TheMutation = task /\ flavour = "managed" /\ task.backing = buf.active
  BY <1>1 DEF Mutating, TheMutation, ContentInv, MutationFirst
<1>3. ~Mutating'
  BY <1>1 DEF Mutating, ContentInv, MutationFirst
<1>4. new \in [Cells -> Nat] /\ task.backing \in 1..Len(buf.ring)
  <2>1. task \in Mutation
    BY <1>1 DEF LifeInv, WorkerShape
  <2>2. task.bytes \in [Cells -> Nat]
    BY <2>1, TaskParts
  <2>3. buf.active \in 1..Len(buf.ring)
    BY <1>0 DEF RecordSound
  <2>4. new \in [Cells -> Nat]
    BY <1>0, <2>2, Zenon DEF Patched
  <2> QED
    BY <1>2, <2>3, <2>4
<1> HIDE DEF new
<1>5. Wrote(buf, buf', task.backing, new, new)
  BY <1>0, <1>1, <1>4, WrittenGrows
<1>6. /\ buf'.active = buf.active /\ buf'.shadow = new /\ buf'.ring[buf.active].bytes = new
      /\ \A k \in 1..Len(buf.ring) : k # buf.active => buf'.ring[k] = buf.ring[k]
  BY <1>2, <1>5 DEF Wrote
<1>7. ASSUME NEW k \in 1..Len(buf.ring)
      PROVE  Content(k)' = Content(k)
  <2>1. Content(k)' = buf'.ring[k].bytes
    BY <1>3 DEF Content
  <2>2. Content(k) = IF k = buf.active THEN new ELSE buf.ring[k].bytes
    BY <1>2 DEF Content, new
  <2> QED
    BY <1>6, <2>1, <2>2
<1> QED
  BY <1>1, <1>2, <1>3, <1>6, <1>7

-----------------------------------------------------------------------------
(* The invariant is kept. *)

\* A draw in flight after a step had what it wants before it, wherever it was.
LEMMA Carried ==
  ASSUME LifeInv, ContentInv, Next, NEW d \in InFlight'
  PROVE  /\ d \in InFlight \/ JustSealed(d)
         /\ d.backing \in 1..Len(buf.ring)
         /\ \A c \in d.reads : Content(d.backing)[c] = d.want[c]
         /\ d \in Submitted' => ~Mutating \/ d.backing # buf.active
<1>1. d \in InFlight \/ JustSealed(d)
  BY SubmittedStep, ChunkedStep DEF InFlight
<1>2. CASE d \in InFlight
  <2>1. d \in Submitted' => d \in Submitted \/ wpc = "append"
    BY SubmittedStep
  <2>2. wpc = "append" => ~Mutating
    BY DEF ContentInv, MutationFirst, Mutating, LifeInv, StateTypes
  <2> QED
    BY <1>1, <1>2, <2>1, <2>2, FlightTypes DEF ContentInv, DrawsAgree
<1>3. CASE JustSealed(d) /\ d \notin InFlight
  <2>1. PICK r \in Range(recorder) :
          d.backing = buf.active /\ d.reads = r.reads /\ d.want = r.want
    BY <1>3 DEF JustSealed
  <2>2. r \in DrawRec /\ r.reads \subseteq Cells
    BY RangeIndexed, TaskParts DEF LifeInv, StateTypes
  <2>3. \A c \in Cells : Content(buf.active)[c] = storage[c]
    BY <1>3 DEF JustSealed, ContentInv, ActiveCurrent, Open
  <2>4. \A c \in r.reads : storage[c] = r.want[c]
    BY DEF ContentInv, DrawsAgree
  <2>5. d.backing \in 1..Len(buf.ring)
    BY <2>1 DEF LifeInv, RecordSound
  <2>6. d \notin Submitted'
    BY <1>3, SubmittedStep DEF InFlight
  <2> QED
    BY <1>1, <2>1, <2>2, <2>3, <2>4, <2>5, <2>6
<1> QED
  BY <1>1, <1>2, <1>3

\* What a draw reads does not change under it.
LEMMA ContentStep ==
  ASSUME LifeInv, ContentInv, Next, NEW d \in InFlight', NEW c \in d.reads
  PROVE  Content(d.backing)'[c] = Content(d.backing)[c]
<1>0. /\ d \in InFlight \/ JustSealed(d)
      /\ d.backing \in 1..Len(buf.ring)
  BY Carried
<1>1. CASE Kept
  BY <1>0, <1>1, KeptContent
<1>2. CASE Apply
  BY <1>0, <1>2, ApplyEffect
<1>3. ASSUME app.pc # "idle"
      PROVE  d \in InFlight
  BY <1>0, <1>3 DEF JustSealed
<1>4. ASSUME FlightClear, d \in InFlight, ~Mutating
      PROVE  Content(d.backing)'[c] = Content(d.backing)[c]
  <2>1. Content(d.backing) = buf.ring[d.backing].bytes
    BY <1>4 DEF Content
  <2>2. d.backing # buf'.active /\ buf'.ring[d.backing].bytes = buf.ring[d.backing].bytes
    BY <1>4 DEF FlightClear
  <2>3. Content(d.backing)' = buf'.ring[d.backing].bytes
    BY <2>2 DEF Content
  <2> QED
    BY <2>1, <2>2, <2>3
<1>5. CASE FinalizeFast \/ MapWaited
  <2>1. app.pc # "idle"
    BY <1>5 DEF FinalizeFast, MapWaited
  <2>2. UNCHANGED <<fifo, wpc, task>>
    BY <1>5, FinalizeEffect
  <2>3. CASE buf' = buf
    BY <2>2, <2>3 DEF Content, Mutating, TheMutation
  <2>4. CASE flavour # "managed" /\ FlightClear
    BY <1>3, <1>4, <2>1, <2>4 DEF ContentInv, MutationFirst
  <2> QED
    BY <1>5, <2>3, <2>4, FinalizeEffect
<1>6. CASE UnlockOffload
  <2>1. app.pc = "unlock" /\ ~Mutating /\ FlightClear
    BY <1>6, OffloadEffect
  <2> QED
    BY <1>3, <1>4, <2>1
<1>7. CASE UnlockUpload
  <2>1. app.pc = "unlock" /\ ~Mutating /\ UNCHANGED <<fifo, wpc, task>>
    BY <1>7, UploadEffect
  <2>2. ~Mutating'
    BY <2>1 DEF Mutating
  <2>3. CASE FlightClear
    BY <1>3, <1>4, <2>1, <2>3
  <2>4. CASE /\ app.mode = "nooverwrite" /\ flavour # "managed" /\ buf'.active = buf.active
             /\ \A i \in 1..Len(buf.ring) :
                  i # buf.active => buf'.ring[i].bytes = buf.ring[i].bytes
             /\ \A x \in Cells \ app.span :
                  buf'.ring[buf.active].bytes[x] = buf.ring[buf.active].bytes[x]
    <3>1. d \in InFlight /\ c \in Cells
      BY <1>3, <2>1, FlightTypes, TaskParts
    <3>2. Content(d.backing)' = buf'.ring[d.backing].bytes
          /\ Content(d.backing) = buf.ring[d.backing].bytes
      BY <2>1, <2>2 DEF Content
    <3>3. CASE d.backing # buf.active
      BY <1>0, <2>4, <3>2, <3>3
    <3>4. CASE d.backing = buf.active
      <4>1. d.era = era
        BY <2>4, <3>1, <3>4 DEF ContentInv, EraCurrent
      <4>2. d.reads \cap app.span = {}
        BY <2>4, <3>1, <4>1 DEF ContentInv, PromiseHolds
      <4> QED
        BY <2>4, <3>1, <3>2, <3>4, <4>2
    <3> QED
      BY <3>3, <3>4
  <2> QED
    BY <1>7, <2>3, <2>4, UploadEffect
<1> QED
  BY <1>1, <1>2, <1>5, <1>6, <1>7, ContentChanges DEF ContentInv

\* Mutations are queued behind a drained fifo, and nothing passes them.
LEMMA MutationFirstStep ==
  ASSUME LifeInv, ContentInv, Next
  PROVE  MutationFirst'
<1>0. /\ recorder \in Seq(DrawRec) /\ fifo \in Seq(Task) /\ Len(fifo) \in Nat
      /\ buf.active \in Nat /\ flavour' = flavour
  BY RecordParts, BufferStep DEF LifeInv, StateTypes
<1> DEFINE Lone(s, w) == \A k \in 1..Len(s) :
                 s[k].kind = "mutation" => k = 1 /\ w \in {"idle", "settle"}
<1>1. Lone(fifo, wpc)
  BY DEF ContentInv, MutationFirst
<1>2. Lone(fifo', wpc')
  <2>1. CASE /\ fifo' = fifo
             /\ wpc' = wpc \/ wpc \notin {"idle", "settle"} \/ wpc' \in {"idle", "settle"}
    BY <1>1, <2>1
  <2>2. CASE fifo' = Sealed /\ wpc' = wpc
    <3>1. /\ SealedChunk \in Task /\ SealedChunk.kind = "chunk"
          /\ Sealed = IF recorder = <<>> THEN fifo ELSE Append(fifo, SealedChunk)
      BY <1>0, SealedTask DEF Task
    <3>2. CASE recorder = <<>>
      BY <1>1, <2>2, <3>1, <3>2
    <3>3. CASE recorder # <<>>
      <4>1. /\ Len(fifo') = Len(fifo) + 1 /\ fifo'[Len(fifo) + 1] = SealedChunk
            /\ \A k \in 1..Len(fifo) : fifo'[k] = fifo[k]
        <5>1. fifo' = Append(fifo, SealedChunk)
          BY <2>2, <3>1, <3>3
        <5> QED
          BY <1>0, <3>1, <5>1
      <4>2. \A k \in 1..Len(fifo') : k \in 1..Len(fifo) \/ k = Len(fifo) + 1
        BY <1>0, <4>1
      <4> QED
        BY <1>1, <2>2, <3>1, <4>1, <4>2
    <3> QED
      BY <3>2, <3>3
  <2>3. CASE Pop
    <3>1. /\ wpc = "idle" /\ fifo # <<>> /\ fifo' = Tail(fifo)
      BY <2>3 DEF Pop
    <3>2. ASSUME NEW k \in 1..Len(fifo')
          PROVE  fifo'[k].kind # "mutation"
      <4>1. k + 1 \in 1..Len(fifo) /\ fifo'[k] = fifo[k + 1] /\ k + 1 # 1
        BY <1>0, <3>1, <3>2
      <4> QED
        BY <1>1, <4>1
    <3> QED
      BY <3>2
  <2>4. CASE UnlockOffload
    <3>1. Len(fifo') = 1 /\ wpc' \in {"idle", "settle"}
      BY <2>4, OffloadEffect
    <3> QED
      BY <3>1
  <2>5. CASE \E mode \in Modes, span \in Spans \cup {Cells} : Lock(mode, span)
    <3>1. (fifo' = Sealed \/ fifo' = fifo) /\ wpc' = wpc
      BY <2>5 DEF Lock, wvars
    <3> QED
      BY <2>1, <2>2, <3>1
  <2> HIDE DEF Lone
  <2>6. CASE CommitChunk
    BY <2>2, <2>6 DEF CommitChunk, wvars
  <2>7. CASE (\E reads \in Spans : Draw(reads)) \/ LockFence \/ MapFast \/ FinalizeFast
             \/ MapSlow \/ MapWaited \/ Write \/ UnlockUpload \/ Release
    BY <2>1, <2>7 DEF Draw, LockFence, MapFast, FinalizeFast, MapSlow, MapWaited, Write,
       UnlockUpload, Release, wvars
  <2>8. CASE ReadTicket \/ StampLockFree \/ Restamp \/ AppendDraw \/ EmitNothing
             \/ Apply \/ PublishReplayed \/ Settle
    BY <2>1, <2>8 DEF ReadTicket, StampLockFree, Restamp, AppendDraw, EmitNothing, Apply,
       PublishReplayed, Settle
  <2>9. CASE PublishSlot \/ PublishOther \/ Complete \/ Reclaim
    BY <2>1, <2>9 DEF PublishSlot, PublishOther, Complete, Reclaim, wvars
  <2> QED
    BY <2>3, <2>4, <2>5, <2>6, <2>7, <2>8, <2>9 DEF Next, InCall, WorkerStep, Modes
<1>3. /\ Mutating' => flavour' = "managed" /\ TheMutation'.backing = buf'.active
      /\ flavour' = "managed" /\ ~Mutating' => buf'.shadow = buf'.ring[buf'.active].bytes
  <2>0. /\ Mutating => flavour = "managed" /\ TheMutation.backing = buf.active
        /\ flavour = "managed" /\ ~Mutating => buf.shadow = buf.ring[buf.active].bytes
        /\ buf.active \in 1..Len(buf.ring)
    BY DEF ContentInv, MutationFirst, LifeInv, RecordSound
  <2>1. CASE Kept
    BY <1>0, <2>0, <2>1 DEF Kept
  <2>2. CASE Apply
    BY <2>2, ApplyEffect
  <2>3. CASE FinalizeFast \/ MapWaited
    <3>1. UNCHANGED <<fifo, wpc, task>> /\ (buf' = buf \/ flavour # "managed")
      BY <2>3, FinalizeEffect
    <3> QED
      BY <1>0, <2>0, <3>1 DEF Mutating, TheMutation
  <2>4. CASE UnlockOffload
    BY <2>4, OffloadEffect
  <2>5. CASE UnlockUpload
    <3>1. /\ ~Mutating /\ UNCHANGED <<fifo, wpc, task>>
          /\ flavour = "managed" => buf'.shadow = buf'.ring[buf'.active].bytes
      BY <2>5, UploadEffect
    <3> QED
      BY <1>0, <3>1 DEF Mutating
  <2> QED
    BY <2>1, <2>2, <2>3, <2>4, <2>5, ContentChanges DEF ContentInv
<1> QED
  BY <1>2, <1>3 DEF MutationFirst

\* The draws agree with the contents after a step as they did before it.
LEMMA DrawsAgreeStep ==
  ASSUME LifeInv, ContentInv, Next
  PROVE  DrawsAgree'
<1>0. recorder \in Seq(DrawRec) /\ storage \in [Cells -> Nat]
  BY DEF LifeInv, StateTypes
<1>1. ASSUME NEW d \in Range(recorder'), NEW c \in d.reads
      PROVE  storage'[c] = d.want[c]
  <2>0. \A r \in Range(recorder) : r \in DrawRec /\ r.reads \subseteq Cells
                                   /\ \A x \in r.reads : storage[x] = r.want[x]
    BY <1>0, RangeIndexed, TaskParts DEF ContentInv, DrawsAgree
  <2>1. CASE recorder' = recorder /\ storage' = storage
    BY <2>0, <2>1
  <2>2. CASE recorder' = <<>>
    BY <1>1, <2>2 DEF Range
  <2>3. ASSUME NEW reads \in Spans, Draw(reads)
        PROVE  storage'[c] = d.want[c]
    <3> DEFINE n == [backing |-> 0, era |-> era, reads |-> reads, want |-> storage]
    <3>1. recorder' = Append(recorder, n) /\ storage' = storage
      BY <2>3 DEF Draw
    <3>2. n \in DrawRec /\ n.want = storage
      <4>1. era \in Nat
        BY DEF LifeInv, StateTypes
      <4> QED
        BY <1>0, <4>1 DEF DrawRec
    <3> HIDE DEF n
    <3>3. d \in Range(recorder) \/ d = n
      BY <1>0, <1>1, <3>1, <3>2, RangeOps
    <3> QED
      BY <2>0, <3>1, <3>2, <3>3
  <2>4. ASSUME NEW mode \in Modes, NEW span, Lock(mode, span)
        PROVE  storage'[c] = d.want[c]
    <3>1. recorder' = <<>> \/ (recorder' = recorder /\ storage' = storage)
      BY <2>4 DEF Lock, LockFlushes
    <3> QED
      BY <2>1, <2>2, <3>1
  <2>5. CASE Write
    <3>1. /\ app.pc = "locked" /\ recorder' = recorder
          /\ storage' = [x \in Cells |-> IF x \in app.span THEN writes + 1 ELSE storage[x]]
      BY <2>5 DEF Write
    <3>2. CASE app.mode = "nooverwrite"
      <4>1. d \in Range(recorder) /\ d.era = era
        BY <1>1, <3>1 DEF ContentInv, EraCurrent
      <4>2. d.reads \cap app.span = {}
        BY <3>2, <4>1 DEF ContentInv, PromiseHolds
      <4>3. storage'[c] = storage[c]
        BY <1>1, <2>0, <3>1, <4>1, <4>2
      <4> QED
        BY <1>1, <2>0, <4>1, <4>3
    <3>3. CASE app.mode # "nooverwrite"
      <4>1. recorder' = <<>>
        BY <3>1, <3>3 DEF ContentInv, CallQuiet
      <4> QED
        BY <2>2, <4>1
    <3> QED
      BY <3>2, <3>3
  <2>6. CASE CommitChunk
    BY <2>2, <2>6 DEF CommitChunk
  <2>7. CASE InCall \/ Release
    BY <2>1, <2>7 DEF InCall, LockFence, MapFast, FinalizeFast, MapSlow, MapWaited,
       UnlockOffload, UnlockUpload, Release
  <2>8. CASE WorkerStep \/ PublishSlot \/ PublishOther \/ Complete \/ Reclaim
    BY <2>1, <2>8 DEF WorkerStep, Pop, ReadTicket, StampLockFree, Restamp, AppendDraw,
       EmitNothing, Apply, PublishReplayed, Settle, PublishSlot, PublishOther, Complete,
       Reclaim, avars
  <2> QED
    BY <2>3, <2>4, <2>5, <2>6, <2>7, <2>8 DEF Next, Modes
<1>2. ASSUME NEW d \in InFlight', NEW c \in d.reads
      PROVE  Content(d.backing)'[c] = d.want[c]
  BY <1>2, Carried, ContentStep
<1>3. ASSUME NEW d \in Submitted', Mutating'
      PROVE  d.backing # buf'.active
  <2>0. d \in InFlight'
    BY <1>3 DEF InFlight
  <2>1. /\ d \in InFlight \/ JustSealed(d)
        /\ ~Mutating \/ d.backing # buf.active
    BY <1>3, <2>0, Carried
  <2>2. CASE Kept
    BY <1>3, <2>1, <2>2 DEF Kept
  <2>3. CASE Apply
    BY <1>3, <2>3, ApplyEffect
  <2>4. CASE FinalizeFast \/ MapWaited
    <3>1. UNCHANGED <<fifo, wpc, task>> /\ (buf' = buf \/ flavour # "managed")
      BY <2>4, FinalizeEffect
    <3>2. Mutating
      BY <1>3, <3>1 DEF Mutating
    <3> QED
      BY <2>1, <3>1, <3>2 DEF ContentInv, MutationFirst
  <2>5. CASE UnlockOffload
    BY <2>1, <2>5, OffloadEffect DEF FlightClear, JustSealed
  <2>6. CASE UnlockUpload
    <3>1. ~Mutating /\ UNCHANGED <<fifo, wpc, task>>
      BY <2>6, UploadEffect
    <3> QED
      BY <1>3, <3>1 DEF Mutating
  <2> QED
    BY <2>2, <2>3, <2>4, <2>5, <2>6, ContentChanges DEF ContentInv
<1>4. \A d \in InFlight' : \A c \in d.reads : Content(d.backing)'[c] = d.want[c]
  BY <1>2
<1> QED
  BY <1>1, <1>3, <1>4 DEF DrawsAgree

\* What a step does to the call.
CallKept ==
    /\ UNCHANGED <<app, storage, era>>
    /\ app.pc # "idle" => recorder' = recorder /\ (Pending' => Pending)
CallBegins ==
    \E mode \in Modes, span \in SUBSET Cells :
        Lock(mode, span) /\ (mode = "discard" => span = Cells)
CallGoesOn ==
    /\ LockFence \/ MapFast \/ MapSlow \/ FinalizeFast \/ MapWaited
    /\ app'.mode = app.mode /\ app'.span = app.span
    /\ {app.pc, app'.pc} \subseteq {"fence", "map", "finalize", "wait", "locked"}
    /\ UNCHANGED <<storage, era, recorder, fifo, wpc, task>>
CallWrites ==
    /\ Write /\ app.pc = "locked" /\ app'.pc = "unlock"
    /\ app'.mode = app.mode /\ app'.span = app.span
    /\ storage' = [c \in Cells |-> IF c \in app.span THEN writes + 1 ELSE storage[c]]
    /\ UNCHANGED <<flavour, buf, era, recorder, fifo, wpc, task, slot, gpu, completed>>
CallEnds ==
    (UnlockOffload \/ UnlockUpload) /\ app.pc = "unlock" /\ app' = NoCall
    /\ UNCHANGED <<storage, era, recorder>>

\* What one step can do to the map call of the application.
LEMMA CallStep ==
  ASSUME LifeInv, Next
  PROVE  CallKept \/ CallBegins \/ CallGoesOn \/ CallWrites \/ CallEnds
<1>0. app \in Call /\ fifo \in Seq(Task)
  BY DEF LifeInv, StateTypes
<1>1. CASE (\E reads \in Spans : Draw(reads)) \/ CommitChunk
  BY <1>1 DEF Draw, CommitChunk, CallKept
<1>2. CASE \/ \E mode \in Modes, span \in Spans : mode # "discard" /\ Lock(mode, span)
           \/ Lock("discard", Cells)
  <2>1. \A span \in Spans : span \in SUBSET Cells
    BY VersionConstants
  <2> QED
    BY <1>2, <2>1 DEF CallBegins, Modes
<1>3. CASE LockFence \/ MapFast \/ MapSlow \/ FinalizeFast \/ MapWaited
  <2>1. \A p, n : /\ [app EXCEPT !.pc = p].pc = p /\ [app EXCEPT !.pc = p].mode = app.mode
                  /\ [app EXCEPT !.pc = p].span = app.span
                  /\ [app EXCEPT !.pc = p, !.seq = n].pc = p
                  /\ [app EXCEPT !.pc = p, !.seq = n].mode = app.mode
                  /\ [app EXCEPT !.pc = p, !.seq = n].span = app.span
    BY <1>0, Zenon DEF Call
  <2>2. UNCHANGED <<storage, era, recorder, fifo, wpc, task>>
    BY <1>3 DEF LockFence, MapFast, MapSlow, FinalizeFast, MapWaited, wvars
  <2>3. CASE LockFence
    BY <2>1, <2>2, <2>3 DEF CallGoesOn, LockFence
  <2>4. CASE MapFast
    BY <2>1, <2>2, <2>4 DEF CallGoesOn, MapFast
  <2>5. CASE MapSlow
    BY <2>1, <2>2, <2>5 DEF CallGoesOn, MapSlow
  <2>6. CASE FinalizeFast
    BY <2>1, <2>2, <2>6 DEF CallGoesOn, FinalizeFast
  <2>7. CASE MapWaited
    BY <2>1, <2>2, <2>7 DEF CallGoesOn, MapWaited
  <2> QED
    BY <1>3, <2>3, <2>4, <2>5, <2>6, <2>7
<1>4. CASE Write
  BY <1>0, <1>4 DEF Write, CallWrites, Call, wvars, qvars
<1>5. CASE UnlockOffload \/ UnlockUpload
  BY <1>5 DEF CallEnds, UnlockOffload, UnlockUpload
<1>6. CASE Release
  BY <1>6 DEF Release, CallKept, Pending, wvars
<1>7. CASE WorkerStep
  <2>1. UNCHANGED <<app, storage, era, recorder>>
    BY <1>7 DEF WorkerStep, Pop, ReadTicket, StampLockFree, Restamp, AppendDraw,
       EmitNothing, Apply, PublishReplayed, Settle, avars
  <2>2. Pending' => Pending
    BY <1>7 DEF WorkerStep, Pop, ReadTicket, StampLockFree, Restamp, AppendDraw,
       EmitNothing, Apply, PublishReplayed, Settle, Pending
  <2> QED
    BY <2>1, <2>2 DEF CallKept
<1>8. CASE PublishSlot \/ PublishOther \/ Complete \/ Reclaim
  BY <1>8 DEF PublishSlot, PublishOther, Complete, Reclaim, CallKept, Pending, avars, wvars
<1> QED
  BY <1>1, <1>2, <1>3, <1>4, <1>5, <1>6, <1>7, <1>8 DEF Next, InCall

\* The content of what is active after a step.
LEMMA ActiveContent ==
  ASSUME NEW k, k = buf'.active
  PROVE  Content(buf.active)' = Content(k)'
BY DEF Content

\* The active backing follows the application.
LEMMA ActiveCurrentStep ==
  ASSUME LifeInv, ContentInv, Next
  PROVE  ActiveCurrent'
<1>1. SUFFICES ASSUME app'.pc = "idle" \/ app'.mode = "nooverwrite" \/ flavour' = "managed",
                      NEW c \in Cells, c \notin Open'
               PROVE  Content(buf.active)'[c] = storage'[c]
  BY DEF ActiveCurrent
<1>0. /\ buf.active \in 1..Len(buf.ring) /\ flavour' = flavour /\ storage \in [Cells -> Nat]
      /\ (app.pc = "idle" \/ app.mode = "nooverwrite" \/ flavour = "managed")
           /\ c \notin Open => Content(buf.active)[c] = storage[c]
  BY BufferStep DEF LifeInv, StateTypes, RecordSound, ContentInv, ActiveCurrent
<1>2. CASE Kept \/ Apply
  <2>1. Content(buf.active)' = Content(buf.active)
    <3>1. ASSUME NEW k, k = buf.active
          PROVE  Content(buf.active)' = Content(k)' /\ Content(k)' = Content(k)
      <4>1. k = buf'.active /\ k \in 1..Len(buf.ring)
        BY <1>0, <1>2, <3>1, ApplyEffect DEF Kept
      <4> QED
        BY <1>2, <4>1, ActiveContent, KeptContent, ApplyEffect
    <3> QED
      BY <3>1
  <2>2. CASE CallKept
    BY <1>0, <1>1, <2>1, <2>2 DEF CallKept, Open
  <2>3. CASE CallBegins
    <3>1. PICK mode \in Modes, span \in SUBSET Cells : Lock(mode, span)
      BY <2>3 DEF CallBegins
    <3>2. /\ app.pc = "idle" /\ app' = [pc |-> "fence", mode |-> mode, span |-> span, seq |-> 0]
          /\ storage' = IF mode = "discard" /\ flavour = "dynamic" THEN Blank ELSE storage
      BY <3>1 DEF Lock
    <3> QED
      BY <1>0, <1>1, <2>1, <3>2 DEF Open
  <2>4. CASE CallGoesOn
    BY <1>0, <1>1, <2>1, <2>4 DEF CallGoesOn, Open
  <2>5. CASE CallWrites
    BY <1>0, <1>1, <2>1, <2>5 DEF CallWrites, Open
  <2>6. CASE UnlockOffload
    BY <1>1, <2>6, OffloadEffect
  <2>7. CASE UnlockUpload
    <3>1. ~Mutating /\ UNCHANGED <<fifo, wpc, task, storage>>
          /\ \A x \in Cells : buf'.ring[buf'.active].bytes[x] = storage[x]
      BY <2>7, UploadEffect
    <3> QED
      BY <1>1, <3>1 DEF Content, Mutating
  <2> QED
    BY <2>2, <2>3, <2>4, <2>5, <2>6, <2>7, CallStep DEF CallEnds
<1>3. CASE FinalizeFast \/ MapWaited
  <2>1. UNCHANGED <<storage, fifo, wpc, task>> /\ app'.pc = "locked" /\ app'.mode = app.mode
        /\ app.pc # "unlock"
    <3>1. app \in Call
      BY DEF LifeInv, StateTypes
    <3> QED
      BY <1>3, <3>1, FinalizeEffect DEF FinalizeFast, MapWaited, Call
  <2>2. buf' = buf
    BY <1>0, <1>1, <1>3, <2>1, FinalizeEffect
  <2>3. Content(buf.active)' = Content(buf.active)
    BY <2>1, <2>2 DEF Content, Mutating, TheMutation
  <2> QED
    BY <1>0, <1>1, <2>1, <2>3 DEF Open
<1>4. CASE UnlockOffload
  BY <1>1, <1>4, OffloadEffect
<1>5. CASE UnlockUpload
  <2>1. ~Mutating /\ UNCHANGED <<fifo, wpc, task, storage>>
        /\ \A x \in Cells : buf'.ring[buf'.active].bytes[x] = storage[x]
    BY <1>5, UploadEffect
  <2> QED
    BY <1>1, <2>1 DEF Content, Mutating
<1> QED
  BY <1>2, <1>3, <1>4, <1>5, ContentChanges DEF ContentInv

\* Only a DISCARD begins an era, and it leaves the active backing to itself.
LEMMA EraCurrentStep ==
  ASSUME LifeInv, ContentInv, Next
  PROVE  EraCurrent'
<1>0. recorder \in Seq(DrawRec) /\ era \in Nat /\ storage \in [Cells -> Nat] /\ flavour' = flavour
      /\ \A r \in Range(recorder) : r.era = era
  BY BufferStep DEF LifeInv, StateTypes, ContentInv, EraCurrent
<1>1. ASSUME NEW d \in Range(recorder')
      PROVE  d.era = era'
  <2>1. CASE recorder' = recorder /\ era' = era
    BY <1>0, <1>1, <2>1
  <2>2. CASE recorder' = <<>>
    BY <1>1, <2>2 DEF Range
  <2>3. ASSUME NEW reads \in Spans, Draw(reads)
        PROVE  d.era = era'
    <3> DEFINE n == [backing |-> 0, era |-> era, reads |-> reads, want |-> storage]
    <3>1. recorder' = Append(recorder, n) /\ era' = era
      BY <2>3 DEF Draw
    <3>2. n \in DrawRec /\ n.era = era
      BY <1>0 DEF DrawRec
    <3> HIDE DEF n
    <3>3. d \in Range(recorder) \/ d = n
      BY <1>0, <1>1, <3>1, <3>2, RangeOps
    <3> QED
      BY <1>0, <3>1, <3>2, <3>3
  <2>4. ASSUME NEW mode \in Modes, NEW span, Lock(mode, span)
        PROVE  d.era = era'
    <3>1. recorder' = <<>> \/ (recorder' = recorder /\ era' = era)
      BY <2>4 DEF Lock, LockFlushes
    <3> QED
      BY <2>1, <2>2, <3>1
  <2>5. CASE CommitChunk
    BY <2>2, <2>5 DEF CommitChunk
  <2>6. CASE InCall \/ Release \/ Write
    BY <2>1, <2>6 DEF InCall, LockFence, MapFast, FinalizeFast, MapSlow, MapWaited,
       UnlockOffload, UnlockUpload, Release, Write
  <2>7. CASE WorkerStep \/ PublishSlot \/ PublishOther \/ Complete \/ Reclaim
    BY <2>1, <2>7 DEF WorkerStep, Pop, ReadTicket, StampLockFree, Restamp, AppendDraw,
       EmitNothing, Apply, PublishReplayed, Settle, PublishSlot, PublishOther, Complete,
       Reclaim, avars
  <2> QED
    BY <2>3, <2>4, <2>5, <2>6, <2>7 DEF Next, Modes
<1>2. ASSUME flavour # "managed", app'.mode # "discard", NEW d \in InFlight',
             d.backing = buf'.active
      PROVE  d.era = era'
  <2>0. /\ d \in InFlight \/ JustSealed(d)
        /\ JustSealed(d) => d.era = era
        /\ app.mode # "discard" /\ d \in InFlight /\ d.backing = buf.active => d.era = era
    BY <1>0, <1>2, Carried DEF JustSealed, ContentInv, EraCurrent
  <2>1. ASSUME app.mode # "discard", buf'.active = buf.active, era' = era
        PROVE  d.era = era'
    BY <1>2, <2>0, <2>1
  <2>2. CASE UnlockOffload \/ Apply
    BY <1>2, <2>2, OffloadEffect, ApplyEffect
  <2>3. CASE UnlockUpload
    <3>1. app.pc = "unlock" /\ era' = era
      BY <2>3, UploadEffect
    <3>2. d \in InFlight
      BY <2>0, <3>1 DEF JustSealed
    <3>3. ~FlightClear
      BY <1>2, <3>2 DEF FlightClear
    <3>4. app.mode = "nooverwrite" /\ buf'.active = buf.active
      BY <2>3, <3>3, UploadEffect
    <3> QED
      BY <2>1, <3>1, <3>4
  <2>4. CASE CallBegins
    <3>1. PICK mode \in Modes, span \in SUBSET Cells : Lock(mode, span)
      BY <2>4 DEF CallBegins
    <3>2. /\ app.pc = "idle" /\ app'.mode = mode /\ buf' = buf
          /\ era' = IF mode = "discard" THEN era + 1 ELSE era
      BY <3>1 DEF Lock
    <3>3. app.mode = "none"
      BY <3>2 DEF ContentInv, CallQuiet
    <3> QED
      BY <1>2, <2>1, <3>2, <3>3
  <2>5. CASE CallGoesOn /\ (FinalizeFast \/ MapWaited)
    <3>1. app.mode # "discard" /\ era' = era
      BY <1>2, <2>5 DEF CallGoesOn
    <3>2. buf' = buf
      BY <2>5, <3>1, FinalizeEffect
    <3> QED
      BY <2>1, <3>1, <3>2
  <2>6. CASE Kept /\ (CallKept \/ CallGoesOn \/ CallWrites)
    BY <1>2, <2>1, <2>6 DEF Kept, CallKept, CallGoesOn, CallWrites
  <2>7. CASE ~Kept /\ ~Apply /\ ~UnlockOffload /\ ~UnlockUpload
             /\ ~(CallGoesOn /\ (FinalizeFast \/ MapWaited))
    <3>1. FinalizeFast \/ MapWaited
      BY <2>7, ContentChanges DEF ContentInv
    <3>2. CallGoesOn
      BY <3>1, CallStep DEF FinalizeFast, MapWaited, CallKept, CallBegins, Lock, CallWrites,
         CallEnds, UnlockOffload, UnlockUpload, LifeInv, StateTypes, Call
    <3> QED
      BY <2>7, <3>1, <3>2
  <2> QED
    BY <2>2, <2>3, <2>4, <2>5, <2>6, <2>7, CallStep DEF CallEnds
<1> QED
  BY <1>0, <1>1, <1>2 DEF EraCurrent

\* A promise is made about all that is unfinished, and nothing is added to that
\* before the call ends.
LEMMA PromiseHoldsStep ==
  ASSUME LifeInv, ContentInv, Next
  PROVE  PromiseHolds'
<1>1. SUFFICES ASSUME app'.mode = "nooverwrite",
                      NEW d \in Range(recorder') \cup InFlight', d.era = era'
               PROVE  d.reads \cap app'.span = {}
  BY DEF PromiseHolds
<1>2. d \in InFlight' => d \in InFlight \/ JustSealed(d)
  BY Carried
<1>3. CASE CallBegins
  <2>1. PICK mode \in Modes, span \in SUBSET Cells : Lock(mode, span)
    BY <1>3 DEF CallBegins
  <2>2. /\ app'.mode = mode /\ app'.span = span /\ PromiseKept(mode, span)
        /\ recorder' = IF LockFlushes(mode) THEN <<>> ELSE recorder
        /\ era' = IF mode = "discard" THEN era + 1 ELSE era
    BY <2>1 DEF Lock
  <2>3. mode = "nooverwrite" /\ recorder' = recorder /\ era' = era
    BY <1>1, <2>2 DEF LockFlushes
  <2>4. \A x \in Range(recorder) \cup InFlight : x.era = era => x.reads \cap span = {}
    BY <2>2, <2>3, UnfinishedIs DEF PromiseKept
  <2>5. CASE d \in Range(recorder) \cup InFlight
    BY <1>1, <2>2, <2>3, <2>4, <2>5
  <2>6. CASE JustSealed(d)
    <3>1. PICK r \in Range(recorder) : d.reads = r.reads /\ d.era = r.era
      BY <2>6 DEF JustSealed
    <3> QED
      BY <1>1, <2>2, <2>3, <2>4, <3>1
  <2> QED
    BY <1>1, <1>2, <2>3, <2>5, <2>6
<1>4. CASE CallKept \/ CallGoesOn \/ CallWrites
  <2>1. app.mode = "nooverwrite" /\ app'.span = app.span /\ era' = era
    BY <1>1, <1>4 DEF CallKept, CallGoesOn, CallWrites
  <2>2. app.pc # "idle"
    BY <2>1 DEF ContentInv, CallQuiet
  <2>3. recorder' = recorder
    BY <1>4, <2>2 DEF CallKept, CallGoesOn, CallWrites
  <2>4. d \in Range(recorder) \cup InFlight
    BY <1>1, <1>2, <2>2, <2>3 DEF JustSealed
  <2> QED
    BY <1>1, <2>1, <2>4 DEF ContentInv, PromiseHolds
<1>5. CASE CallEnds
  BY <1>1, <1>5 DEF CallEnds, NoCall
<1> QED
  BY <1>3, <1>4, <1>5, CallStep

\* When nothing is left to replay, what was submitted only finishes.
LEMMA DrainedStep ==
  ASSUME LifeInv, Next, ~Pending
  PROVE  Submitted' \subseteq Submitted
<1>1. wpc # "append"
  BY DEF Pending
<1> QED
  BY <1>1, SubmittedStep

\* A lock that waited has waited for every draw.
LEMMA WaitedDone ==
  ASSUME LifeInv, ContentInv, app.pc = "wait", app.seq <= completed
  PROVE  Submitted = {}
<1>1. /\ slot = <<>> /\ completed \in Nat /\ app.seq \in Nat
      /\ \A i \in 1..Len(gpu) : gpu[i] # <<>> => completed + i <= app.seq
  BY DEF ContentInv, CallQuiet, LifeInv, StateTypes, Call
<1>2. \A i \in 1..Len(gpu) : gpu[i] = <<>>
  BY <1>1
<1>3. Range(slot) = {} /\ \A i \in 1..Len(gpu) : Range(gpu[i]) = {}
  BY <1>1, <1>2 DEF Range
<1> QED
  BY <1>3 DEF Submitted

\* The wait covers the writing slot, which is published for it.
LEMMA MapSlowWaits ==
  ASSUME LifeInv, ContentInv, MapSlow
  PROVE  /\ WaitsForGpu /\ app'.pc = "wait" /\ slot' = <<>> /\ completed' = completed
         /\ \A i \in 1..Len(gpu') : gpu'[i] # <<>> => completed + i <= app'.seq
<1>0. /\ slot \in Seq(DrawRec) /\ gpu \in Seq(Seq(DrawRec)) /\ completed \in Nat
      /\ Len(gpu) \in Nat /\ nextSeq \in Nat /\ nextSeq = completed + Len(gpu) + 1
      /\ app \in Call /\ buf.lastUsed \in Nat
  BY RecordParts DEF LifeInv, StateTypes
<1>1. /\ app.pc = "map" /\ MapWaitSeq # 0
      /\ IF MapWaitSeq > nextSeq - 1 /\ slot # <<>>
         THEN PublishWritingSlot ELSE UNCHANGED <<buf, qvars>>
      /\ app' = [app EXCEPT !.pc = "wait",
                            !.seq = CommittedWaitTarget(MapWaitSeq, nextSeq' - 1)]
  BY DEF MapSlow
<1>2. WaitsForGpu /\ MapWaitSeq = buf.lastUsed
  BY <1>1 DEF MapWaitSeq, WaitsForGpu, BypassesReplay
<1>3. app'.pc = "wait" /\ app'.seq = CommittedWaitTarget(buf.lastUsed, nextSeq' - 1)
  BY <1>0, <1>1, <1>2 DEF Call
<1>4. slot # <<>> => buf.lastUsed >= nextSeq
  <2>1. slot # <<>> => 1 \in 1..Len(slot)
    BY <1>0
  <2> QED
    BY <2>1 DEF LifeInv, Covered
<1>5. \A i \in 1..Len(gpu) : gpu[i] # <<>> => buf.lastUsed >= completed + i
  <2>1. \A i \in 1..Len(gpu) : gpu[i] # <<>> => 1 \in 1..Len(gpu[i])
    BY <1>0
  <2> QED
    BY <2>1 DEF LifeInv, Covered
<1>6. CASE slot # <<>>
  <2>1. gpu' = Append(gpu, slot) /\ slot' = <<>> /\ nextSeq' = nextSeq + 1
        /\ completed' = completed
    BY <1>0, <1>1, <1>2, <1>4, <1>6 DEF PublishWritingSlot
  <2>2. app'.seq = nextSeq
    BY <1>0, <1>3, <1>4, <1>6, <2>1 DEF CommittedWaitTarget
  <2>3. \A i \in 1..Len(gpu') : completed + i <= nextSeq
    BY <1>0, <2>1
  <2> QED
    BY <1>2, <1>3, <2>1, <2>2, <2>3
<1>7. CASE slot = <<>>
  <2>1. gpu' = gpu /\ slot' = slot /\ nextSeq' = nextSeq /\ completed' = completed
    BY <1>1, <1>7 DEF qvars
  <2>2. ASSUME NEW i \in 1..Len(gpu'), gpu'[i] # <<>>
        PROVE  completed + i <= app'.seq
    <3>1. buf.lastUsed >= completed + i /\ completed + i <= nextSeq - 1
      BY <1>0, <1>5, <2>1, <2>2
    <3> QED
      BY <1>0, <1>3, <2>1, <3>1 DEF CommittedWaitTarget
  <2> QED
    BY <1>2, <1>3, <1>7, <2>1, <2>2
<1> QED
  BY <1>6, <1>7

\* What is waited for shrinks while the call waits.
LEMMA WaitStep ==
  ASSUME LifeInv, ContentInv, Next, app' = app, app.pc = "wait"
  PROVE  /\ slot' = <<>>
         /\ \A i \in 1..Len(gpu') : gpu'[i] # <<>> => completed' + i <= app.seq
<1>0. /\ gpu \in Seq(Seq(DrawRec)) /\ completed \in Nat /\ Len(gpu) \in Nat
      /\ slot = <<>> /\ ~Pending
      /\ \A i \in 1..Len(gpu) : gpu[i] # <<>> => completed + i <= app.seq
  BY DEF LifeInv, StateTypes, ContentInv, CallQuiet, WaitsForGpu
<1>1. CASE SlotsKept
  BY <1>0, <1>1 DEF SlotsKept
<1>2. CASE SlotGrew
  BY <1>0, <1>2 DEF SlotGrew, Pending
<1>3. CASE SlotPublished
  <2>1. gpu' = Append(gpu, <<>>) /\ slot' = <<>> /\ completed' = completed
    BY <1>0, <1>3 DEF SlotPublished
  <2>2. /\ Len(gpu') = Len(gpu) + 1 /\ gpu'[Len(gpu) + 1] = <<>>
        /\ \A i \in 1..Len(gpu) : gpu'[i] = gpu[i]
    <3>1. <<>> \in Seq(DrawRec)
      OBVIOUS
    <3> QED
      BY <1>0, <2>1, <3>1
  <2>3. \A i \in 1..Len(gpu') : gpu'[i] # <<>> => i \in 1..Len(gpu)
    BY <1>0, <2>2
  <2> QED
    BY <1>0, <2>1, <2>2, <2>3
<1>4. CASE SlotDone
  <2>1. gpu # <<>> /\ gpu' = Tail(gpu) /\ completed' = completed + 1 /\ slot' = slot
    BY <1>4 DEF SlotDone
  <2>2. ASSUME NEW i \in 1..Len(gpu'), gpu'[i] # <<>>
        PROVE  completed' + i <= app.seq
    <3>1. i + 1 \in 1..Len(gpu) /\ gpu'[i] = gpu[i + 1]
          /\ completed' + i = completed + (i + 1)
      BY <1>0, <2>1, <2>2
    <3> QED
      BY <1>0, <2>2, <3>1
  <2> QED
    BY <1>0, <2>1, <2>2
<1> QED
  BY <1>1, <1>2, <1>3, <1>4, SlotStep

\* A call has behind it what each of its steps waited for.
LEMMA CallQuietStep ==
  ASSUME LifeInv, ContentInv, Next
  PROVE  CallQuiet'
<1>0. /\ flavour' = flavour /\ app \in Call /\ completed \in Nat /\ completed' \in Nat
      /\ completed' >= completed /\ app.seq \in Nat
  <2>1. completed \in Nat /\ app \in Call /\ app.seq \in Nat
    BY DEF LifeInv, StateTypes, Call
  <2> QED
    BY <2>1, BufferStep, SlotStep
       DEF LifeInv, SlotsKept, SlotGrew, SlotPublished, SlotDone
<1>a. CallQuiet
  BY DEF ContentInv
<1>b. ASSUME app'.mode = app.mode
      PROVE  (BypassesReplay' <=> BypassesReplay) /\ (WaitsForGpu' <=> WaitsForGpu)
  BY <1>0, <1>b DEF BypassesReplay, WaitsForGpu
<1>c. ASSUME app.pc # "idle", NEW d \in InFlight'
      PROVE  d \in InFlight
  BY <1>c, Carried DEF JustSealed
<1>1. CASE CallEnds
  BY <1>1 DEF CallEnds, NoCall, CallQuiet
<1>2. CASE CallBegins
  <2>1. PICK mode \in Modes, span \in SUBSET Cells :
          Lock(mode, span) /\ (mode = "discard" => span = Cells)
    BY <1>2 DEF CallBegins
  <2>2. /\ app' = [pc |-> "fence", mode |-> mode, span |-> span, seq |-> 0]
        /\ recorder' = IF LockFlushes(mode) THEN <<>> ELSE recorder
    BY <2>1 DEF Lock
  <2>3. app'.pc = "fence" /\ app'.mode = mode /\ app'.span = span /\ mode # "none"
    BY <2>2 DEF Modes
  <2>4. mode # "nooverwrite" => recorder' = <<>>
    BY <2>2 DEF LockFlushes
  <2> QED
    BY <2>1, <2>3, <2>4 DEF CallQuiet
<1>3. CASE CallKept /\ app.pc = "idle"
  <2>1. app' = app
    BY <1>3 DEF CallKept
  <2> QED
    BY <1>3, <1>a, <2>1 DEF CallQuiet
<1>4. CASE CallKept /\ app.pc # "idle"
  <2>1. app' = app /\ recorder' = recorder /\ (Pending' => Pending)
    BY <1>4 DEF CallKept
  <2>2. (BypassesReplay' <=> BypassesReplay) /\ (WaitsForGpu' <=> WaitsForGpu)
    BY <1>b, <2>1
  <2>3. /\ app.pc = "idle" <=> app.mode = "none"
        /\ app.mode = "discard" => app.span = Cells
        /\ app.pc # "idle" /\ app.mode # "nooverwrite" => recorder' = <<>>
        /\ app.pc \in {"map", "finalize", "wait", "locked", "unlock"} /\ ~BypassesReplay
             => ~Pending'
    BY <1>a, <2>1 DEF CallQuiet
  <2>4. app.pc = "finalize" => app.seq <= completed'
    BY <1>0, <1>a DEF CallQuiet
  <2>5. app.pc \in {"finalize", "locked", "unlock"} /\ WaitsForGpu => Submitted' = {}
    <3>1. SUFFICES ASSUME app.pc \in {"finalize", "locked", "unlock"}, WaitsForGpu
                   PROVE  Submitted' = {}
      OBVIOUS
    <3>2. Submitted = {} /\ ~Pending
      BY <1>a, <3>1 DEF CallQuiet, WaitsForGpu
    <3> QED
      BY <3>2, DrainedStep
  <2>6. app.pc = "wait" =>
          /\ WaitsForGpu /\ slot' = <<>>
          /\ \A i \in 1..Len(gpu') : gpu'[i] # <<>> => completed' + i <= app.seq
    BY <1>a, <2>1, WaitStep DEF CallQuiet
  <2>7. app.pc \in {"locked", "unlock"} /\ app.mode = "discard" /\ flavour = "dynamic"
          => \A d \in InFlight' : d.backing # buf'.active
    <3>1. SUFFICES ASSUME app.pc \in {"locked", "unlock"}, app.mode = "discard",
                          flavour = "dynamic", NEW d \in InFlight'
                   PROVE  d.backing # buf'.active
      OBVIOUS
    <3>2. d.backing # buf.active
      BY <1>4, <1>a, <1>c, <3>1 DEF CallQuiet
    <3>3. buf'.active = buf.active
      <4>1. ~FinalizeFast /\ ~MapWaited
        BY <3>1 DEF FinalizeFast, MapWaited
      <4>2. ~UnlockOffload /\ ~UnlockUpload
        BY <1>4, <2>1 DEF UnlockOffload, UnlockUpload, NoCall
      <4>3. Kept \/ Apply
        BY <4>1, <4>2, ContentChanges DEF ContentInv
      <4> QED
        BY <4>3, ApplyEffect DEF Kept
    <3> QED
      BY <3>2, <3>3
  <2> QED
    BY <1>0, <2>1, <2>2, <2>3, <2>4, <2>5, <2>6, <2>7 DEF CallQuiet
<1>5. CASE CallWrites
  <2>1. /\ app.pc = "locked" /\ app'.pc = "unlock" /\ app'.mode = app.mode
        /\ app'.span = app.span
        /\ UNCHANGED <<flavour, buf, recorder, fifo, wpc, task, slot, gpu, completed>>
    BY <1>5 DEF CallWrites
  <2>2. Submitted' = Submitted /\ InFlight' = InFlight /\ (Pending' <=> Pending)
    BY <2>1 DEF Submitted, InFlight, Chunked, Held, Pending
  <2> QED
    BY <1>a, <1>b, <2>1, <2>2 DEF CallQuiet
<1>6. CASE CallGoesOn
  <2>1. /\ app'.mode = app.mode /\ app'.span = app.span
        /\ {app.pc, app'.pc} \subseteq {"fence", "map", "finalize", "wait", "locked"}
        /\ UNCHANGED <<recorder, fifo, wpc, task>>
    BY <1>6 DEF CallGoesOn
  <2>2. Pending' <=> Pending
    BY <2>1 DEF Pending
  <2>3. /\ app'.pc = "idle" <=> app'.mode = "none"
        /\ app'.mode = "discard" => app'.span = Cells
        /\ app'.pc # "idle" /\ app'.mode # "nooverwrite" => recorder' = <<>>
        /\ app'.pc # "unlock" /\ app'.pc # "idle" /\ app.pc # "idle"
    BY <1>a, <2>1 DEF CallQuiet
  <2>4. (BypassesReplay' <=> BypassesReplay) /\ (WaitsForGpu' <=> WaitsForGpu)
    BY <1>b, <2>1
  <2>5. ~LockFence /\ ~BypassesReplay => ~Pending
    <3>1. ~LockFence => app.pc \in {"map", "finalize", "wait"}
      BY <1>6 DEF CallGoesOn, MapFast, MapSlow, FinalizeFast, MapWaited
    <3> QED
      BY <1>a, <3>1 DEF CallQuiet
  <2>6. CASE LockFence
    <3>1. app'.pc = "map" /\ (BypassesReplay \/ ~Pending)
      BY <1>0, <2>6 DEF LockFence, Call
    <3> QED
      BY <2>2, <2>3, <2>4, <3>1 DEF CallQuiet
  <2>7. CASE MapFast
    <3>1. /\ app'.pc = "finalize" /\ app'.seq = completed /\ completed' = completed
          /\ MapWaitSeq = 0 /\ slot' = slot /\ gpu' = gpu /\ ~LockFence
      BY <1>0, <2>7 DEF MapFast, Call, qvars, LockFence
    <3>2. WaitsForGpu => Submitted' = {}
      <4>1. SUFFICES ASSUME WaitsForGpu
                     PROVE  Submitted = {}
        BY <3>1 DEF Submitted
      <4>2. buf.lastUsed = 0
        BY <3>1, <4>1 DEF MapWaitSeq, WaitsForGpu, BypassesReplay
      <4>3. \A d \in Submitted : buf.lastUsed > completed
        BY FlightTypes DEF InFlight
      <4> QED
        BY <1>0, <4>2, <4>3
    <3> QED
      BY <1>0, <2>2, <2>3, <2>4, <2>5, <3>1, <3>2 DEF CallQuiet
  <2>8. CASE MapSlow
    <3>1. /\ WaitsForGpu /\ app'.pc = "wait" /\ slot' = <<>> /\ completed' = completed
          /\ \A i \in 1..Len(gpu') : gpu'[i] # <<>> => completed + i <= app'.seq
          /\ ~LockFence
      BY <2>8, MapSlowWaits DEF MapSlow, LockFence
    <3> QED
      BY <2>2, <2>3, <2>4, <2>5, <3>1 DEF CallQuiet
  <2>9. CASE FinalizeFast \/ MapWaited
    <3>1. /\ app'.pc = "locked" /\ slot' = slot /\ gpu' = gpu /\ completed' = completed
          /\ ~LockFence /\ app.pc \in {"finalize", "wait"}
      BY <1>0, <2>9 DEF FinalizeFast, MapWaited, LockFence, Call, qvars
    <3>2. Submitted' = Submitted
      BY <3>1 DEF Submitted
    <3>3. WaitsForGpu => Submitted = {}
      <4>1. CASE FinalizeFast
        BY <1>a, <4>1 DEF FinalizeFast, CallQuiet
      <4>2. CASE MapWaited
        BY <4>2, WaitedDone DEF MapWaited
      <4> QED
        BY <2>9, <4>1, <4>2
    <3>4. app.mode = "discard" /\ flavour = "dynamic"
            => \A d \in InFlight' : d.backing # buf'.active
      <4>1. SUFFICES ASSUME app.mode = "discard", flavour = "dynamic", NEW d \in InFlight'
                     PROVE  d.backing # buf'.active
        OBVIOUS
      <4>2. FlightClear
        BY <2>9, <4>1, FinalizeEffect
      <4>3. d \in InFlight
        BY <1>c, <2>3, <4>1
      <4> QED
        BY <4>2, <4>3 DEF FlightClear
    <3> QED
      BY <1>0, <2>1, <2>2, <2>3, <2>4, <2>5, <3>1, <3>2, <3>3, <3>4 DEF CallQuiet
  <2> QED
    BY <1>6, <2>6, <2>7, <2>8, <2>9 DEF CallGoesOn
<1> QED
  BY <1>1, <1>2, <1>3, <1>4, <1>5, <1>6, CallStep

-----------------------------------------------------------------------------
(* Contents. *)

\* The initial states satisfy the content invariant.
LEMMA ContentInit ==
  ASSUME Init
  PROVE  ContentInv
<1>1. /\ recorder = <<>> /\ slot = <<>> /\ gpu = <<>> /\ fifo = <<>> /\ wpc = "idle"
      /\ app = NoCall /\ storage = Blank /\ buf.active = 1
      /\ buf.ring[1].bytes = Blank /\ buf.shadow = Blank
  BY DEF Init
<1>2. Range(recorder) = {} /\ Submitted = {} /\ Held = {}
  BY <1>1 DEF Range, Submitted, Held
<1>3. InFlight = {} /\ ~Mutating
  BY <1>1, <1>2 DEF InFlight, Chunked, Mutating
<1>4. app.pc = "idle" /\ app.mode = "none"
  BY <1>1 DEF NoCall
<1>5. MutationFirst
  BY <1>1, <1>3 DEF MutationFirst
<1>6. CallQuiet /\ PromiseHolds
  BY <1>4 DEF CallQuiet, PromiseHolds
<1>7. ActiveCurrent
  BY <1>1, <1>3 DEF ActiveCurrent, Content
<1>8. EraCurrent /\ DrawsAgree
  BY <1>2, <1>3 DEF EraCurrent, DrawsAgree
<1> QED
  BY <1>5, <1>6, <1>7, <1>8 DEF ContentInv

\* Every step preserves the content invariant.
LEMMA ContentNext ==
  ASSUME LifeInv, ContentInv, [Next]_vars
  PROVE  ContentInv'
<1>1. CASE Next
  BY <1>1, MutationFirstStep, CallQuietStep, ActiveCurrentStep, EraCurrentStep,
     PromiseHoldsStep, DrawsAgreeStep DEF ContentInv
<1>2. CASE UNCHANGED vars
  <2>1. UNCHANGED <<flavour, buf, storage, app, recorder, era, fifo, wpc, task, slot, gpu,
                    completed>>
    BY <1>2 DEF vars, avars, wvars, qvars
  <2>2. /\ UNCHANGED <<Submitted, InFlight>> /\ (Mutating' <=> Mutating)
        /\ TheMutation' = TheMutation /\ Open' = Open
        /\ \A k : Content(k)' = Content(k)
    BY <2>1 DEF Submitted, InFlight, Chunked, Held, Mutating, TheMutation, Content, Open
  <2>3. MutationFirst'
    BY <2>1, <2>2 DEF ContentInv, MutationFirst
  <2>4. CallQuiet'
    BY <2>1, <2>2 DEF ContentInv, CallQuiet, WaitsForGpu, BypassesReplay, Pending
  <2>5. Content(buf.active)' = Content(buf.active)
    BY <2>1, <2>2 DEF Content
  <2>6. ActiveCurrent'
    BY <2>1, <2>2, <2>5 DEF ContentInv, ActiveCurrent
  <2>7. EraCurrent' /\ PromiseHolds'
    BY <2>1, <2>2 DEF ContentInv, EraCurrent, PromiseHolds
  <2>8. DrawsAgree'
    BY <2>1, <2>2 DEF ContentInv, DrawsAgree
  <2> QED
    BY <2>3, <2>4, <2>6, <2>7, <2>8 DEF ContentInv
<1> QED
  BY <1>1, <1>2

\* The content invariant says that the GPU reads what was written.
LEMMA ContentImplies ==
  ASSUME LifeInv, ContentInv
  PROVE  DrawsReadWhatWasWritten
<1>0. gpu \in Seq(Seq(DrawRec))
  BY DEF LifeInv, StateTypes
<1>1. SUFFICES ASSUME NEW s \in Range(gpu), NEW d \in Range(s), NEW c \in d.reads
               PROVE  buf.ring[d.backing].bytes[c] = d.want[c]
  BY DEF DrawsReadWhatWasWritten
<1>2. PICK i \in 1..Len(gpu) : s = gpu[i]
  BY <1>0, RangeIndexed
<1>3. d \in Submitted
  BY <1>2 DEF Submitted
<1>4. Content(d.backing)[c] = d.want[c] /\ (Mutating => d.backing # buf.active)
  BY <1>3 DEF ContentInv, DrawsAgree, InFlight
<1> QED
  BY <1>4 DEF Content

\* Whatever was locked, discarded, renamed, staged for the worker or uploaded
\* since, and however the replay, the publications and the completions fell
\* between, a published draw finds in the backing it captured what the application
\* had written when it issued the draw: rotateBufferBacking, the fences of Lock and
\* Unlock, the wait of mapBuffer and the leases of managed mutations leave no gap.
THEOREM ContentsCorrect == Spec => []DrawsReadWhatWasWritten
<1>1. Spec => []ContentInv
  BY LifeInvariant, ContentInit, ContentNext, PTL DEF Spec
<1> QED
  BY <1>1, LifeInvariant, ContentImplies, PTL
=============================================================================

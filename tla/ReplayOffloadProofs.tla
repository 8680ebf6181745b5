------------------------ MODULE ReplayOffloadProofs ------------------------
(***************************************************************************)
(* Theorems about ReplayOffload, for any number of threads, buffers,       *)
(* queries, chunks and calls: the books of the offload are exact, the FIFO *)
(* replays by ordinal and the program's order is kept whatever the lanes.  *)
(* As long as inline chunks and other threads do not meet (Apart), a       *)
(* direct call finds what it was fenced for and an inline replay runs      *)
(* alone.                                                                  *)
(***************************************************************************)
EXTENDS ReplayOffload, FiniteSetTheorems, NaturalsInduction, WellFoundedInduction, TLAPS

-----------------------------------------------------------------------------
(* The inductive invariant. *)

\* Elements of the FIFO, entries of the history.
Items == [kind : {"Chunk", "StateBlock", "Mutation", "hole"}, seq : Nat,
          res : SUBSET Targets, bytes : Nat, tick : Nat]
EffectType == [seq : Nat, tick : Nat, fifo : BOOLEAN]

\* The locals of a thread, by the call it is in.
ChunkArgs  == [op : {"Chunk"}, chunk : Chunks, tick : Nat]
StateArgs  == [op : {"StateBlock"}, tick : Nat, need : SUBSET Nat,
               chunk : [res : {{}}, bytes : {0}]]
InlineArgs == [op : {"Inline"}, chunk : {c \in Chunks : c.inline}, tick : Nat,
               need : SUBSET Nat, seq : Nat]
BufferArgs(op) == [op : {op}, buf : Buffers, need : SUBSET Nat]
MutationArgs   == [op : {"Mutation"}, buf : Buffers, bytes : Nat, seq : Nat]
DirectArgs     == [op : {"Direct"}, need : SUBSET Nat]
QueryArgs      == [op : {"Query"}, query : Queries, captured : Nat]

\* The locals a thread can have at a place of its call.
ArgsAt(where) ==
  CASE where = "idle" -> {Idle}
    [] where = "push" -> ChunkArgs \cup StateArgs
    [] where \in {"reserve", "rotate", "commit", "unreserve"} -> MutationArgs
    [] where \in {"drain", "drainWait", "drained"} ->
         InlineArgs \cup StateArgs \cup BufferArgs("Lost") \cup DirectArgs
    [] where \in {"pending", "ledgerWait"} -> BufferArgs("Buffer")
    [] where = "inCall" -> StateArgs \cup BufferArgs("Buffer") \cup DirectArgs
    [] where \in {"receiptWait", "visit", "poll"} -> QueryArgs
    [] where \in {"inlineCheck", "inline", "inlineDone"} -> InlineArgs
    [] where = "poison" -> InlineArgs \cup StateArgs

Places == {"idle", "push", "reserve", "rotate", "commit", "unreserve", "drain",
           "drainWait", "drained", "pending", "ledgerWait", "inCall", "receiptWait",
           "visit", "poll", "inlineCheck", "inline", "inlineDone", "poison"}
WorkerPlaces == {"pop", "replay", "publish", "release", "failing", "poison",
                 "stopQueue", "abandon", "epilogue", "exited"}

\* The worker holds an item, and has not failed.
Busy  == wpc \in {"replay", "publish", "release", "failing", "poison", "stopQueue",
                  "abandon"}
Alive == wpc \in {"pop", "replay", "publish", "release"}

\* The types of the shared state.
Shared ==
  /\ queue \in Seq(Items) /\ queuedBytes \in Nat
  /\ inFlight \in BOOLEAN /\ stop \in BOOLEAN
  /\ nextSeq \in Nat \ {0} /\ issued \in Nat /\ calls \in Nat
  /\ lastQueued \in [Targets -> Nat] /\ lastReplayed \in [Targets -> Nat]
  /\ terminal \in {"Running", "Stopped", "Failed"}
  /\ wpc \in WorkerPlaces /\ witem \in Items \cup {Idle}
  /\ pollOrdinal \in [Queries -> Nat] /\ effects \in Seq(EffectType)
  /\ held \subseteq Nat /\ down \in {"up", "drain", "ledger", "queue", "join", "gone"}

\* The types of the flags, and of the sleepers.
Flags ==
  /\ accepting \in BOOLEAN /\ stopping \in BOOLEAN /\ poisoned \in BOOLEAN
  /\ failed \in BOOLEAN /\ asleep \subseteq Threads \cup {Worker, "owner"}

\* The threads have the locals their place asks for, and the recorder mutex is
\* held by the one whose call needs it.
RecorderOps == {"Chunk", "StateBlock", "Inline"}
Local ==
  /\ pc \in [Threads -> Places] /\ DOMAIN arg = Threads
  /\ \A t \in Threads : arg[t] \in ArgsAt(pc[t])
  /\ recorder \in Threads \cup {Nobody}
  /\ \A t \in Threads : recorder = t <=> arg[t].op \in RecorderOps

\* Where the worker, a failure and the teardown stand to each other.
Stages ==
  /\ inFlight = Busy
  /\ witem \in Items <=> Busy
  /\ wpc \in {"failing", "poison", "stopQueue", "abandon"} => terminal = "Failed"
  /\ wpc \in {"abandon", "epilogue", "exited"} => stop
  /\ wpc = "exited" => queue = <<>>
  /\ stop => terminal = "Failed" \/ down # "up"
  /\ down # "up" => \A t \in Threads : pc[t] = "idle"

\* An element as it was accepted or reserved, when n is the next ordinal, k calls have
\* been made and m holds the last ordinal of each target.
SoundAt(item, n, k, m) ==
  /\ item.seq \in 1..(n - 1) /\ item.tick <= k
  /\ item.kind = "hole" => item.tick = 0
  /\ item.kind = "Chunk" => item.tick # 0
  /\ item.kind = "StateBlock" => item.res = {}
  /\ item.kind = "Mutation" => item.tick = 0 /\ item.res \subseteq Buffers
  /\ item.kind # "hole" => \A r \in item.res : item.seq <= m[r]
Sound(item) == SoundAt(item, nextSeq, issued, lastQueued)

\* Two items are in the order of their ordinals and of the program, if both are the
\* program's; a tick of 0 is of no call of the program.
InProgram(k, l) == k # 0 /\ l # 0 => k < l
Before(e, f) == e.seq < f.seq /\ InProgram(e.tick, f.tick)

\* The FIFO is in ordinal order behind the worker's item, and the program's
\* calls in it are in program order.
Ordered ==
  /\ \A i \in 1..Len(queue) : Sound(queue[i])
  /\ \A i, j \in 1..Len(queue) : i < j => Before(queue[i], queue[j])
  /\ Busy => Sound(witem) /\ ~ IsHole(witem)
  /\ Busy => \A i \in 1..Len(queue) : Before(witem, queue[i])

\* One effect came before another, or before an item that is still to be replayed.
Ahead(e, f)  == (e.fifo /\ f.fifo => e.seq < f.seq) /\ InProgram(e.tick, f.tick)
Passed(e, x) == (e.fifo => e.seq < x.seq) /\ InProgram(e.tick, x.tick)

\* What took effect came before what is still to be replayed.
Effected ==
  /\ \A n \in 1..Len(effects) : effects[n].seq < nextSeq /\ effects[n].tick <= issued
  /\ \A m, n \in 1..Len(effects) : m < n => Ahead(effects[m], effects[n])
  /\ \A n \in 1..Len(effects), i \in 1..Len(queue) : Passed(effects[n], queue[i])
  /\ wpc = "replay" => \A n \in 1..Len(effects) : Passed(effects[n], witem)
  /\ wpc = "publish" => witem.seq \in Done

\* The program's call that is being made is the youngest, until it is queued or
\* takes effect.
Making == {"push", "drain", "drainWait", "drained", "inlineCheck", "inline", "inCall"}
Newest(k) ==
  /\ \A i \in 1..Len(queue) : queue[i].tick < k
  /\ \A n \in 1..Len(effects) : effects[n].tick < k
  /\ Busy => witem.tick < k
Youngest ==
  \A t \in Threads : arg[t].op \in RecorderOps /\ pc[t] \in Making =>
    arg[t].tick = issued /\ 0 < issued /\ Newest(issued)

\* No earlier call of the program is still to be replayed.
Clear == (\A i \in 1..Len(queue) : queue[i].tick = 0) /\ (Busy => witem.tick = 0)
Cleared ==
  \A t \in Threads : arg[t].op \in {"Inline", "StateBlock"} =>
    /\ pc[t] \in {"drained", "inlineCheck"} /\ terminal = "Running" => Clear
    /\ pc[t] \in {"inline", "inCall"} => Clear

\* The thread has an ordinal of its own: a reservation, or an inline chunk.
Reserving(t) == pc[t] \in {"rotate", "commit", "unreserve"}
Inlining(t)  == pc[t] \in {"inline", "inlineDone", "poison"} /\ arg[t].op = "Inline"
Owned ==
  /\ \A t \in Threads : Reserving(t) \/ Inlining(t) =>
       arg[t].seq \in 1..(nextSeq - 1) /\ (Busy => witem.seq # arg[t].seq)
  /\ \A t \in Threads : Reserving(t) => \A i \in 1..Len(queue) :
       queue[i].seq = arg[t].seq => IsHole(queue[i]) /\ queue[i].bytes = arg[t].bytes
  /\ \A t \in Threads : Inlining(t) => \A i \in 1..Len(queue) : queue[i].seq # arg[t].seq
  /\ \A t, u \in Threads : t # u /\ (Reserving(t) \/ Inlining(t))
                                 /\ (Reserving(u) \/ Inlining(u)) => arg[t].seq # arg[u].seq

\* What is retained.
Retained ==
  held = {queue[i].seq : i \in {j \in 1..Len(queue) : ~ IsHole(queue[j])}}
         \cup (IF Busy THEN {witem.seq} ELSE {})
         \cup {arg[t].seq : t \in {u \in Threads : Inlining(u)}}

\* The charge and the bounds of the FIFO.
Charged ==
  /\ queuedBytes = Charge(queue)
  /\ Len(queue) <= MaxChunks
  /\ queuedBytes > MaxBytes => queue[1].bytes = queuedBytes

\* Every ordinal was taken by a call.
Taking == {t \in Threads : \/ pc[t] \in {"push", "reserve"}
                           \/ arg[t].op = "Inline" /\
                              pc[t] \in {"drain", "drainWait", "drained", "inlineCheck"}}
Counted ==
  /\ IsFiniteSet(Taking)
  /\ nextSeq - 1 + Cardinality(Taking) <= calls /\ calls <= MaxCalls

\* What a thread at p of a call, with the locals a, has of the ledger, when o are the
\* queries' snapshots, m the last ordinals of the targets and d what is done.
KnowsAt(p, a, o, m, d) ==
  /\ p = "inline" =>
       \A q \in Queries : q \in a.chunk.res => o[q] < a.seq /\ a.seq <= m[q]
  /\ p = "inlineDone" =>
       a.seq \in d /\ \A q \in Queries : q \in a.chunk.res => a.seq <= o[q]
  /\ p \in {"receiptWait", "visit"} => a.captured # 0
  /\ p = "poll" => a.captured \in d

\* A query's snapshot lies between what was replayed and what was accepted, and no
\* element still to be replayed has been polled.
Unpolled(item, o) == \A q \in Queries : q \in item.res => o[q] < item.seq
Ledger ==
  /\ \A r \in Targets : lastQueued[r] < nextSeq
  /\ \A r \in Targets : lastReplayed[r] # 0 => lastReplayed[r] \in Done
  /\ \A q \in Queries : /\ lastReplayed[q] <= pollOrdinal[q]
                        /\ pollOrdinal[q] <= lastQueued[q]
  /\ \A i \in 1..Len(queue) : ~ IsHole(queue[i]) => Unpolled(queue[i], pollOrdinal)
  /\ wpc = "replay" => Unpolled(witem, pollOrdinal)
  /\ wpc = "publish" => \A q \in Queries : q \in witem.res => witem.seq <= pollOrdinal[q]
  /\ \A t \in Threads : KnowsAt(pc[t], arg[t], pollOrdinal, lastQueued, Done)

\* What a fenced call at p, with the locals a, waits for, when o is outstanding, d is
\* done and s is the state of the ledger: it is done or still to come, unless the queue
\* failed, and done once the call is made.
WaitsAt(p, a, o, d, s) ==
  a.op \in {"StateBlock", "Direct"} =>
    /\ p \in {"push", "drain", "drainWait"} /\ s = "Running" => a.need \subseteq o \cup d
    /\ p = "drained" /\ s = "Running" => a.need \subseteq d
    /\ p = "inCall" => a.need \subseteq d
Fenced == \A t \in Threads : WaitsAt(pc[t], arg[t], Outstanding, Done, terminal)

\* The inductive invariant.
OffloadInv ==
  /\ Shared /\ Flags /\ Local /\ Stages /\ Ordered /\ Effected /\ Youngest /\ Cleared
  /\ Owned /\ Retained /\ Charged /\ Counted /\ Ledger /\ Fenced


-----------------------------------------------------------------------------
(* Numbers and sequences. *)

\* The constants, by OffloadConstants.
LEMMA Bounds ==
  /\ MaxChunks \in Nat \ {0} /\ MaxBytes \in Nat /\ MaxCalls \in Nat /\ SpanBytes \subseteq Nat
  /\ Chunks \subseteq [res : SUBSET Targets, bytes : Nat, inline : BOOLEAN]
  /\ Buffers \cap Queries = {} /\ Targets = Buffers \cup Queries
  /\ Nobody \notin Threads /\ Worker \notin Threads /\ "owner" \notin Threads
BY OffloadConstants DEF Targets, Nobody, Worker

\* A nonempty set of numbers has a least one.
LEMMA LeastNumber ==
  ASSUME NEW T \in SUBSET Nat, T # {}
  PROVE  \E x \in T : \A y \in T : x <= y
<1>1. PICK x \in T : \A y \in T : ~ (<<y, x>> \in OpToRel(<, Nat))
  BY NatLessThanWellFounded, WFMin
<1>2. \A y \in T : ~ (y < x)
  BY <1>1 DEF OpToRel
<1> QED
  BY <1>2

\* A sequence and its entries.
LEMMA DomainLen ==
  ASSUME NEW S, NEW s \in Seq(S)
  PROVE  /\ Len(s) \in Nat /\ DOMAIN s = 1..Len(s)
         /\ \A i \in 1..Len(s) : s[i] \in S
         /\ s = <<>> <=> Len(s) = 0
OBVIOUS

\* A sequence with one more entry.
LEMMA AppendEffect ==
  ASSUME NEW S, NEW s \in Seq(S), NEW x \in S
  PROVE  /\ Append(s, x) \in Seq(S) /\ Len(Append(s, x)) = Len(s) + 1
         /\ \A i \in 1..Len(s) : Append(s, x)[i] = s[i]
         /\ Append(s, x)[Len(s) + 1] = x
OBVIOUS

\* s without its entry k: what the worker takes, or a released placeholder.
CutAt(s, k, u) ==
  /\ k \in 1..Len(s) /\ Len(u) = Len(s) - 1
  /\ \A i \in 1..(Len(s) - 1) : u[i] = IF i < k THEN s[i] ELSE s[i + 1]

\* The head leaves.
LEMMA TailCut ==
  ASSUME NEW S, NEW s \in Seq(S), s # <<>>
  PROVE  Tail(s) \in Seq(S) /\ CutAt(s, 1, Tail(s)) /\ Head(s) = s[1] /\ s[1] \in S
<1>1. Len(s) \in Nat \ {0} /\ 1 \in 1..Len(s)
  OBVIOUS
<1>2. Tail(s) \in Seq(S) /\ Len(Tail(s)) = Len(s) - 1 /\ Head(s) = s[1]
  OBVIOUS
<1>3. \A i \in 1..(Len(s) - 1) : Tail(s)[i] = s[i + 1]
  OBVIOUS
<1>4. \A i \in 1..(Len(s) - 1) : ~ (i < 1)
  BY <1>1
<1>. QED
  BY <1>1, <1>2, <1>3, <1>4, DomainLen DEF CutAt

\* An entry in the middle leaves.
LEMMA RemoveCut ==
  ASSUME NEW S, NEW s \in Seq(S), NEW k \in 1..Len(s)
  PROVE  RemoveAt(s, k) \in Seq(S) /\ CutAt(s, k, RemoveAt(s, k))
<1> DEFINE a == SubSeq(s, 1, k - 1)
           b == SubSeq(s, k + 1, Len(s))
<1>1. Len(s) \in Nat /\ k \in Nat /\ 1 <= k /\ k <= Len(s)
  OBVIOUS
<1>2. /\ a \in Seq(S) /\ Len(a) = k - 1 /\ \A i \in 1..(k - 1) : a[i] = s[i]
  <2>1. \A i \in 1..(k - 1) : s[i] \in S
    BY <1>1, DomainLen
  <2>. QED
    BY <1>1, <2>1
<1>3. /\ b \in Seq(S) /\ Len(b) = Len(s) - k
      /\ \A i \in 1..(Len(s) - k) : b[i] = s[k + i]
  <2>1. \A i \in (k + 1)..Len(s) : s[i] \in S
    BY <1>1, DomainLen
  <2>. QED
    BY <1>1, <2>1
<1>. HIDE DEF a, b
<1>4. /\ a \o b \in Seq(S) /\ Len(a \o b) = Len(s) - 1
      /\ \A i \in 1..(Len(s) - 1) : (a \o b)[i] = IF i <= k - 1 THEN a[i] ELSE b[i - (k - 1)]
  BY <1>1, <1>2, <1>3
<1>5. \A i \in 1..(Len(s) - 1) : (a \o b)[i] = IF i < k THEN s[i] ELSE s[i + 1]
  <2>. SUFFICES ASSUME NEW i \in 1..(Len(s) - 1)
                PROVE  (a \o b)[i] = IF i < k THEN s[i] ELSE s[i + 1]
    OBVIOUS
  <2>1. CASE i < k
    BY <1>1, <1>2, <1>4, <2>1
  <2>2. CASE ~ (i < k)
    <3>1. i - (k - 1) \in 1..(Len(s) - k) /\ k + (i - (k - 1)) = i + 1 /\ ~ (i <= k - 1)
      BY <1>1, <2>2
    <3>. QED
      BY <1>3, <1>4, <2>2, <3>1
  <2>. QED
    BY <2>1, <2>2
<1>6. RemoveAt(s, k) = a \o b
  BY DEF RemoveAt, a, b
<1>. QED
  BY <1>1, <1>4, <1>5, <1>6 DEF CutAt

\* An entry is replaced.
LEMMA ReplaceEffect ==
  ASSUME NEW S, NEW s \in Seq(S), NEW k \in 1..Len(s), NEW x \in S
  PROVE  LET u == [s EXCEPT ![k] = x]
         IN  /\ u \in Seq(S) /\ Len(u) = Len(s)
             /\ \A i \in 1..Len(s) : u[i] = IF i = k THEN x ELSE s[i]
OBVIOUS

-----------------------------------------------------------------------------
(* The charge of a FIFO. *)

\* f adds up the bytes of q.
SumOf(q, f) ==
  /\ f \in [0..Len(q) -> Nat] /\ f[0] = 0
  /\ \A i \in 1..Len(q) : f[i] = f[i - 1] + q[i].bytes

\* Two sums that grow alike keep their distance.
LEMMA SameGrowth ==
  ASSUME NEW m \in Nat, NEW f, NEW g,
         \A i \in 0..m : f[i] \in Int /\ g[i] \in Int,
         \A i \in 1..m : f[i] - f[i - 1] = g[i] - g[i - 1]
  PROVE  f[m] - g[m] = f[0] - g[0]
<1> DEFINE bad == {i \in 0..m : f[i] - g[i] # f[0] - g[0]}
<1>1. CASE bad = {}
  BY <1>1
<1>2. CASE bad # {}
  <2>1. bad \in SUBSET Nat
    OBVIOUS
  <2>2. PICK x \in bad : \A y \in bad : x <= y
    BY <1>2, <2>1, LeastNumber
  <2>3. x \in 0..m /\ x # 0 /\ f[x] - g[x] # f[0] - g[0]
    BY <2>2
  <2>4. x - 1 \in 0..m /\ x \in 1..m /\ x - 1 \notin bad
    BY <2>1, <2>2, <2>3
  <2>5. f[x - 1] - g[x - 1] = f[0] - g[0]
    BY <2>4
  <2>6. f[x] - f[x - 1] = g[x] - g[x - 1]
    BY <2>4
  <2>7. /\ f[x] \in Int /\ g[x] \in Int /\ f[x - 1] \in Int /\ g[x - 1] \in Int
        /\ f[0] \in Int /\ g[0] \in Int
    BY <2>3, <2>4
  <2>. QED
    BY <2>3, <2>5, <2>6, <2>7
<1>. QED
  BY <1>1, <1>2

\* A sum never shrinks.
LEMMA SumGrows ==
  ASSUME NEW m \in Nat, NEW f, \A i \in 0..m : f[i] \in Nat,
         \A i \in 1..m : f[i - 1] <= f[i], NEW a \in 0..m
  PROVE  f[a] <= f[m]
<1> DEFINE bad == {i \in a..m : ~ (f[a] <= f[i])}
<1>1. CASE bad = {}
  BY <1>1
<1>2. CASE bad # {}
  <2>1. bad \in SUBSET Nat
    OBVIOUS
  <2>2. PICK x \in bad : \A y \in bad : x <= y
    BY <1>2, <2>1, LeastNumber
  <2>3. x \in a..m /\ x # a /\ ~ (f[a] <= f[x])
    BY <2>2
  <2>4. x - 1 \in a..m /\ x \in 1..m /\ x - 1 \notin bad
    BY <2>1, <2>2, <2>3
  <2>5. f[a] <= f[x - 1] /\ f[x - 1] <= f[x]
    BY <2>4
  <2>6. f[x] \in Nat /\ f[x - 1] \in Nat /\ f[a] \in Nat
    BY <2>3, <2>4
  <2>. QED
    BY <2>3, <2>5, <2>6
<1>. QED
  BY <1>1, <1>2

\* Every FIFO has a sum, and Charge is its last value.
LEMMA ChargeIs ==
  ASSUME NEW q \in Seq(Items)
  PROVE  \E f : SumOf(q, f) /\ Charge(q) = f[Len(q)]
<1> DEFINE n == Len(q)
           Upto(m, f) == /\ f \in [0..m -> Nat] /\ f[0] = 0
                         /\ \A i \in 1..m : f[i] = f[i - 1] + q[i].bytes
           bad == {m \in 0..n : ~ \E f : Upto(m, f)}
<1>1. n \in Nat /\ \A i \in 1..n : q[i].bytes \in Nat
  <2>1. \A i \in 1..n : q[i] \in Items
    OBVIOUS
  <2>. QED
    BY <2>1 DEF Items
<1>. HIDE DEF n
<1>2. \E f : Upto(n, f)
  <2>1. CASE bad = {}
    <3>1. n \in 0..n
      BY <1>1
    <3>2. n \notin bad
      <4>. HIDE DEF bad
      <4>. QED
        BY <2>1
    <3>. QED
      BY <3>1, <3>2
  <2>2. CASE bad # {}
    <3>1. bad \in SUBSET Nat /\ \A y \in bad : y \in 0..n
      BY <1>1
    <3>2. PICK x \in bad : \A y \in bad : x <= y
      BY <2>2, <3>1, LeastNumber
    <3>3. x # 0
      <4>. DEFINE f0 == [i \in 0..0 |-> 0]
      <4>1. Upto(0, f0)
        OBVIOUS
      <4>. QED
        BY <3>2, <4>1
    <3>4. x \in 1..n /\ x - 1 \in 0..n /\ x - 1 \notin bad
      <4>. HIDE DEF bad
      <4>. QED
        BY <1>1, <3>1, <3>2, <3>3
    <3>5. PICK f : Upto(x - 1, f)
      BY <3>4
    <3>. DEFINE g == [i \in 0..x |-> IF i = x THEN f[x - 1] + q[x].bytes ELSE f[i]]
    <3>6. x - 1 \in 0..(x - 1) /\ f[x - 1] \in Nat /\ q[x].bytes \in Nat
      BY <1>1, <3>4, <3>5
    <3>7. \A i \in 0..x : g[i] \in Nat
      <4>1. \A i \in 0..x : i # x => i \in 0..(x - 1)
        BY <3>4
      <4>. QED
        BY <3>5, <3>6, <4>1
    <3>8. \A i \in 1..x : g[i] = g[i - 1] + q[i].bytes
      <4>. SUFFICES ASSUME NEW i \in 1..x PROVE g[i] = g[i - 1] + q[i].bytes
        OBVIOUS
      <4>1. i \in 0..x /\ i - 1 \in 0..x /\ i - 1 # x
        BY <3>4
      <4>2. g[i - 1] = f[i - 1]
        BY <4>1
      <4>3. CASE i = x
        BY <4>1, <4>2, <4>3
      <4>4. CASE i # x
        <5>1. i \in 1..(x - 1)
          BY <3>4, <4>4
        <5>. QED
          BY <3>5, <4>1, <4>2, <4>4, <5>1
      <4>. QED
        BY <4>3, <4>4
    <3>9. g[0] = 0 /\ g \in [0..x -> Nat]
      <4>1. 0 \in 0..x /\ 0 # x
        BY <3>4
      <4>2. g[0] = f[0]
        BY <4>1
      <4>. QED
        BY <3>5, <3>7, <4>2
    <3>. HIDE DEF g
    <3>10. Upto(x, g)
      BY <3>8, <3>9
    <3>. QED
      BY <3>2, <3>10
  <2>. QED
    BY <2>1, <2>2
<1>3. PICK f : Upto(n, f)
  BY <1>2
<1> DEFINE Eq(h) == h = [i \in 0..n |-> IF i = 0 THEN 0 ELSE h[i - 1] + q[i].bytes]
<1>4. Eq(f)
  <2>1. \A i \in 0..n : f[i] = IF i = 0 THEN 0 ELSE f[i - 1] + q[i].bytes
    <3>1. \A i \in 0..n : i # 0 => i \in 1..n
      BY <1>1
    <3>. QED
      BY <1>3, <3>1
  <2>. QED
    BY <1>3, <2>1
<1> DEFINE s == CHOOSE h : Eq(h)
<1>5. Eq(s)
  BY <1>4
<1>6. Charge(q) = s[n]
  BY DEF Charge, n
<1>. HIDE DEF s
<1>7. \A i \in 0..n : s[i] = IF i = 0 THEN 0 ELSE s[i - 1] + q[i].bytes
  BY <1>5
<1>8. s[n] = f[n]
  <2>. DEFINE apart == {i \in 0..n : s[i] # f[i]}
  <2>1. CASE apart = {}
    BY <1>1, <2>1
  <2>2. CASE apart # {}
    <3>1. apart \in SUBSET Nat
      BY <1>1
    <3>2. PICK x \in apart : \A y \in apart : x <= y
      BY <2>2, <3>1, LeastNumber
    <3>3. x # 0
      BY <1>1, <1>3, <1>7, <3>2
    <3>4. x \in 1..n /\ x - 1 \in 0..n /\ x - 1 \notin apart
      BY <1>1, <3>1, <3>2, <3>3
    <3>5. s[x - 1] = f[x - 1] /\ s[x] = s[x - 1] + q[x].bytes /\ f[x] = f[x - 1] + q[x].bytes
      BY <1>1, <1>3, <1>7, <3>4
    <3>. QED
      BY <3>2, <3>5
  <2>. QED
    BY <2>1, <2>2
<1>9. SumOf(q, f)
  BY <1>3 DEF SumOf, n
<1>. QED
  BY <1>6, <1>8, <1>9 DEF n


\* The fields of a FIFO's elements.
LEMMA ItemFields ==
  ASSUME NEW q \in Seq(Items)
  PROVE  /\ Len(q) \in Nat /\ DOMAIN q = 1..Len(q) /\ (q = <<>> <=> Len(q) = 0)
         /\ \A i \in 1..Len(q) :
              /\ q[i] \in Items /\ q[i].seq \in Nat /\ q[i].bytes \in Nat
              /\ q[i].tick \in Nat /\ q[i].res \subseteq Targets
<1>1. Len(q) \in Nat /\ DOMAIN q = 1..Len(q) /\ (q = <<>> <=> Len(q) = 0)
  BY DomainLen
<1>2. \A i \in 1..Len(q) : q[i] \in Items
  BY DomainLen
<1>3. \A e \in Items : e.seq \in Nat /\ e.bytes \in Nat /\ e.tick \in Nat /\ e.res \subseteq Targets
  BY DEF Items
<1>. QED
  BY <1>1, <1>2, <1>3

\* A charge is a number, and nothing weighs nothing.
LEMMA ChargeType ==
  ASSUME NEW q \in Seq(Items)
  PROVE  Charge(q) \in Nat /\ (q = <<>> => Charge(q) = 0)
<1>1. PICK f : SumOf(q, f) /\ Charge(q) = f[Len(q)]
  BY ChargeIs
<1>2. Len(q) \in Nat /\ (q = <<>> <=> Len(q) = 0)
  BY DomainLen
<1>3. Len(q) \in 0..Len(q)
  BY <1>2
<1>. QED
  BY <1>1, <1>2, <1>3 DEF SumOf

\* What is appended is charged.
LEMMA ChargeAppend ==
  ASSUME NEW q \in Seq(Items), NEW e \in Items
  PROVE  Charge(Append(q, e)) = Charge(q) + e.bytes
<1> DEFINE u == Append(q, e)
           n == Len(q)
<1>1. /\ u \in Seq(Items) /\ Len(u) = n + 1 /\ n \in Nat
      /\ \A i \in 1..n : u[i] = q[i]
      /\ u[n + 1] = e
  BY AppendEffect, DomainLen
<1>2. e.bytes \in Nat /\ \A i \in 1..n : q[i].bytes \in Nat
  BY ItemFields DEF Items
<1>3. PICK f : SumOf(q, f) /\ Charge(q) = f[n]
  BY ChargeIs
<1>. HIDE DEF u
<1>4. PICK g : SumOf(u, g) /\ Charge(u) = g[n + 1]
  BY <1>1, ChargeIs
<1>. HIDE DEF n
<1>5. /\ \A i \in 0..n : f[i] \in Nat
      /\ f[0] = 0 /\ \A i \in 1..n : f[i] = f[i - 1] + q[i].bytes
  BY <1>3 DEF SumOf, n
<1>6. /\ \A i \in 0..(n + 1) : g[i] \in Nat
      /\ g[0] = 0 /\ \A i \in 1..(n + 1) : g[i] = g[i - 1] + u[i].bytes
  BY <1>1, <1>4 DEF SumOf
<1>7. \A i \in 0..n : f[i] \in Int /\ g[i] \in Int
  BY <1>1, <1>5, <1>6
<1>8. \A i \in 1..n : f[i] - f[i - 1] = g[i] - g[i - 1]
  <2>. SUFFICES ASSUME NEW i \in 1..n PROVE f[i] - f[i - 1] = g[i] - g[i - 1]
    OBVIOUS
  <2>1. i \in 1..(n + 1) /\ i \in 0..n /\ i - 1 \in 0..n
    BY <1>1
  <2>2. f[i] = f[i - 1] + q[i].bytes /\ g[i] = g[i - 1] + q[i].bytes
    BY <1>1, <1>5, <1>6, <2>1
  <2>3. f[i - 1] \in Int /\ g[i - 1] \in Int /\ q[i].bytes \in Int
    BY <1>2, <1>7, <2>1
  <2>. QED
    BY <2>2, <2>3
<1>9. f[n] - g[n] = f[0] - g[0]
  BY <1>1, <1>7, <1>8, SameGrowth
<1>10. n \in 0..n /\ n + 1 \in 1..(n + 1) /\ (n + 1) - 1 = n
  BY <1>1
<1>11. g[n + 1] = g[n] + e.bytes
  BY <1>1, <1>6, <1>10
<1>12. f[n] = g[n]
  BY <1>5, <1>6, <1>7, <1>9, <1>10
<1>. QED
  BY <1>3, <1>4, <1>11, <1>12 DEF u

\* What leaves is no longer charged.
LEMMA ChargeCut ==
  ASSUME NEW q \in Seq(Items), NEW k \in 1..Len(q), NEW u \in Seq(Items), CutAt(q, k, u)
  PROVE  Charge(u) = Charge(q) - q[k].bytes
<1> DEFINE n == Len(q)
<1>1. /\ n \in Nat /\ k \in 1..n /\ Len(u) = n - 1 /\ k \in Nat
      /\ \A i \in 1..(n - 1) : u[i] = IF i < k THEN q[i] ELSE q[i + 1]
  BY DomainLen DEF CutAt
<1>2. \A i \in 1..n : q[i].bytes \in Nat
  BY ItemFields
<1>3. PICK f : SumOf(q, f) /\ Charge(q) = f[n]
  BY ChargeIs
<1>4. PICK g : SumOf(u, g) /\ Charge(u) = g[n - 1]
  BY <1>1, ChargeIs
<1>. HIDE DEF n
<1>5. /\ \A i \in 0..n : f[i] \in Nat
      /\ f[0] = 0 /\ \A i \in 1..n : f[i] = f[i - 1] + q[i].bytes
  BY <1>3 DEF SumOf, n
<1>6. /\ \A i \in 0..(n - 1) : g[i] \in Nat
      /\ g[0] = 0 /\ \A i \in 1..(n - 1) : g[i] = g[i - 1] + u[i].bytes
  BY <1>1, <1>4 DEF SumOf
<1>7. f[k - 1] = g[k - 1]
  <2>1. k - 1 \in Nat /\ \A i \in 0..(k - 1) : i \in 0..n /\ i \in 0..(n - 1)
    BY <1>1
  <2>2. \A i \in 0..(k - 1) : f[i] \in Int /\ g[i] \in Int
    BY <1>5, <1>6, <2>1
  <2>3. \A i \in 1..(k - 1) : f[i] - f[i - 1] = g[i] - g[i - 1]
    <3>. SUFFICES ASSUME NEW i \in 1..(k - 1) PROVE f[i] - f[i - 1] = g[i] - g[i - 1]
      OBVIOUS
    <3>1. i \in 1..n /\ i \in 1..(n - 1) /\ i < k /\ i \in 0..(k - 1) /\ i - 1 \in 0..(k - 1)
      BY <1>1
    <3>2. f[i] = f[i - 1] + q[i].bytes /\ g[i] = g[i - 1] + q[i].bytes
      BY <1>1, <1>5, <1>6, <3>1
    <3>3. f[i - 1] \in Int /\ g[i - 1] \in Int /\ q[i].bytes \in Int
      BY <1>2, <2>2, <3>1
    <3>. QED
      BY <3>2, <3>3
  <2>4. f[k - 1] - g[k - 1] = f[0] - g[0]
    BY <2>1, <2>2, <2>3, SameGrowth
  <2>5. k - 1 \in 0..(k - 1)
    BY <2>1
  <2>. QED
    BY <1>5, <1>6, <2>2, <2>4, <2>5
<1> DEFINE fs == [i \in 0..(n - k) |-> f[k + i]]
           gs == [i \in 0..(n - k) |-> g[(k - 1) + i]]
<1>8. fs[n - k] - gs[n - k] = fs[0] - gs[0]
  <2>1. n - k \in Nat
    BY <1>1
  <2>2. \A i \in 0..(n - k) : k + i \in 0..n /\ (k - 1) + i \in 0..(n - 1)
    BY <1>1
  <2>3. \A i \in 0..(n - k) : fs[i] \in Int /\ gs[i] \in Int
    BY <1>5, <1>6, <2>2
  <2>4. \A i \in 1..(n - k) : fs[i] - fs[i - 1] = gs[i] - gs[i - 1]
    <3>. SUFFICES ASSUME NEW i \in 1..(n - k) PROVE fs[i] - fs[i - 1] = gs[i] - gs[i - 1]
      OBVIOUS
    <3>1. /\ k + i \in 1..n /\ (k - 1) + i \in 1..(n - 1) /\ ~ ((k - 1) + i < k)
          /\ (k + i) - 1 = k + (i - 1) /\ ((k - 1) + i) - 1 = (k - 1) + (i - 1)
          /\ ((k - 1) + i) + 1 = k + i
          /\ i \in 0..(n - k) /\ i - 1 \in 0..(n - k)
      BY <1>1
    <3>2. u[(k - 1) + i] = q[k + i]
      BY <1>1, <3>1
    <3>3. /\ f[k + i] = f[k + (i - 1)] + q[k + i].bytes
          /\ g[(k - 1) + i] = g[(k - 1) + (i - 1)] + q[k + i].bytes
      BY <1>5, <1>6, <3>1, <3>2
    <3>4. q[k + i].bytes \in Int
      <4>1. k + i \in 1..n
        BY <3>1
      <4>2. q[k + i].bytes \in Nat
        BY <1>2, <4>1
      <4>. QED
        BY <4>2
    <3>5. fs[i] = fs[i - 1] + q[k + i].bytes /\ gs[i] = gs[i - 1] + q[k + i].bytes
      BY <3>1, <3>3
    <3>6. fs[i - 1] \in Int /\ gs[i - 1] \in Int
      BY <2>3, <3>1
    <3>. HIDE DEF fs, gs
    <3>. QED
      BY <3>4, <3>5, <3>6
  <2>. HIDE DEF fs, gs
  <2>. QED
    BY <2>1, <2>3, <2>4, SameGrowth
<1>9. fs[n - k] = f[n] /\ gs[n - k] = g[n - 1] /\ fs[0] = f[k] /\ gs[0] = g[k - 1]
  <2>1. n - k \in 0..(n - k) /\ 0 \in 0..(n - k)
    BY <1>1
  <2>2. k + (n - k) = n /\ (k - 1) + (n - k) = n - 1 /\ k + 0 = k /\ (k - 1) + 0 = k - 1
    BY <1>1
  <2>. QED
    BY <2>1, <2>2
<1>10. f[k] = f[k - 1] + q[k].bytes
  BY <1>1, <1>5
<1>11. /\ f[n] \in Int /\ f[k - 1] \in Int /\ g[n - 1] \in Int /\ q[k].bytes \in Int
  <2>1. n \in 0..n /\ k - 1 \in 0..n /\ n - 1 \in 0..(n - 1)
    BY <1>1
  <2>. QED
    BY <1>1, <1>2, <1>5, <1>6, <2>1
<1>. HIDE DEF fs, gs
<1>12. g[n - 1] = f[n] - q[k].bytes
  BY <1>7, <1>8, <1>9, <1>10, <1>11
<1>. QED
  BY <1>3, <1>4, <1>12

\* A commit keeps the charge of its reservation.
LEMMA ChargeReplace ==
  ASSUME NEW q \in Seq(Items), NEW u \in Seq(Items), Len(u) = Len(q),
         \A i \in 1..Len(q) : u[i].bytes = q[i].bytes
  PROVE  Charge(u) = Charge(q)
<1> DEFINE n == Len(q)
<1>1. n \in Nat /\ \A i \in 1..n : q[i].bytes \in Nat
  BY ItemFields
<1>2. PICK f : SumOf(q, f) /\ Charge(q) = f[n]
  BY ChargeIs
<1>3. PICK g : SumOf(u, g) /\ Charge(u) = g[n]
  BY ChargeIs
<1>. HIDE DEF n
<1>4. /\ \A i \in 0..n : f[i] \in Nat
      /\ f[0] = 0 /\ \A i \in 1..n : f[i] = f[i - 1] + q[i].bytes
  BY <1>2 DEF SumOf, n
<1>5. /\ \A i \in 0..n : g[i] \in Nat
      /\ g[0] = 0 /\ \A i \in 1..n : g[i] = g[i - 1] + q[i].bytes
  BY <1>3 DEF SumOf, n
<1>6. \A i \in 0..n : f[i] \in Int /\ g[i] \in Int
  BY <1>4, <1>5
<1>7. \A i \in 1..n : f[i] - f[i - 1] = g[i] - g[i - 1]
  <2>. SUFFICES ASSUME NEW i \in 1..n PROVE f[i] - f[i - 1] = g[i] - g[i - 1]
    OBVIOUS
  <2>1. i - 1 \in 0..n
    BY <1>1
  <2>2. f[i] = f[i - 1] + q[i].bytes /\ g[i] = g[i - 1] + q[i].bytes
    BY <1>4, <1>5
  <2>3. f[i - 1] \in Int /\ g[i - 1] \in Int /\ q[i].bytes \in Int
    BY <1>1, <1>6, <2>1
  <2>. QED
    BY <2>2, <2>3
<1>8. f[n] - g[n] = f[0] - g[0]
  BY <1>1, <1>6, <1>7, SameGrowth
<1>9. n \in 0..n
  BY <1>1
<1>. QED
  BY <1>2, <1>3, <1>4, <1>5, <1>6, <1>8, <1>9

\* The head and another element are charged side by side.
LEMMA ChargeTwo ==
  ASSUME NEW q \in Seq(Items), NEW k \in 2..Len(q)
  PROVE  q[1].bytes + q[k].bytes <= Charge(q)
<1> DEFINE n == Len(q)
<1>1. n \in Nat /\ k \in 1..n /\ 1 \in 1..n /\ k \in Nat /\ 2 <= k
      /\ \A i \in 1..n : q[i].bytes \in Nat
  <2>1. n \in Nat /\ \A i \in 1..n : q[i].bytes \in Nat
    BY ItemFields
  <2>. QED
    BY <2>1
<1>2. PICK f : SumOf(q, f) /\ Charge(q) = f[n]
  BY ChargeIs
<1>. HIDE DEF n
<1>3. /\ \A i \in 0..n : f[i] \in Nat
      /\ f[0] = 0 /\ \A i \in 1..n : f[i] = f[i - 1] + q[i].bytes
  BY <1>2 DEF SumOf, n
<1>4. \A i \in 1..n : f[i - 1] <= f[i]
  <2>. SUFFICES ASSUME NEW i \in 1..n PROVE f[i - 1] <= f[i]
    OBVIOUS
  <2>1. i - 1 \in 0..n /\ i \in 0..n
    BY <1>1
  <2>2. f[i] = f[i - 1] + q[i].bytes /\ f[i - 1] \in Nat /\ q[i].bytes \in Nat
    BY <1>1, <1>3, <2>1
  <2>. QED
    BY <2>2
<1>5. k \in 0..n /\ 1 \in 0..(k - 1) /\ k - 1 \in Nat /\ k - 1 \in 0..n
  BY <1>1
<1>6. f[k] <= f[n]
  BY <1>1, <1>3, <1>4, <1>5, SumGrows
<1>7. f[1] <= f[k - 1]
  <2>1. \A i \in 0..(k - 1) : f[i] \in Nat
    BY <1>1, <1>3
  <2>2. \A i \in 1..(k - 1) : f[i - 1] <= f[i]
    BY <1>1, <1>4
  <2>. QED
    BY <1>5, <2>1, <2>2, SumGrows
<1>8. f[1] = q[1].bytes /\ f[k] = f[k - 1] + q[k].bytes
  <2>1. f[1] = f[1 - 1] + q[1].bytes /\ 1 - 1 = 0
    BY <1>1, <1>3
  <2>. QED
    BY <1>1, <1>3, <2>1
<1>9. f[n] \in Int /\ f[k - 1] \in Int /\ q[1].bytes \in Int /\ q[k].bytes \in Int
  <2>1. n \in 0..n
    BY <1>1
  <2>. QED
    BY <1>1, <1>3, <1>5, <2>1
<1>. QED
  BY <1>2, <1>6, <1>7, <1>8, <1>9

\* A single element is the whole charge.
LEMMA ChargeHead ==
  ASSUME NEW q \in Seq(Items), Len(q) = 1
  PROVE  Charge(q) = q[1].bytes
<1>1. PICK f : SumOf(q, f) /\ Charge(q) = f[1]
  BY ChargeIs
<1>2. f[1] = f[1 - 1] + q[1].bytes /\ f[0] = 0 /\ q[1].bytes \in Nat /\ 1 - 1 = 0
  <2>1. 1 \in 1..Len(q)
    OBVIOUS
  <2>. QED
    BY <1>1, <2>1, ItemFields DEF SumOf
<1>. QED
  BY <1>1, <1>2


-----------------------------------------------------------------------------
(* The steps, by what they do to what the invariant speaks of. *)

\* Everything that the threads share and the invariant reads.
gvars == <<queue, queuedBytes, inFlight, stop, nextSeq, lastQueued, lastReplayed,
           terminal, wpc, witem, pollOrdinal, effects, held, down>>

\* Thread t goes to p with the locals a.
Moves(t, p, a) ==
  /\ pc' = [pc EXCEPT ![t] = p]
  /\ arg'[t] = a /\ DOMAIN arg' = Threads
  /\ \A u \in Threads : u # t => arg'[u] = arg[u]

\* A call of the program is refused at once.
Refused ==
  /\ down = "up" /\ recorder = Nobody /\ calls < MaxCalls /\ calls' = calls + 1
  /\ issued' = issued + 1 /\ UNCHANGED <<pc, arg, recorder, gvars>>

\* A chunk commit or a state-block apply begins.
Programs(t, p, a) ==
  /\ down = "up" /\ recorder = Nobody /\ calls < MaxCalls /\ calls' = calls + 1
  /\ pc[t] = "idle" /\ recorder' = t /\ issued' = issued + 1
  /\ Moves(t, p, a) /\ UNCHANGED gvars
  /\ a.tick = issued + 1
  /\ \/ p = "push" /\ a \in ChunkArgs
     \/ p = "push" /\ a \in StateArgs /\ a.need = Outstanding
     \/ p = "drain" /\ a \in InlineArgs

\* Another bridge call begins.
Begins(t, p, a) ==
  /\ down = "up" /\ calls < MaxCalls /\ calls' = calls + 1
  /\ pc[t] = "idle" /\ UNCHANGED <<recorder, issued>>
  /\ Moves(t, p, a) /\ UNCHANGED gvars
  /\ \/ p = "drain" /\ a \in BufferArgs("Lost")
     \/ p = "drain" /\ a \in DirectArgs /\ a.need = Outstanding
     \/ p = "pending" /\ a \in BufferArgs("Buffer") /\ a.need = OutstandingOn(a.buf)
     \/ p = "reserve" /\ a \in MutationArgs
     \/ p = "receiptWait" /\ a \in QueryArgs /\ a.captured # 0

\* The thread gives up the recorder mutex when it returns.
Leaves(t) ==
  /\ recorder' = IF recorder = t THEN Nobody ELSE recorder
  /\ UNCHANGED <<calls, issued>>

\* A call returns and leaves nothing behind.
Ends(t) ==
  /\ pc[t] \notin {"idle", "inline", "inlineDone", "poison"}
  /\ Moves(t, "idle", Idle) /\ Leaves(t) /\ UNCHANGED gvars

\* A call goes on.
Turns(t, p, a) ==
  /\ Moves(t, p, a) /\ UNCHANGED <<gvars, recorder, calls, issued>>
  /\ \/ /\ a = arg[t]
        /\ \/ pc[t] = "push" /\ p = "drain" /\ arg[t].op = "StateBlock"
           \/ pc[t] = "rotate" /\ p \in {"commit", "unreserve"}
           \/ pc[t] = "drain" /\ p = "drained" /\ queue = <<>> /\ ~ inFlight
           \/ pc[t] = "drain" /\ p = "drainWait"
           \/ pc[t] = "drain" /\ p = "inlineCheck" /\ terminal # "Running"
                /\ arg[t].op = "Inline"
           \/ pc[t] = "drainWait" /\ p = "drained" /\ Quiet
           \/ pc[t] = "drained" /\ p = "inlineCheck" /\ arg[t].op = "Inline"
           \/ pc[t] = "drained" /\ p = "inCall" /\ terminal = "Running"
                /\ arg[t].op \notin {"Inline", "Lost"}
           \/ pc[t] = "pending" /\ p = "ledgerWait"
           \/ pc[t] \in {"pending", "ledgerWait"} /\ p = "inCall"
                /\ lastQueued[arg[t].buf] <= lastReplayed[arg[t].buf]
           \/ pc[t] = "receiptWait" /\ p = "visit"
           \/ pc[t] = "visit" /\ p = "poll"
                /\ Classify(arg[t].captured, arg[t].query) = "Ready"
     \/ pc[t] = "ledgerWait" /\ p = "drain" /\ a \in BufferArgs("Lost")

\* What a push, a reservation or an inline chunk takes from the ledger.
Numbers == nextSeq' = nextSeq + 1
Stamps(res) == lastQueued' = [r \in Targets |-> IF r \in res THEN nextSeq ELSE lastQueued[r]]

\* The FIFO has room for so many bytes.
Room(bytes) ==
  /\ Len(queue) < MaxChunks
  /\ queue = <<>> \/ bytes = 0 \/ queuedBytes + bytes <= MaxBytes

\* A chunk or a state-block apply is queued.
Pushed(t) == Item(arg[t].op, nextSeq, arg[t].chunk.res, arg[t].chunk.bytes, arg[t].tick)
Accepts(t) ==
  /\ pc[t] = "push" /\ ~ stop /\ Room(arg[t].chunk.bytes)
  /\ queue' = Append(queue, Pushed(t)) /\ queuedBytes' = queuedBytes + arg[t].chunk.bytes
  /\ Numbers /\ Stamps(arg[t].chunk.res) /\ held' = held \cup {nextSeq}
  /\ Moves(t, "idle", Idle) /\ Leaves(t)
  /\ UNCHANGED <<inFlight, stop, lastReplayed, terminal, wpc, witem, pollOrdinal, effects,
                 down>>

\* A placeholder is queued.
Placeholder(t) == Item("hole", nextSeq, {}, arg[t].bytes, 0)
Reserves(t) ==
  /\ pc[t] = "reserve" /\ ~ stop /\ Room(arg[t].bytes)
  /\ queue' = Append(queue, Placeholder(t)) /\ queuedBytes' = queuedBytes + arg[t].bytes
  /\ Numbers /\ Moves(t, "rotate", [arg[t] EXCEPT !.seq = nextSeq])
  /\ UNCHANGED <<inFlight, stop, lastQueued, lastReplayed, terminal, wpc, witem,
                 pollOrdinal, effects, held, down, recorder, calls, issued>>

\* A placeholder is released.
Releases(t, k) ==
  /\ pc[t] = "unreserve" /\ CutAt(queue, k, queue') /\ queue' \in Seq(Items)
  /\ IsHole(queue[k]) /\ queue[k].seq = arg[t].seq
  /\ queuedBytes' = queuedBytes - queue[k].bytes
  /\ Moves(t, "idle", Idle) /\ Leaves(t)
  /\ UNCHANGED <<inFlight, stop, nextSeq, lastQueued, lastReplayed, terminal, wpc, witem,
                 pollOrdinal, effects, held, down>>

\* A placeholder becomes a mutation.
Mutation(t) == Item("Mutation", arg[t].seq, {arg[t].buf}, arg[t].bytes, 0)
Commits(t, k) ==
  /\ pc[t] = "commit" /\ k \in 1..Len(queue)
  /\ IsHole(queue[k]) /\ queue[k].seq = arg[t].seq
  /\ queue' \in Seq(Items) /\ Len(queue') = Len(queue)
  /\ \A i \in 1..Len(queue) : queue'[i] = IF i = k THEN Mutation(t) ELSE queue[i]
  /\ lastQueued' = [lastQueued EXCEPT ![arg[t].buf] =
                      IF arg[t].seq > lastQueued[arg[t].buf] THEN arg[t].seq
                      ELSE lastQueued[arg[t].buf]]
  /\ held' = held \cup {arg[t].seq}
  /\ Moves(t, "idle", Idle) /\ Leaves(t)
  /\ UNCHANGED <<queuedBytes, inFlight, stop, nextSeq, lastReplayed, terminal, wpc, witem,
                 pollOrdinal, effects, down>>

\* A state block is applied on the calling thread.
Applied(t) == [seq |-> 0, tick |-> arg[t].tick, fifo |-> FALSE]
Applies(t) ==
  /\ pc[t] = "inCall" /\ arg[t].op = "StateBlock"
  /\ effects' = Append(effects, Applied(t))
  /\ Moves(t, "idle", Idle) /\ Leaves(t)
  /\ UNCHANGED <<queue, queuedBytes, inFlight, stop, nextSeq, lastQueued, lastReplayed,
                 terminal, wpc, witem, pollOrdinal, held, down>>

\* An inline chunk takes its ordinal.
Inlines(t) ==
  /\ pc[t] = "inlineCheck" /\ terminal = "Running"
  /\ Numbers /\ Stamps(arg[t].chunk.res) /\ held' = held \cup {nextSeq}
  /\ Moves(t, "inline", [arg[t] EXCEPT !.seq = nextSeq])
  /\ UNCHANGED <<queue, queuedBytes, inFlight, stop, lastReplayed, terminal, wpc, witem,
                 pollOrdinal, effects, down, recorder, calls, issued>>

\* The ordinals of the queries that an item issues.
Polls(res, seq) ==
  pollOrdinal' = [q \in Queries |-> IF q \in res THEN seq ELSE pollOrdinal[q]]

\* An inline chunk is replayed.
Inlined(t) == [seq |-> arg[t].seq, tick |-> arg[t].tick, fifo |-> FALSE]
Executes(t) ==
  /\ pc[t] = "inline" /\ effects' = Append(effects, Inlined(t))
  /\ Polls(arg[t].chunk.res, arg[t].seq)
  /\ Moves(t, "inlineDone", arg[t])
  /\ UNCHANGED <<queue, queuedBytes, inFlight, stop, nextSeq, lastQueued, lastReplayed,
                 terminal, wpc, witem, held, down, recorder, calls, issued>>

\* An inline chunk is published as replayed.
Settles(t) ==
  /\ pc[t] = "inlineDone"
  /\ lastReplayed' = Replayed(arg[t].chunk.res, arg[t].seq)
  /\ held' = held \ {arg[t].seq}
  /\ Moves(t, "idle", Idle) /\ Leaves(t)
  /\ UNCHANGED <<queue, queuedBytes, inFlight, stop, nextSeq, lastQueued, terminal, wpc,
                 witem, pollOrdinal, effects, down>>

\* A replay or an apply on the calling thread fails.
Breaks(t) ==
  /\ pc[t] = "inline" \/ (pc[t] = "inCall" /\ arg[t].op = "StateBlock")
  /\ terminal' = "Failed" /\ Moves(t, "poison", arg[t])
  /\ UNCHANGED <<queue, queuedBytes, inFlight, stop, nextSeq, lastQueued, lastReplayed, wpc,
                 witem, pollOrdinal, effects, held, down, recorder, calls, issued>>

\* The failure is published, and the call returns.
Poisons(t) ==
  /\ pc[t] = "poison"
  /\ held' = IF arg[t].op = "Inline" THEN held \ {arg[t].seq} ELSE held
  /\ Moves(t, "idle", Idle) /\ Leaves(t)
  /\ UNCHANGED <<queue, queuedBytes, inFlight, stop, nextSeq, lastQueued, lastReplayed,
                 terminal, wpc, witem, pollOrdinal, effects, down>>

\* The steps of a thread.
ThreadKind ==
  \E t \in Threads :
    \/ \E p, a : Programs(t, p, a) \/ Begins(t, p, a) \/ Turns(t, p, a)
    \/ Ends(t) \/ Accepts(t) \/ Reserves(t) \/ Applies(t) \/ Inlines(t) \/ Executes(t)
    \/ Settles(t) \/ Breaks(t) \/ Poisons(t)
    \/ \E k \in 1..Len(queue) : Releases(t, k) \/ Commits(t, k)

\* Nothing changes that the invariant reads.
Rests == UNCHANGED <<gvars, pc, arg, recorder, calls, issued>>

\* No step of the worker or of the teardown changes these.
Alone == UNCHANGED <<nextSeq, lastQueued, pc, arg, recorder, calls, issued>>

\* The worker takes the head.
Takes ==
  /\ wpc = "pop" /\ queue # <<>> /\ ~ IsHole(queue[1]) /\ witem' = queue[1]
  /\ CutAt(queue, 1, queue') /\ queue' \in Seq(Items)
  /\ queuedBytes' = queuedBytes - queue[1].bytes
  /\ inFlight' = TRUE /\ wpc' = "replay" /\ Alone
  /\ UNCHANGED <<stop, lastReplayed, terminal, pollOrdinal, effects, held, down>>

\* The worker leaves its loop.
Quits ==
  /\ wpc = "pop" /\ stop /\ wpc' = "epilogue" /\ Alone
  /\ UNCHANGED <<queue, queuedBytes, inFlight, stop, lastReplayed, terminal, witem,
                 pollOrdinal, effects, held, down>>

\* The worker replays its item.
Carried == [seq |-> witem.seq, tick |-> witem.tick, fifo |-> TRUE]
Plays ==
  /\ wpc = "replay" /\ wpc' = "publish" /\ effects' = Append(effects, Carried)
  /\ Polls(witem.res, witem.seq) /\ Alone
  /\ UNCHANGED <<queue, queuedBytes, inFlight, stop, lastReplayed, terminal, witem, held,
                 down>>

\* The worker publishes its item as replayed.
Publishes ==
  /\ wpc = "publish" /\ wpc' = "release" /\ lastReplayed' = Replayed(witem.res, witem.seq)
  /\ Alone
  /\ UNCHANGED <<queue, queuedBytes, inFlight, stop, terminal, witem, pollOrdinal, effects,
                 held, down>>

\* The worker lets its item go.
Drops ==
  /\ \/ wpc = "release" /\ wpc' = "pop"
     \/ wpc = "abandon" /\ wpc' = "epilogue"
  /\ witem' = Idle /\ inFlight' = FALSE /\ held' = held \ {witem.seq} /\ Alone
  /\ UNCHANGED <<queue, queuedBytes, stop, lastReplayed, terminal, pollOrdinal, effects,
                 down>>

\* The worker fails at its item.
Fails ==
  /\ wpc = "replay" /\ wpc' = "failing" /\ terminal' = "Failed"
  /\ UNCHANGED pollOrdinal \/ Polls(witem.res, witem.seq)
  /\ Alone
  /\ UNCHANGED <<queue, queuedBytes, inFlight, stop, lastReplayed, witem, effects, held,
                 down>>

\* The worker publishes its failure and stops the FIFO.
Stops ==
  /\ \/ wpc = "failing" /\ wpc' = "poison" /\ UNCHANGED stop
     \/ wpc = "poison" /\ wpc' = "stopQueue" /\ UNCHANGED stop
     \/ wpc = "stopQueue" /\ wpc' = "abandon" /\ stop' = TRUE
  /\ Alone
  /\ UNCHANGED <<queue, queuedBytes, inFlight, lastReplayed, terminal, witem, pollOrdinal,
                 effects, held, down>>

\* The FIFO is dropped, by the worker or by the teardown.
Empties ==
  /\ \/ wpc = "epilogue" /\ wpc' = "exited" /\ UNCHANGED down
     \/ wpc = "exited" /\ down = "join" /\ down' = "gone" /\ UNCHANGED wpc
  /\ queue' = <<>> /\ queuedBytes' = 0
  /\ held' = held \ {queue[i].seq : i \in 1..Len(queue)}
  /\ Alone
  /\ UNCHANGED <<inFlight, stop, lastReplayed, terminal, witem, pollOrdinal, effects>>

\* The device goes down.
Falls ==
  /\ \/ down = "up" /\ (\A t \in Threads : pc[t] = "idle") /\ down' = "drain"
        /\ UNCHANGED <<terminal, stop>>
     \/ down = "drain" /\ down' = "ledger" /\ UNCHANGED <<terminal, stop>>
     \/ down = "ledger" /\ down' = "queue" /\ UNCHANGED stop
        /\ terminal' = (IF terminal = "Running" THEN "Stopped" ELSE terminal)
     \/ down = "queue" /\ down' = "join" /\ stop' = TRUE /\ UNCHANGED terminal
  /\ Alone
  /\ UNCHANGED <<queue, queuedBytes, inFlight, lastReplayed, wpc, witem, pollOrdinal,
                 effects, held>>

\* The other steps.
OtherKind ==
  \/ Rests \/ Refused \/ Takes \/ Quits \/ Plays \/ Publishes \/ Drops \/ Fails \/ Stops
  \/ Empties \/ Falls

-----------------------------------------------------------------------------
(* Types. *)

\* The locals of a thread, at each place of its calls.
LEMMA ArgFields ==
  ASSUME Local, NEW t \in Threads
  PROVE  /\ pc[t] \in Places /\ arg[t] \in ArgsAt(pc[t])
         /\ pc[t] = "idle" => arg[t] = Idle
         /\ pc[t] = "push" => arg[t] \in ChunkArgs \cup StateArgs
         /\ pc[t] \in {"reserve", "rotate", "commit", "unreserve"} => arg[t] \in MutationArgs
         /\ pc[t] \in {"drain", "drainWait", "drained"} =>
              arg[t] \in InlineArgs \cup StateArgs \cup BufferArgs("Lost") \cup DirectArgs
         /\ pc[t] \in {"pending", "ledgerWait"} => arg[t] \in BufferArgs("Buffer")
         /\ pc[t] = "inCall" => arg[t] \in StateArgs \cup BufferArgs("Buffer") \cup DirectArgs
         /\ pc[t] \in {"receiptWait", "visit", "poll"} => arg[t] \in QueryArgs
         /\ pc[t] \in {"inlineCheck", "inline", "inlineDone"} => arg[t] \in InlineArgs
         /\ pc[t] = "poison" => arg[t] \in InlineArgs \cup StateArgs
<1>1. pc[t] \in Places /\ arg[t] \in ArgsAt(pc[t])
  BY DEF Local
<1>. DEFINE p == pc[t]
            a == arg[t]
<1>2. a \in ArgsAt(p) /\ p \in Places
  BY <1>1
<1>. HIDE DEF p, a
<1>3. /\ p = "idle" => a \in {Idle}
      /\ p = "push" => a \in ChunkArgs \cup StateArgs
      /\ p \in {"reserve", "rotate", "commit", "unreserve"} => a \in MutationArgs
      /\ p \in {"drain", "drainWait", "drained"} =>
           a \in InlineArgs \cup StateArgs \cup BufferArgs("Lost") \cup DirectArgs
      /\ p \in {"pending", "ledgerWait"} => a \in BufferArgs("Buffer")
      /\ p = "inCall" => a \in StateArgs \cup BufferArgs("Buffer") \cup DirectArgs
      /\ p \in {"receiptWait", "visit", "poll"} => a \in QueryArgs
      /\ p \in {"inlineCheck", "inline", "inlineDone"} => a \in InlineArgs
      /\ p = "poison" => a \in InlineArgs \cup StateArgs
  BY <1>2 DEF ArgsAt, Places
<1>. QED
  BY <1>1, <1>3 DEF p, a

\* What the kinds of locals are made of.
LEMMA ArgKinds ==
  /\ Idle.op = "none"
  /\ \A a \in ChunkArgs : /\ a.op = "Chunk" /\ a.chunk.res \subseteq Targets
                          /\ a.chunk.bytes \in Nat /\ a.tick \in Nat
  /\ \A a \in StateArgs : /\ a.op = "StateBlock" /\ a.chunk.res = {} /\ a.chunk.bytes = 0
                          /\ a.tick \in Nat /\ a.need \subseteq Nat
  /\ \A a \in InlineArgs : /\ a.op = "Inline" /\ a.chunk \in Chunks /\ a.chunk.inline
                           /\ a.chunk.res \subseteq Targets
                           /\ a.tick \in Nat /\ a.need \subseteq Nat /\ a.seq \in Nat
  /\ \A o : \A a \in BufferArgs(o) : a.op = o /\ a.buf \in Buffers /\ a.need \subseteq Nat
  /\ \A a \in MutationArgs : /\ a.op = "Mutation" /\ a.buf \in Buffers /\ a.bytes \in Nat
                             /\ a.seq \in Nat
  /\ \A a \in DirectArgs : a.op = "Direct" /\ a.need \subseteq Nat
  /\ \A a \in QueryArgs : a.op = "Query" /\ a.query \in Queries /\ a.captured \in Nat
<1>1. \A c \in Chunks : c.res \subseteq Targets /\ c.bytes \in Nat /\ c.inline \in BOOLEAN
  BY Bounds
<1>2. Idle.op = "none"
  BY DEF Idle
<1>3. \A a \in ChunkArgs : /\ a.op = "Chunk" /\ a.chunk.res \subseteq Targets
                           /\ a.chunk.bytes \in Nat /\ a.tick \in Nat
  <2>1. \A a \in ChunkArgs : a.op = "Chunk" /\ a.chunk \in Chunks /\ a.tick \in Nat
    BY DEF ChunkArgs
  <2>. QED
    BY <1>1, <2>1
<1>4. \A a \in StateArgs : /\ a.op = "StateBlock" /\ a.chunk.res = {} /\ a.chunk.bytes = 0
                           /\ a.tick \in Nat /\ a.need \subseteq Nat
  BY DEF StateArgs
<1>5. \A a \in InlineArgs : /\ a.op = "Inline" /\ a.chunk \in Chunks /\ a.chunk.inline
                            /\ a.chunk.res \subseteq Targets
                            /\ a.tick \in Nat /\ a.need \subseteq Nat /\ a.seq \in Nat
  <2>1. \A a \in InlineArgs : /\ a.op = "Inline" /\ a.chunk \in {c \in Chunks : c.inline}
                              /\ a.tick \in Nat /\ a.need \subseteq Nat /\ a.seq \in Nat
    BY DEF InlineArgs
  <2>. QED
    BY <1>1, <2>1
<1>6. \A o : \A a \in BufferArgs(o) : a.op = o /\ a.buf \in Buffers /\ a.need \subseteq Nat
  BY DEF BufferArgs
<1>7. \A a \in MutationArgs : /\ a.op = "Mutation" /\ a.buf \in Buffers /\ a.bytes \in Nat
                              /\ a.seq \in Nat
  BY DEF MutationArgs
<1>8. \A a \in DirectArgs : a.op = "Direct" /\ a.need \subseteq Nat
  BY DEF DirectArgs
<1>9. \A a \in QueryArgs : a.op = "Query" /\ a.query \in Queries /\ a.captured \in Nat
  BY DEF QueryArgs
<1>. QED
  BY <1>2, <1>3, <1>4, <1>5, <1>6, <1>7, <1>8, <1>9

\* What a call tells of the place its thread is at.
LEMMA OpPlaces ==
  ASSUME Local, NEW t \in Threads
  PROVE  /\ arg[t].op = "Inline" =>
              pc[t] \in {"drain", "drainWait", "drained", "inlineCheck", "inline",
                         "inlineDone", "poison"} /\ arg[t] \in InlineArgs
         /\ arg[t].op = "StateBlock" =>
              pc[t] \in {"push", "drain", "drainWait", "drained", "inCall", "poison"}
                /\ arg[t] \in StateArgs
         /\ arg[t].op = "Chunk" => pc[t] = "push" /\ arg[t] \in ChunkArgs
         /\ arg[t].op = "Direct" => arg[t] \in DirectArgs
         /\ arg[t].op = "Buffer" => arg[t] \in BufferArgs("Buffer")
         /\ pc[t] = "idle" => arg[t].op = "none"
  BY ArgFields, ArgKinds DEF Places


-----------------------------------------------------------------------------
(* Every step is of one of these kinds. *)

\* A thread that goes somewhere with new locals, or with its own.
LEMMA MovesIs ==
  ASSUME Local, NEW t \in Threads, NEW p, Goto(t, p)
  PROVE  /\ \A a : With(t, a) => Moves(t, p, a)
         /\ UNCHANGED arg => Moves(t, p, arg[t])
<1>1. pc' = [pc EXCEPT ![t] = p] /\ DOMAIN arg = Threads
  BY DEF Goto, Local
<1>2. ASSUME NEW a, With(t, a) PROVE Moves(t, p, a)
  BY <1>1, <1>2 DEF Moves, With
<1>3. ASSUME UNCHANGED arg PROVE Moves(t, p, arg[t])
  BY <1>1, <1>3 DEF Moves
<1>. QED
  BY <1>2, <1>3

\* A return.
LEMMA ReturnIs ==
  ASSUME Local, NEW t \in Threads, Return(t)
  PROVE  Moves(t, "idle", Idle) /\ Leaves(t)
BY MovesIs DEF Return, Leaves

\* The end of a call that changes nothing else.
LEMMA EndsIs ==
  ASSUME Local, NEW t \in Threads, Return(t), UNCHANGED gvars,
         pc[t] \notin {"idle", "inline", "inlineDone", "poison"}
  PROVE  Ends(t)
BY ReturnIs DEF Ends

\* Work that is awaited is numbered.
LEMMA AwaitedNumbers ==
  ASSUME Shared, Local, Stages
  PROVE  Outstanding \in SUBSET Nat /\ \A b : OutstandingOn(b) \in SUBSET Nat
<1>1. DOMAIN queue = 1..Len(queue) /\ \A i \in 1..Len(queue) : queue[i].seq \in Nat
  BY ItemFields DEF Shared
<1>2. wpc = "replay" => witem.seq \in Nat
  <2>1. wpc = "replay" => witem \in Items
    BY DEF Stages, Busy
  <2>. QED
    BY <2>1 DEF Items
<1>3. \A t \in Threads : pc[t] = "inline" => arg[t].seq \in Nat
  BY ArgFields, ArgKinds
<1>4. Outstanding \in SUBSET Nat
  BY <1>1, <1>2 DEF Outstanding
<1>5. ASSUME NEW b PROVE OutstandingOn(b) \in SUBSET Nat
  BY <1>1, <1>2, <1>3 DEF OutstandingOn
<1>. QED
  BY <1>4, <1>5

\* The bridge calls begin.
LEMMA CallKind ==
  ASSUME Shared, Local, Stages, NEW t \in Threads, Call(t)
  PROVE  Refused \/ \E p, a : Programs(t, p, a) \/ Begins(t, p, a)
<1>0. Outstanding \in SUBSET Nat /\ \A b : OutstandingOn(b) \in SUBSET Nat
  BY AwaitedNumbers
<1>1. issued \in Nat /\ lastQueued \in [Targets -> Nat]
  BY DEF Shared
<1>2. ASSUME NEW kind, Enter(t, kind)
      PROVE  /\ pc[t] = "idle" /\ down = "up" /\ calls < MaxCalls /\ calls' = calls + 1
             /\ UNCHANGED gvars
  BY <1>2 DEF Enter, gvars, qvars, lvars, wvars, hvars
<1>3. ASSUME NEW c \in Chunks, CommitChunk(t, c)
      PROVE  Refused \/ \E p, a : Programs(t, p, a)
  <2>1. Enter(t, "Chunk") /\ recorder = Nobody
    BY <1>3 DEF CommitChunk
  <2>2. CASE c.inline
    <3>. DEFINE a == [op |-> "Inline", chunk |-> c, tick |-> issued + 1,
                      need |-> Outstanding, seq |-> 0]
    <3>1. a \in InlineArgs /\ a.tick = issued + 1
      <4>1. c \in {d \in Chunks : d.inline}
        BY <2>2
      <4>. QED
        BY <4>1, <1>0, <1>1 DEF InlineArgs
    <3>2. TakeRecorder(t) /\ Goto(t, "drain") /\ With(t, a)
      BY <1>3, <2>2 DEF CommitChunk
    <3>. HIDE DEF a
    <3>3. Moves(t, "drain", a)
      BY <3>2, MovesIs
    <3>4. Programs(t, "drain", a)
      BY <1>2, <2>1, <3>1, <3>2, <3>3 DEF Programs, TakeRecorder
    <3>. QED
      BY <3>4
  <2>3. CASE ~ c.inline /\ failed
    <3>1. issued' = issued + 1 /\ UNCHANGED <<pc, arg, recorder>>
      BY <1>3, <2>3 DEF CommitChunk
    <3>. QED
      BY <1>2, <2>1, <3>1 DEF Refused
  <2>4. CASE ~ c.inline /\ ~ failed
    <3>. DEFINE a == [op |-> "Chunk", chunk |-> c, tick |-> issued + 1]
    <3>1. a \in ChunkArgs /\ a.tick = issued + 1
      BY <1>1 DEF ChunkArgs
    <3>2. TakeRecorder(t) /\ Goto(t, "push") /\ With(t, a)
      BY <1>3, <2>4 DEF CommitChunk
    <3>. HIDE DEF a
    <3>3. Moves(t, "push", a)
      BY <3>2, MovesIs
    <3>4. Programs(t, "push", a)
      BY <1>2, <2>1, <3>1, <3>2, <3>3 DEF Programs, TakeRecorder
    <3>. QED
      BY <3>4
  <2>. QED
    BY <2>2, <2>3, <2>4
<1>4. ASSUME StateBlockApply(t)
      PROVE  Refused \/ \E p, a : Programs(t, p, a)
  <2>1. Enter(t, "StateBlock") /\ recorder = Nobody
    BY <1>4 DEF StateBlockApply
  <2>. DEFINE a == [op |-> "StateBlock", tick |-> issued + 1, need |-> Outstanding,
                    chunk |-> [res |-> {}, bytes |-> 0]]
  <2>2. a \in StateArgs /\ a.tick = issued + 1 /\ a.need = Outstanding
    BY <1>0, <1>1 DEF StateArgs
  <2>3. \/ issued' = issued + 1 /\ UNCHANGED <<pc, arg, recorder>>
        \/ TakeRecorder(t) /\ Goto(t, "push") /\ With(t, a)
    BY <1>4 DEF StateBlockApply
  <2>. HIDE DEF a
  <2>4. CASE issued' = issued + 1 /\ UNCHANGED <<pc, arg, recorder>>
    BY <1>2, <2>1, <2>4 DEF Refused
  <2>5. CASE TakeRecorder(t) /\ Goto(t, "push") /\ With(t, a)
    <3>1. Moves(t, "push", a)
      BY <2>5, MovesIs
    <3>2. Programs(t, "push", a)
      BY <1>2, <2>1, <2>2, <2>5, <3>1 DEF Programs, TakeRecorder
    <3>. QED
      BY <3>2
  <2>. QED
    BY <2>3, <2>4, <2>5
<1>5. ASSUME NEW b \in Buffers, NEW p \in {"drain", "pending"}, NEW n \in SUBSET Nat,
             NEW kind, Enter(t, kind), NoRecorder, Goto(t, p),
             With(t, [op |-> IF p = "drain" THEN "Lost" ELSE "Buffer", buf |-> b, need |-> n]),
             p = "pending" => n = OutstandingOn(b)
      PROVE  \E q, a : Begins(t, q, a)
  <2>. DEFINE a == [op |-> IF p = "drain" THEN "Lost" ELSE "Buffer", buf |-> b, need |-> n]
  <2>1. /\ p = "drain" => a \in BufferArgs("Lost")
        /\ p = "pending" => a \in BufferArgs("Buffer") /\ a.need = OutstandingOn(a.buf)
    BY <1>5 DEF BufferArgs
  <2>2. Moves(t, p, a)
    <3>. HIDE DEF a
    <3>1. With(t, a)
      BY <1>5 DEF a
    <3>. QED
      BY <1>5, <3>1, MovesIs
  <2>. HIDE DEF a
  <2>3. Begins(t, p, a)
    BY <1>2, <1>5, <2>1, <2>2 DEF Begins, NoRecorder
  <2>. QED
    BY <2>3
<1>6. ASSUME NEW b \in Buffers, Lock(t, b) \/ UnlockNoOverwrite(t, b)
      PROVE  \E p, a : Begins(t, p, a)
  <2>. DEFINE p == IF terminal # "Running" THEN "drain" ELSE "pending"
              n == OutstandingOn(b)
  <2>1. PICK kind \in {"Lock", "UnlockNoOverwrite"} :
          /\ Enter(t, kind) /\ NoRecorder /\ Goto(t, p)
          /\ With(t, [op |-> IF terminal # "Running" THEN "Lost" ELSE "Buffer",
                      buf |-> b, need |-> n])
    BY <1>6 DEF Lock, UnlockNoOverwrite
  <2>2. /\ p \in {"drain", "pending"} /\ (terminal # "Running" <=> p = "drain")
        /\ n \in SUBSET Nat /\ (p = "pending" => n = OutstandingOn(b))
    BY <1>0
  <2>. HIDE DEF p, n
  <2>3. With(t, [op |-> IF p = "drain" THEN "Lost" ELSE "Buffer", buf |-> b, need |-> n])
    BY <2>1, <2>2
  <2>. QED
    BY <1>5, <2>1, <2>2, <2>3
<1>7. ASSUME NEW b \in Buffers, NEW k \in SpanBytes, Unlock(t, b, k)
      PROVE  \E p, a : Begins(t, p, a)
  <2>1. Enter(t, "Unlock") /\ NoRecorder
    BY <1>7 DEF Unlock
  <2>2. CASE terminal # "Running"
    <3>1. Goto(t, "drain") /\ With(t, [op |-> "Lost", buf |-> b, need |-> {}])
      BY <1>7, <2>2 DEF Unlock
    <3>2. With(t, [op |-> IF "drain" = "drain" THEN "Lost" ELSE "Buffer", buf |-> b,
                   need |-> {}])
      BY <3>1
    <3>3. {} \in SUBSET Nat /\ "drain" \in {"drain", "pending"} /\ "drain" # "pending"
      OBVIOUS
    <3>. QED
      BY <1>5, <2>1, <3>1, <3>2, <3>3
  <2>3. CASE terminal = "Running" /\ (failed \/ stop)
    <3>1. /\ Goto(t, "pending")
          /\ With(t, [op |-> "Buffer", buf |-> b, need |-> OutstandingOn(b)])
      BY <1>7, <2>3 DEF Unlock
    <3>2. With(t, [op |-> IF "pending" = "drain" THEN "Lost" ELSE "Buffer", buf |-> b,
                   need |-> OutstandingOn(b)])
      BY <3>1
    <3>3. OutstandingOn(b) \in SUBSET Nat /\ "pending" \in {"drain", "pending"}
      BY <1>0
    <3>. QED
      BY <1>5, <2>1, <3>1, <3>2, <3>3
  <2>4. CASE terminal = "Running" /\ ~ (failed \/ stop)
    <3>. DEFINE a == [op |-> "Mutation", buf |-> b, bytes |-> k, seq |-> 0]
    <3>1. a \in MutationArgs
      BY Bounds DEF MutationArgs
    <3>2. Goto(t, "reserve") /\ With(t, a)
      BY <1>7, <2>4 DEF Unlock
    <3>. HIDE DEF a
    <3>3. Moves(t, "reserve", a)
      BY <3>2, MovesIs
    <3>4. Begins(t, "reserve", a)
      BY <1>2, <2>1, <3>1, <3>3 DEF Begins, NoRecorder
    <3>. QED
      BY <3>4
  <2>. QED
    BY <2>2, <2>3, <2>4
<1>8. ASSUME NEW kind, Enter(t, kind), NoRecorder, Goto(t, "drain"),
             With(t, [op |-> "Direct", need |-> Outstanding])
      PROVE  \E p, a : Begins(t, p, a)
  <2>. DEFINE a == [op |-> "Direct", need |-> Outstanding]
  <2>1. a \in DirectArgs /\ a.need = Outstanding
    BY <1>0 DEF DirectArgs
  <2>. HIDE DEF a
  <2>2. Moves(t, "drain", a)
    BY <1>8, MovesIs DEF a
  <2>3. Begins(t, "drain", a)
    BY <1>2, <1>8, <2>1, <2>2 DEF Begins, NoRecorder
  <2>. QED
    BY <2>3
<1>9. ASSUME DirectCall(t) PROVE \E p, a : Begins(t, p, a)
  BY <1>8, <1>9 DEF DirectCall
<1>10. ASSUME NEW q \in Queries, GetData(t, q) PROVE \E p, a : Begins(t, p, a)
  <2>1. Enter(t, "GetData") /\ NoRecorder
    BY <1>10 DEF GetData
  <2>2. CASE lastQueued[q] = 0
    BY <1>8, <1>10, <2>1, <2>2 DEF GetData
  <2>3. CASE lastQueued[q] # 0
    <3>. DEFINE a == [op |-> "Query", query |-> q, captured |-> lastQueued[q]]
    <3>1. a \in QueryArgs /\ a.captured # 0
      BY <1>1, <2>3 DEF QueryArgs, Targets
    <3>2. Goto(t, "receiptWait") /\ With(t, a)
      BY <1>10, <2>3 DEF GetData
    <3>. HIDE DEF a
    <3>3. Moves(t, "receiptWait", a)
      BY <3>2, MovesIs
    <3>4. Begins(t, "receiptWait", a)
      BY <1>2, <2>1, <3>1, <3>3 DEF Begins, NoRecorder
    <3>. QED
      BY <3>4
  <2>. QED
    BY <2>2, <2>3
<1>. QED
  BY <1>3, <1>4, <1>6, <1>7, <1>9, <1>10 DEF Call


\* What the steps of a thread leave alone.
LEMMA GlobalIs ==
  UNCHANGED <<qvars, lvars, terminal, wvars, hvars, down>> => UNCHANGED gvars
BY DEF gvars, qvars, lvars, wvars, hvars

\* A push: it sleeps, is refused or is accepted.
LEMMA PushKind ==
  ASSUME Shared, Local, Stages, NEW t \in Threads, Push(t)
  PROVE  Rests \/ (\E p, a : Turns(t, p, a)) \/ Ends(t) \/ Accepts(t)
<1>1. pc[t] = "push" /\ UNCHANGED <<terminal, wvars, pollOrdinal, effects, down>>
  BY DEF Push
<1>2. arg[t] \in ChunkArgs \cup StateArgs
  BY <1>1, ArgFields
<1>3. CASE UNCHANGED <<qvars, lvars, tvars, held>>
  BY <1>1, <1>3 DEF Rests, gvars, qvars, lvars, wvars, tvars
<1>4. CASE RejectPush(t)
  <2>1. UNCHANGED gvars
    BY <1>1, <1>4 DEF RejectPush, gvars, qvars, lvars, wvars
  <2>2. CASE Return(t)
    <3>1. Ends(t)
      BY <1>1, <2>1, <2>2, EndsIs
    <3>. QED
      BY <3>1
  <2>3. CASE arg[t].op = "StateBlock" /\ Goto(t, "drain") /\ UNCHANGED arg /\ Stay
    <3>1. Moves(t, "drain", arg[t])
      BY <2>3, MovesIs
    <3>2. Turns(t, "drain", arg[t])
      BY <1>1, <2>1, <2>3, <3>1 DEF Turns, Stay
    <3>. QED
      BY <3>2
  <2>. QED
    BY <1>4, <2>2, <2>3 DEF RejectPush
<1>5. CASE ~ stop /\ AcceptPush(t) /\ (arg[t].op = "StateBlock" => FitsCount(0))
           /\ (arg[t].op # "StateBlock" => Fits(arg[t].chunk.bytes))
  <2>1. Room(arg[t].chunk.bytes)
    BY <1>2, <1>5, ArgKinds DEF Room, Fits, FitsCount
  <2>2. /\ queue' = Append(queue, Pushed(t))
        /\ queuedBytes' = queuedBytes + arg[t].chunk.bytes
        /\ Numbers /\ Stamps(arg[t].chunk.res) /\ held' = held \cup {nextSeq}
        /\ Return(t)
        /\ UNCHANGED <<inFlight, stop, lastReplayed>>
    BY <1>5 DEF AcceptPush, Pushed, Numbers, Stamps, PublishAccepted
  <2>3. Moves(t, "idle", Idle) /\ Leaves(t)
    BY <2>2, ReturnIs
  <2>4. Accepts(t)
    BY <1>1, <1>5, <2>1, <2>2, <2>3 DEF Accepts, wvars
  <2>. QED
    BY <2>4
<1>. QED
  BY <1>3, <1>4, <1>5 DEF Push

\* A reservation: it sleeps, is refused or is made.
LEMMA ReserveKind ==
  ASSUME Shared, Local, Stages, NEW t \in Threads, Reserve(t)
  PROVE  Rests \/ Ends(t) \/ Reserves(t)
<1>1. /\ pc[t] = "reserve"
      /\ UNCHANGED <<lastQueued, lastReplayed, accepting, stopping, poisoned, terminal, wvars,
                     hvars, down>>
  BY DEF Reserve
<1>2. CASE UNCHANGED <<qvars, nextSeq, tvars>>
  BY <1>1, <1>2 DEF Rests, gvars, qvars, wvars, tvars, hvars
<1>3. CASE Return(t) /\ UNCHANGED <<qvars, nextSeq, asleep>>
  <2>1. UNCHANGED gvars
    BY <1>1, <1>3 DEF gvars, qvars, wvars, hvars
  <2>2. Ends(t)
    BY <1>1, <1>3, <2>1, EndsIs
  <2>. QED
    BY <2>2
<1>4. CASE /\ ~ stop /\ Fits(arg[t].bytes)
           /\ queue' = Append(queue, Item("hole", nextSeq, {}, arg[t].bytes, 0))
           /\ queuedBytes' = queuedBytes + arg[t].bytes
           /\ nextSeq' = nextSeq + 1
           /\ Goto(t, "rotate") /\ With(t, [arg[t] EXCEPT !.seq = nextSeq]) /\ Stay
           /\ UNCHANGED <<inFlight, stop, asleep>>
  <2>1. Moves(t, "rotate", [arg[t] EXCEPT !.seq = nextSeq])
    BY <1>4, MovesIs
  <2>2. Room(arg[t].bytes)
    BY <1>4 DEF Room, Fits
  <2>3. Reserves(t)
    BY <1>1, <1>4, <2>1, <2>2 DEF Reserves, Placeholder, Numbers, Stay, wvars, hvars
  <2>. QED
    BY <2>3
<1>. QED
  BY <1>2, <1>3, <1>4 DEF Reserve

\* A reservation goes on to its commit, or is given up.
LEMMA RotateKind ==
  ASSUME Shared, Local, Stages, NEW t \in Threads, Rotate(t)
  PROVE  \E p, a : Turns(t, p, a)
<1>1. UNCHANGED gvars
  BY GlobalIs DEF Rotate
<1>2. PICK p \in {"commit", "unreserve"} : Goto(t, p)
  BY DEF Rotate
<1>3. Moves(t, p, arg[t])
  BY <1>2, MovesIs DEF Rotate
<1>4. Turns(t, p, arg[t])
  BY <1>1, <1>2, <1>3 DEF Turns, Rotate
<1>. QED
  BY <1>4

\* A reservation's place in the FIFO.
LEMMA ReservationIs ==
  ASSUME Shared, NEW s
  PROVE  \A i \in ReservationAt(s) : i \in 1..Len(queue) /\ IsHole(queue[i]) /\ queue[i].seq = s
BY ItemFields DEF Shared, ReservationAt

\* A reservation is released.
LEMMA ReleaseKind ==
  ASSUME Shared, Local, Stages, NEW t \in Threads, ReleaseMutation(t)
  PROVE  Ends(t) \/ \E k \in 1..Len(queue) : Releases(t, k)
<1>1. /\ pc[t] = "unreserve" /\ Return(t)
      /\ UNCHANGED <<inFlight, stop, lvars, terminal, wvars, hvars, down>>
  BY DEF ReleaseMutation
<1>2. CASE ReservationAt(arg[t].seq) = {}
  <2>1. UNCHANGED <<queue, queuedBytes>>
    BY <1>2 DEF ReleaseMutation
  <2>2. UNCHANGED gvars
    BY <1>1, <2>1 DEF gvars, lvars, wvars, hvars
  <2>3. Ends(t)
    BY <1>1, <2>2, EndsIs
  <2>. QED
    BY <2>3
<1>3. CASE ReservationAt(arg[t].seq) # {}
  <2>. DEFINE k == CHOOSE i \in ReservationAt(arg[t].seq) : TRUE
  <2>1. k \in ReservationAt(arg[t].seq)
    BY <1>3
  <2>2. queue' = RemoveAt(queue, k) /\ queuedBytes' = queuedBytes - queue[k].bytes
    BY <1>3 DEF ReleaseMutation, Credit
  <2>. HIDE DEF k
  <2>3. k \in 1..Len(queue) /\ IsHole(queue[k]) /\ queue[k].seq = arg[t].seq
    BY <2>1, ReservationIs
  <2>4. CutAt(queue, k, queue') /\ queue' \in Seq(Items)
    BY <2>2, <2>3, RemoveCut DEF Shared
  <2>5. Moves(t, "idle", Idle) /\ Leaves(t)
    BY <1>1, ReturnIs
  <2>6. Releases(t, k)
    BY <1>1, <2>2, <2>3, <2>4, <2>5 DEF Releases, lvars, wvars, hvars
  <2>. QED
    BY <2>3, <2>6
<1>. QED
  BY <1>2, <1>3

\* A reservation is committed.
LEMMA CommitKind ==
  ASSUME Shared, Local, Stages, NEW t \in Threads, CommitMutation(t)
  PROVE  Ends(t) \/ \E k \in 1..Len(queue) : Commits(t, k)
<1>1. /\ pc[t] = "commit" /\ Return(t)
      /\ UNCHANGED <<queuedBytes, inFlight, stop, nextSeq, lastReplayed, terminal, wvars,
                     pollOrdinal, effects, down>>
  BY DEF CommitMutation
<1>2. CASE ReservationAt(arg[t].seq) = {}
  <2>1. UNCHANGED <<queue, lastQueued, held>>
    BY <1>2 DEF CommitMutation
  <2>2. UNCHANGED gvars
    BY <1>1, <2>1 DEF gvars, wvars
  <2>3. Ends(t)
    BY <1>1, <2>2, EndsIs
  <2>. QED
    BY <2>3
<1>3. CASE ReservationAt(arg[t].seq) # {}
  <2>. DEFINE k == CHOOSE i \in ReservationAt(arg[t].seq) : TRUE
  <2>1. k \in ReservationAt(arg[t].seq)
    BY <1>3
  <2>2. /\ queue' = [queue EXCEPT ![k] = Mutation(t)]
        /\ lastQueued' = [lastQueued EXCEPT ![arg[t].buf] =
                            IF arg[t].seq > lastQueued[arg[t].buf] THEN arg[t].seq
                            ELSE lastQueued[arg[t].buf]]
        /\ held' = held \cup {arg[t].seq}
    BY <1>3 DEF CommitMutation, Mutation, PublishMutationAccepted
  <2>. HIDE DEF k
  <2>3. k \in 1..Len(queue) /\ IsHole(queue[k]) /\ queue[k].seq = arg[t].seq
    BY <2>1, ReservationIs
  <2>4. Mutation(t) \in Items
    <3>1. arg[t] \in MutationArgs
      BY <1>1, ArgFields
    <3>2. arg[t].buf \in Buffers /\ arg[t].bytes \in Nat /\ arg[t].seq \in Nat
      BY <3>1, ArgKinds
    <3>. QED
      BY <3>2 DEF Mutation, Items, Item, Targets
  <2>5. /\ queue' \in Seq(Items) /\ Len(queue') = Len(queue)
        /\ \A i \in 1..Len(queue) : queue'[i] = IF i = k THEN Mutation(t) ELSE queue[i]
    <3>1. queue \in Seq(Items)
      BY DEF Shared
    <3>. HIDE DEF Items, Mutation
    <3>. QED
      BY <2>2, <2>3, <2>4, <3>1, ReplaceEffect
  <2>6. Moves(t, "idle", Idle) /\ Leaves(t)
    BY <1>1, ReturnIs
  <2>7. Commits(t, k)
    BY <1>1, <2>2, <2>3, <2>5, <2>6 DEF Commits, wvars
  <2>. QED
    BY <2>3, <2>7
<1>. QED
  BY <1>2, <1>3

\* The steps of the global drain.
LEMMA DrainKind ==
  ASSUME Shared, Local, Stages, NEW t \in Threads, Drain(t) \/ WaitDrained(t) \/ Drained(t)
  PROVE  Rests \/ Ends(t) \/ \E p, a : Turns(t, p, a)
<1>1. ASSUME NEW ok \in BOOLEAN, pc[t] \in {"drain", "drained"}, AfterDrain(t, ok),
             UNCHANGED gvars, ok => pc[t] = "drained" /\ terminal = "Running",
             pc[t] = "drain" => terminal # "Running"
      PROVE  Ends(t) \/ \E p, a : Turns(t, p, a)
  <2>1. CASE arg[t].op = "Inline"
    <3>1. Goto(t, "inlineCheck") /\ UNCHANGED arg /\ Stay
      BY <1>1, <2>1 DEF AfterDrain
    <3>2. Moves(t, "inlineCheck", arg[t])
      BY <3>1, MovesIs
    <3>3. Turns(t, "inlineCheck", arg[t])
      BY <1>1, <2>1, <3>1, <3>2 DEF Turns, Stay
    <3>. QED
      BY <3>3
  <2>2. CASE arg[t].op # "Inline" /\ ok /\ arg[t].op # "Lost"
    <3>1. Goto(t, "inCall") /\ UNCHANGED arg /\ Stay
      BY <1>1, <2>2 DEF AfterDrain
    <3>2. Moves(t, "inCall", arg[t])
      BY <3>1, MovesIs
    <3>3. Turns(t, "inCall", arg[t])
      BY <1>1, <2>2, <3>1, <3>2 DEF Turns, Stay
    <3>. QED
      BY <3>3
  <2>3. CASE arg[t].op # "Inline" /\ ~ (ok /\ arg[t].op # "Lost")
    <3>1. Return(t)
      BY <1>1, <2>3 DEF AfterDrain
    <3>. QED
      BY <1>1, <3>1, EndsIs
  <2>. QED
    BY <2>1, <2>2, <2>3
<1>2. CASE Drain(t)
  <2>1. UNCHANGED gvars /\ pc[t] = "drain"
    BY <1>2, GlobalIs DEF Drain
  <2>2. CASE terminal # "Running"
    <3>1. AfterDrain(t, FALSE)
      BY <1>2, <2>2 DEF Drain
    <3>. QED
      BY <1>1, <2>1, <2>2, <3>1
  <2>3. CASE terminal = "Running"
    <3>. DEFINE p == IF queue = <<>> /\ ~inFlight THEN "drained" ELSE "drainWait"
    <3>1. Goto(t, p) /\ UNCHANGED arg /\ Stay
      BY <1>2, <2>3 DEF Drain
    <3>2. (p = "drained" /\ queue = <<>> /\ ~ inFlight) \/ p = "drainWait"
      OBVIOUS
    <3>. HIDE DEF p
    <3>3. Moves(t, p, arg[t])
      BY <3>1, MovesIs
    <3>4. Turns(t, p, arg[t])
      BY <2>1, <3>1, <3>2, <3>3 DEF Turns, Stay
    <3>. QED
      BY <3>4
  <2>. QED
    BY <2>2, <2>3
<1>3. CASE WaitDrained(t)
  <2>1. UNCHANGED gvars /\ pc[t] = "drainWait" /\ UNCHANGED <<arg, recorder, calls, issued>>
    BY <1>3, GlobalIs DEF WaitDrained
  <2>2. CASE Quiet
    <3>1. Goto(t, "drained")
      BY <1>3, <2>2 DEF WaitDrained
    <3>2. Moves(t, "drained", arg[t])
      BY <2>1, <3>1, MovesIs
    <3>3. Turns(t, "drained", arg[t])
      BY <2>1, <2>2, <3>2 DEF Turns
    <3>. QED
      BY <3>3
  <2>3. CASE ~ Quiet
    BY <1>3, <2>1, <2>3 DEF WaitDrained, Rests
  <2>. QED
    BY <2>2, <2>3
<1>4. CASE Drained(t)
  <2>1. UNCHANGED gvars /\ pc[t] = "drained"
    BY <1>4, GlobalIs DEF Drained
  <2>. DEFINE ok == ~stop /\ ~failed /\ terminal = "Running"
  <2>2. AfterDrain(t, ok) /\ ok \in BOOLEAN /\ (ok => terminal = "Running")
    BY <1>4 DEF Drained
  <2>. HIDE DEF ok
  <2>. QED
    BY <1>1, <2>1, <2>2
<1>. QED
  BY <1>2, <1>3, <1>4


\* The steps of a buffer's fence.
LEMMA BufferKind ==
  ASSUME Shared, Local, Stages, NEW t \in Threads, Pending(t) \/ LedgerWait(t)
  PROVE  Rests \/ \E p, a : Turns(t, p, a)
<1>1. /\ UNCHANGED gvars /\ UNCHANGED <<recorder, calls, issued>>
      /\ pc[t] \in {"pending", "ledgerWait"}
  BY GlobalIs DEF Pending, LedgerWait, Stay
<1>2. arg[t] \in BufferArgs("Buffer") /\ arg[t].buf \in Targets
  BY <1>1, ArgFields, ArgKinds DEF Targets
<1>3. lastQueued[arg[t].buf] \in Nat /\ lastReplayed[arg[t].buf] \in Nat
  BY <1>2 DEF Shared
<1>4. CASE Goto(t, "inCall") /\ UNCHANGED arg
           /\ lastQueued[arg[t].buf] <= lastReplayed[arg[t].buf]
  <2>1. Moves(t, "inCall", arg[t])
    BY <1>4, MovesIs
  <2>2. Turns(t, "inCall", arg[t])
    BY <1>1, <1>4, <2>1 DEF Turns
  <2>. QED
    BY <2>2
<1>5. CASE pc[t] = "pending" /\ Goto(t, "ledgerWait") /\ UNCHANGED arg
  <2>1. Moves(t, "ledgerWait", arg[t])
    BY <1>5, MovesIs
  <2>2. Turns(t, "ledgerWait", arg[t])
    BY <1>1, <1>5, <2>1 DEF Turns
  <2>. QED
    BY <2>2
<1>6. CASE pc[t] = "ledgerWait" /\ Goto(t, "drain") /\ With(t, [arg[t] EXCEPT !.op = "Lost"])
  <2>. DEFINE a == [arg[t] EXCEPT !.op = "Lost"]
  <2>1. a \in BufferArgs("Lost")
    BY <1>2 DEF BufferArgs
  <2>2. Moves(t, "drain", a)
    BY <1>6, MovesIs
  <2>. HIDE DEF a
  <2>3. Turns(t, "drain", a)
    BY <1>1, <1>6, <2>1, <2>2 DEF Turns
  <2>. QED
    BY <2>3
<1>7. CASE UNCHANGED <<pc, arg>>
  BY <1>1, <1>7 DEF Rests
<1>8. CASE Pending(t)
  <2>1. CASE lastQueued[arg[t].buf] > lastReplayed[arg[t].buf]
    <3>1. pc[t] = "pending" /\ Goto(t, "ledgerWait") /\ UNCHANGED arg
      BY <1>8, <2>1 DEF Pending
    <3>. QED
      BY <1>5, <3>1
  <2>2. CASE ~ (lastQueued[arg[t].buf] > lastReplayed[arg[t].buf])
    <3>1. Goto(t, "inCall") /\ UNCHANGED arg
      BY <1>8, <2>2 DEF Pending
    <3>2. lastQueued[arg[t].buf] <= lastReplayed[arg[t].buf]
      BY <1>3, <2>2
    <3>. QED
      BY <1>4, <3>1, <3>2
  <2>. QED
    BY <2>1, <2>2
<1>9. CASE LedgerWait(t)
  <2>1. \/ pc[t] = "ledgerWait" /\ Goto(t, "drain") /\ With(t, [arg[t] EXCEPT !.op = "Lost"])
        \/ Goto(t, "inCall") /\ UNCHANGED arg
           /\ lastQueued[arg[t].buf] <= lastReplayed[arg[t].buf]
        \/ UNCHANGED <<pc, arg>>
    BY <1>9 DEF LedgerWait
  <2>. QED
    BY <1>4, <1>6, <1>7, <2>1
<1>. QED
  BY <1>8, <1>9

\* The calls behind a fence end.
LEMMA FinishKind ==
  ASSUME Shared, Local, Stages, NEW t \in Threads,
         FinishCall(t) \/ ApplyThrows(t) \/ PollReturns(t)
  PROVE  Ends(t) \/ Applies(t) \/ Breaks(t)
<1>1. CASE FinishCall(t)
  <2>1. /\ pc[t] = "inCall" /\ Return(t)
        /\ UNCHANGED <<qvars, lvars, terminal, wvars, asleep, pollOrdinal, held, down>>
    BY <1>1 DEF FinishCall
  <2>2. CASE arg[t].op = "StateBlock"
    <3>1. effects' = Append(effects, Applied(t))
      BY <1>1, <2>2 DEF FinishCall, Applied
    <3>2. Moves(t, "idle", Idle) /\ Leaves(t)
      BY <2>1, ReturnIs
    <3>3. Applies(t)
      BY <2>1, <2>2, <3>1, <3>2 DEF Applies, qvars, lvars, wvars
    <3>. QED
      BY <3>3
  <2>3. CASE arg[t].op # "StateBlock"
    <3>1. UNCHANGED effects
      BY <1>1, <2>3 DEF FinishCall
    <3>2. UNCHANGED gvars
      BY <2>1, <3>1 DEF gvars, qvars, lvars, wvars
    <3>. QED
      BY <2>1, <3>2, EndsIs
  <2>. QED
    BY <2>2, <2>3
<1>2. CASE ApplyThrows(t)
  <2>1. /\ pc[t] = "inCall" /\ arg[t].op = "StateBlock" /\ terminal' = "Failed"
        /\ Goto(t, "poison")
        /\ UNCHANGED <<qvars, lvars, wvars, arg, recorder, calls, issued, hvars, down>>
    BY <1>2 DEF ApplyThrows
  <2>2. Moves(t, "poison", arg[t])
    BY <2>1, MovesIs
  <2>3. Breaks(t)
    BY <2>1, <2>2 DEF Breaks, qvars, lvars, wvars, hvars
  <2>. QED
    BY <2>3
<1>3. CASE PollReturns(t)
  <2>1. UNCHANGED gvars /\ pc[t] = "poll" /\ Return(t)
    BY <1>3, GlobalIs DEF PollReturns
  <2>. QED
    BY <2>1, EndsIs
<1>. QED
  BY <1>1, <1>2, <1>3

\* A ready receipt's query was last written by the issue it captured.
LEMMA ReadyIs ==
  ASSUME Shared, Ledger, NEW q \in Queries, NEW n \in Nat, Classify(n, q) = "Ready"
  PROVE  lastReplayed[q] = n /\ pollOrdinal[q] = n /\ terminal = "Running"
<1>1. q \in Targets
  BY DEF Targets
<1>2. lastQueued[q] \in Nat /\ lastReplayed[q] \in Nat /\ pollOrdinal[q] \in Nat
  BY <1>1 DEF Shared
<1>3. /\ terminal = "Running" /\ ~ (n > lastQueued[q]) /\ ~ (lastReplayed[q] > lastQueued[q])
      /\ n = lastQueued[q] /\ lastReplayed[q] >= n
  BY DEF Classify
<1>4. lastReplayed[q] <= pollOrdinal[q] /\ pollOrdinal[q] <= lastQueued[q]
  BY DEF Ledger
<1>5. lastReplayed[q] = n /\ pollOrdinal[q] = n
  BY <1>2, <1>3, <1>4
<1>. QED
  BY <1>3, <1>5

\* The steps of a query's poll: a ready receipt always finds its own issue.
LEMMA ReceiptKind ==
  ASSUME Shared, Local, Stages, Ledger, NEW t \in Threads, ReceiptWait(t) \/ VisitReady(t)
  PROVE  Rests \/ Ends(t) \/ \E p, a : Turns(t, p, a)
<1>1. UNCHANGED gvars /\ pc[t] \in {"receiptWait", "visit"}
  BY GlobalIs DEF ReceiptWait, VisitReady
<1>2. arg[t].query \in Queries /\ arg[t].captured \in Nat
  BY <1>1, ArgFields, ArgKinds
<1>3. CASE Return(t)
  BY <1>1, <1>3, EndsIs
<1>4. CASE UNCHANGED <<pc, arg, recorder, calls, issued>>
  BY <1>1, <1>4 DEF Rests
<1>5. ASSUME NEW p, Goto(t, p), UNCHANGED arg, Stay,
             \/ pc[t] = "receiptWait" /\ p = "visit"
             \/ pc[t] = "visit" /\ p = "poll"
                /\ Classify(arg[t].captured, arg[t].query) = "Ready"
      PROVE  \E r, a : Turns(t, r, a)
  <2>1. Moves(t, p, arg[t])
    BY <1>5, MovesIs
  <2>2. Turns(t, p, arg[t])
    BY <1>1, <1>5, <2>1 DEF Turns, Stay
  <2>. QED
    BY <2>2
<1>6. CASE ReceiptWait(t)
  <2>1. \/ UNCHANGED <<pc, arg, recorder, calls, issued>>
        \/ Return(t)
        \/ pc[t] = "receiptWait" /\ Goto(t, "visit") /\ UNCHANGED arg /\ Stay
    BY <1>6 DEF ReceiptWait
  <2>. QED
    BY <1>3, <1>4, <1>5, <2>1
<1>7. CASE VisitReady(t)
  <2>1. CASE Classify(arg[t].captured, arg[t].query) # "Ready"
    BY <1>3, <1>7, <2>1 DEF VisitReady
  <2>2. CASE Classify(arg[t].captured, arg[t].query) = "Ready"
    <3>1. pollOrdinal[arg[t].query] = arg[t].captured
      BY <1>2, <2>2, ReadyIs
    <3>2. pc[t] = "visit" /\ Goto(t, "poll") /\ UNCHANGED arg /\ Stay
      BY <1>7, <2>2, <3>1 DEF VisitReady
    <3>. QED
      BY <1>5, <2>2, <3>2
  <2>. QED
    BY <2>1, <2>2
<1>. QED
  BY <1>6, <1>7

\* The steps of the inline lane.
LEMMA InlineKind ==
  ASSUME Shared, Local, Stages, NEW t \in Threads,
         PublishInline(t) \/ InlineReplay(t) \/ InlinePublish(t) \/ InlineFails(t)
           \/ ThreadPoison(t)
  PROVE  Ends(t) \/ Inlines(t) \/ Executes(t) \/ Settles(t) \/ Breaks(t) \/ Poisons(t)
<1>1. CASE PublishInline(t)
  <2>1. /\ pc[t] = "inlineCheck"
        /\ UNCHANGED <<qvars, terminal, wvars, pollOrdinal, effects, down>>
    BY <1>1 DEF PublishInline
  <2>2. CASE Return(t) /\ UNCHANGED <<lvars, held, asleep>>
    <3>1. UNCHANGED gvars
      BY <2>1, <2>2 DEF gvars, qvars, lvars, wvars
    <3>. QED
      BY <2>1, <2>2, <3>1, EndsIs
  <2>3. CASE /\ LedgerAdmits /\ PublishAccepted(arg[t].chunk.res)
             /\ held' = held \cup {nextSeq}
             /\ Goto(t, "inline") /\ With(t, [arg[t] EXCEPT !.seq = nextSeq]) /\ Stay
             /\ UNCHANGED <<lastReplayed, accepting, stopping, poisoned>>
    <3>1. Moves(t, "inline", [arg[t] EXCEPT !.seq = nextSeq])
      BY <2>3, MovesIs
    <3>2. Inlines(t)
      BY <2>1, <2>3, <3>1 DEF Inlines, LedgerAdmits, PublishAccepted, Numbers, Stamps, Stay,
         qvars, wvars
    <3>. QED
      BY <3>2
  <2>. QED
    BY <1>1, <2>2, <2>3 DEF PublishInline
<1>2. CASE InlineReplay(t)
  <2>1. /\ pc[t] = "inline" /\ Goto(t, "inlineDone")
        /\ UNCHANGED <<qvars, lvars, terminal, wvars, arg, recorder, calls, issued, asleep,
                       held, down>>
    BY <1>2 DEF InlineReplay
  <2>2. effects' = Append(effects, Inlined(t)) /\ Polls(arg[t].chunk.res, arg[t].seq)
    BY <1>2 DEF InlineReplay, Effect, Item, Inlined, Polls
  <2>3. Moves(t, "inlineDone", arg[t])
    BY <2>1, MovesIs
  <2>4. Executes(t)
    BY <2>1, <2>2, <2>3 DEF Executes, qvars, lvars, wvars
  <2>. QED
    BY <2>4
<1>3. CASE InlinePublish(t)
  <2>1. /\ pc[t] = "inlineDone" /\ lastReplayed' = Replayed(arg[t].chunk.res, arg[t].seq)
        /\ held' = held \ {arg[t].seq} /\ Return(t)
        /\ UNCHANGED <<qvars, nextSeq, lastQueued, accepting, stopping, poisoned, terminal,
                       wvars, pollOrdinal, effects, down>>
    BY <1>3 DEF InlinePublish
  <2>2. Moves(t, "idle", Idle) /\ Leaves(t)
    BY <2>1, ReturnIs
  <2>3. Settles(t)
    BY <2>1, <2>2 DEF Settles, qvars, wvars
  <2>. QED
    BY <2>3
<1>4. CASE InlineFails(t)
  <2>1. /\ pc[t] = "inline" /\ terminal' = "Failed" /\ Goto(t, "poison")
        /\ UNCHANGED <<qvars, lvars, wvars, arg, recorder, calls, issued, hvars, down>>
    BY <1>4 DEF InlineFails
  <2>2. Moves(t, "poison", arg[t])
    BY <2>1, MovesIs
  <2>3. Breaks(t)
    BY <2>1, <2>2 DEF Breaks, qvars, lvars, wvars, hvars
  <2>. QED
    BY <2>3
<1>5. CASE ThreadPoison(t)
  <2>1. /\ pc[t] = "poison" /\ Return(t)
        /\ held' = IF arg[t].op = "Inline" THEN held \ {arg[t].seq} ELSE held
        /\ UNCHANGED <<qvars, nextSeq, lastQueued, lastReplayed, stopping, terminal, wvars,
                       pollOrdinal, effects, down>>
    BY <1>5 DEF ThreadPoison
  <2>2. Moves(t, "idle", Idle) /\ Leaves(t)
    BY <2>1, ReturnIs
  <2>3. Poisons(t)
    BY <2>1, <2>2 DEF Poisons, qvars, wvars
  <2>. QED
    BY <2>3
<1>. QED
  BY <1>1, <1>2, <1>3, <1>4, <1>5

\* The steps of the worker.
LEMMA WorkKind ==
  ASSUME Shared, Local, Stages, Work
  PROVE  OtherKind
<1>1. CASE Pop
  <2>1. /\ wpc = "pop" /\ UNCHANGED <<lvars, terminal, failed, tvars, hvars, down>>
    BY <1>1 DEF Pop
  <2>2. CASE UNCHANGED <<qvars, wpc, witem>>
    BY <2>1, <2>2 DEF OtherKind, Rests, gvars, qvars, lvars, tvars, hvars
  <2>3. CASE stop /\ wpc' = "epilogue" /\ UNCHANGED <<qvars, witem, asleep>>
    BY <2>1, <2>3 DEF OtherKind, Quits, Alone, qvars, lvars, tvars, hvars
  <2>4. CASE /\ queue # <<>> /\ ~IsHole(queue[1])
             /\ witem' = Head(queue) /\ queue' = Tail(queue)
             /\ queuedBytes' = Credit(Head(queue).bytes)
             /\ inFlight' = TRUE /\ wpc' = "replay" /\ UNCHANGED stop
    <3>1. Tail(queue) \in Seq(Items) /\ CutAt(queue, 1, Tail(queue)) /\ Head(queue) = queue[1]
      BY <2>4, TailCut DEF Shared
    <3>2. Takes
      BY <2>1, <2>4, <3>1 DEF Takes, Alone, Credit, lvars, tvars, hvars
    <3>. QED
      BY <3>2 DEF OtherKind
  <2>. QED
    BY <1>1, <2>2, <2>3, <2>4 DEF Pop
<1>2. CASE Replay
  BY <1>2 DEF Replay, Effect, OtherKind, Plays, Carried, Polls, Alone, qvars, lvars, tvars
<1>3. CASE PublishReplayed
  BY <1>3 DEF PublishReplayed, OtherKind, Publishes, Alone, qvars, tvars, hvars
<1>4. CASE ReplayDone \/ Abandon
  BY <1>4 DEF ReplayDone, Abandon, MarkReplayDone, OtherKind, Drops, Alone, lvars, tvars
<1>5. CASE ReplayFails
  BY <1>5 DEF ReplayFails, OtherKind, Fails, Polls, Alone, qvars, lvars, tvars
<1>6. CASE NoteFailed \/ Poison
  BY <1>6 DEF NoteFailed, Poison, OtherKind, Stops, Alone, qvars, lvars, tvars, hvars
<1>7. CASE FailStop
  BY <1>7 DEF FailStop, OtherKind, Stops, Alone, lvars, tvars, hvars
<1>8. CASE Epilogue
  <2>1. DOMAIN queue = 1..Len(queue)
    BY ItemFields DEF Shared
  <2>. QED
    BY <1>8, <2>1 DEF Epilogue, DrainRemaining, OtherKind, Empties, Alone, lvars, tvars
<1>. QED
  BY <1>1, <1>2, <1>3, <1>4, <1>5, <1>6, <1>7, <1>8 DEF Work

\* The steps of the teardown.
LEMMA TeardownKind ==
  ASSUME Shared, Local, Stages, Teardown
  PROVE  OtherKind
<1>1. UNCHANGED <<wvars, tvars, pollOrdinal, effects>>
  BY DEF Teardown
<1>2. CASE /\ down = "up" /\ (\A t \in Threads : pc[t] = "idle") /\ down' = "drain"
           /\ UNCHANGED <<asleep, terminal, lvars, qvars, held>>
  BY <1>1, <1>2 DEF OtherKind, Falls, Alone, qvars, lvars, wvars, tvars
<1>3. CASE /\ down = "drain" /\ (down' = "ledger" \/ UNCHANGED down)
           /\ UNCHANGED <<terminal, lvars, qvars, held>>
  <2>1. CASE down' = "ledger"
    BY <1>1, <1>3, <2>1 DEF OtherKind, Falls, Alone, qvars, lvars, wvars, tvars
  <2>2. CASE UNCHANGED down
    BY <1>1, <1>3, <2>2 DEF OtherKind, Rests, gvars, qvars, lvars, wvars, tvars
  <2>. QED
    BY <1>3, <2>1, <2>2
<1>4. CASE /\ down = "ledger" /\ down' = "queue"
           /\ terminal' = (IF terminal = "Running" THEN "Stopped" ELSE terminal)
           /\ UNCHANGED <<nextSeq, lastQueued, lastReplayed, poisoned, qvars, held>>
  BY <1>1, <1>4 DEF OtherKind, Falls, Alone, qvars, wvars, tvars
<1>5. CASE /\ down = "queue" /\ down' = "join" /\ stop' = TRUE
           /\ UNCHANGED <<queue, queuedBytes, inFlight, terminal, lvars, held>>
  BY <1>1, <1>5 DEF OtherKind, Falls, Alone, lvars, wvars, tvars
<1>6. CASE /\ down = "join" /\ wpc = "exited" /\ down' = "gone" /\ DrainRemaining
           /\ UNCHANGED <<inFlight, stop, terminal, lvars>>
  <2>1. DOMAIN queue = 1..Len(queue)
    BY ItemFields DEF Shared
  <2>. QED
    BY <1>1, <1>6, <2>1 DEF DrainRemaining, OtherKind, Empties, Alone, lvars, wvars, tvars
<1>. QED
  BY <1>2, <1>3, <1>4, <1>5, <1>6 DEF Teardown

\* Every step is of one of the kinds.
LEMMA NextKinds ==
  ASSUME Shared, Local, Stages, Ledger, [Next]_vars
  PROVE  ThreadKind \/ OtherKind
<1>1. CASE UNCHANGED vars
  BY <1>1 DEF vars, qvars, lvars, wvars, tvars, hvars, OtherKind, Rests, gvars
<1>2. ASSUME NEW t \in Threads, Call(t) PROVE ThreadKind \/ OtherKind
  BY <1>2, CallKind DEF ThreadKind, OtherKind
<1>3. ASSUME NEW t \in Threads, Step(t) PROVE ThreadKind \/ OtherKind
  <2>. DEFINE Results == \/ Rests \/ (\E p, a : Turns(t, p, a)) \/ Ends(t) \/ Accepts(t)
                         \/ Reserves(t) \/ (\E k \in 1..Len(queue) : Releases(t, k) \/ Commits(t, k))
                         \/ Applies(t) \/ Inlines(t) \/ Executes(t) \/ Settles(t)
                         \/ Breaks(t) \/ Poisons(t)
  <2>1. Push(t) => Results
    BY PushKind
  <2>2. Reserve(t) \/ Rotate(t) => Results
    BY ReserveKind, RotateKind
  <2>3. ReleaseMutation(t) \/ CommitMutation(t) => Results
    BY ReleaseKind, CommitKind
  <2>4. Drain(t) \/ WaitDrained(t) \/ Drained(t) => Results
    BY DrainKind
  <2>5. Pending(t) \/ LedgerWait(t) => Results
    BY BufferKind
  <2>6. FinishCall(t) \/ ApplyThrows(t) \/ PollReturns(t) => Results
    BY FinishKind
  <2>7. ReceiptWait(t) \/ VisitReady(t) => Results
    BY ReceiptKind
  <2>8. PublishInline(t) \/ InlineReplay(t) \/ InlinePublish(t) \/ InlineFails(t)
          \/ ThreadPoison(t) => Results
    BY InlineKind
  <2>9. Results => ThreadKind \/ OtherKind
    BY DEF ThreadKind, OtherKind
  <2>. HIDE DEF Results
  <2>. QED
    BY <1>3, <2>1, <2>2, <2>3, <2>4, <2>5, <2>6, <2>7, <2>8, <2>9 DEF Step
<1>4. CASE Gone
  BY <1>4, <1>1 DEF Gone
<1>. QED
  BY <1>1, <1>2, <1>3, <1>4, WorkKind, TeardownKind DEF Next


\* The flags keep their types, whatever the step.
LEMMA FlagsStep ==
  ASSUME Flags, [Next]_vars
  PROVE  Flags'
<1> DEFINE Sleepers == Threads \cup {Worker, "owner"}
           Books == UNCHANGED <<accepting, stopping, poisoned, failed>>
<1>1. asleep \subseteq Sleepers /\ accepting \in BOOLEAN /\ stopping \in BOOLEAN
        /\ poisoned \in BOOLEAN /\ failed \in BOOLEAN
  BY DEF Flags
<1>2. ASSUME Books, \/ UNCHANGED asleep
                    \/ \E S : asleep' = asleep \ S
                    \/ \E x \in Sleepers : asleep' = asleep \cup {x}
      PROVE  Flags'
  BY <1>1, <1>2 DEF Flags
<1>3. CASE UNCHANGED vars
  BY <1>2, <1>3 DEF vars, lvars, wvars
<1>4. ASSUME NEW t \in Threads, Call(t) PROVE Flags'
  <2>1. \A kind : Enter(t, kind) => Books /\ UNCHANGED asleep
    BY DEF Enter, lvars, wvars
  <2>. QED
    BY <1>2, <1>4, <2>1 DEF Call, CommitChunk, StateBlockApply, Lock, Unlock, UnlockNoOverwrite,
       DirectCall, GetData
<1>5. ASSUME NEW t \in Threads, Step(t) PROVE Flags'
  <2>. DEFINE Calm == \/ UNCHANGED asleep
                      \/ \E S : asleep' = asleep \ S
                      \/ \E x \in Sleepers : asleep' = asleep \cup {x}
  <2>0. Sleep(t) => Calm
    BY DEF Sleep
  <2>1. CASE Push(t)
    <3>1. Books
      BY <2>1 DEF Push, RejectPush, AcceptPush, lvars, wvars
    <3>2. Calm
      <4>1. RejectPush(t) => UNCHANGED asleep
        BY DEF RejectPush
      <4>2. AcceptPush(t) => \E S : asleep' = asleep \ S
        BY DEF AcceptPush
      <4>. HIDE DEF Sleepers
      <4>. QED
        BY <2>0, <2>1, <4>1, <4>2 DEF Push
    <3>. QED
      BY <1>2, <3>1, <3>2
  <2>2. CASE Reserve(t)
    BY <1>2, <2>0, <2>2 DEF Reserve, lvars, wvars
  <2>3. CASE Rotate(t)
    BY <1>2, <2>3 DEF Rotate, lvars, wvars
  <2>4. CASE ReleaseMutation(t)
    BY <1>2, <2>4 DEF ReleaseMutation, lvars, wvars
  <2>5. CASE CommitMutation(t)
    <3>1. Books
      BY <2>5 DEF CommitMutation, wvars
    <3>2. UNCHANGED asleep \/ \E S : asleep' = asleep \ S
      BY <2>5 DEF CommitMutation
    <3>. QED
      BY <1>2, <3>1, <3>2
  <2>6. CASE Drain(t) \/ WaitDrained(t) \/ Drained(t)
    BY <1>2, <2>0, <2>6 DEF Drain, WaitDrained, Drained, lvars, wvars
  <2>7. CASE Pending(t) \/ LedgerWait(t)
    BY <1>2, <2>0, <2>7 DEF Pending, LedgerWait, lvars, wvars
  <2>8. CASE FinishCall(t) \/ ApplyThrows(t) \/ PollReturns(t)
    BY <1>2, <2>8 DEF FinishCall, ApplyThrows, PollReturns, lvars, wvars
  <2>9. CASE ReceiptWait(t) \/ VisitReady(t)
    BY <1>2, <2>0, <2>9 DEF ReceiptWait, VisitReady, lvars, wvars
  <2>10. CASE PublishInline(t)
    BY <1>2, <2>10 DEF PublishInline, lvars, wvars
  <2>11. CASE InlineReplay(t) \/ InlinePublish(t) \/ InlineFails(t)
    BY <1>2, <2>11 DEF InlineReplay, InlinePublish, InlineFails, lvars, wvars
  <2>12. CASE ThreadPoison(t)
    <3>1. /\ accepting' \in BOOLEAN /\ poisoned' \in BOOLEAN /\ UNCHANGED <<stopping, failed>>
          /\ \E S : asleep' = asleep \ S
      BY <2>12 DEF ThreadPoison, wvars
    <3>. QED
      BY <1>1, <3>1 DEF Flags
  <2>. QED
    BY <1>5, <2>1, <2>2, <2>3, <2>4, <2>5, <2>6, <2>7, <2>8, <2>9, <2>10, <2>11, <2>12 DEF Step
<1>6. CASE Work
  <2>0. Sleep(Worker) => \E x \in Sleepers : asleep' = asleep \cup {x}
    BY DEF Sleep
  <2>1. CASE Pop
    BY <1>2, <2>0, <2>1 DEF Pop, lvars
  <2>2. CASE Replay \/ PublishReplayed \/ ReplayDone \/ Abandon
    BY <1>2, <2>2 DEF Replay, PublishReplayed, ReplayDone, Abandon, MarkReplayDone, lvars
  <2>3. CASE ReplayFails \/ FailStop \/ Epilogue
    BY <1>2, <2>3 DEF ReplayFails, FailStop, Epilogue, DrainRemaining, lvars
  <2>4. CASE NoteFailed
    <3>1. failed' = TRUE /\ UNCHANGED <<lvars, asleep>>
      BY <2>4 DEF NoteFailed
    <3>. QED
      BY <1>1, <3>1 DEF Flags, lvars
  <2>5. CASE Poison
    <3>1. /\ accepting' \in BOOLEAN /\ poisoned' \in BOOLEAN /\ UNCHANGED <<stopping, failed>>
          /\ \E S : asleep' = asleep \ S
      BY <2>5 DEF Poison
    <3>. QED
      BY <1>1, <3>1 DEF Flags
  <2>. QED
    BY <1>6, <2>1, <2>2, <2>3, <2>4, <2>5 DEF Work
<1>7. CASE Teardown
  <2>1. /\ UNCHANGED <<failed, poisoned>>
        /\ UNCHANGED accepting \/ accepting' = FALSE
        /\ UNCHANGED stopping \/ stopping' = TRUE
        /\ \/ UNCHANGED asleep
           \/ \E S : asleep' = asleep \ S
           \/ \E x \in Sleepers : asleep' = asleep \cup {x}
    BY <1>7 DEF Teardown, DrainRemaining, Sleep, lvars, wvars
  <2>. QED
    BY <1>1, <2>1 DEF Flags
<1>8. CASE Gone
  BY <1>3, <1>8 DEF Gone
<1>. QED
  BY <1>3, <1>4, <1>5, <1>6, <1>7, <1>8 DEF Next

\* Where a step takes the threads.
LEMMA MovesTo ==
  ASSUME Local, NEW t \in Threads, NEW p, NEW a, Moves(t, p, a)
  PROVE  /\ pc'[t] = p /\ arg'[t] = a /\ DOMAIN arg' = Threads
         /\ pc' = [pc EXCEPT ![t] = p]
         /\ \A u \in Threads : u # t => pc'[u] = pc[u] /\ arg'[u] = arg[u]
BY DEF Moves, Local

\* A call that goes on has the locals its place asks for.
LEMMA TurnsArgs ==
  ASSUME Local, NEW t \in Threads, NEW p, NEW a, Turns(t, p, a)
  PROVE  /\ p \in Places \ {"idle"} /\ a \in ArgsAt(p) /\ pc[t] # "idle"
         /\ a.op \in RecorderOps <=> arg[t].op \in RecorderOps
<1>1. CASE pc[t] = "ledgerWait" /\ p = "drain" /\ a \in BufferArgs("Lost")
  <2>1. arg[t].op = "Buffer" /\ a.op = "Lost"
    BY <1>1, ArgFields, ArgKinds
  <2>. QED
    BY <1>1, <2>1 DEF ArgsAt, Places, RecorderOps
<1>2. CASE a = arg[t]
  <2>. DEFINE w == arg[t]
  <2>1. \/ pc[t] = "push" /\ p = "drain" /\ w.op = "StateBlock"
        \/ pc[t] = "rotate" /\ p \in {"commit", "unreserve"}
        \/ pc[t] = "drain" /\ p \in {"drained", "drainWait"}
        \/ pc[t] = "drain" /\ p = "inlineCheck" /\ w.op = "Inline"
        \/ pc[t] = "drainWait" /\ p = "drained"
        \/ pc[t] = "drained" /\ p = "inlineCheck" /\ w.op = "Inline"
        \/ pc[t] = "drained" /\ p = "inCall" /\ w.op \notin {"Inline", "Lost"}
        \/ pc[t] = "pending" /\ p = "ledgerWait"
        \/ pc[t] \in {"pending", "ledgerWait"} /\ p = "inCall"
        \/ pc[t] = "receiptWait" /\ p = "visit"
        \/ pc[t] = "visit" /\ p = "poll"
        \/ pc[t] = "ledgerWait" /\ p = "drain" /\ w \in BufferArgs("Lost")
    BY <1>2 DEF Turns
  <2>2. /\ pc[t] = "push" => w \in ChunkArgs \cup StateArgs
        /\ pc[t] \in {"reserve", "rotate", "commit", "unreserve"} => w \in MutationArgs
        /\ pc[t] \in {"drain", "drainWait", "drained"} =>
             w \in InlineArgs \cup StateArgs \cup BufferArgs("Lost") \cup DirectArgs
        /\ pc[t] \in {"pending", "ledgerWait"} => w \in BufferArgs("Buffer")
        /\ pc[t] \in {"receiptWait", "visit", "poll"} => w \in QueryArgs
    BY ArgFields
  <2>3. /\ w \in ChunkArgs => w.op = "Chunk"
        /\ w \in StateArgs => w.op = "StateBlock"
        /\ w \in InlineArgs => w.op = "Inline"
        /\ w \in BufferArgs("Lost") => w.op = "Lost"
        /\ w \in DirectArgs => w.op = "Direct"
    BY ArgKinds
  <2>. HIDE DEF w
  <2>4. /\ p = "drain" \/ p = "drainWait" \/ p = "drained" =>
             w \in InlineArgs \cup StateArgs \cup BufferArgs("Lost") \cup DirectArgs
        /\ p = "commit" \/ p = "unreserve" => w \in MutationArgs
        /\ p = "inlineCheck" => w \in InlineArgs
        /\ p = "inCall" => w \in StateArgs \cup BufferArgs("Buffer") \cup DirectArgs
        /\ p = "ledgerWait" => w \in BufferArgs("Buffer")
        /\ p = "visit" \/ p = "poll" => w \in QueryArgs
    BY <2>1, <2>2, <2>3
  <2>5. /\ p \in {"drain", "drainWait", "drained", "commit", "unreserve", "inlineCheck", "inCall",
                 "ledgerWait", "visit", "poll"}
        /\ pc[t] # "idle"
    BY <2>1
  <2>6. p \in Places \ {"idle"} /\ w \in ArgsAt(p)
    BY <2>4, <2>5 DEF ArgsAt, Places
  <2>. QED
    BY <1>2, <2>5, <2>6 DEF w
<1>. QED
  BY <1>1, <1>2 DEF Turns

\* What a push queues.
LEMMA PushedIs ==
  ASSUME Shared, Local, NEW t \in Threads, pc[t] = "push"
  PROVE  /\ arg[t] \in ChunkArgs \cup StateArgs /\ arg[t].op \in {"Chunk", "StateBlock"}
         /\ arg[t].chunk.res \subseteq Targets /\ arg[t].chunk.bytes \in Nat
         /\ arg[t].tick \in Nat /\ (arg[t].op = "StateBlock" => arg[t].chunk.res = {})
         /\ Pushed(t) \in Items /\ ~ IsHole(Pushed(t))
         /\ Pushed(t).kind = arg[t].op /\ Pushed(t).seq = nextSeq
         /\ Pushed(t).res = arg[t].chunk.res /\ Pushed(t).bytes = arg[t].chunk.bytes
         /\ Pushed(t).tick = arg[t].tick
<1>1. arg[t] \in ChunkArgs \cup StateArgs
  BY ArgFields
<1>2. /\ arg[t].op \in {"Chunk", "StateBlock"} /\ arg[t].chunk.res \subseteq Targets
      /\ arg[t].chunk.bytes \in Nat /\ arg[t].tick \in Nat
      /\ (arg[t].op = "StateBlock" => arg[t].chunk.res = {})
  BY <1>1, ArgKinds
<1>3. nextSeq \in Nat
  BY DEF Shared
<1>. QED
  BY <1>1, <1>2, <1>3 DEF Pushed, Item, Items, IsHole

\* What a reservation queues.
LEMMA PlaceholderIs ==
  ASSUME Shared, Local, NEW t \in Threads, pc[t] = "reserve"
  PROVE  /\ arg[t] \in MutationArgs /\ arg[t].bytes \in Nat
         /\ Placeholder(t) \in Items /\ IsHole(Placeholder(t))
         /\ Placeholder(t).seq = nextSeq /\ Placeholder(t).res = {}
         /\ Placeholder(t).bytes = arg[t].bytes /\ Placeholder(t).tick = 0
         /\ [arg[t] EXCEPT !.seq = nextSeq] \in MutationArgs
         /\ [arg[t] EXCEPT !.seq = nextSeq].seq = nextSeq
         /\ [arg[t] EXCEPT !.seq = nextSeq].bytes = arg[t].bytes
         /\ [arg[t] EXCEPT !.seq = nextSeq].op = "Mutation"
<1>1. arg[t] \in MutationArgs
  BY ArgFields
<1>2. arg[t].bytes \in Nat
  BY <1>1, ArgKinds
<1>3. nextSeq \in Nat
  BY DEF Shared
<1>. QED
  BY <1>1, <1>2, <1>3 DEF Placeholder, Item, Items, IsHole, MutationArgs

\* What a commit leaves in the FIFO.
LEMMA MutationIs ==
  ASSUME Shared, Local, NEW t \in Threads, Reserving(t)
  PROVE  /\ arg[t] \in MutationArgs /\ arg[t].buf \in Targets /\ arg[t].buf \in Buffers
         /\ arg[t].seq \in Nat /\ arg[t].bytes \in Nat /\ arg[t].op = "Mutation"
         /\ Mutation(t) \in Items /\ ~ IsHole(Mutation(t)) /\ Mutation(t).kind = "Mutation"
         /\ Mutation(t).seq = arg[t].seq /\ Mutation(t).res = {arg[t].buf}
         /\ Mutation(t).bytes = arg[t].bytes /\ Mutation(t).tick = 0
<1>1. arg[t] \in MutationArgs
  BY ArgFields DEF Reserving
<1>2. /\ arg[t].buf \in Buffers /\ arg[t].bytes \in Nat /\ arg[t].seq \in Nat
      /\ arg[t].op = "Mutation"
  BY <1>1, ArgKinds
<1>. QED
  BY <1>1, <1>2 DEF Mutation, Item, Items, IsHole, Targets

\* An inline chunk's locals, with its ordinal.
LEMMA InlineIs ==
  ASSUME Shared, Local, NEW t \in Threads, pc[t] \in {"inlineCheck", "inline", "inlineDone"}
  PROVE  /\ arg[t] \in InlineArgs /\ arg[t].op = "Inline" /\ arg[t].chunk.res \subseteq Targets
         /\ arg[t].tick \in Nat /\ arg[t].seq \in Nat /\ arg[t].chunk.inline
         /\ arg[t].chunk \in Chunks
         /\ [arg[t] EXCEPT !.seq = nextSeq] \in InlineArgs
         /\ [arg[t] EXCEPT !.seq = nextSeq].seq = nextSeq
         /\ [arg[t] EXCEPT !.seq = nextSeq].tick = arg[t].tick
         /\ [arg[t] EXCEPT !.seq = nextSeq].op = "Inline"
         /\ [arg[t] EXCEPT !.seq = nextSeq].chunk = arg[t].chunk
<1>1. arg[t] \in InlineArgs
  BY ArgFields
<1>2. /\ arg[t].op = "Inline" /\ arg[t].chunk.res \subseteq Targets
      /\ arg[t].tick \in Nat /\ arg[t].seq \in Nat /\ arg[t].chunk.inline
      /\ arg[t].chunk \in Chunks
  BY <1>1, ArgKinds
<1>3. nextSeq \in Nat
  BY DEF Shared
<1>. QED
  BY <1>1, <1>2, <1>3 DEF InlineArgs

\* The worker's item.
LEMMA ItemHeld ==
  ASSUME Stages, Busy
  PROVE  /\ witem \in Items /\ witem.seq \in Nat /\ witem.tick \in Nat
         /\ witem.res \subseteq Targets /\ witem.bytes \in Nat
BY DEF Stages, Items

\* The element that has nothing is no item.
LEMMA IdleIsNone == Idle \notin Items
<1>1. "kind" \in DOMAIN [kind |-> 0, seq |-> 0, res |-> 0, bytes |-> 0, tick |-> 0]
  OBVIOUS
<1>2. \A e \in Items : "kind" \in DOMAIN e
  BY DEF Items
<1>3. "kind" \notin DOMAIN Idle
  BY DEF Idle
<1>. QED
  BY <1>2, <1>3


\* What is taken from the FIFO is taken from its charge.
LEMMA CutCharge ==
  ASSUME Shared, Charged, NEW k \in 1..Len(queue), NEW u \in Seq(Items), CutAt(queue, k, u)
  PROVE  Charge(u) = queuedBytes - queue[k].bytes /\ Charge(u) \in Nat
<1>1. queue \in Seq(Items)
  BY DEF Shared
<1>2. Charge(u) = Charge(queue) - queue[k].bytes /\ Charge(u) \in Nat
  BY <1>1, ChargeCut, ChargeType
<1>. QED
  BY <1>2 DEF Charged

\* A thread's step keeps the types.
LEMMA SharedThread ==
  ASSUME Shared, Local, Stages, Charged, ThreadKind
  PROVE  Shared'
<1>1. PICK t \in Threads :
        \/ \E p, a : Programs(t, p, a) \/ Begins(t, p, a) \/ Turns(t, p, a)
        \/ Ends(t) \/ Accepts(t) \/ Reserves(t) \/ Applies(t) \/ Inlines(t) \/ Executes(t)
        \/ Settles(t) \/ Breaks(t) \/ Poisons(t)
        \/ \E k \in 1..Len(queue) : Releases(t, k) \/ Commits(t, k)
  BY DEF ThreadKind
<1>2. /\ queue \in Seq(Items) /\ queuedBytes \in Nat /\ nextSeq \in Nat \ {0}
      /\ lastQueued \in [Targets -> Nat] /\ lastReplayed \in [Targets -> Nat]
      /\ pollOrdinal \in [Queries -> Nat] /\ effects \in Seq(EffectType) /\ held \subseteq Nat
      /\ issued \in Nat /\ calls \in Nat
  BY DEF Shared
<1>3. ASSUME NEW p, NEW a, Programs(t, p, a) \/ Begins(t, p, a) \/ Turns(t, p, a)
      PROVE  Shared'
  <2>1. UNCHANGED gvars /\ issued' \in Nat /\ calls' \in Nat
    BY <1>2, <1>3 DEF Programs, Begins, Turns
  <2>. QED
    BY <2>1 DEF Shared, gvars
<1>4. CASE Ends(t)
  BY <1>4 DEF Ends, Leaves, Shared, gvars
<1>5. CASE Accepts(t)
  <2>1. Pushed(t) \in Items /\ arg[t].chunk.bytes \in Nat
    BY <1>5, PushedIs DEF Accepts
  <2>2. queue' \in Seq(Items)
    BY <1>2, <1>5, <2>1, AppendEffect DEF Accepts
  <2>3. queuedBytes' \in Nat /\ nextSeq' \in Nat \ {0} /\ held' \subseteq Nat
    BY <1>2, <1>5, <2>1 DEF Accepts, Numbers
  <2>4. lastQueued' \in [Targets -> Nat]
    BY <1>2, <1>5 DEF Accepts, Stamps
  <2>. QED
    BY <1>5, <2>2, <2>3, <2>4 DEF Accepts, Leaves, Shared
<1>6. CASE Reserves(t)
  <2>1. Placeholder(t) \in Items /\ arg[t].bytes \in Nat
    BY <1>6, PlaceholderIs DEF Reserves
  <2>2. queue' \in Seq(Items)
    BY <1>2, <1>6, <2>1, AppendEffect DEF Reserves
  <2>3. queuedBytes' \in Nat /\ nextSeq' \in Nat \ {0}
    BY <1>2, <1>6, <2>1 DEF Reserves, Numbers
  <2>. QED
    BY <1>6, <2>2, <2>3 DEF Reserves, Shared
<1>7. CASE Applies(t)
  <2>1. arg[t] \in StateArgs
    BY <1>7, OpPlaces DEF Applies
  <2>2. Applied(t) \in EffectType
    BY <2>1, ArgKinds DEF Applied, EffectType
  <2>3. effects' \in Seq(EffectType)
    BY <1>2, <1>7, <2>2, AppendEffect DEF Applies
  <2>. QED
    BY <1>7, <2>3 DEF Applies, Leaves, Shared
<1>8. CASE Inlines(t)
  <2>1. nextSeq' \in Nat \ {0} /\ held' \subseteq Nat
    BY <1>2, <1>8 DEF Inlines, Numbers
  <2>2. lastQueued' \in [Targets -> Nat]
    BY <1>2, <1>8 DEF Inlines, Stamps
  <2>. QED
    BY <1>8, <2>1, <2>2 DEF Inlines, Shared
<1>9. CASE Executes(t)
  <2>1. arg[t].seq \in Nat /\ arg[t].tick \in Nat
    BY <1>9, InlineIs DEF Executes
  <2>2. Inlined(t) \in EffectType
    BY <2>1 DEF Inlined, EffectType
  <2>3. effects' \in Seq(EffectType)
    BY <1>2, <1>9, <2>2, AppendEffect DEF Executes
  <2>4. pollOrdinal' \in [Queries -> Nat]
    BY <1>2, <1>9, <2>1 DEF Executes, Polls
  <2>. QED
    BY <1>9, <2>3, <2>4 DEF Executes, Shared
<1>10. CASE Settles(t)
  <2>1. arg[t].seq \in Nat
    BY <1>10, InlineIs DEF Settles
  <2>2. lastReplayed' \in [Targets -> Nat] /\ held' \subseteq Nat
    BY <1>2, <1>10, <2>1 DEF Settles, Replayed
  <2>. QED
    BY <1>10, <2>2 DEF Settles, Leaves, Shared
<1>11. CASE Breaks(t)
  BY <1>11 DEF Breaks, Shared
<1>12. CASE Poisons(t)
  <2>1. held' \subseteq Nat
    BY <1>2, <1>12 DEF Poisons
  <2>. QED
    BY <1>12, <2>1 DEF Poisons, Leaves, Shared
<1>13. ASSUME NEW k \in 1..Len(queue), Releases(t, k)
       PROVE  Shared'
  <2>1. queuedBytes' \in Nat
    BY <1>13, CutCharge DEF Releases
  <2>. QED
    BY <1>13, <2>1 DEF Releases, Leaves, Shared
<1>14. ASSUME NEW k \in 1..Len(queue), Commits(t, k)
       PROVE  Shared'
  <2>1. Reserving(t)
    BY <1>14 DEF Commits, Reserving
  <2>2. arg[t].buf \in Targets /\ arg[t].seq \in Nat
    BY <2>1, MutationIs
  <2>3. lastQueued' \in [Targets -> Nat] /\ held' \subseteq Nat
    BY <1>2, <1>14, <2>2 DEF Commits
  <2>. QED
    BY <1>14, <2>3 DEF Commits, Leaves, Shared
<1>. QED
  BY <1>1, <1>3, <1>4, <1>5, <1>6, <1>7, <1>8, <1>9, <1>10, <1>11, <1>12, <1>13, <1>14

\* A step of the worker or of the teardown keeps the types.
LEMMA SharedOther ==
  ASSUME Shared, Local, Stages, Charged, OtherKind
  PROVE  Shared'
<1>1. /\ queue \in Seq(Items) /\ queuedBytes \in Nat /\ nextSeq \in Nat \ {0}
      /\ lastQueued \in [Targets -> Nat] /\ lastReplayed \in [Targets -> Nat]
      /\ pollOrdinal \in [Queries -> Nat] /\ effects \in Seq(EffectType) /\ held \subseteq Nat
      /\ issued \in Nat /\ calls \in Nat /\ wpc \in WorkerPlaces
  BY DEF Shared
<1>2. Busy => witem \in Items /\ witem.seq \in Nat /\ witem.tick \in Nat
  BY ItemHeld
<1>3. CASE Rests \/ Refused
  <2>1. UNCHANGED gvars /\ issued' \in Nat /\ calls' \in Nat
    BY <1>1, <1>3 DEF Rests, Refused
  <2>. QED
    BY <2>1 DEF Shared, gvars
<1>4. CASE Takes
  <2>1. 1 \in 1..Len(queue) /\ queue[1] \in Items
    BY <1>1, <1>4 DEF Takes, CutAt
  <2>2. queuedBytes' \in Nat
    BY <1>4, <2>1, CutCharge DEF Takes
  <2>3. witem' \in Items /\ wpc' \in WorkerPlaces
    BY <1>4, <2>1 DEF Takes, WorkerPlaces
  <2>. QED
    BY <1>4, <2>2, <2>3 DEF Takes, Alone, Shared
<1>5. CASE Quits
  BY <1>5 DEF Quits, Alone, Shared, WorkerPlaces
<1>6. CASE Plays
  <2>1. Busy
    BY <1>6 DEF Plays, Busy
  <2>2. Carried \in EffectType
    BY <1>2, <2>1 DEF Carried, EffectType
  <2>3. effects' \in Seq(EffectType)
    BY <1>1, <1>6, <2>2, AppendEffect DEF Plays
  <2>4. pollOrdinal' \in [Queries -> Nat] /\ wpc' \in WorkerPlaces
    BY <1>1, <1>2, <1>6, <2>1 DEF Plays, Polls, WorkerPlaces
  <2>. QED
    BY <1>6, <2>3, <2>4 DEF Plays, Alone, Shared
<1>7. CASE Publishes
  <2>1. Busy
    BY <1>7 DEF Publishes, Busy
  <2>2. lastReplayed' \in [Targets -> Nat] /\ wpc' \in WorkerPlaces
    BY <1>1, <1>2, <1>7, <2>1 DEF Publishes, Replayed, WorkerPlaces
  <2>. QED
    BY <1>7, <2>2 DEF Publishes, Alone, Shared
<1>8. CASE Drops
  <2>1. held' \subseteq Nat /\ wpc' \in WorkerPlaces /\ witem' \in Items \cup {Idle}
    BY <1>1, <1>8 DEF Drops, WorkerPlaces
  <2>. QED
    BY <1>8, <2>1 DEF Drops, Alone, Shared
<1>9. CASE Fails
  <2>1. Busy
    BY <1>9 DEF Fails, Busy
  <2>2. pollOrdinal' \in [Queries -> Nat] /\ wpc' \in WorkerPlaces
    BY <1>1, <1>2, <1>9, <2>1 DEF Fails, Polls, WorkerPlaces
  <2>. QED
    BY <1>9, <2>2 DEF Fails, Alone, Shared
<1>10. CASE Stops
  <2>1. wpc' \in WorkerPlaces /\ stop' \in BOOLEAN
    BY <1>10 DEF Stops, WorkerPlaces, Shared
  <2>. QED
    BY <1>10, <2>1 DEF Stops, Alone, Shared
<1>11. CASE Empties
  <2>1. wpc' \in WorkerPlaces /\ held' \subseteq Nat /\ queuedBytes' \in Nat
    BY <1>1, <1>11 DEF Empties, WorkerPlaces
  <2>2. queue' \in Seq(Items)
    BY <1>11 DEF Empties
  <2>3. down' \in {"up", "drain", "ledger", "queue", "join", "gone"}
    BY <1>11 DEF Empties, Shared
  <2>. QED
    BY <1>11, <2>1, <2>2, <2>3 DEF Empties, Alone, Shared
<1>12. CASE Falls
  <2>1. /\ down' \in {"up", "drain", "ledger", "queue", "join", "gone"} /\ stop' \in BOOLEAN
        /\ terminal' \in {"Running", "Stopped", "Failed"}
    BY <1>12 DEF Falls, Shared
  <2>. QED
    BY <1>12, <2>1 DEF Falls, Alone, Shared
<1>. QED
  BY <1>3, <1>4, <1>5, <1>6, <1>7, <1>8, <1>9, <1>10, <1>11, <1>12 DEF OtherKind

\* The locals after a move.
LEMMA LocalMoves ==
  ASSUME Local, NEW t \in Threads, NEW p \in Places, NEW a \in ArgsAt(p), Moves(t, p, a),
         recorder' \in Threads \cup {Nobody}, recorder' = t <=> a.op \in RecorderOps,
         \A u \in Threads : u # t => (recorder' = u <=> recorder = u)
  PROVE  Local'
<1>1. /\ pc'[t] = p /\ arg'[t] = a /\ DOMAIN arg' = Threads
      /\ pc' = [pc EXCEPT ![t] = p]
      /\ \A u \in Threads : u # t => pc'[u] = pc[u] /\ arg'[u] = arg[u]
  BY MovesTo
<1>2. pc' \in [Threads -> Places]
  BY <1>1 DEF Local
<1>3. \A u \in Threads : arg'[u] \in ArgsAt(pc'[u])
  BY <1>1 DEF Local
<1>4. \A u \in Threads : recorder' = u <=> arg'[u].op \in RecorderOps
  BY <1>1 DEF Local
<1>5. Local' = ( /\ pc' \in [Threads -> Places] /\ DOMAIN arg' = Threads
                 /\ \A u \in Threads : arg'[u] \in ArgsAt(pc'[u])
                 /\ recorder' \in Threads \cup {Nobody}
                 /\ \A u \in Threads : recorder' = u <=> arg'[u].op \in RecorderOps )
  BY DEF Local
<1>. QED
  BY <1>1, <1>2, <1>3, <1>4, <1>5

\* The locals after a return.
LEMMA LocalLeaves ==
  ASSUME Local, NEW t \in Threads, Moves(t, "idle", Idle), Leaves(t)
  PROVE  Local'
<1>1. "idle" \in Places /\ Idle \in ArgsAt("idle") /\ Idle.op \notin RecorderOps
  BY ArgKinds DEF Places, ArgsAt, RecorderOps
<1>2. recorder \in Threads \cup {Nobody} /\ Nobody \notin Threads
  BY Bounds DEF Local
<1>3. recorder' = IF recorder = t THEN Nobody ELSE recorder
  BY DEF Leaves
<1>. QED
  BY <1>1, <1>2, <1>3, LocalMoves

\* The locals when the recorder mutex stays where it is.
LEMMA LocalStays ==
  ASSUME Local, NEW t \in Threads, NEW p \in Places, NEW a \in ArgsAt(p), Moves(t, p, a),
         UNCHANGED recorder, a.op \in RecorderOps <=> arg[t].op \in RecorderOps
  PROVE  Local'
<1>1. recorder \in Threads \cup {Nobody} /\ (recorder = t <=> arg[t].op \in RecorderOps)
  BY DEF Local
<1>. QED
  BY <1>1, LocalMoves

\* A thread's step keeps the locals in place.
LEMMA LocalThread ==
  ASSUME Shared, Local, Stages, ThreadKind
  PROVE  Local'
<1>1. PICK t \in Threads :
        \/ \E p, a : Programs(t, p, a) \/ Begins(t, p, a) \/ Turns(t, p, a)
        \/ Ends(t) \/ Accepts(t) \/ Reserves(t) \/ Applies(t) \/ Inlines(t) \/ Executes(t)
        \/ Settles(t) \/ Breaks(t) \/ Poisons(t)
        \/ \E k \in 1..Len(queue) : Releases(t, k) \/ Commits(t, k)
  BY DEF ThreadKind
<1>2. CASE Moves(t, "idle", Idle) /\ Leaves(t)
  BY <1>2, LocalLeaves
<1>3. CASE \/ Ends(t) \/ Accepts(t) \/ Applies(t) \/ Settles(t) \/ Poisons(t)
           \/ \E k \in 1..Len(queue) : Releases(t, k) \/ Commits(t, k)
  BY <1>2, <1>3 DEF Ends, Accepts, Applies, Settles, Poisons, Releases, Commits
<1>4. ASSUME NEW p, NEW a, Programs(t, p, a)
      PROVE  Local'
  <2>1. p \in Places /\ a \in ArgsAt(p)
    BY <1>4 DEF Programs, Places, ArgsAt
  <2>2. a.op \in RecorderOps
    BY <1>4, ArgKinds DEF Programs, RecorderOps
  <2>3. recorder = Nobody /\ recorder' = t /\ Moves(t, p, a) /\ Nobody \notin Threads
    BY <1>4, Bounds DEF Programs
  <2>. QED
    BY <2>1, <2>2, <2>3, LocalMoves
<1>5. ASSUME NEW p, NEW a, Begins(t, p, a)
      PROVE  Local'
  <2>1. p \in Places /\ a \in ArgsAt(p)
    BY <1>5 DEF Begins, Places, ArgsAt
  <2>2. a.op \notin RecorderOps
    BY <1>5, ArgKinds DEF Begins, RecorderOps
  <2>3. UNCHANGED recorder /\ Moves(t, p, a) /\ arg[t].op \notin RecorderOps
    BY <1>5, OpPlaces DEF Begins, RecorderOps
  <2>. QED
    BY <2>1, <2>2, <2>3, LocalStays
<1>6. ASSUME NEW p, NEW a, Turns(t, p, a)
      PROVE  Local'
  <2>1. /\ p \in Places /\ a \in ArgsAt(p)
        /\ a.op \in RecorderOps <=> arg[t].op \in RecorderOps
    BY <1>6, TurnsArgs
  <2>2. UNCHANGED recorder /\ Moves(t, p, a)
    BY <1>6 DEF Turns
  <2>. QED
    BY <2>1, <2>2, LocalStays
<1>7. CASE Reserves(t)
  <2>. DEFINE a == [arg[t] EXCEPT !.seq = nextSeq]
  <2>1. a \in MutationArgs /\ a.op = "Mutation" /\ arg[t].op = "Mutation"
    BY <1>7, PlaceholderIs, ArgKinds DEF Reserves
  <2>2. UNCHANGED recorder /\ Moves(t, "rotate", a)
    BY <1>7 DEF Reserves
  <2>. HIDE DEF a
  <2>3. "rotate" \in Places /\ a \in ArgsAt("rotate")
    BY <2>1 DEF Places, ArgsAt
  <2>. QED
    BY <2>1, <2>2, <2>3, LocalStays
<1>8. CASE Inlines(t)
  <2>. DEFINE a == [arg[t] EXCEPT !.seq = nextSeq]
  <2>1. a \in InlineArgs /\ a.op = "Inline" /\ arg[t].op = "Inline"
    BY <1>8, InlineIs DEF Inlines
  <2>2. UNCHANGED recorder /\ Moves(t, "inline", a)
    BY <1>8 DEF Inlines
  <2>. HIDE DEF a
  <2>3. "inline" \in Places /\ a \in ArgsAt("inline")
    BY <2>1 DEF Places, ArgsAt
  <2>. QED
    BY <2>1, <2>2, <2>3, LocalStays
<1>9. CASE Executes(t)
  <2>1. arg[t] \in InlineArgs
    BY <1>9, InlineIs DEF Executes
  <2>2. "inlineDone" \in Places /\ arg[t] \in ArgsAt("inlineDone")
    BY <2>1 DEF Places, ArgsAt
  <2>3. UNCHANGED recorder /\ Moves(t, "inlineDone", arg[t])
    BY <1>9 DEF Executes
  <2>. QED
    BY <2>2, <2>3, LocalStays
<1>10. CASE Breaks(t)
  <2>1. arg[t] \in InlineArgs \cup StateArgs
    BY <1>10, InlineIs, OpPlaces DEF Breaks
  <2>2. "poison" \in Places /\ arg[t] \in ArgsAt("poison")
    BY <2>1 DEF Places, ArgsAt
  <2>3. UNCHANGED recorder /\ Moves(t, "poison", arg[t])
    BY <1>10 DEF Breaks
  <2>. QED
    BY <2>2, <2>3, LocalStays
<1>. QED
  BY <1>1, <1>3, <1>4, <1>5, <1>6, <1>7, <1>8, <1>9, <1>10

\* The other steps leave the locals alone.
LEMMA LocalOther ==
  ASSUME Local, OtherKind
  PROVE  UNCHANGED <<pc, arg, recorder>> /\ Local'
<1>1. UNCHANGED <<pc, arg, recorder>>
  BY DEF OtherKind, Rests, Refused, Takes, Quits, Plays, Publishes, Drops, Fails, Stops, Empties,
     Falls, Alone
<1>2. Local' = ( /\ pc' \in [Threads -> Places] /\ DOMAIN arg' = Threads
                 /\ \A u \in Threads : arg'[u] \in ArgsAt(pc'[u])
                 /\ recorder' \in Threads \cup {Nobody}
                 /\ \A u \in Threads : recorder' = u <=> arg'[u].op \in RecorderOps )
  BY DEF Local
<1>. QED
  BY <1>1, <1>2 DEF Local


-----------------------------------------------------------------------------
(* The worker, a failure and the teardown. *)

\* A thread's step keeps the worker and the teardown where they stand to each other.
LEMMA StagesThread ==
  ASSUME Shared, Local, Stages, ThreadKind
  PROVE  Stages'
<1>1. PICK t \in Threads :
        \/ \E p, a : Programs(t, p, a) \/ Begins(t, p, a) \/ Turns(t, p, a)
        \/ Ends(t) \/ Accepts(t) \/ Reserves(t) \/ Applies(t) \/ Inlines(t) \/ Executes(t)
        \/ Settles(t) \/ Breaks(t) \/ Poisons(t)
        \/ \E k \in 1..Len(queue) : Releases(t, k) \/ Commits(t, k)
  BY DEF ThreadKind
<1>2. /\ UNCHANGED <<inFlight, wpc, witem, stop, down>>
      /\ UNCHANGED terminal \/ terminal' = "Failed"
  BY <1>1 DEF Programs, Begins, Turns, Ends, Accepts, Reserves, Applies, Inlines, Executes,
     Settles, Breaks, Poisons, Releases, Commits, gvars
<1>3. UNCHANGED queue \/ wpc # "exited"
  <2>1. CASE Accepts(t) \/ Reserves(t)
    <3>1. ~ stop
      BY <2>1 DEF Accepts, Reserves
    <3>. QED
      BY <3>1 DEF Stages
  <2>2. ASSUME NEW k \in 1..Len(queue), Releases(t, k) \/ Commits(t, k)
        PROVE  wpc # "exited"
    <3>1. queue # <<>>
      BY <2>2
    <3>. QED
      BY <3>1 DEF Stages
  <2>3. CASE \/ \E p, a : Programs(t, p, a) \/ Begins(t, p, a) \/ Turns(t, p, a)
             \/ Ends(t) \/ Applies(t) \/ Inlines(t) \/ Executes(t) \/ Settles(t) \/ Breaks(t)
             \/ Poisons(t)
    BY <2>3 DEF Programs, Begins, Turns, Ends, Applies, Inlines, Executes, Settles, Breaks,
       Poisons, gvars
  <2>. QED
    BY <1>1, <2>1, <2>2, <2>3
<1>4. down # "up" => \A u \in Threads : pc'[u] = "idle"
  <2>1. CASE pc[t] # "idle"
    BY <2>1 DEF Stages
  <2>2. CASE pc[t] = "idle"
    <3>1. \E p, a : Programs(t, p, a) \/ Begins(t, p, a)
      <4>1. ~ \E p, a : Turns(t, p, a)
        BY <2>2, TurnsArgs
      <4>2. ~ \/ Ends(t) \/ Accepts(t) \/ Reserves(t) \/ Applies(t) \/ Inlines(t) \/ Executes(t)
              \/ Settles(t) \/ Breaks(t) \/ Poisons(t)
              \/ \E k \in 1..Len(queue) : Releases(t, k) \/ Commits(t, k)
        BY <2>2 DEF Ends, Accepts, Reserves, Applies, Inlines, Executes, Settles, Breaks,
           Poisons, Releases, Commits
      <4>. QED
        BY <1>1, <4>1, <4>2
    <3>. QED
      BY <3>1 DEF Programs, Begins
  <2>. QED
    BY <2>1, <2>2
<1>5. Busy' = Busy
  BY <1>2 DEF Busy
<1>. QED
  BY <1>2, <1>3, <1>4, <1>5 DEF Stages

\* A step of the worker or of the teardown keeps them so too.
LEMMA StagesOther ==
  ASSUME Shared, Local, Stages, OtherKind
  PROVE  Stages'
<1>1. UNCHANGED pc
  BY LocalOther
<1>2. wpc \in WorkerPlaces /\ witem \in Items \cup {Idle} /\ queue \in Seq(Items)
  BY DEF Shared
<1>3. CASE Rests \/ Refused
  <2>1. UNCHANGED <<queue, inFlight, wpc, witem, stop, down, terminal>>
    BY <1>3 DEF Rests, Refused, gvars
  <2>. QED
    BY <1>1, <2>1 DEF Stages, Busy
<1>4. CASE Takes
  <2>1. queue[1] \in Items
    BY <1>2, <1>4 DEF Takes, CutAt
  <2>. QED
    BY <1>1, <1>4, <2>1 DEF Takes, Stages, Busy
<1>5. CASE Quits
  BY <1>1, <1>5 DEF Quits, Stages, Busy
<1>6. CASE Plays
  BY <1>1, <1>6 DEF Plays, Stages, Busy
<1>7. CASE Publishes
  BY <1>1, <1>7 DEF Publishes, Stages, Busy
<1>8. CASE Drops
  <2>1. ~ Busy' /\ witem' \notin Items /\ inFlight' = FALSE
    BY <1>8, IdleIsNone DEF Drops, Busy
  <2>2. UNCHANGED <<queue, stop, terminal, down>> /\ wpc' \in {"pop", "epilogue"}
    BY <1>8 DEF Drops
  <2>3. wpc' = "epilogue" => stop
    BY <1>8 DEF Drops, Stages
  <2>4. inFlight' = Busy' /\ (witem' \in Items <=> Busy')
    <3>1. Busy' = FALSE
      BY <2>2 DEF Busy
    <3>2. inFlight' = FALSE /\ ~ (witem' \in Items)
      BY <2>1
    <3>. QED
      BY <3>1, <3>2
  <2>5. /\ stop => terminal = "Failed" \/ down # "up"
        /\ down # "up" => \A t \in Threads : pc[t] = "idle"
    BY DEF Stages
  <2>. QED
    BY <1>1, <2>2, <2>3, <2>4, <2>5 DEF Stages
<1>9. CASE Fails
  BY <1>1, <1>9 DEF Fails, Stages, Busy
<1>10. CASE Stops
  BY <1>1, <1>10 DEF Stops, Stages, Busy
<1>11. CASE Empties
  BY <1>1, <1>11 DEF Empties, Stages, Busy
<1>12. CASE Falls
  <2>1. UNCHANGED <<queue, inFlight, wpc, witem>>
    BY <1>12 DEF Falls
  <2>2. terminal = "Failed" => terminal' = "Failed"
    BY <1>12 DEF Falls
  <2>3. down # "up" => down' # "up"
    BY <1>12 DEF Falls
  <2>4. stop' => terminal' = "Failed" \/ down' # "up"
    BY <1>12, <2>2, <2>3 DEF Falls, Stages
  <2>5. stop => stop'
    BY <1>12 DEF Falls
  <2>6. down' # "up" => \A t \in Threads : pc[t] = "idle"
    BY <1>12 DEF Falls, Stages
  <2>. QED
    BY <1>1, <2>1, <2>2, <2>4, <2>5, <2>6 DEF Stages, Busy
<1>. QED
  BY <1>3, <1>4, <1>5, <1>6, <1>7, <1>8, <1>9, <1>10, <1>11, <1>12 DEF OtherKind

-----------------------------------------------------------------------------
(* The order of the FIFO. *)

\* Ordinals, calls and the last ordinal of a target only grow.
Grows ==
  /\ nextSeq <= nextSeq' /\ issued <= issued'
  /\ \A r \in Targets : lastQueued[r] <= lastQueued'[r]

\* Every step lets them grow.
LEMMA StepGrows ==
  ASSUME Shared, Local, Ledger, ThreadKind \/ OtherKind
  PROVE  Grows
<1>1. /\ nextSeq \in Nat /\ issued \in Nat
      /\ \A r \in Targets : lastQueued[r] \in Nat /\ lastQueued[r] < nextSeq
  BY DEF Shared, Ledger
<1> DEFINE Counts == (nextSeq' = nextSeq \/ nextSeq' = nextSeq + 1)
                      /\ (issued' = issued \/ issued' = issued + 1)
           Stamped == \/ UNCHANGED lastQueued
                      \/ \E res : Stamps(res)
                      \/ \E t \in Threads, k \in 1..Len(queue) : Commits(t, k)
<1>2. Counts /\ Stamped
  <2>1. ASSUME NEW t \in Threads,
               \/ \E p, a : Programs(t, p, a) \/ Begins(t, p, a) \/ Turns(t, p, a)
               \/ Ends(t) \/ Applies(t) \/ Executes(t) \/ Settles(t) \/ Breaks(t) \/ Poisons(t)
               \/ \E k \in 1..Len(queue) : Releases(t, k)
        PROVE  Counts /\ Stamped
    BY <2>1 DEF Programs, Begins, Turns, Ends, Applies, Executes, Settles, Breaks, Poisons,
       Releases, Leaves, gvars
  <2>2. ASSUME NEW t \in Threads, Accepts(t) \/ Reserves(t) \/ Inlines(t)
        PROVE  Counts /\ Stamped
    BY <2>2 DEF Accepts, Reserves, Inlines, Leaves, Numbers
  <2>3. ASSUME NEW t \in Threads, NEW k \in 1..Len(queue), Commits(t, k)
        PROVE  Counts /\ Stamped
    <3>1. Counts
      BY <2>3 DEF Commits, Leaves
    <3>. QED
      BY <2>3, <3>1
  <2>4. ThreadKind => Counts /\ Stamped
    <3>. HIDE DEF Counts, Stamped
    <3>. QED
      BY <2>1, <2>2, <2>3 DEF ThreadKind
  <2>5. CASE OtherKind
    <3>1. UNCHANGED <<nextSeq, lastQueued>> /\ (issued' = issued \/ issued' = issued + 1)
      BY <2>5 DEF OtherKind, Rests, Refused, Takes, Quits, Plays, Publishes, Drops, Fails, Stops,
         Empties, Falls, Alone, gvars
    <3>. QED
      BY <3>1
  <2>. QED
    BY <2>4, <2>5
<1>4. \A r \in Targets : lastQueued[r] <= lastQueued'[r]
  <2>1. CASE UNCHANGED lastQueued
    BY <1>1, <2>1
  <2>2. ASSUME NEW res, Stamps(res)
        PROVE  \A r \in Targets : lastQueued[r] <= lastQueued'[r]
    <3>. SUFFICES ASSUME NEW r \in Targets PROVE lastQueued[r] <= lastQueued'[r]
      OBVIOUS
    <3>1. lastQueued'[r] = IF r \in res THEN nextSeq ELSE lastQueued[r]
      BY <2>2 DEF Stamps
    <3>2. lastQueued[r] \in Nat /\ lastQueued[r] < nextSeq
      BY <1>1
    <3>. QED
      BY <1>1, <3>1, <3>2
  <2>3. ASSUME NEW t \in Threads, NEW k \in 1..Len(queue), Commits(t, k)
        PROVE  \A r \in Targets : lastQueued[r] <= lastQueued'[r]
    <3>1. arg[t].seq \in Nat /\ arg[t].buf \in Targets
      BY <2>3, MutationIs DEF Commits, Reserving
    <3>. DEFINE s == arg[t].seq
                b == arg[t].buf
    <3>2. lastQueued' = [lastQueued EXCEPT ![b] = IF s > lastQueued[b] THEN s ELSE lastQueued[b]]
      BY <2>3 DEF Commits
    <3>3. DOMAIN lastQueued = Targets
      BY DEF Shared
    <3>. HIDE DEF s, b
    <3>. SUFFICES ASSUME NEW r \in Targets PROVE lastQueued[r] <= lastQueued'[r]
      OBVIOUS
    <3>4. CASE r = b
      <4>1. lastQueued'[r] = IF s > lastQueued[b] THEN s ELSE lastQueued[b]
        BY <3>2, <3>3, <3>4
      <4>2. s \in Nat /\ lastQueued[b] \in Nat
        BY <1>1, <3>1, <3>4 DEF s
      <4>. QED
        BY <3>4, <4>1, <4>2
    <3>5. CASE r # b
      <4>1. lastQueued'[r] = lastQueued[r]
        BY <3>2, <3>3, <3>5
      <4>. QED
        BY <1>1, <4>1
    <3>. QED
      BY <3>4, <3>5
  <2>. QED
    BY <1>2, <2>1, <2>2, <2>3
<1>. HIDE DEF Stamped
<1>. QED
  BY <1>1, <1>2, <1>4 DEF Grows


\* An element stays sound as long as ordinals, calls and targets only grow.
LEMMA SoundGrows ==
  ASSUME Shared, Shared', Grows, NEW e \in Items, Sound(e)
  PROVE  SoundAt(e, nextSeq', issued', lastQueued')
<1>1. /\ nextSeq \in Nat /\ issued \in Nat /\ nextSeq' \in Nat /\ issued' \in Nat
      /\ nextSeq <= nextSeq' /\ issued <= issued'
  BY DEF Shared, Grows
<1>2. e.seq \in 1..(nextSeq - 1) /\ e.tick <= issued
  BY DEF Sound, SoundAt
<1>3. e.seq \in Nat /\ e.tick \in Nat /\ e.res \subseteq Targets
  BY DEF Items
<1>4. e.seq \in 1..(nextSeq' - 1) /\ e.tick <= issued'
  BY <1>1, <1>2, <1>3
<1>5. e.kind # "hole" => \A r \in e.res : e.seq <= lastQueued'[r]
  <2>. SUFFICES ASSUME e.kind # "hole", NEW r \in e.res PROVE e.seq <= lastQueued'[r]
    OBVIOUS
  <2>1. e.seq <= lastQueued[r] /\ r \in Targets
    BY <1>3 DEF Sound, SoundAt
  <2>2. lastQueued[r] <= lastQueued'[r]
    BY <2>1 DEF Grows
  <2>3. lastQueued[r] \in Nat /\ lastQueued'[r] \in Nat
    BY <2>1 DEF Shared
  <2>. QED
    BY <1>3, <2>1, <2>2, <2>3
<1>. QED
  BY <1>4, <1>5 DEF Sound, SoundAt

\* What is in the FIFO or with the worker stays sound.
LEMMA StaySound ==
  ASSUME Shared, Shared', Stages, Ordered, Grows
  PROVE  /\ \A i \in 1..Len(queue) : SoundAt(queue[i], nextSeq', issued', lastQueued')
         /\ Busy => SoundAt(witem, nextSeq', issued', lastQueued')
<1>1. \A i \in 1..Len(queue) : queue[i] \in Items /\ Sound(queue[i])
  BY ItemFields DEF Shared, Ordered
<1>2. Busy => witem \in Items /\ Sound(witem)
  BY ItemHeld DEF Ordered
<1>3. \A e \in Items : Sound(e) => SoundAt(e, nextSeq', issued', lastQueued')
  BY SoundGrows
<1>. QED
  BY <1>1, <1>2, <1>3

\* The FIFO and the worker's item are left as they are, or the item goes.
LEMMA OrderedSame ==
  ASSUME Shared, Shared', Stages, Ordered, Grows, UNCHANGED queue,
         Busy' => Busy /\ witem' = witem
  PROVE  Ordered'
<1>1. /\ \A i \in 1..Len(queue) : SoundAt(queue[i], nextSeq', issued', lastQueued')
      /\ Busy => SoundAt(witem, nextSeq', issued', lastQueued')
  BY StaySound
<1>2. Busy' => ~ IsHole(witem') /\ \A i \in 1..Len(queue) : Before(witem', queue[i])
  BY DEF Ordered
<1>3. \A i, j \in 1..Len(queue) : i < j => Before(queue[i], queue[j])
  BY DEF Ordered
<1>4. Ordered' = ( /\ \A i \in 1..Len(queue') : SoundAt(queue'[i], nextSeq', issued', lastQueued')
                   /\ \A i, j \in 1..Len(queue') : i < j => Before(queue'[i], queue'[j])
                   /\ Busy' => SoundAt(witem', nextSeq', issued', lastQueued') /\ ~ IsHole(witem')
                   /\ Busy' => \A i \in 1..Len(queue') : Before(witem', queue'[i]) )
  BY DEF Ordered, Sound
<1>. QED
  BY <1>1, <1>2, <1>3, <1>4

\* A younger element is appended.
LEMMA OrderedAppend ==
  ASSUME Shared, Shared', Stages, Ordered, Grows, NEW e \in Items, queue' = Append(queue, e),
         SoundAt(e, nextSeq', issued', lastQueued'), UNCHANGED <<wpc, witem>>,
         \A i \in 1..Len(queue) : Before(queue[i], e), Busy => Before(witem, e)
  PROVE  Ordered'
<1> DEFINE n == Len(queue)
<1>1. /\ n \in Nat /\ Len(queue') = n + 1 /\ queue'[n + 1] = e
      /\ \A i \in 1..n : queue'[i] = queue[i]
  BY AppendEffect, DomainLen DEF Shared
<1>2. /\ \A i \in 1..n : SoundAt(queue[i], nextSeq', issued', lastQueued')
      /\ Busy => SoundAt(witem, nextSeq', issued', lastQueued')
  BY StaySound
<1>3. /\ \A i, j \in 1..n : i < j => Before(queue[i], queue[j])
      /\ Busy => ~ IsHole(witem) /\ \A i \in 1..n : Before(witem, queue[i])
      /\ \A i \in 1..n : Before(queue[i], e)
  BY DEF Ordered
<1>. HIDE DEF n
<1>4. \A i \in 1..(n + 1) : i \in 1..n \/ i = n + 1
  BY <1>1
<1>5. \A i \in 1..(n + 1) : SoundAt(queue'[i], nextSeq', issued', lastQueued')
  BY <1>1, <1>2, <1>4
<1>6. \A i, j \in 1..(n + 1) : i < j => Before(queue'[i], queue'[j])
  <2>. SUFFICES ASSUME NEW i \in 1..(n + 1), NEW j \in 1..(n + 1), i < j
                PROVE  Before(queue'[i], queue'[j])
    OBVIOUS
  <2>1. i \in 1..n
    BY <1>1
  <2>. QED
    BY <1>1, <1>3, <1>4, <2>1
<1>7. Busy' = Busy
  BY DEF Busy
<1>8. Busy => \A i \in 1..(n + 1) : Before(witem, queue'[i])
  BY <1>1, <1>3, <1>4
<1>9. Ordered' = ( /\ \A i \in 1..Len(queue') : SoundAt(queue'[i], nextSeq', issued', lastQueued')
                   /\ \A i, j \in 1..Len(queue') : i < j => Before(queue'[i], queue'[j])
                   /\ Busy' => SoundAt(witem', nextSeq', issued', lastQueued') /\ ~ IsHole(witem')
                   /\ Busy' => \A i \in 1..Len(queue') : Before(witem', queue'[i]) )
  BY DEF Ordered, Sound
<1>. QED
  BY <1>1, <1>2, <1>3, <1>5, <1>6, <1>7, <1>8, <1>9

\* An element leaves: a released placeholder, or the head for the worker.
LEMMA OrderedCut ==
  ASSUME Shared, Shared', Stages, Ordered, Grows, NEW k \in 1..Len(queue),
         CutAt(queue, k, queue'),
         \/ UNCHANGED <<wpc, witem>>
         \/ k = 1 /\ witem' = queue[1] /\ ~ IsHole(queue[1])
  PROVE  Ordered'
<1> DEFINE n == Len(queue)
<1>1. /\ n \in Nat /\ k \in 1..n /\ Len(queue') = n - 1
      /\ \A i \in 1..(n - 1) : queue'[i] = IF i < k THEN queue[i] ELSE queue[i + 1]
  BY DomainLen DEF Shared, CutAt
<1>2. /\ \A i \in 1..n : SoundAt(queue[i], nextSeq', issued', lastQueued')
      /\ Busy => SoundAt(witem, nextSeq', issued', lastQueued')
  BY StaySound
<1>3. /\ \A i, j \in 1..n : i < j => Before(queue[i], queue[j])
      /\ Busy => ~ IsHole(witem) /\ \A i \in 1..n : Before(witem, queue[i])
  BY DEF Ordered
<1>. HIDE DEF n
<1>4. \A i \in 1..(n - 1) : \E x \in 1..n : queue'[i] = queue[x] /\ i <= x /\ (k = 1 => 1 < x)
  <2>. SUFFICES ASSUME NEW i \in 1..(n - 1)
                PROVE  \E x \in 1..n : queue'[i] = queue[x] /\ i <= x /\ (k = 1 => 1 < x)
    OBVIOUS
  <2>1. CASE i < k
    <3>1. i \in 1..n /\ queue'[i] = queue[i] /\ i <= i /\ (k = 1 => 1 < i)
      BY <1>1, <2>1
    <3>. QED
      BY <3>1
  <2>2. CASE ~ (i < k)
    <3>1. i + 1 \in 1..n /\ queue'[i] = queue[i + 1] /\ i <= i + 1 /\ 1 < i + 1
      BY <1>1, <2>2
    <3>. QED
      BY <3>1
  <2>. QED
    BY <2>1, <2>2
<1>5. \A i, j \in 1..(n - 1) : i < j => Before(queue'[i], queue'[j])
  <2>. SUFFICES ASSUME NEW i \in 1..(n - 1), NEW j \in 1..(n - 1), i < j
                PROVE  Before(queue'[i], queue'[j])
    OBVIOUS
  <2>1. CASE j < k
    <3>1. i \in 1..n /\ j \in 1..n /\ queue'[i] = queue[i] /\ queue'[j] = queue[j]
      BY <1>1, <2>1
    <3>. QED
      BY <1>3, <3>1
  <2>2. CASE ~ (j < k) /\ i < k
    <3>1. i \in 1..n /\ j + 1 \in 1..n /\ i < j + 1 /\ queue'[i] = queue[i]
            /\ queue'[j] = queue[j + 1]
      BY <1>1, <2>2
    <3>. QED
      BY <1>3, <3>1
  <2>3. CASE ~ (i < k)
    <3>1. i + 1 \in 1..n /\ j + 1 \in 1..n /\ i + 1 < j + 1 /\ queue'[i] = queue[i + 1]
            /\ queue'[j] = queue[j + 1]
      BY <1>1, <2>3
    <3>. QED
      BY <1>3, <3>1
  <2>. QED
    BY <1>1, <2>1, <2>2, <2>3
<1>6. \A i \in 1..(n - 1) : SoundAt(queue'[i], nextSeq', issued', lastQueued')
  BY <1>2, <1>4
<1>7. Busy' => /\ SoundAt(witem', nextSeq', issued', lastQueued') /\ ~ IsHole(witem')
               /\ \A i \in 1..(n - 1) : Before(witem', queue'[i])
  <2>1. CASE UNCHANGED <<wpc, witem>>
    <3>1. Busy' = Busy
      BY <2>1 DEF Busy
    <3>. QED
      BY <1>2, <1>3, <1>4, <2>1, <3>1
  <2>2. CASE k = 1 /\ witem' = queue[1] /\ ~ IsHole(queue[1])
    <3>1. 1 \in 1..n
      BY <1>1
    <3>. QED
      BY <1>2, <1>3, <1>4, <2>2, <3>1
  <2>. QED
    BY <2>1, <2>2
<1>8. Ordered' = ( /\ \A i \in 1..Len(queue') : SoundAt(queue'[i], nextSeq', issued', lastQueued')
                   /\ \A i, j \in 1..Len(queue') : i < j => Before(queue'[i], queue'[j])
                   /\ Busy' => SoundAt(witem', nextSeq', issued', lastQueued') /\ ~ IsHole(witem')
                   /\ Busy' => \A i \in 1..Len(queue') : Before(witem', queue'[i]) )
  BY DEF Ordered, Sound
<1>. QED
  BY <1>1, <1>5, <1>6, <1>7, <1>8

\* A mutation takes the place of its reservation.
LEMMA OrderedReplace ==
  ASSUME Shared, Shared', Stages, Ordered, Grows, NEW k \in 1..Len(queue), NEW e \in Items,
         Len(queue') = Len(queue), UNCHANGED <<wpc, witem>>,
         \A i \in 1..Len(queue) : queue'[i] = IF i = k THEN e ELSE queue[i],
         SoundAt(e, nextSeq', issued', lastQueued'), e.seq = queue[k].seq, e.tick = 0
  PROVE  Ordered'
<1> DEFINE n == Len(queue)
<1>2. /\ \A i \in 1..n : SoundAt(queue[i], nextSeq', issued', lastQueued')
      /\ Busy => SoundAt(witem, nextSeq', issued', lastQueued')
  BY StaySound
<1>3. /\ \A i, j \in 1..n : i < j => Before(queue[i], queue[j])
      /\ Busy => ~ IsHole(witem) /\ \A i \in 1..n : Before(witem, queue[i])
  BY DEF Ordered
<1>4. \A x : (Before(x, queue[k]) => Before(x, e)) /\ (Before(queue[k], x) => Before(e, x))
  BY DEF Before, InProgram
<1>5. \A i \in 1..n : SoundAt(queue'[i], nextSeq', issued', lastQueued')
  BY <1>2
<1>6. \A i, j \in 1..n : i < j => Before(queue'[i], queue'[j])
  <2>. SUFFICES ASSUME NEW i \in 1..n, NEW j \in 1..n, i < j
                PROVE  Before(queue'[i], queue'[j])
    OBVIOUS
  <2>1. i # j /\ Before(queue[i], queue[j])
    BY <1>3
  <2>. QED
    BY <1>4, <2>1
<1>7. Busy' = Busy
  BY DEF Busy
<1>8. Busy => \A i \in 1..n : Before(witem, queue'[i])
  BY <1>3, <1>4
<1>9. Ordered' = ( /\ \A i \in 1..Len(queue') : SoundAt(queue'[i], nextSeq', issued', lastQueued')
                   /\ \A i, j \in 1..Len(queue') : i < j => Before(queue'[i], queue'[j])
                   /\ Busy' => SoundAt(witem', nextSeq', issued', lastQueued') /\ ~ IsHole(witem')
                   /\ Busy' => \A i \in 1..Len(queue') : Before(witem', queue'[i]) )
  BY DEF Ordered, Sound
<1>. QED
  BY <1>2, <1>3, <1>5, <1>6, <1>7, <1>8, <1>9

\* The ordinals and the ticks in the FIFO and with the worker, as numbers.
LEMMA SoundNumbers ==
  ASSUME Shared, Stages, Ordered
  PROVE  /\ nextSeq \in Nat /\ issued \in Nat
         /\ \A i \in 1..Len(queue) :
              /\ queue[i].seq \in 1..(nextSeq - 1) /\ queue[i].seq \in Nat
              /\ queue[i].seq < nextSeq /\ queue[i].tick \in Nat /\ queue[i].tick <= issued
         /\ Busy => /\ witem.seq \in 1..(nextSeq - 1) /\ witem.seq \in Nat
                    /\ witem.seq < nextSeq /\ witem.tick \in Nat /\ witem.tick <= issued
<1>1. nextSeq \in Nat /\ issued \in Nat
  BY DEF Shared
<1>2. \A i \in 1..Len(queue) : /\ queue[i].seq \in 1..(nextSeq - 1) /\ queue[i].tick <= issued
                               /\ queue[i].tick \in Nat
  BY ItemFields DEF Shared, Ordered, Sound, SoundAt
<1>3. Busy => /\ witem.seq \in 1..(nextSeq - 1) /\ witem.tick <= issued /\ witem.tick \in Nat
  BY ItemHeld DEF Ordered, Sound, SoundAt
<1>4. \A x \in 1..(nextSeq - 1) : x \in Nat /\ x < nextSeq
  BY <1>1
<1>. QED
  BY <1>1, <1>2, <1>3, <1>4

\* The thread that makes a call of the program holds the recorder mutex alone.
LEMMA OneRecorder ==
  ASSUME Local, NEW t \in Threads, arg[t].op \in RecorderOps
  PROVE  recorder = t /\ \A u \in Threads : u # t => arg[u].op \notin RecorderOps
BY Bounds DEF Local

\* A thread's step keeps the FIFO in order.
LEMMA OrderedThread ==
  ASSUME Shared, Shared', Local, Stages, Ordered, Youngest, Owned, Grows, ThreadKind
  PROVE  Ordered'
<1>1. PICK t \in Threads :
        \/ \E p, a : Programs(t, p, a) \/ Begins(t, p, a) \/ Turns(t, p, a)
        \/ Ends(t) \/ Accepts(t) \/ Reserves(t) \/ Applies(t) \/ Inlines(t) \/ Executes(t)
        \/ Settles(t) \/ Breaks(t) \/ Poisons(t)
        \/ \E k \in 1..Len(queue) : Releases(t, k) \/ Commits(t, k)
  BY DEF ThreadKind
<1>2. ASSUME UNCHANGED <<queue, wpc, witem>> PROVE Ordered'
  <2>1. Busy' = Busy
    BY <1>2 DEF Busy
  <2>. QED
    BY <1>2, <2>1, OrderedSame
<1>3. CASE \/ \E p, a : Programs(t, p, a) \/ Begins(t, p, a) \/ Turns(t, p, a)
           \/ Ends(t) \/ Applies(t) \/ Inlines(t) \/ Executes(t) \/ Settles(t) \/ Breaks(t)
           \/ Poisons(t)
  BY <1>2, <1>3 DEF Programs, Begins, Turns, Ends, Applies, Inlines, Executes, Settles, Breaks,
     Poisons, gvars
<1>4. /\ nextSeq \in Nat \ {0} /\ issued \in Nat /\ issued' \in Nat
      /\ \A i \in 1..Len(queue) : queue[i].seq < nextSeq
      /\ Busy => witem.seq < nextSeq
  BY SoundNumbers DEF Shared
<1>5. CASE Accepts(t)
  <2>1. /\ Pushed(t) \in Items /\ Pushed(t).seq = nextSeq /\ Pushed(t).tick = arg[t].tick
        /\ Pushed(t).kind = arg[t].op /\ Pushed(t).res = arg[t].chunk.res
        /\ arg[t].op \in {"Chunk", "StateBlock"} /\ arg[t].chunk.res \subseteq Targets
        /\ arg[t].op = "StateBlock" => arg[t].chunk.res = {}
    BY <1>5, PushedIs DEF Accepts
  <2>2. /\ queue' = Append(queue, Pushed(t)) /\ nextSeq' = nextSeq + 1 /\ pc[t] = "push"
        /\ \A r \in arg[t].chunk.res : lastQueued'[r] = nextSeq
        /\ UNCHANGED <<wpc, witem, issued>>
    BY <1>5, <2>1 DEF Accepts, Numbers, Stamps, Leaves
  <2>3. /\ arg[t].tick = issued /\ 0 < issued
        /\ \A i \in 1..Len(queue) : queue[i].tick < issued
        /\ Busy => witem.tick < issued
    BY <2>1, <2>2 DEF Youngest, Newest, RecorderOps, Making
  <2>4. (\A i \in 1..Len(queue) : Before(queue[i], Pushed(t))) /\ (Busy => Before(witem, Pushed(t)))
    BY <1>4, <2>1, <2>3 DEF Before, InProgram
  <2>. DEFINE e == Pushed(t)
  <2>5. SoundAt(e, nextSeq', issued', lastQueued')
    <3>1. e.seq \in 1..(nextSeq' - 1) /\ e.tick <= issued'
      BY <1>4, <2>1, <2>2, <2>3
    <3>2. \A r \in e.res : e.seq <= lastQueued'[r]
      BY <1>4, <2>1, <2>2
    <3>3. e.kind \notin {"hole", "Mutation"} /\ (e.kind = "StateBlock" => e.res = {})
      BY <2>1
    <3>4. e.tick # 0
      BY <1>4, <2>1, <2>3
    <3>. HIDE DEF e
    <3>. QED
      BY <3>1, <3>2, <3>3, <3>4 DEF SoundAt
  <2>. QED
    BY <2>1, <2>2, <2>4, <2>5, OrderedAppend
<1>6. CASE Reserves(t)
  <2>1. /\ Placeholder(t) \in Items /\ Placeholder(t).seq = nextSeq /\ Placeholder(t).tick = 0
        /\ IsHole(Placeholder(t))
    BY <1>6, PlaceholderIs DEF Reserves
  <2>2. /\ queue' = Append(queue, Placeholder(t)) /\ nextSeq' = nextSeq + 1
        /\ UNCHANGED <<wpc, witem>>
    BY <1>6 DEF Reserves, Numbers
  <2>. DEFINE e == Placeholder(t)
  <2>3. (\A i \in 1..Len(queue) : Before(queue[i], e)) /\ (Busy => Before(witem, e))
    BY <1>4, <2>1 DEF Before, InProgram
  <2>4. SoundAt(e, nextSeq', issued', lastQueued')
    <3>1. e.seq \in 1..(nextSeq' - 1) /\ e.tick <= issued' /\ e.kind = "hole" /\ e.tick = 0
      BY <1>4, <2>1, <2>2 DEF IsHole
    <3>. HIDE DEF e
    <3>. QED
      BY <3>1 DEF SoundAt
  <2>. QED
    BY <2>1, <2>2, <2>3, <2>4, OrderedAppend
<1>7. ASSUME NEW k \in 1..Len(queue), Releases(t, k)
      PROVE  Ordered'
  <2>1. CutAt(queue, k, queue') /\ UNCHANGED <<wpc, witem>>
    BY <1>7 DEF Releases
  <2>. QED
    BY <2>1, OrderedCut
<1>8. ASSUME NEW k \in 1..Len(queue), Commits(t, k)
      PROVE  Ordered'
  <2>1. Reserving(t)
    BY <1>8 DEF Commits, Reserving
  <2>. DEFINE e == Mutation(t)
  <2>2. /\ e \in Items /\ e.seq = arg[t].seq /\ e.tick = 0 /\ e.kind = "Mutation"
        /\ e.res = {arg[t].buf} /\ arg[t].buf \in Buffers /\ arg[t].buf \in Targets
        /\ arg[t].seq \in Nat
    BY <2>1, MutationIs
  <2>3. /\ Len(queue') = Len(queue) /\ queue[k].seq = arg[t].seq
        /\ \A i \in 1..Len(queue) : queue'[i] = IF i = k THEN e ELSE queue[i]
        /\ UNCHANGED <<wpc, witem>>
    BY <1>8 DEF Commits
  <2>4. arg[t].seq <= lastQueued'[arg[t].buf]
    <3>. DEFINE b == arg[t].buf
                s == arg[t].seq
    <3>1. lastQueued' = [lastQueued EXCEPT ![b] = IF s > lastQueued[b] THEN s ELSE lastQueued[b]]
      BY <1>8 DEF Commits
    <3>2. lastQueued \in [Targets -> Nat] /\ b \in Targets /\ s \in Nat
      BY <2>2 DEF Shared
    <3>. HIDE DEF b, s
    <3>3. s <= lastQueued'[b]
      BY <3>1, <3>2
    <3>. QED
      BY <3>3 DEF b, s
  <2>5. e.seq \in 1..(nextSeq' - 1)
    <3>1. arg[t].seq \in 1..(nextSeq - 1)
      BY <2>1 DEF Owned
    <3>2. UNCHANGED nextSeq
      BY <1>8 DEF Commits
    <3>. QED
      BY <2>2, <3>1, <3>2
  <2>6. SoundAt(e, nextSeq', issued', lastQueued')
    <3>1. \A r \in e.res : e.seq <= lastQueued'[r]
      BY <2>2, <2>4
    <3>2. e.res \subseteq Buffers /\ e.tick <= issued'
      BY <1>4, <2>2
    <3>. HIDE DEF e
    <3>. QED
      BY <2>2, <2>5, <3>1, <3>2 DEF SoundAt
  <2>. HIDE DEF e
  <2>. QED
    BY <2>2, <2>3, <2>6, OrderedReplace
<1>. QED
  BY <1>1, <1>3, <1>5, <1>6, <1>7, <1>8

\* A step of the worker or of the teardown keeps the FIFO in order.
LEMMA OrderedOther ==
  ASSUME Shared, Shared', Stages, Ordered, Grows, OtherKind
  PROVE  Ordered'
<1>1. CASE Rests \/ Refused \/ Quits \/ Plays \/ Publishes \/ Drops \/ Fails \/ Stops \/ Falls
  <2>1. UNCHANGED queue /\ (Busy' => Busy /\ witem' = witem)
    BY <1>1 DEF Rests, Refused, Quits, Plays, Publishes, Drops, Fails, Stops, Falls, Busy, gvars
  <2>. QED
    BY <2>1, OrderedSame
<1>2. CASE Takes
  <2>1. 1 \in 1..Len(queue)
    BY <1>2 DEF Takes, CutAt
  <2>2. CutAt(queue, 1, queue') /\ witem' = queue[1] /\ ~ IsHole(queue[1])
    BY <1>2 DEF Takes
  <2>. QED
    BY <2>1, <2>2, OrderedCut
<1>3. CASE Empties
  <2>1. queue' = <<>> /\ ~ Busy'
    BY <1>3 DEF Empties, Busy
  <2>2. 1..Len(queue') = {}
    BY <2>1
  <2>. QED
    BY <2>1, <2>2 DEF Ordered
<1>. QED
  BY <1>1, <1>2, <1>3 DEF OtherKind


-----------------------------------------------------------------------------
(* The order of the effects. *)

\* The history's entries.
LEMMA EffectFields ==
  ASSUME Shared
  PROVE  /\ Len(effects) \in Nat /\ DOMAIN effects = 1..Len(effects)
         /\ \A n \in 1..Len(effects) :
              /\ effects[n] \in EffectType /\ effects[n].seq \in Nat /\ effects[n].tick \in Nat
              /\ effects[n].fifo \in BOOLEAN
         /\ Done = {effects[n].seq : n \in 1..Len(effects)}
<1>1. Len(effects) \in Nat /\ DOMAIN effects = 1..Len(effects)
  BY DomainLen DEF Shared
<1>2. \A n \in 1..Len(effects) : effects[n] \in EffectType
  BY DomainLen DEF Shared
<1>3. \A e \in EffectType : e.seq \in Nat /\ e.tick \in Nat /\ e.fifo \in BOOLEAN
  BY DEF EffectType
<1>. QED
  BY <1>1, <1>2, <1>3 DEF Done

\* What is done stays done, and a new effect is done.
LEMMA DoneAppend ==
  ASSUME Shared, NEW x \in EffectType, effects' = Append(effects, x)
  PROVE  /\ Done' = Done \cup {x.seq}
         /\ Len(effects') = Len(effects) + 1 /\ effects'[Len(effects) + 1] = x
         /\ \A n \in 1..Len(effects) : effects'[n] = effects[n]
<1> DEFINE k == Len(effects)
<1>1. /\ effects' \in Seq(EffectType) /\ Len(effects') = k + 1 /\ effects'[k + 1] = x
      /\ \A n \in 1..k : effects'[n] = effects[n]
  BY AppendEffect DEF Shared
<1>2. k \in Nat /\ Done = {effects[n].seq : n \in 1..k}
  BY EffectFields
<1>3. DOMAIN effects' = 1..(k + 1)
  BY <1>1, DomainLen
<1>4. Done' = {effects'[n].seq : n \in 1..(k + 1)}
  BY <1>3 DEF Done
<1>. HIDE DEF k
<1>5. \A n \in 1..(k + 1) : n \in 1..k \/ n = k + 1
  BY <1>2
<1>6. (\A n \in 1..k : n \in 1..(k + 1)) /\ k + 1 \in 1..(k + 1)
  BY <1>2
<1>7. Done' = Done \cup {x.seq}
  BY <1>1, <1>2, <1>4, <1>5, <1>6
<1>. QED
  BY <1>1, <1>7 DEF k

\* What is done stays done, whatever the step.
LEMMA DoneGrows ==
  ASSUME Shared, Local, Stages, ThreadKind \/ OtherKind
  PROVE  Done \subseteq Done'
<1>1. \/ UNCHANGED effects
      \/ \E x \in EffectType : effects' = Append(effects, x)
  <2>1. ASSUME NEW t \in Threads, Applies(t)
        PROVE  \E x \in EffectType : effects' = Append(effects, x)
    <3>1. Applied(t) \in EffectType
      BY <2>1, OpPlaces, ArgKinds DEF Applies, Applied, EffectType
    <3>. QED
      BY <2>1, <3>1 DEF Applies
  <2>2. ASSUME NEW t \in Threads, Executes(t)
        PROVE  \E x \in EffectType : effects' = Append(effects, x)
    <3>1. Inlined(t) \in EffectType
      BY <2>2, InlineIs DEF Executes, Inlined, EffectType
    <3>. QED
      BY <2>2, <3>1 DEF Executes
  <2>3. ASSUME Plays
        PROVE  \E x \in EffectType : effects' = Append(effects, x)
    <3>1. Carried \in EffectType
      BY <2>3, ItemHeld DEF Plays, Busy, Carried, EffectType
    <3>. QED
      BY <2>3, <3>1 DEF Plays
  <2>4. ASSUME NEW t \in Threads,
               \/ \E p, a : Programs(t, p, a) \/ Begins(t, p, a) \/ Turns(t, p, a)
               \/ Ends(t) \/ Accepts(t) \/ Reserves(t) \/ Inlines(t)
               \/ Settles(t) \/ Breaks(t) \/ Poisons(t)
               \/ \E k \in 1..Len(queue) : Releases(t, k) \/ Commits(t, k)
        PROVE  UNCHANGED effects
    BY <2>4 DEF Programs, Begins, Turns, Ends, Accepts, Reserves, Inlines, Settles, Breaks,
       Poisons, Releases, Commits, gvars
  <2>5. ASSUME Rests \/ Refused \/ Takes \/ Quits \/ Publishes \/ Drops \/ Fails \/ Stops
                 \/ Empties \/ Falls
        PROVE  UNCHANGED effects
    BY <2>5 DEF Rests, Refused, Takes, Quits, Publishes, Drops, Fails, Stops, Empties, Falls, gvars
  <2>. QED
    BY <2>1, <2>2, <2>3, <2>4, <2>5 DEF ThreadKind, OtherKind
<1>2. CASE UNCHANGED effects
  BY <1>2 DEF Done
<1>3. ASSUME NEW x \in EffectType, effects' = Append(effects, x) PROVE Done \subseteq Done'
  BY <1>3, DoneAppend
<1>. QED
  BY <1>1, <1>2, <1>3

\* Nothing takes effect.
LEMMA EffectedKeep ==
  ASSUME Shared, Shared', Effected, Grows, UNCHANGED effects,
         \A n \in 1..Len(effects), i \in 1..Len(queue') : Passed(effects[n], queue'[i]),
         wpc' = "replay" => \A n \in 1..Len(effects) : Passed(effects[n], witem'),
         wpc' = "publish" => witem'.seq \in Done
  PROVE  Effected'
<1>1. \A n \in 1..Len(effects) : effects[n].seq < nextSeq' /\ effects[n].tick <= issued'
  <2>. SUFFICES ASSUME NEW n \in 1..Len(effects)
                PROVE  effects[n].seq < nextSeq' /\ effects[n].tick <= issued'
    OBVIOUS
  <2>1. effects[n].seq \in Nat /\ effects[n].tick \in Nat
    BY EffectFields
  <2>2. effects[n].seq < nextSeq /\ effects[n].tick <= issued
    BY DEF Effected
  <2>3. /\ nextSeq \in Nat /\ issued \in Nat /\ nextSeq' \in Nat /\ issued' \in Nat
        /\ nextSeq <= nextSeq' /\ issued <= issued'
    BY DEF Shared, Grows
  <2>. QED
    BY <2>1, <2>2, <2>3
<1>2. \A m, n \in 1..Len(effects) : m < n => Ahead(effects[m], effects[n])
  BY DEF Effected
<1>3. Done' = Done
  BY DEF Done
<1>. QED
  BY <1>1, <1>2, <1>3 DEF Effected

\* Something takes effect.
LEMMA EffectedAppend ==
  ASSUME Shared, Shared', Effected, NEW x \in EffectType, effects' = Append(effects, x),
         x.seq < nextSeq, x.tick <= issued, UNCHANGED <<queue, nextSeq, issued>>,
         \A n \in 1..Len(effects) : Ahead(effects[n], x),
         \A i \in 1..Len(queue) : Passed(x, queue[i]),
         wpc' = "replay" => wpc = "replay" /\ witem' = witem /\ Passed(x, witem),
         wpc' = "publish" => witem'.seq \in Done \cup {x.seq}
  PROVE  Effected'
<1> DEFINE k == Len(effects)
<1>1. /\ Done' = Done \cup {x.seq} /\ Len(effects') = k + 1 /\ effects'[k + 1] = x
      /\ \A n \in 1..k : effects'[n] = effects[n]
  BY DoneAppend
<1>2. k \in Nat
  BY EffectFields
<1>3. /\ \A n \in 1..k : effects[n].seq < nextSeq /\ effects[n].tick <= issued
      /\ \A m, n \in 1..k : m < n => Ahead(effects[m], effects[n])
      /\ \A n \in 1..k, i \in 1..Len(queue) : Passed(effects[n], queue[i])
      /\ wpc = "replay" => \A n \in 1..k : Passed(effects[n], witem)
      /\ \A n \in 1..k : Ahead(effects[n], x)
  BY DEF Effected
<1>. HIDE DEF k
<1>4. \A n \in 1..(k + 1) : n \in 1..k \/ n = k + 1
  BY <1>2
<1>5. \A n \in 1..(k + 1) : effects'[n].seq < nextSeq' /\ effects'[n].tick <= issued'
  BY <1>1, <1>3, <1>4
<1>6. \A m, n \in 1..(k + 1) : m < n => Ahead(effects'[m], effects'[n])
  <2>. SUFFICES ASSUME NEW m \in 1..(k + 1), NEW n \in 1..(k + 1), m < n
                PROVE  Ahead(effects'[m], effects'[n])
    OBVIOUS
  <2>1. m \in 1..k
    BY <1>2
  <2>. QED
    BY <1>1, <1>3, <1>4, <2>1
<1>7. \A n \in 1..(k + 1), i \in 1..Len(queue') : Passed(effects'[n], queue'[i])
  BY <1>1, <1>3, <1>4
<1>8. wpc' = "replay" => \A n \in 1..(k + 1) : Passed(effects'[n], witem')
  BY <1>1, <1>3, <1>4
<1>. QED
  BY <1>1, <1>5, <1>6, <1>7, <1>8 DEF Effected

\* A thread's step keeps the effects in order.
LEMMA EffectedThread ==
  ASSUME Shared, Shared', Local, Stages, Ordered, Effected, Youngest, Cleared, Owned, Grows,
         ThreadKind
  PROVE  Effected'
<1>1. PICK t \in Threads :
        \/ \E p, a : Programs(t, p, a) \/ Begins(t, p, a) \/ Turns(t, p, a)
        \/ Ends(t) \/ Accepts(t) \/ Reserves(t) \/ Applies(t) \/ Inlines(t) \/ Executes(t)
        \/ Settles(t) \/ Breaks(t) \/ Poisons(t)
        \/ \E k \in 1..Len(queue) : Releases(t, k) \/ Commits(t, k)
  BY DEF ThreadKind
<1>2. /\ \A n \in 1..Len(effects), i \in 1..Len(queue) : Passed(effects[n], queue[i])
      /\ wpc = "replay" => \A n \in 1..Len(effects) : Passed(effects[n], witem)
      /\ wpc = "publish" => witem.seq \in Done
      /\ \A n \in 1..Len(effects) : effects[n].seq < nextSeq /\ effects[n].tick <= issued
  BY DEF Effected
<1>3. CASE \/ \E p, a : Programs(t, p, a) \/ Begins(t, p, a) \/ Turns(t, p, a)
           \/ Ends(t) \/ Inlines(t) \/ Settles(t) \/ Breaks(t) \/ Poisons(t)
  <2>1. UNCHANGED <<queue, wpc, witem, effects>>
    BY <1>3 DEF Programs, Begins, Turns, Ends, Inlines, Settles, Breaks, Poisons, gvars
  <2>. QED
    BY <1>2, <2>1, EffectedKeep
<1>4. ASSUME NEW e \in Items, queue' = Append(queue, e), UNCHANGED <<wpc, witem, effects>>,
             \A n \in 1..Len(effects) : Passed(effects[n], e)
      PROVE  Effected'
  <2>1. /\ Len(queue') = Len(queue) + 1 /\ queue'[Len(queue) + 1] = e /\ Len(queue) \in Nat
        /\ \A i \in 1..Len(queue) : queue'[i] = queue[i]
    BY <1>4, AppendEffect, DomainLen DEF Shared
  <2>2. \A i \in 1..Len(queue') : i \in 1..Len(queue) \/ i = Len(queue) + 1
    BY <2>1
  <2>3. \A n \in 1..Len(effects), i \in 1..Len(queue') : Passed(effects[n], queue'[i])
    BY <1>2, <1>4, <2>1, <2>2
  <2>. QED
    BY <1>2, <1>4, <2>3, EffectedKeep
<1>5. CASE Accepts(t)
  <2>1. /\ Pushed(t) \in Items /\ Pushed(t).seq = nextSeq /\ Pushed(t).tick = arg[t].tick
        /\ arg[t].op \in {"Chunk", "StateBlock"}
    BY <1>5, PushedIs DEF Accepts
  <2>2. /\ queue' = Append(queue, Pushed(t)) /\ pc[t] = "push"
        /\ UNCHANGED <<wpc, witem, effects>>
    BY <1>5 DEF Accepts
  <2>3. arg[t].tick = issued /\ \A n \in 1..Len(effects) : effects[n].tick < issued
    BY <2>1, <2>2 DEF Youngest, Newest, RecorderOps, Making
  <2>4. \A n \in 1..Len(effects) : Passed(effects[n], Pushed(t))
    BY <1>2, <2>1, <2>3 DEF Passed, InProgram
  <2>. QED
    BY <1>4, <2>1, <2>2, <2>4
<1>6. CASE Reserves(t)
  <2>1. /\ Placeholder(t) \in Items /\ Placeholder(t).seq = nextSeq /\ Placeholder(t).tick = 0
    BY <1>6, PlaceholderIs DEF Reserves
  <2>2. queue' = Append(queue, Placeholder(t)) /\ UNCHANGED <<wpc, witem, effects>>
    BY <1>6 DEF Reserves
  <2>3. \A n \in 1..Len(effects) : Passed(effects[n], Placeholder(t))
    BY <1>2, <2>1 DEF Passed, InProgram
  <2>. QED
    BY <1>4, <2>1, <2>2, <2>3
<1>7. ASSUME NEW k \in 1..Len(queue), Releases(t, k)
      PROVE  Effected'
  <2>1. CutAt(queue, k, queue') /\ UNCHANGED <<wpc, witem, effects>>
    BY <1>7 DEF Releases
  <2>2. \A i \in 1..Len(queue') : \E x \in 1..Len(queue) : queue'[i] = queue[x]
    <3>1. Len(queue) \in Nat
      BY DomainLen DEF Shared
    <3>2. \A i \in 1..(Len(queue) - 1) : i \in 1..Len(queue) /\ i + 1 \in 1..Len(queue)
      BY <3>1
    <3>. QED
      BY <2>1, <3>2 DEF CutAt
  <2>3. \A n \in 1..Len(effects), i \in 1..Len(queue') : Passed(effects[n], queue'[i])
    BY <1>2, <2>2
  <2>. QED
    BY <1>2, <2>1, <2>3, EffectedKeep
<1>8. ASSUME NEW k \in 1..Len(queue), Commits(t, k)
      PROVE  Effected'
  <2>1. Mutation(t).seq = arg[t].seq /\ Mutation(t).tick = 0
    BY <1>8, MutationIs DEF Commits, Reserving
  <2>2. /\ Len(queue') = Len(queue) /\ queue[k].seq = arg[t].seq
        /\ \A i \in 1..Len(queue) : queue'[i] = IF i = k THEN Mutation(t) ELSE queue[i]
        /\ UNCHANGED <<wpc, witem, effects>>
    BY <1>8 DEF Commits
  <2>3. \A n \in 1..Len(effects) : Passed(effects[n], Mutation(t))
    BY <1>2, <2>1, <2>2 DEF Passed, InProgram
  <2>4. \A n \in 1..Len(effects), i \in 1..Len(queue') : Passed(effects[n], queue'[i])
    BY <1>2, <2>2, <2>3
  <2>. QED
    BY <1>2, <2>2, <2>4, EffectedKeep
<1>9. ASSUME NEW x \in EffectType, effects' = Append(effects, x), ~ x.fifo,
             x.seq < nextSeq, x.tick = issued, UNCHANGED <<queue, wpc, witem, nextSeq, issued>>,
             Clear, \A n \in 1..Len(effects) : effects[n].tick < issued
      PROVE  Effected'
  <2>1. \A n \in 1..Len(effects) : Ahead(effects[n], x)
    BY <1>9 DEF Ahead, InProgram
  <2>2. \A i \in 1..Len(queue) : Passed(x, queue[i])
    BY <1>9 DEF Passed, InProgram, Clear
  <2>3. wpc' = "replay" => wpc = "replay" /\ witem' = witem /\ Passed(x, witem)
    BY <1>9 DEF Passed, InProgram, Clear, Busy
  <2>4. x.tick <= issued
    BY <1>9 DEF Shared
  <2>. QED
    BY <1>2, <1>9, <2>1, <2>2, <2>3, <2>4, EffectedAppend
<1>10. CASE Applies(t)
  <2>1. arg[t].op = "StateBlock" /\ arg[t].tick \in Nat /\ pc[t] = "inCall"
    BY <1>10, OpPlaces, ArgKinds DEF Applies
  <2>2. Applied(t) \in EffectType /\ ~ Applied(t).fifo /\ Applied(t).seq = 0
          /\ Applied(t).tick = arg[t].tick
    BY <2>1 DEF Applied, EffectType
  <2>3. arg[t].tick = issued /\ (\A n \in 1..Len(effects) : effects[n].tick < issued) /\ Clear
    BY <2>1 DEF Youngest, Newest, RecorderOps, Making, Cleared
  <2>4. 0 < nextSeq
    BY DEF Shared
  <2>5. effects' = Append(effects, Applied(t)) /\ UNCHANGED <<queue, wpc, witem, nextSeq, issued>>
    BY <1>10 DEF Applies, Leaves
  <2>. QED
    BY <1>9, <2>2, <2>3, <2>4, <2>5
<1>11. CASE Executes(t)
  <2>1. arg[t].op = "Inline" /\ arg[t].tick \in Nat /\ arg[t].seq \in Nat /\ pc[t] = "inline"
    BY <1>11, InlineIs DEF Executes
  <2>2. Inlined(t) \in EffectType /\ ~ Inlined(t).fifo /\ Inlined(t).seq = arg[t].seq
          /\ Inlined(t).tick = arg[t].tick
    BY <2>1 DEF Inlined, EffectType
  <2>3. arg[t].tick = issued /\ (\A n \in 1..Len(effects) : effects[n].tick < issued) /\ Clear
    BY <2>1 DEF Youngest, Newest, RecorderOps, Making, Cleared
  <2>4. arg[t].seq < nextSeq
    <3>1. arg[t].seq \in 1..(nextSeq - 1) /\ nextSeq \in Nat
      BY <2>1 DEF Owned, Inlining, Shared
    <3>. QED
      BY <3>1
  <2>5. effects' = Append(effects, Inlined(t)) /\ UNCHANGED <<queue, wpc, witem, nextSeq, issued>>
    BY <1>11 DEF Executes
  <2>. QED
    BY <1>9, <2>2, <2>3, <2>4, <2>5
<1>. QED
  BY <1>1, <1>3, <1>5, <1>6, <1>7, <1>8, <1>10, <1>11

\* A step of the worker or of the teardown keeps the effects in order.
LEMMA EffectedOther ==
  ASSUME Shared, Shared', Stages, Ordered, Effected, Grows, OtherKind
  PROVE  Effected'
<1>2. /\ \A n \in 1..Len(effects), i \in 1..Len(queue) : Passed(effects[n], queue[i])
      /\ wpc = "replay" => \A n \in 1..Len(effects) : Passed(effects[n], witem)
      /\ wpc = "publish" => witem.seq \in Done
  BY DEF Effected
<1>3. CASE Rests \/ Refused \/ Quits \/ Publishes \/ Drops \/ Fails \/ Stops \/ Falls
  <2>1. /\ UNCHANGED <<queue, effects>>
        /\ wpc' = "replay" => wpc = "replay" /\ witem' = witem
        /\ wpc' = "publish" => wpc = "publish" /\ witem' = witem
    BY <1>3 DEF Rests, Refused, Quits, Publishes, Drops, Fails, Stops, Falls, gvars
  <2>. QED
    BY <1>2, <2>1, EffectedKeep
<1>4. CASE Takes
  <2>1. /\ CutAt(queue, 1, queue') /\ UNCHANGED effects /\ wpc' = "replay" /\ witem' = queue[1]
    BY <1>4 DEF Takes
  <2>2. 1 \in 1..Len(queue) /\ \A i \in 1..Len(queue') : \E x \in 1..Len(queue) : queue'[i] = queue[x]
    <3>1. Len(queue) \in Nat
      BY DomainLen DEF Shared
    <3>2. \A i \in 1..(Len(queue) - 1) : i \in 1..Len(queue) /\ i + 1 \in 1..Len(queue)
      BY <3>1
    <3>. QED
      BY <2>1, <3>2 DEF CutAt
  <2>3. \A n \in 1..Len(effects), i \in 1..Len(queue') : Passed(effects[n], queue'[i])
    BY <1>2, <2>2
  <2>. QED
    BY <1>2, <2>1, <2>2, <2>3, EffectedKeep
<1>5. CASE Plays
  <2>1. /\ wpc = "replay" /\ wpc' = "publish" /\ effects' = Append(effects, Carried)
        /\ UNCHANGED <<queue, witem, nextSeq, issued>>
    BY <1>5 DEF Plays, Alone
  <2>2. Busy
    BY <2>1 DEF Busy
  <2>3. /\ Carried \in EffectType /\ Carried.seq = witem.seq /\ Carried.tick = witem.tick
        /\ Carried.fifo = TRUE
    BY <2>2, ItemHeld DEF Carried, EffectType
  <2>4. witem.seq < nextSeq /\ witem.tick <= issued
    BY <2>2, SoundNumbers
  <2>5. \A n \in 1..Len(effects) : Ahead(effects[n], Carried)
    BY <1>2, <2>1, <2>3 DEF Passed, Ahead
  <2>6. \A i \in 1..Len(queue) : Passed(Carried, queue[i])
    BY <2>2, <2>3 DEF Ordered, Before, Passed
  <2>. QED
    BY <2>1, <2>3, <2>4, <2>5, <2>6, EffectedAppend
<1>6. CASE Empties
  <2>1. queue' = <<>> /\ UNCHANGED effects /\ wpc' \notin {"replay", "publish"}
    BY <1>6 DEF Empties
  <2>2. 1..Len(queue') = {}
    BY <2>1
  <2>. QED
    BY <2>1, <2>2, EffectedKeep
<1>. QED
  BY <1>3, <1>4, <1>5, <1>6 DEF OtherKind


-----------------------------------------------------------------------------
(* The program's calls. *)

\* Ticks of what was there before the step.
TickOld(k) ==
  \/ k = 0
  \/ \E i \in 1..Len(queue) : queue[i].tick = k
  \/ Busy /\ witem.tick = k
Inherits ==
  /\ \A i \in 1..Len(queue') : TickOld(queue'[i].tick)
  /\ Busy' => TickOld(witem'.tick)
  /\ \A n \in 1..Len(effects') :
       TickOld(effects'[n].tick) \/ \E m \in 1..Len(effects) : effects[m].tick = effects'[n].tick

\* What was newer than everything still is, and what was clear still is.
LEMMA InheritsKeeps ==
  ASSUME Inherits
  PROVE  /\ \A k \in Nat \ {0} : Newest(k) => Newest(k)'
         /\ Clear => Clear'
<1>1. ASSUME NEW k \in Nat \ {0}, Newest(k) PROVE Newest(k)'
  <2>1. \A x : TickOld(x) => x < k
    BY <1>1 DEF TickOld, Newest
  <2>2. \A m \in 1..Len(effects) : effects[m].tick < k
    BY <1>1 DEF Newest
  <2>3. Newest(k)' = ( /\ \A i \in 1..Len(queue') : queue'[i].tick < k
                       /\ \A n \in 1..Len(effects') : effects'[n].tick < k
                       /\ Busy' => witem'.tick < k )
    BY DEF Newest
  <2>. QED
    BY <2>1, <2>2, <2>3 DEF Inherits
<1>2. ASSUME Clear PROVE Clear'
  <2>1. \A x : TickOld(x) => x = 0
    BY <1>2 DEF TickOld, Clear
  <2>. QED
    BY <2>1 DEF Inherits, Clear
<1>. QED
  BY <1>1, <1>2

\* The FIFO only loses elements, or gains ones of no call of the program.
LEMMA InheritsQueue ==
  ASSUME UNCHANGED effects, \A i \in 1..Len(queue') : TickOld(queue'[i].tick),
         Busy' => TickOld(witem'.tick)
  PROVE  Inherits
BY DEF Inherits

\* A cut leaves only ticks that were there.
LEMMA CutTicks ==
  ASSUME Shared, NEW k, CutAt(queue, k, queue')
  PROVE  /\ \A i \in 1..Len(queue') : \E x \in 1..Len(queue) : queue'[i] = queue[x]
         /\ \A i \in 1..Len(queue') : TickOld(queue'[i].tick)
<1>1. Len(queue) \in Nat
  BY DomainLen DEF Shared
<1>2. \A i \in 1..(Len(queue) - 1) : i \in 1..Len(queue) /\ i + 1 \in 1..Len(queue)
  BY <1>1
<1>3. \A i \in 1..Len(queue') : \E x \in 1..Len(queue) : queue'[i] = queue[x]
  BY <1>2 DEF CutAt
<1>. QED
  BY <1>3 DEF TickOld

\* An appended element of no call of the program adds no tick.
LEMMA AppendTicks ==
  ASSUME Shared, NEW e \in Items, queue' = Append(queue, e), e.tick = 0
  PROVE  \A i \in 1..Len(queue') : TickOld(queue'[i].tick)
<1>1. /\ Len(queue') = Len(queue) + 1 /\ queue'[Len(queue) + 1] = e /\ Len(queue) \in Nat
      /\ \A i \in 1..Len(queue) : queue'[i] = queue[i]
  BY AppendEffect, DomainLen DEF Shared
<1>2. \A i \in 1..Len(queue') : i \in 1..Len(queue) \/ i = Len(queue) + 1
  BY <1>1
<1>. QED
  BY <1>1, <1>2 DEF TickOld

\* The steps that bring no call of the program anywhere new.
LEMMA InheritsThread ==
  ASSUME Shared, Local, Stages, NEW t \in Threads,
         \/ \E p, a : Programs(t, p, a) \/ Begins(t, p, a) \/ Turns(t, p, a)
         \/ Ends(t) \/ Reserves(t) \/ Inlines(t) \/ Settles(t) \/ Breaks(t) \/ Poisons(t)
         \/ \E k \in 1..Len(queue) : Releases(t, k) \/ Commits(t, k)
  PROVE  Inherits
<1>0. UNCHANGED <<effects, wpc, witem>>
  BY DEF Programs, Begins, Turns, Ends, Reserves, Inlines, Settles, Breaks, Poisons, Releases,
     Commits, gvars
<1>1. Busy' => TickOld(witem'.tick)
  <2>1. Busy' = Busy
    BY <1>0 DEF Busy
  <2>. QED
    BY <1>0, <2>1 DEF TickOld
<1>2. CASE UNCHANGED queue
  <2>1. \A i \in 1..Len(queue') : TickOld(queue'[i].tick)
    BY <1>2 DEF TickOld
  <2>. QED
    BY <1>0, <1>1, <2>1, InheritsQueue
<1>3. CASE Reserves(t)
  <2>1. Placeholder(t) \in Items /\ Placeholder(t).tick = 0
    BY <1>3, PlaceholderIs DEF Reserves
  <2>2. queue' = Append(queue, Placeholder(t))
    BY <1>3 DEF Reserves
  <2>. QED
    BY <1>0, <1>1, <2>1, <2>2, AppendTicks, InheritsQueue
<1>4. ASSUME NEW k \in 1..Len(queue), Releases(t, k) PROVE Inherits
  <2>1. CutAt(queue, k, queue')
    BY <1>4 DEF Releases
  <2>. QED
    BY <1>0, <1>1, <2>1, CutTicks, InheritsQueue
<1>5. ASSUME NEW k \in 1..Len(queue), Commits(t, k) PROVE Inherits
  <2>1. Mutation(t).tick = 0
    BY <1>5, MutationIs DEF Commits, Reserving
  <2>2. /\ Len(queue') = Len(queue)
        /\ \A i \in 1..Len(queue) : queue'[i] = IF i = k THEN Mutation(t) ELSE queue[i]
    BY <1>5 DEF Commits
  <2>3. \A i \in 1..Len(queue') : TickOld(queue'[i].tick)
    BY <2>1, <2>2 DEF TickOld
  <2>. QED
    BY <1>0, <1>1, <2>3, InheritsQueue
<1>6. CASE \/ \E p, a : Programs(t, p, a) \/ Begins(t, p, a) \/ Turns(t, p, a)
           \/ Ends(t) \/ Inlines(t) \/ Settles(t) \/ Breaks(t) \/ Poisons(t)
  <2>1. UNCHANGED queue
    BY <1>6 DEF Programs, Begins, Turns, Ends, Inlines, Settles, Breaks, Poisons, gvars
  <2>. QED
    BY <1>2, <2>1
<1>. QED
  BY <1>3, <1>4, <1>5, <1>6

\* Neither do the worker and the teardown.
LEMMA InheritsOther ==
  ASSUME Shared, Local, Stages, OtherKind
  PROVE  Inherits
<1>1. CASE Rests \/ Refused \/ Quits \/ Publishes \/ Drops \/ Fails \/ Stops \/ Falls
  <2>1. UNCHANGED <<queue, effects>> /\ (Busy' => Busy /\ witem' = witem)
    BY <1>1 DEF Rests, Refused, Quits, Publishes, Drops, Fails, Stops, Falls, Busy, gvars
  <2>2. (\A i \in 1..Len(queue') : TickOld(queue'[i].tick)) /\ (Busy' => TickOld(witem'.tick))
    BY <2>1 DEF TickOld
  <2>. QED
    BY <2>1, <2>2, InheritsQueue
<1>2. CASE Takes
  <2>1. CutAt(queue, 1, queue') /\ witem' = queue[1] /\ UNCHANGED effects
    BY <1>2 DEF Takes
  <2>2. TickOld(witem'.tick)
    BY <2>1 DEF TickOld, CutAt
  <2>. QED
    BY <2>1, <2>2, CutTicks, InheritsQueue
<1>3. CASE Plays
  <2>1. /\ effects' = Append(effects, Carried) /\ UNCHANGED <<queue, witem>> /\ Busy
    BY <1>3 DEF Plays, Busy
  <2>2. Carried \in EffectType /\ Carried.tick = witem.tick
    BY <2>1, ItemHeld DEF Carried, EffectType
  <2>3. /\ Len(effects') = Len(effects) + 1 /\ effects'[Len(effects) + 1] = Carried
        /\ \A n \in 1..Len(effects) : effects'[n] = effects[n]
        /\ Len(effects) \in Nat
    BY <2>1, <2>2, DoneAppend, EffectFields
  <2>4. \A n \in 1..Len(effects') : n \in 1..Len(effects) \/ n = Len(effects) + 1
    BY <2>3
  <2>5. \A n \in 1..Len(effects') :
          TickOld(effects'[n].tick) \/ \E m \in 1..Len(effects) : effects[m].tick = effects'[n].tick
    BY <2>1, <2>2, <2>3, <2>4 DEF TickOld
  <2>6. (\A i \in 1..Len(queue') : TickOld(queue'[i].tick)) /\ (Busy' => TickOld(witem'.tick))
    BY <2>1 DEF TickOld
  <2>. QED
    BY <2>5, <2>6 DEF Inherits
<1>4. CASE Empties
  <2>1. queue' = <<>> /\ UNCHANGED effects /\ ~ Busy'
    BY <1>4 DEF Empties, Busy
  <2>2. 1..Len(queue') = {}
    BY <2>1
  <2>. QED
    BY <2>1, <2>2, InheritsQueue
<1>. QED
  BY <1>1, <1>2, <1>3, <1>4 DEF OtherKind

\* Where the call of the program goes on, it is the same call.
LEMMA StillMaking ==
  ASSUME Shared, Local, Stages, NEW t \in Threads, NEW u \in Threads,
         \/ \E p, a : Begins(t, p, a) \/ Turns(t, p, a)
         \/ Ends(t) \/ Reserves(t) \/ Inlines(t) \/ Settles(t) \/ Breaks(t) \/ Poisons(t)
         \/ \E k \in 1..Len(queue) : Releases(t, k) \/ Commits(t, k),
         arg'[u].op \in RecorderOps, pc'[u] \in Making
  PROVE  /\ arg[u].op \in RecorderOps /\ pc[u] \in Making /\ arg'[u].tick = arg[u].tick
         /\ issued' = issued
<1>1. UNCHANGED issued
  BY DEF Begins, Turns, Ends, Reserves, Inlines, Settles, Breaks, Poisons, Releases, Commits,
     Leaves
<1>2. PICK p, a : Moves(t, p, a)
  BY DEF Begins, Turns, Ends, Reserves, Inlines, Settles, Breaks, Poisons, Releases, Commits
<1>3. /\ pc'[t] = p /\ arg'[t] = a
      /\ \A v \in Threads : v # t => pc'[v] = pc[v] /\ arg'[v] = arg[v]
  BY <1>2, MovesTo
<1>4. CASE u # t
  BY <1>1, <1>3, <1>4
<1>5. CASE u = t
  <2>1. ASSUME NEW q, NEW b, Begins(t, q, b) PROVE FALSE
    <3>1. arg'[t] = b
      BY <2>1, MovesTo DEF Begins
    <3>2. b.op \notin RecorderOps
      BY <2>1, ArgKinds DEF Begins, RecorderOps
    <3>. QED
      BY <1>5, <3>1, <3>2
  <2>2. ASSUME Moves(t, "idle", Idle) PROVE FALSE
    <3>1. pc'[t] = "idle"
      BY <2>2, MovesTo
    <3>. QED
      BY <1>5, <3>1 DEF Making
  <2>3. CASE Breaks(t)
    <3>1. pc'[t] = "poison"
      BY <2>3, MovesTo DEF Breaks
    <3>. QED
      BY <1>5, <3>1 DEF Making
  <2>4. CASE Reserves(t)
    <3>. DEFINE b == [arg[t] EXCEPT !.seq = nextSeq]
    <3>1. b.op = "Mutation" /\ Moves(t, "rotate", b)
      BY <2>4, PlaceholderIs DEF Reserves
    <3>2. arg'[t] = b
      BY <3>1, MovesTo
    <3>. HIDE DEF b
    <3>. QED
      BY <1>5, <3>1, <3>2 DEF RecorderOps
  <2>5. CASE Inlines(t)
    <3>. DEFINE b == [arg[t] EXCEPT !.seq = nextSeq]
    <3>1. pc[t] = "inlineCheck" /\ Moves(t, "inline", b)
      BY <2>5 DEF Inlines
    <3>2. arg'[t] = b
      BY <3>1, MovesTo
    <3>3. arg[t].op = "Inline" /\ b.tick = arg[t].tick
      BY <3>1, InlineIs
    <3>. HIDE DEF b
    <3>. QED
      BY <1>1, <1>5, <3>1, <3>2, <3>3 DEF Making, RecorderOps
  <2>6. ASSUME NEW q, NEW b, Turns(t, q, b)
        PROVE  arg[u].op \in RecorderOps /\ pc[u] \in Making /\ arg'[u].tick = arg[u].tick
    <3>1. pc'[t] = q /\ arg'[t] = b
      BY <2>6, MovesTo DEF Turns
    <3>2. b.op \in RecorderOps /\ q \in Making
      BY <1>5, <3>1
    <3>3. arg[t].op \in RecorderOps
      BY <2>6, <3>2, TurnsArgs
    <3>4. ~ (b \in BufferArgs("Lost"))
      BY <3>2, ArgKinds DEF RecorderOps
    <3>5. pc[t] \notin {"pending", "ledgerWait", "receiptWait", "visit", "rotate"}
      <4>1. pc[t] \in {"pending", "ledgerWait"} => arg[t].op = "Buffer"
        BY ArgFields, ArgKinds
      <4>2. pc[t] \in {"receiptWait", "visit"} => arg[t].op = "Query"
        BY ArgFields, ArgKinds
      <4>3. pc[t] = "rotate" => arg[t].op = "Mutation"
        BY ArgFields, ArgKinds
      <4>. QED
        BY <3>3, <4>1, <4>2, <4>3 DEF RecorderOps
    <3>6. b = arg[t] /\ pc[t] \in {"push", "drain", "drainWait", "drained"}
      BY <2>6, <3>4, <3>5 DEF Turns
    <3>. QED
      BY <1>5, <3>1, <3>3, <3>6 DEF Making
  <2>. QED
    BY <1>1, <1>5, <2>1, <2>2, <2>3, <2>4, <2>5, <2>6 DEF Ends, Settles, Poisons, Releases, Commits
<1>. QED
  BY <1>4, <1>5

\* A thread's step keeps the program's call that is being made the youngest.
LEMMA YoungestThread ==
  ASSUME Shared, Shared', Local, Local', Stages, Ordered, Effected, Youngest, ThreadKind
  PROVE  Youngest'
<1>1. PICK t \in Threads :
        \/ \E p, a : Programs(t, p, a) \/ Begins(t, p, a) \/ Turns(t, p, a)
        \/ Ends(t) \/ Accepts(t) \/ Reserves(t) \/ Applies(t) \/ Inlines(t) \/ Executes(t)
        \/ Settles(t) \/ Breaks(t) \/ Poisons(t)
        \/ \E k \in 1..Len(queue) : Releases(t, k) \/ Commits(t, k)
  BY DEF ThreadKind
<1>2. Youngest' = \A u \in Threads : arg'[u].op \in RecorderOps /\ pc'[u] \in Making =>
                    arg'[u].tick = issued' /\ 0 < issued' /\ (Newest(issued))'
  BY DEF Youngest
<1>3. CASE \/ \E p, a : Begins(t, p, a) \/ Turns(t, p, a)
           \/ Ends(t) \/ Reserves(t) \/ Inlines(t) \/ Settles(t) \/ Breaks(t) \/ Poisons(t)
           \/ \E k \in 1..Len(queue) : Releases(t, k) \/ Commits(t, k)
  <2>. SUFFICES ASSUME NEW u \in Threads, arg'[u].op \in RecorderOps, pc'[u] \in Making
                PROVE  arg'[u].tick = issued' /\ 0 < issued' /\ (Newest(issued))'
    BY <1>2
  <2>1. /\ arg[u].op \in RecorderOps /\ pc[u] \in Making /\ arg'[u].tick = arg[u].tick
        /\ issued' = issued
    BY <1>3, StillMaking
  <2>2. arg[u].tick = issued /\ 0 < issued /\ Newest(issued) /\ issued \in Nat
    BY <2>1 DEF Youngest, Shared
  <2>3. Inherits
    BY <1>3, InheritsThread
  <2>4. Newest(issued) => (Newest(issued))'
    <3>. DEFINE k == issued
    <3>1. k \in Nat \ {0} /\ Newest(k)
      BY <2>2
    <3>2. \A j \in Nat \ {0} : Newest(j) => Newest(j)'
      BY <2>3, InheritsKeeps
    <3>3. \A j : (Newest(j))' = ( /\ \A i \in 1..Len(queue') : queue'[i].tick < j
                                  /\ \A n \in 1..Len(effects') : effects'[n].tick < j
                                  /\ Busy' => witem'.tick < j )
      BY DEF Newest
    <3>4. (Newest(issued))' = ( /\ \A i \in 1..Len(queue') : queue'[i].tick < issued'
                                /\ \A n \in 1..Len(effects') : effects'[n].tick < issued'
                                /\ Busy' => witem'.tick < issued' )
      BY DEF Newest
    <3>. QED
      BY <2>1, <3>1, <3>2, <3>3, <3>4
  <2>. QED
    BY <2>1, <2>2, <2>4
<1>4. CASE Accepts(t) \/ Applies(t) \/ Executes(t)
  <2>1. arg[t].op \in RecorderOps
    <3>1. Accepts(t) => arg[t].op \in RecorderOps
      BY PushedIs DEF Accepts, RecorderOps
    <3>2. Executes(t) => arg[t].op \in RecorderOps
      BY InlineIs DEF Executes, RecorderOps
    <3>3. Applies(t) => arg[t].op \in RecorderOps
      BY DEF Applies, RecorderOps
    <3>. QED
      BY <1>4, <3>1, <3>2, <3>3
  <2>2. PICK p, a : p \in {"idle", "inlineDone"} /\ Moves(t, p, a)
    BY <1>4 DEF Accepts, Applies, Executes
  <2>3. /\ pc'[t] \notin Making
        /\ \A u \in Threads : u # t => arg'[u] = arg[u]
    BY <2>2, MovesTo DEF Making
  <2>4. \A u \in Threads : u # t => arg[u].op \notin RecorderOps
    BY <2>1, OneRecorder
  <2>. QED
    BY <1>2, <2>3, <2>4
<1>5. ASSUME NEW p, NEW a, Programs(t, p, a) PROVE Youngest'
  <2>1. /\ issued' = issued + 1 /\ a.tick = issued + 1 /\ recorder' = t /\ Moves(t, p, a)
        /\ UNCHANGED gvars
    BY <1>5 DEF Programs
  <2>2. arg'[t] = a
    BY <2>1, MovesTo
  <2>3. \A u \in Threads : u # t => arg'[u].op \notin RecorderOps
    BY <2>1 DEF Local
  <2>4. /\ issued \in Nat
        /\ \A i \in 1..Len(queue) : queue[i].tick \in Nat /\ queue[i].tick <= issued
        /\ Busy => witem.tick \in Nat /\ witem.tick <= issued
    BY SoundNumbers
  <2>5. \A n \in 1..Len(effects) : effects[n].tick \in Nat /\ effects[n].tick <= issued
    BY EffectFields DEF Effected
  <2>6. UNCHANGED <<queue, effects, witem, wpc>>
    BY <2>1 DEF gvars
  <2>7. Busy' = Busy
    BY <2>6 DEF Busy
  <2>8. \A i \in 1..Len(queue) : queue[i].tick < issued + 1
    BY <2>4
  <2>9. \A n \in 1..Len(effects) : effects[n].tick < issued + 1
    BY <2>4, <2>5
  <2>10. Busy => witem.tick < issued + 1
    BY <2>4
  <2>11. (Newest(issued))'
    BY <2>1, <2>6, <2>7, <2>8, <2>9, <2>10 DEF Newest
  <2>12. 0 < issued' /\ arg'[t].tick = issued'
    BY <2>1, <2>2, <2>4
  <2>. QED
    BY <1>2, <2>3, <2>11, <2>12
<1>. QED
  BY <1>1, <1>3, <1>4, <1>5

\* So do the other steps.
LEMMA YoungestOther ==
  ASSUME Shared, Local, Stages, Ordered, Effected, Youngest, OtherKind
  PROVE  Youngest'
<1>1. Inherits /\ UNCHANGED <<pc, arg, recorder>>
  BY InheritsOther, LocalOther
<1>2. Youngest' = \A u \in Threads : arg'[u].op \in RecorderOps /\ pc'[u] \in Making =>
                    arg'[u].tick = issued' /\ 0 < issued' /\ (Newest(issued))'
  BY DEF Youngest
<1>3. CASE UNCHANGED issued
  <2>1. \A j \in Nat \ {0} : Newest(j) => Newest(j)'
    BY <1>1, InheritsKeeps
  <2>2. \A j : (Newest(j))' = ( /\ \A i \in 1..Len(queue') : queue'[i].tick < j
                                /\ \A n \in 1..Len(effects') : effects'[n].tick < j
                                /\ Busy' => witem'.tick < j )
    BY DEF Newest
  <2>3. (Newest(issued))' = ( /\ \A i \in 1..Len(queue') : queue'[i].tick < issued'
                              /\ \A n \in 1..Len(effects') : effects'[n].tick < issued'
                              /\ Busy' => witem'.tick < issued' )
    BY DEF Newest
  <2>4. issued \in Nat
    BY DEF Shared
  <2>5. 0 < issued /\ Newest(issued) => (Newest(issued))'
    <3>. SUFFICES ASSUME 0 < issued, Newest(issued) PROVE (Newest(issued))'
      OBVIOUS
    <3>. DEFINE k == issued
    <3>1. k \in Nat \ {0} /\ Newest(k)
      BY <2>4
    <3>. QED
      BY <1>3, <2>1, <2>2, <2>3, <3>1
  <2>. QED
    BY <1>1, <1>2, <1>3, <2>5 DEF Youngest
<1>4. CASE ~ UNCHANGED issued
  <2>1. Refused
    BY <1>4 DEF OtherKind, Rests, Takes, Quits, Plays, Publishes, Drops, Fails, Stops, Empties,
       Falls, Alone
  <2>2. \A u \in Threads : arg[u].op \notin RecorderOps
    BY <2>1, Bounds DEF Refused, Local
  <2>. QED
    BY <1>1, <1>2, <2>2
<1>. QED
  BY <1>3, <1>4

\* Once it has left Running, a queue never runs again.
LEMMA StaysRunning ==
  ASSUME ThreadKind \/ OtherKind, terminal' = "Running"
  PROVE  terminal = "Running"
<1>1. ASSUME NEW t \in Threads,
             \/ \E p, a : Programs(t, p, a) \/ Begins(t, p, a) \/ Turns(t, p, a)
             \/ Ends(t) \/ Accepts(t) \/ Reserves(t) \/ Applies(t) \/ Inlines(t) \/ Executes(t)
             \/ Settles(t) \/ Breaks(t) \/ Poisons(t)
             \/ \E k \in 1..Len(queue) : Releases(t, k) \/ Commits(t, k)
      PROVE  terminal = "Running"
  BY <1>1 DEF Programs, Begins, Turns, Ends, Accepts, Reserves, Applies, Inlines, Executes,
     Settles, Breaks, Poisons, Releases, Commits, gvars
<1>2. CASE OtherKind
  BY <1>2 DEF OtherKind, Rests, Refused, Takes, Quits, Plays, Publishes, Drops, Fails, Stops,
     Empties, Falls, gvars
<1>. QED
  BY <1>1, <1>2 DEF ThreadKind

\* A drain that ends while the queue runs has found the FIFO empty and the worker idle.
LEMMA DrainedEmpty ==
  ASSUME Shared, Local, Stages, NEW t \in Threads, NEW p, NEW a, Turns(t, p, a),
         p = "drained", terminal = "Running"
  PROVE  queue = <<>> /\ ~ inFlight /\ a = arg[t] /\ pc[t] \in {"drain", "drainWait"}
<1>1. /\ a = arg[t]
      /\ \/ pc[t] = "drain" /\ queue = <<>> /\ ~ inFlight
         \/ pc[t] = "drainWait" /\ Quiet
  BY DEF Turns
<1>2. pc[t] = "drainWait" => ~ stop
  BY DEF Stages
<1>. QED
  BY <1>1, <1>2 DEF Quiet

\* A thread's step keeps the lane clear for the call that has drained it.
LEMMA ClearedThread ==
  ASSUME Shared, Local, Stages, Youngest, Cleared, ThreadKind
  PROVE  Cleared'
<1> DEFINE Ops == {"Inline", "StateBlock"}
<1>1. PICK t \in Threads :
        \/ \E p, a : Programs(t, p, a) \/ Begins(t, p, a) \/ Turns(t, p, a)
        \/ Ends(t) \/ Accepts(t) \/ Reserves(t) \/ Applies(t) \/ Inlines(t) \/ Executes(t)
        \/ Settles(t) \/ Breaks(t) \/ Poisons(t)
        \/ \E k \in 1..Len(queue) : Releases(t, k) \/ Commits(t, k)
  BY DEF ThreadKind
<1>2. Cleared' = \A u \in Threads : arg'[u].op \in Ops =>
                   /\ pc'[u] \in {"drained", "inlineCheck"} /\ terminal' = "Running" => Clear'
                   /\ pc'[u] \in {"inline", "inCall"} => Clear'
  BY DEF Cleared
<1>3. terminal' = "Running" => terminal = "Running"
  BY StaysRunning
<1>4. CASE Accepts(t) \/ Applies(t) \/ Executes(t)
  <2>1. arg[t].op \in RecorderOps
    <3>1. Accepts(t) => arg[t].op \in RecorderOps
      BY PushedIs DEF Accepts, RecorderOps
    <3>2. Executes(t) => arg[t].op \in RecorderOps
      BY InlineIs DEF Executes, RecorderOps
    <3>3. Applies(t) => arg[t].op \in RecorderOps
      BY DEF Applies, RecorderOps
    <3>. QED
      BY <1>4, <3>1, <3>2, <3>3
  <2>2. PICK p, a : p \in {"idle", "inlineDone"} /\ Moves(t, p, a)
    BY <1>4 DEF Accepts, Applies, Executes
  <2>3. /\ pc'[t] \in {"idle", "inlineDone"}
        /\ \A u \in Threads : u # t => arg'[u] = arg[u]
    BY <2>2, MovesTo
  <2>4. \A u \in Threads : u # t => arg[u].op \notin Ops
    BY <2>1, OneRecorder DEF RecorderOps
  <2>. QED
    BY <1>2, <2>3, <2>4
<1>5. CASE ~ (Accepts(t) \/ Applies(t) \/ Executes(t))
  <2>1. Clear => Clear'
    BY <1>1, <1>5, InheritsThread, InheritsKeeps
  <2>2. PICK p, a : Moves(t, p, a)
    BY <1>1, <1>5 DEF Programs, Begins, Turns, Ends, Reserves, Inlines, Settles, Breaks, Poisons,
       Releases, Commits
  <2>3. /\ pc'[t] = p /\ arg'[t] = a
        /\ \A u \in Threads : u # t => pc'[u] = pc[u] /\ arg'[u] = arg[u]
    BY <2>2, MovesTo
  <2>4. ASSUME arg'[t].op \in Ops
        PROVE  /\ pc'[t] \in {"drained", "inlineCheck"} /\ terminal' = "Running" => Clear
               /\ pc'[t] \in {"inline", "inCall"} => Clear
    <3>1. ASSUME NEW q, NEW b, Programs(t, q, b) \/ Begins(t, q, b)
          PROVE  pc'[t] \notin {"drained", "inlineCheck", "inline", "inCall"}
      <4>1. Moves(t, q, b) /\ q \notin {"drained", "inlineCheck", "inline", "inCall"}
        BY <3>1 DEF Programs, Begins
      <4>2. pc'[t] = q
        BY <4>1, MovesTo
      <4>. QED
        BY <4>1, <4>2
    <3>2. ASSUME Moves(t, "idle", Idle) \/ Breaks(t) \/ Reserves(t)
          PROVE  pc'[t] \notin {"drained", "inlineCheck", "inline", "inCall"}
      <4>1. PICK q, b : q \in {"idle", "poison", "rotate"} /\ Moves(t, q, b)
        BY <3>2 DEF Breaks, Reserves
      <4>2. pc'[t] = q
        BY <4>1, MovesTo
      <4>. QED
        BY <4>1, <4>2
    <3>3. CASE Inlines(t)
      <4>1. pc[t] = "inlineCheck" /\ terminal = "Running" /\ arg[t].op = "Inline"
        BY <3>3, InlineIs DEF Inlines
      <4>. QED
        BY <4>1 DEF Cleared
    <3>4. ASSUME NEW q, NEW b, Turns(t, q, b)
          PROVE  /\ pc'[t] \in {"drained", "inlineCheck"} /\ terminal' = "Running" => Clear
                 /\ pc'[t] \in {"inline", "inCall"} => Clear
      <4>1. pc'[t] = q /\ arg'[t] = b
        BY <3>4, MovesTo DEF Turns
      <4>2. b.op \in Ops
        BY <2>4, <4>1
      <4>3. ASSUME q = "drained", terminal = "Running" PROVE Clear
        <5>1. queue = <<>> /\ ~ inFlight
          BY <3>4, <4>3, DrainedEmpty
        <5>2. 1..Len(queue) = {}
          BY <5>1
        <5>. QED
          BY <5>1, <5>2 DEF Clear, Stages
      <4>4. ASSUME q \in {"inlineCheck", "inCall"}, terminal = "Running" \/ q = "inCall"
            PROVE  Clear
        <5>1. b = arg[t]
          BY <3>4, <4>4 DEF Turns
        <5>2. pc[t] \notin {"pending", "ledgerWait"}
          <6>1. pc[t] \in {"pending", "ledgerWait"} => arg[t].op = "Buffer"
            BY ArgFields, ArgKinds
          <6>. QED
            BY <4>2, <5>1, <6>1
        <5>3. pc[t] = "drained" /\ terminal = "Running"
          BY <3>4, <4>4, <5>2 DEF Turns
        <5>. QED
          BY <4>2, <5>1, <5>3 DEF Cleared
      <4>5. q # "inline"
        BY <3>4 DEF Turns
      <4>. QED
        BY <1>3, <4>1, <4>3, <4>4, <4>5
    <3>. QED
      BY <1>1, <1>5, <3>1, <3>2, <3>3, <3>4 DEF Ends, Settles, Poisons, Releases, Commits
  <2>5. \A u \in Threads : u # t /\ arg'[u].op \in Ops =>
          /\ pc'[u] \in {"drained", "inlineCheck"} /\ terminal' = "Running" => Clear
          /\ pc'[u] \in {"inline", "inCall"} => Clear
    BY <1>3, <2>3 DEF Cleared
  <2>. QED
    BY <1>2, <2>1, <2>4, <2>5
<1>. QED
  BY <1>4, <1>5

\* So do the other steps.
LEMMA ClearedOther ==
  ASSUME Shared, Local, Stages, Cleared, OtherKind
  PROVE  Cleared'
<1>1. Inherits /\ UNCHANGED <<pc, arg, recorder>>
  BY InheritsOther, LocalOther
<1>2. Clear => Clear'
  BY <1>1, InheritsKeeps
<1>3. terminal' = "Running" => terminal = "Running"
  BY StaysRunning
<1>. QED
  BY <1>1, <1>2, <1>3 DEF Cleared


-----------------------------------------------------------------------------
(* Ordinals of the threads' own. *)

\* A thread owns an ordinal after the step because it did before, or takes the next one.
LEMMA OwnersThread ==
  ASSUME Shared, Local, Stages, NEW t \in Threads, NEW u \in Threads,
         \/ \E p, a : Programs(t, p, a) \/ Begins(t, p, a) \/ Turns(t, p, a)
         \/ Ends(t) \/ Accepts(t) \/ Reserves(t) \/ Applies(t) \/ Inlines(t) \/ Executes(t)
         \/ Settles(t) \/ Breaks(t) \/ Poisons(t)
         \/ \E k \in 1..Len(queue) : Releases(t, k) \/ Commits(t, k)
  PROVE  /\ Reserving(u)' =>
              \/ Reserving(u) /\ arg'[u] = arg[u]
              \/ u = t /\ Reserves(t) /\ arg'[u].seq = nextSeq /\ arg'[u].bytes = arg[t].bytes
         /\ Inlining(u)' =>
              \/ Inlining(u) /\ arg'[u] = arg[u]
              \/ u = t /\ Inlines(t) /\ arg'[u].seq = nextSeq
<1>0. /\ Reserving(u)' <=> pc'[u] \in {"rotate", "commit", "unreserve"}
      /\ Inlining(u)' <=> pc'[u] \in {"inline", "inlineDone", "poison"} /\ arg'[u].op = "Inline"
  BY DEF Reserving, Inlining
<1>1. PICK p, a : Moves(t, p, a)
  BY DEF Programs, Begins, Turns, Ends, Accepts, Reserves, Applies, Inlines, Executes, Settles,
     Breaks, Poisons, Releases, Commits
<1>2. \A v \in Threads : v # t => pc'[v] = pc[v] /\ arg'[v] = arg[v]
  BY <1>1, MovesTo
<1>3. CASE u # t
  BY <1>0, <1>2, <1>3 DEF Reserving, Inlining
<1>4. CASE u = t
  <2>1. ASSUME NEW q, NEW b, Programs(t, q, b) \/ Begins(t, q, b)
        PROVE  ~ Reserving(u)' /\ ~ Inlining(u)'
    <3>1. Moves(t, q, b) /\ q \in {"push", "drain", "pending", "reserve", "receiptWait"}
      BY <2>1 DEF Programs, Begins
    <3>2. pc'[t] = q
      BY <3>1, MovesTo
    <3>. QED
      BY <1>0, <1>4, <3>1, <3>2
  <2>2. ASSUME Moves(t, "idle", Idle)
        PROVE  ~ Reserving(u)' /\ ~ Inlining(u)'
    <3>1. pc'[t] = "idle"
      BY <2>2, MovesTo
    <3>. QED
      BY <1>0, <1>4, <3>1
  <2>3. ASSUME NEW q, NEW b, Turns(t, q, b)
        PROVE  /\ Reserving(u)' => Reserving(u) /\ arg'[u] = arg[u]
               /\ ~ Inlining(u)'
    <3>1. pc'[t] = q /\ arg'[t] = b
      BY <2>3, MovesTo DEF Turns
    <3>2. q \notin {"rotate", "inline", "inlineDone", "poison"}
      BY <2>3 DEF Turns
    <3>3. q \in {"commit", "unreserve"} => pc[t] = "rotate" /\ b = arg[t]
      BY <2>3 DEF Turns
    <3>. QED
      BY <1>0, <1>4, <3>1, <3>2, <3>3 DEF Reserving
  <2>4. CASE Reserves(t)
    <3>. DEFINE b == [arg[t] EXCEPT !.seq = nextSeq]
    <3>1. Moves(t, "rotate", b) /\ b.seq = nextSeq /\ b.bytes = arg[t].bytes
      BY <2>4, PlaceholderIs DEF Reserves
    <3>2. pc'[t] = "rotate" /\ arg'[t] = b
      BY <3>1, MovesTo
    <3>. HIDE DEF b
    <3>. QED
      BY <1>0, <1>4, <2>4, <3>1, <3>2
  <2>5. CASE Inlines(t)
    <3>. DEFINE b == [arg[t] EXCEPT !.seq = nextSeq]
    <3>1. Moves(t, "inline", b) /\ b.seq = nextSeq
      BY <2>5, InlineIs DEF Inlines
    <3>2. pc'[t] = "inline" /\ arg'[t] = b
      BY <3>1, MovesTo
    <3>. HIDE DEF b
    <3>. QED
      BY <1>0, <1>4, <2>5, <3>1, <3>2
  <2>6. CASE Executes(t) \/ Breaks(t)
    <3>1. PICK q : q \in {"inlineDone", "poison"} /\ Moves(t, q, arg[t])
      BY <2>6 DEF Executes, Breaks
    <3>2. pc'[t] = q /\ arg'[t] = arg[t]
      BY <3>1, MovesTo
    <3>3. arg[t].op = "Inline" => pc[t] = "inline"
      BY <2>6 DEF Executes, Breaks
    <3>. QED
      BY <1>0, <1>4, <3>1, <3>2, <3>3 DEF Inlining
  <2>. QED
    BY <2>1, <2>2, <2>3, <2>4, <2>5, <2>6 DEF Ends, Accepts, Applies, Settles, Poisons, Releases,
       Commits
<1>. QED
  BY <1>3, <1>4

\* The invariant after the step, by the owners of then.
LEMMA OwnedNext ==
  ASSUME \A u \in Threads : Reserving(u)' \/ Inlining(u)' =>
           arg'[u].seq \in 1..(nextSeq' - 1) /\ (Busy' => witem'.seq # arg'[u].seq),
         \A u \in Threads : Reserving(u)' => \A i \in 1..Len(queue') :
           queue'[i].seq = arg'[u].seq => IsHole(queue'[i]) /\ queue'[i].bytes = arg'[u].bytes,
         \A u \in Threads : Inlining(u)' => \A i \in 1..Len(queue') : queue'[i].seq # arg'[u].seq,
         \A u, v \in Threads : u # v /\ (Reserving(u)' \/ Inlining(u)')
                                     /\ (Reserving(v)' \/ Inlining(v)') => arg'[u].seq # arg'[v].seq
  PROVE  Owned'
<1>1. \A u \in Threads : Reserving(u)' => \A i \in 1..Len(queue') :
        queue'[i].seq = arg'[u].seq => IsHole(queue'[i]) /\ queue'[i].bytes = arg'[u].bytes
  OBVIOUS
<1>2. \A x : IsHole(x) <=> x.kind = "hole"
  BY DEF IsHole
<1>. QED
  BY <1>1, <1>2 DEF Owned, Reserving, Inlining, IsHole

\* The owners keep their ordinals to themselves when nothing new is queued.
LEMMA OwnedKeeps ==
  ASSUME Shared, Shared', Stages, Ordered, Owned, Grows,
         \A u \in Threads : /\ Reserving(u)' => Reserving(u) /\ arg'[u] = arg[u]
                            /\ Inlining(u)' => Inlining(u) /\ arg'[u] = arg[u],
         \A i \in 1..Len(queue') : \E x \in 1..Len(queue) : queue'[i] = queue[x],
         Busy' => \/ Busy /\ witem' = witem
                  \/ \E x \in 1..Len(queue) : witem' = queue[x] /\ ~ IsHole(queue[x])
  PROVE  Owned'
<1>1. \A u \in Threads : Reserving(u)' \/ Inlining(u)' => arg'[u].seq \in 1..(nextSeq' - 1)
  <2>. SUFFICES ASSUME NEW u \in Threads, Reserving(u)' \/ Inlining(u)'
                PROVE  arg'[u].seq \in 1..(nextSeq' - 1)
    OBVIOUS
  <2>1. arg[u].seq \in 1..(nextSeq - 1) /\ arg'[u] = arg[u]
    BY DEF Owned
  <2>2. nextSeq \in Nat /\ nextSeq' \in Nat /\ nextSeq <= nextSeq'
    BY DEF Shared, Grows
  <2>3. arg[u].seq \in 1..(nextSeq' - 1)
    BY <2>1, <2>2
  <2>. QED
    BY <2>1, <2>3
<1>2. \A u \in Threads : Reserving(u)' => \A i \in 1..Len(queue') :
        queue'[i].seq = arg'[u].seq => IsHole(queue'[i]) /\ queue'[i].bytes = arg'[u].bytes
  BY DEF Owned
<1>3. \A u \in Threads : Inlining(u)' => \A i \in 1..Len(queue') : queue'[i].seq # arg'[u].seq
  BY DEF Owned
<1>4. \A u \in Threads : (Reserving(u)' \/ Inlining(u)') /\ Busy' => witem'.seq # arg'[u].seq
  <2>. SUFFICES ASSUME NEW u \in Threads, Reserving(u)' \/ Inlining(u)', Busy'
                PROVE  witem'.seq # arg'[u].seq
    OBVIOUS
  <2>1. CASE Busy /\ witem' = witem
    BY <2>1 DEF Owned
  <2>2. ASSUME NEW x \in 1..Len(queue), witem' = queue[x], ~ IsHole(queue[x])
        PROVE  witem'.seq # arg'[u].seq
    BY <2>2 DEF Owned
  <2>. QED
    BY <2>1, <2>2
<1>5. \A u, v \in Threads : u # v /\ (Reserving(u)' \/ Inlining(u)')
                                  /\ (Reserving(v)' \/ Inlining(v)') => arg'[u].seq # arg'[v].seq
  BY DEF Owned
<1>. QED
  BY <1>1, <1>2, <1>3, <1>4, <1>5, OwnedNext

\* A thread's step keeps the ordinals with their owners.
LEMMA OwnedThread ==
  ASSUME Shared, Shared', Local, Stages, Ordered, Owned, Grows, ThreadKind
  PROVE  Owned'
<1>1. PICK t \in Threads :
        \/ \E p, a : Programs(t, p, a) \/ Begins(t, p, a) \/ Turns(t, p, a)
        \/ Ends(t) \/ Accepts(t) \/ Reserves(t) \/ Applies(t) \/ Inlines(t) \/ Executes(t)
        \/ Settles(t) \/ Breaks(t) \/ Poisons(t)
        \/ \E k \in 1..Len(queue) : Releases(t, k) \/ Commits(t, k)
  BY DEF ThreadKind
<1>2. \A u \in Threads :
        /\ Reserving(u)' =>
             \/ Reserving(u) /\ arg'[u] = arg[u]
             \/ u = t /\ Reserves(t) /\ arg'[u].seq = nextSeq /\ arg'[u].bytes = arg[t].bytes
        /\ Inlining(u)' =>
             \/ Inlining(u) /\ arg'[u] = arg[u]
             \/ u = t /\ Inlines(t) /\ arg'[u].seq = nextSeq
  BY <1>1, OwnersThread
<1>3. UNCHANGED <<wpc, witem>>
  BY <1>1 DEF Programs, Begins, Turns, Ends, Accepts, Reserves, Applies, Inlines, Executes,
     Settles, Breaks, Poisons, Releases, Commits, gvars
<1>4. Busy' <=> Busy
  BY <1>3 DEF Busy
<1>5. /\ nextSeq \in Nat \ {0} /\ Len(queue) \in Nat
      /\ \A i \in 1..Len(queue) : queue[i].seq < nextSeq
      /\ Busy => witem.seq < nextSeq
      /\ \A u \in Threads : Reserving(u) \/ Inlining(u) =>
           arg[u].seq \in 1..(nextSeq - 1) /\ arg[u].seq < nextSeq
  <2>1. nextSeq \in Nat \ {0} /\ Len(queue) \in Nat
    BY DomainLen DEF Shared
  <2>2. \A x \in 1..(nextSeq - 1) : x < nextSeq
    BY <2>1
  <2>. QED
    BY <2>1, <2>2, SoundNumbers DEF Owned
<1>6. CASE /\ ~ Reserves(t) /\ ~ Inlines(t)
           /\ \A i \in 1..Len(queue') : \E x \in 1..Len(queue) : queue'[i] = queue[x]
  BY <1>2, <1>3, <1>4, <1>6, OwnedKeeps
<1>7. CASE ~ Reserves(t) /\ Inlines(t)
  <2>1. UNCHANGED queue /\ nextSeq' = nextSeq + 1
    BY <1>7 DEF Inlines, Numbers
  <2>2. \A u \in Threads :
          /\ Reserving(u)' => Reserving(u) /\ arg'[u] = arg[u]
          /\ Inlining(u)' => \/ Inlining(u) /\ arg'[u] = arg[u]
                             \/ u = t /\ arg'[u].seq = nextSeq
    BY <1>2, <1>7
  <2>3. nextSeq \in 1..(nextSeq' - 1) /\ \A x \in 1..(nextSeq - 1) : x \in 1..(nextSeq' - 1)
    BY <1>5, <2>1
  <2>4. \A u \in Threads : Reserving(u)' \/ Inlining(u)' =>
          arg'[u].seq \in 1..(nextSeq' - 1) /\ (Busy' => witem'.seq # arg'[u].seq)
    <3>. SUFFICES ASSUME NEW u \in Threads, Reserving(u)' \/ Inlining(u)'
                  PROVE  arg'[u].seq \in 1..(nextSeq' - 1) /\ (Busy' => witem'.seq # arg'[u].seq)
      OBVIOUS
    <3>1. CASE (Reserving(u) \/ Inlining(u)) /\ arg'[u] = arg[u]
      BY <1>3, <1>4, <1>5, <2>3, <3>1 DEF Owned
    <3>2. CASE arg'[u].seq = nextSeq
      <4>1. Busy => witem.seq # nextSeq
        BY <1>5
      <4>. QED
        BY <1>3, <1>4, <2>3, <3>2, <4>1
    <3>. QED
      BY <2>2, <3>1, <3>2
  <2>5. \A u \in Threads : Reserving(u)' => \A i \in 1..Len(queue') :
          queue'[i].seq = arg'[u].seq => IsHole(queue'[i]) /\ queue'[i].bytes = arg'[u].bytes
    BY <2>1, <2>2 DEF Owned
  <2>6. \A i \in 1..Len(queue) : queue[i].seq # nextSeq
    BY <1>5
  <2>7. \A u \in Threads : Inlining(u)' => \A i \in 1..Len(queue') : queue'[i].seq # arg'[u].seq
    BY <2>1, <2>2, <2>6 DEF Owned
  <2>8. \A u \in Threads : Reserving(u) \/ Inlining(u) => arg[u].seq # nextSeq
    BY <1>5
  <2>9. \A u, v \in Threads : u # v /\ (Reserving(u)' \/ Inlining(u)')
                                    /\ (Reserving(v)' \/ Inlining(v)') => arg'[u].seq # arg'[v].seq
    BY <2>2, <2>8 DEF Owned
  <2>. QED
    BY <2>4, <2>5, <2>7, <2>9, OwnedNext
<1>8. ASSUME NEW e \in Items, queue' = Append(queue, e), nextSeq' = nextSeq + 1, e.seq = nextSeq,
             ~ Inlines(t), Reserves(t) => IsHole(e) /\ e.bytes = arg[t].bytes
      PROVE  Owned'
  <2>1. /\ Len(queue') = Len(queue) + 1 /\ queue'[Len(queue) + 1] = e
        /\ \A i \in 1..Len(queue) : queue'[i] = queue[i]
    BY <1>8, AppendEffect DEF Shared
  <2>2. \A u \in Threads :
          /\ Reserving(u)' => \/ Reserving(u) /\ arg'[u] = arg[u]
                              \/ u = t /\ Reserves(t) /\ arg'[u].seq = nextSeq
                                 /\ arg'[u].bytes = arg[t].bytes
          /\ Inlining(u)' => Inlining(u) /\ arg'[u] = arg[u]
    BY <1>2, <1>8
  <2>3. nextSeq \in 1..(nextSeq' - 1) /\ \A x \in 1..(nextSeq - 1) : x \in 1..(nextSeq' - 1)
    BY <1>5, <1>8
  <2>4. \A u \in Threads : Reserving(u)' \/ Inlining(u)' =>
          arg'[u].seq \in 1..(nextSeq' - 1) /\ (Busy' => witem'.seq # arg'[u].seq)
    <3>. SUFFICES ASSUME NEW u \in Threads, Reserving(u)' \/ Inlining(u)'
                  PROVE  arg'[u].seq \in 1..(nextSeq' - 1) /\ (Busy' => witem'.seq # arg'[u].seq)
      OBVIOUS
    <3>1. CASE (Reserving(u) \/ Inlining(u)) /\ arg'[u] = arg[u]
      BY <1>3, <1>4, <1>5, <2>3, <3>1 DEF Owned
    <3>2. CASE arg'[u].seq = nextSeq
      <4>1. Busy => witem.seq # nextSeq
        BY <1>5
      <4>. QED
        BY <1>3, <1>4, <2>3, <3>2, <4>1
    <3>. QED
      BY <2>2, <3>1, <3>2
  <2>5. \A i \in 1..Len(queue') :
          (i \in 1..Len(queue) /\ queue'[i] = queue[i]) \/ queue'[i] = e
    <3>1. \A i \in 1..(Len(queue) + 1) : i \in 1..Len(queue) \/ i = Len(queue) + 1
      BY <1>5
    <3>. QED
      BY <2>1, <3>1
  <2>6. /\ \A i \in 1..Len(queue) : queue[i].seq # nextSeq
        /\ \A u \in Threads : Reserving(u) \/ Inlining(u) => arg[u].seq # nextSeq
    BY <1>5
  <2>7. \A u \in Threads : Reserving(u)' => \A i \in 1..Len(queue') :
          queue'[i].seq = arg'[u].seq => IsHole(queue'[i]) /\ queue'[i].bytes = arg'[u].bytes
    <3>. SUFFICES ASSUME NEW u \in Threads, Reserving(u)', NEW i \in 1..Len(queue'),
                         queue'[i].seq = arg'[u].seq
                  PROVE  IsHole(queue'[i]) /\ queue'[i].bytes = arg'[u].bytes
      OBVIOUS
    <3>1. CASE Reserving(u) /\ arg'[u] = arg[u]
      <4>1. i \in 1..Len(queue) /\ queue'[i] = queue[i]
        BY <1>8, <2>5, <2>6, <3>1
      <4>. QED
        BY <3>1, <4>1 DEF Owned
    <3>2. CASE u = t /\ Reserves(t) /\ arg'[u].seq = nextSeq /\ arg'[u].bytes = arg[t].bytes
      <4>1. queue'[i] = e
        BY <2>5, <2>6, <3>2
      <4>. QED
        BY <1>8, <3>2, <4>1
    <3>. QED
      BY <2>2, <3>1, <3>2
  <2>8. \A u \in Threads : Inlining(u)' => \A i \in 1..Len(queue') : queue'[i].seq # arg'[u].seq
    BY <1>8, <2>2, <2>5, <2>6 DEF Owned
  <2>9. \A u, v \in Threads : u # v /\ (Reserving(u)' \/ Inlining(u)')
                                    /\ (Reserving(v)' \/ Inlining(v)') => arg'[u].seq # arg'[v].seq
    BY <2>2, <2>6 DEF Owned
  <2>. QED
    BY <2>4, <2>7, <2>8, <2>9, OwnedNext
<1>9. CASE Accepts(t)
  <2>1. /\ Pushed(t) \in Items /\ Pushed(t).seq = nextSeq /\ queue' = Append(queue, Pushed(t))
        /\ nextSeq' = nextSeq + 1
    BY <1>9, PushedIs DEF Accepts, Numbers
  <2>2. ~ Inlines(t) /\ ~ Reserves(t)
    BY <1>9 DEF Accepts, Inlines, Reserves
  <2>. QED
    BY <1>8, <2>1, <2>2
<1>10. CASE Reserves(t)
  <2>1. /\ Placeholder(t) \in Items /\ Placeholder(t).seq = nextSeq
        /\ IsHole(Placeholder(t)) /\ Placeholder(t).bytes = arg[t].bytes
        /\ queue' = Append(queue, Placeholder(t)) /\ nextSeq' = nextSeq + 1
    BY <1>10, PlaceholderIs DEF Reserves, Numbers
  <2>2. ~ Inlines(t)
    BY <1>10 DEF Inlines, Reserves
  <2>. QED
    BY <1>8, <2>1, <2>2
<1>11. ASSUME NEW k \in 1..Len(queue), Commits(t, k)
       PROVE  Owned'
  <2>1. Reserving(t) /\ ~ Reserves(t) /\ ~ Inlines(t)
    BY <1>11 DEF Commits, Reserving, Reserves, Inlines
  <2>2. Mutation(t).seq = arg[t].seq
    BY <2>1, MutationIs
  <2>3. /\ Len(queue') = Len(queue) /\ UNCHANGED nextSeq
        /\ \A i \in 1..Len(queue) : queue'[i] = IF i = k THEN Mutation(t) ELSE queue[i]
    BY <1>11 DEF Commits
  <2>4. ~ Reserving(t)' /\ ~ Inlining(t)'
    <3>1. pc'[t] = "idle"
      BY <1>11, MovesTo DEF Commits
    <3>. QED
      BY <3>1 DEF Reserving, Inlining
  <2>5. \A u \in Threads :
          /\ Reserving(u)' => u # t /\ Reserving(u) /\ arg'[u] = arg[u]
          /\ Inlining(u)' => u # t /\ Inlining(u) /\ arg'[u] = arg[u]
    BY <1>2, <2>1, <2>4
  <2>6. \A u \in Threads : u # t /\ (Reserving(u) \/ Inlining(u)) => arg[u].seq # arg[t].seq
    BY <2>1 DEF Owned
  <2>7. \A u \in Threads : Reserving(u)' \/ Inlining(u)' =>
          arg'[u].seq \in 1..(nextSeq' - 1) /\ (Busy' => witem'.seq # arg'[u].seq)
    BY <1>3, <1>4, <2>3, <2>5 DEF Owned
  <2>8. \A u \in Threads : Reserving(u)' => \A i \in 1..Len(queue') :
          queue'[i].seq = arg'[u].seq => IsHole(queue'[i]) /\ queue'[i].bytes = arg'[u].bytes
    BY <2>2, <2>3, <2>5, <2>6 DEF Owned
  <2>9. \A u \in Threads : Inlining(u)' => \A i \in 1..Len(queue') : queue'[i].seq # arg'[u].seq
    BY <2>2, <2>3, <2>5, <2>6 DEF Owned
  <2>10. \A u, v \in Threads : u # v /\ (Reserving(u)' \/ Inlining(u)')
                                     /\ (Reserving(v)' \/ Inlining(v)') => arg'[u].seq # arg'[v].seq
    BY <2>5 DEF Owned
  <2>. QED
    BY <2>7, <2>8, <2>9, <2>10, OwnedNext
<1>12. ASSUME NEW k \in 1..Len(queue), Releases(t, k)
       PROVE  Owned'
  <2>1. CutAt(queue, k, queue') /\ ~ Reserves(t) /\ ~ Inlines(t)
    BY <1>12 DEF Releases, Reserves, Inlines
  <2>2. \A i \in 1..Len(queue') : \E x \in 1..Len(queue) : queue'[i] = queue[x]
    BY <2>1, CutTicks
  <2>. QED
    BY <1>6, <2>1, <2>2
<1>13. CASE \/ \E p, a : Programs(t, p, a) \/ Begins(t, p, a) \/ Turns(t, p, a)
            \/ Ends(t) \/ Applies(t) \/ Executes(t) \/ Settles(t) \/ Breaks(t) \/ Poisons(t)
  <2>1. UNCHANGED queue
    BY <1>13 DEF Programs, Begins, Turns, Ends, Applies, Executes, Settles, Breaks, Poisons, gvars
  <2>2. CASE Reserves(t)
    BY <1>10, <2>2
  <2>3. CASE ~ Reserves(t) /\ ~ Inlines(t)
    BY <1>6, <2>1, <2>3
  <2>. QED
    BY <1>7, <2>2, <2>3
<1>14. CASE Inlines(t)
  BY <1>7, <1>10, <1>14
<1>. QED
  BY <1>1, <1>9, <1>10, <1>11, <1>12, <1>13, <1>14

\* So do the other steps.
LEMMA OwnedOther ==
  ASSUME Shared, Shared', Local, Stages, Ordered, Owned, Grows, OtherKind
  PROVE  Owned'
<1>1. \A u \in Threads : /\ Reserving(u)' => Reserving(u) /\ arg'[u] = arg[u]
                         /\ Inlining(u)' => Inlining(u) /\ arg'[u] = arg[u]
  BY LocalOther DEF Reserving, Inlining
<1>2. CASE Rests \/ Refused \/ Quits \/ Plays \/ Publishes \/ Drops \/ Fails \/ Stops \/ Falls
  <2>1. UNCHANGED queue /\ (Busy' => Busy /\ witem' = witem)
    BY <1>2 DEF Rests, Refused, Quits, Plays, Publishes, Drops, Fails, Stops, Falls, Busy, gvars
  <2>. QED
    BY <1>1, <2>1, OwnedKeeps
<1>3. CASE Takes
  <2>1. CutAt(queue, 1, queue') /\ witem' = queue[1] /\ ~ IsHole(queue[1])
    BY <1>3 DEF Takes
  <2>2. 1 \in 1..Len(queue)
    BY <2>1 DEF CutAt
  <2>. QED
    BY <1>1, <2>1, <2>2, CutTicks, OwnedKeeps
<1>4. CASE Empties
  <2>1. queue' = <<>> /\ ~ Busy'
    BY <1>4 DEF Empties, Busy
  <2>2. 1..Len(queue') = {}
    BY <2>1
  <2>. QED
    BY <1>1, <2>1, <2>2, OwnedKeeps
<1>. QED
  BY <1>2, <1>3, <1>4 DEF OtherKind


-----------------------------------------------------------------------------
(* The charge. *)

\* What is queued is charged, and only an oversized element goes past the bound.
LEMMA ChargedAppend ==
  ASSUME Shared, Charged, NEW e \in Items, Room(e.bytes), queue' = Append(queue, e),
         queuedBytes' = queuedBytes + e.bytes
  PROVE  Charged'
<1>1. /\ queue \in Seq(Items) /\ queuedBytes \in Nat /\ e.bytes \in Nat /\ MaxBytes \in Nat
      /\ MaxChunks \in Nat /\ Len(queue) \in Nat /\ (queue = <<>> <=> Len(queue) = 0)
  BY Bounds, ItemFields DEF Shared, Items
<1>2. queuedBytes' = Charge(queue')
  BY <1>1, ChargeAppend DEF Charged
<1>3. /\ Len(queue') = Len(queue) + 1 /\ queue'[Len(queue) + 1] = e
      /\ \A i \in 1..Len(queue) : queue'[i] = queue[i]
  BY <1>1, AppendEffect
<1>4. Len(queue') <= MaxChunks
  BY <1>1, <1>3 DEF Room
<1>5. ASSUME queuedBytes' > MaxBytes PROVE queue'[1].bytes = queuedBytes'
  <2>1. CASE queue = <<>>
    <3>1. queuedBytes = 0 /\ Len(queue) = 0
      BY <1>1, <2>1, ChargeType DEF Charged
    <3>. QED
      BY <1>1, <1>3, <3>1
  <2>2. CASE queue # <<>>
    <3>1. 1 \in 1..Len(queue)
      BY <1>1, <2>2
    <3>2. e.bytes = 0
      BY <1>1, <1>5, <2>2 DEF Room
    <3>3. queuedBytes' = queuedBytes
      BY <1>1, <3>2
    <3>4. queuedBytes > MaxBytes
      BY <1>5, <3>3
    <3>5. queue[1].bytes = queuedBytes
      BY <3>4 DEF Charged
    <3>. QED
      BY <1>3, <3>1, <3>3, <3>5
  <2>. QED
    BY <2>1, <2>2
<1>. QED
  BY <1>2, <1>4, <1>5 DEF Charged

\* What leaves the FIFO is credited; an oversized element only ever stands at the head.
LEMMA ChargedCut ==
  ASSUME Shared, Charged, NEW k \in 1..Len(queue), CutAt(queue, k, queue'),
         queue' \in Seq(Items), queuedBytes' = queuedBytes - queue[k].bytes
  PROVE  Charged'
<1>1. /\ queue \in Seq(Items) /\ queuedBytes \in Nat /\ MaxBytes \in Nat
      /\ MaxChunks \in Nat /\ Len(queue) \in Nat
      /\ \A i \in 1..Len(queue) : queue[i].bytes \in Nat
  BY Bounds, ItemFields DEF Shared
<1>2. queuedBytes' = Charge(queue') /\ Charge(queue') \in Nat
  BY CutCharge
<1>3. /\ Len(queue') = Len(queue) - 1
      /\ \A i \in 1..(Len(queue) - 1) : queue'[i] = IF i < k THEN queue[i] ELSE queue[i + 1]
  BY DEF CutAt
<1>4. Len(queue') <= MaxChunks
  <2>1. Len(queue) <= MaxChunks
    BY DEF Charged
  <2>. QED
    BY <1>1, <1>3, <2>1
<1>5. ASSUME queuedBytes' > MaxBytes PROVE queue'[1].bytes = queuedBytes'
  <2>1. queuedBytes > MaxBytes /\ queue[k].bytes \in Nat
    BY <1>1, <1>5
  <2>2. queue[1].bytes = queuedBytes
    BY <2>1 DEF Charged
  <2>3. k # 1
    BY <1>1, <1>5, <2>2
  <2>4. k \in 2..Len(queue) /\ 1 \in 1..(Len(queue) - 1) /\ 1 < k
    BY <1>1, <2>3
  <2>5. queue[1].bytes + queue[k].bytes <= Charge(queue)
    BY <1>1, <2>4, ChargeTwo
  <2>6. queuedBytes + queue[k].bytes <= queuedBytes
    BY <2>2, <2>5 DEF Charged
  <2>7. queue[k].bytes = 0
    BY <1>1, <2>1, <2>6
  <2>8. queuedBytes' = queuedBytes
    BY <1>1, <2>7
  <2>9. queue'[1] = queue[1]
    BY <1>3, <2>4
  <2>. QED
    BY <2>2, <2>8, <2>9
<1>. QED
  BY <1>2, <1>4, <1>5 DEF Charged

\* A thread's step keeps the charge exact.
LEMMA ChargedThread ==
  ASSUME Shared, Shared', Local, Stages, Owned, Charged, ThreadKind
  PROVE  Charged'
<1>1. PICK t \in Threads :
        \/ \E p, a : Programs(t, p, a) \/ Begins(t, p, a) \/ Turns(t, p, a)
        \/ Ends(t) \/ Accepts(t) \/ Reserves(t) \/ Applies(t) \/ Inlines(t) \/ Executes(t)
        \/ Settles(t) \/ Breaks(t) \/ Poisons(t)
        \/ \E k \in 1..Len(queue) : Releases(t, k) \/ Commits(t, k)
  BY DEF ThreadKind
<1>2. CASE UNCHANGED <<queue, queuedBytes>>
  BY <1>2 DEF Charged
<1>3. CASE \/ \E p, a : Programs(t, p, a) \/ Begins(t, p, a) \/ Turns(t, p, a)
           \/ Ends(t) \/ Applies(t) \/ Inlines(t) \/ Executes(t) \/ Settles(t) \/ Breaks(t)
           \/ Poisons(t)
  <2>1. UNCHANGED <<queue, queuedBytes>>
    BY <1>3 DEF Programs, Begins, Turns, Ends, Applies, Inlines, Executes, Settles, Breaks,
       Poisons, gvars
  <2>. QED
    BY <1>2, <2>1
<1>4. CASE Accepts(t)
  <2>1. Pushed(t) \in Items /\ Pushed(t).bytes = arg[t].chunk.bytes
    BY <1>4, PushedIs DEF Accepts
  <2>. QED
    BY <1>4, <2>1, ChargedAppend DEF Accepts
<1>5. CASE Reserves(t)
  <2>1. Placeholder(t) \in Items /\ Placeholder(t).bytes = arg[t].bytes
    BY <1>5, PlaceholderIs DEF Reserves
  <2>. QED
    BY <1>5, <2>1, ChargedAppend DEF Reserves
<1>6. ASSUME NEW k \in 1..Len(queue), Releases(t, k) PROVE Charged'
  BY <1>6, ChargedCut DEF Releases
<1>7. ASSUME NEW k \in 1..Len(queue), Commits(t, k) PROVE Charged'
  <2>1. Reserving(t)
    BY <1>7 DEF Commits, Reserving
  <2>2. Mutation(t).bytes = arg[t].bytes
    BY <2>1, MutationIs
  <2>3. queue[k].bytes = arg[t].bytes
    BY <1>7, <2>1 DEF Commits, Owned
  <2>4. /\ queue' \in Seq(Items) /\ Len(queue') = Len(queue) /\ UNCHANGED queuedBytes
        /\ \A i \in 1..Len(queue) : queue'[i] = IF i = k THEN Mutation(t) ELSE queue[i]
    BY <1>7 DEF Commits
  <2>5. \A i \in 1..Len(queue) : queue'[i].bytes = queue[i].bytes
    BY <2>2, <2>3, <2>4
  <2>6. queue \in Seq(Items) /\ Len(queue) \in Nat /\ (queue = <<>> <=> Len(queue) = 0)
    BY ItemFields DEF Shared
  <2>7. Charge(queue') = Charge(queue)
    BY <2>4, <2>5, <2>6, ChargeReplace
  <2>8. ASSUME queuedBytes > MaxBytes PROVE queue'[1].bytes = queuedBytes
    <3>1. queue[1].bytes = queuedBytes
      BY <2>8 DEF Charged
    <3>2. 1 \in 1..Len(queue)
      BY <2>6
    <3>. QED
      BY <2>5, <3>1, <3>2
  <2>. QED
    BY <2>4, <2>7, <2>8 DEF Charged
<1>. QED
  BY <1>1, <1>3, <1>4, <1>5, <1>6, <1>7

\* So do the other steps.
LEMMA ChargedOther ==
  ASSUME Shared, Charged, OtherKind
  PROVE  Charged'
<1>1. CASE Rests \/ Refused \/ Quits \/ Plays \/ Publishes \/ Drops \/ Fails \/ Stops \/ Falls
  <2>1. UNCHANGED <<queue, queuedBytes>>
    BY <1>1 DEF Rests, Refused, Quits, Plays, Publishes, Drops, Fails, Stops, Falls, gvars
  <2>. QED
    BY <2>1 DEF Charged
<1>2. CASE Takes
  <2>1. 1 \in 1..Len(queue)
    BY <1>2 DEF Takes, CutAt
  <2>. QED
    BY <1>2, <2>1, ChargedCut DEF Takes
<1>3. CASE Empties
  <2>1. queue' = <<>> /\ queuedBytes' = 0
    BY <1>3 DEF Empties
  <2>2. <<>> \in Seq(Items) /\ Len(<<>>) = 0
    OBVIOUS
  <2>3. Charge(queue') = 0
    BY <2>1, <2>2, ChargeType
  <2>4. Len(queue') <= MaxChunks /\ ~ (0 > MaxBytes)
    BY <2>1, <2>2, Bounds
  <2>. QED
    BY <2>1, <2>3, <2>4 DEF Charged
<1>. QED
  BY <1>1, <1>2, <1>3 DEF OtherKind


-----------------------------------------------------------------------------
(* The retention. *)

\* Where a retained ordinal is: in the FIFO, with the worker, or with a thread that
\* replays inline.
InQueue(n) == \E i \in 1..Len(queue) : ~ IsHole(queue[i]) /\ queue[i].seq = n
InHand(n)  == Busy /\ witem.seq = n
InCall(n)  == \E t \in Threads : Inlining(t) /\ arg[t].seq = n

\* What is retained is in one of the three places.
LEMMA RetainedIs ==
  ASSUME Retained
  PROVE  \A n : n \in held <=> InQueue(n) \/ InHand(n) \/ InCall(n)
<1>. DEFINE A == {queue[i].seq : i \in {j \in 1..Len(queue) : ~ IsHole(queue[j])}}
            B == IF Busy THEN {witem.seq} ELSE {}
            C == {arg[t].seq : t \in {u \in Threads : Inlining(u)}}
<1>1. held = A \cup B \cup C
  BY DEF Retained
<1>2. \A n : n \in A <=> InQueue(n)
  BY DEF InQueue
<1>3. \A n : n \in B <=> InHand(n)
  BY DEF InHand
<1>4. \A n : n \in C <=> InCall(n)
  BY DEF InCall
<1>. HIDE DEF A, B, C
<1>. QED
  BY <1>1, <1>2, <1>3, <1>4

\* The same after a step.
LEMMA RetainedNext ==
  ASSUME \A n : n \in held' <=> InQueue(n)' \/ InHand(n)' \/ InCall(n)'
  PROVE  Retained'
<1>. DEFINE A == {queue'[i].seq : i \in {j \in 1..Len(queue') : ~ IsHole(queue'[j])}}
            B == IF Busy' THEN {witem'.seq} ELSE {}
            C == {arg'[t].seq : t \in {u \in Threads : Inlining(u)'}}
<1>2. \A n : n \in A <=> InQueue(n)'
  BY DEF InQueue, IsHole
<1>3. \A n : n \in B <=> InHand(n)'
  BY DEF InHand
<1>4. \A n : n \in C <=> InCall(n)'
  BY DEF InCall
<1>5. held' = A \cup B \cup C
  <2>. HIDE DEF A, B, C
  <2>. QED
    BY <1>2, <1>3, <1>4
<1>. QED
  BY <1>5 DEF Retained, IsHole

\* A thread that replays inline goes on until it settles or poisons.
LEMMA InlinersThread ==
  ASSUME Shared, Local, Stages, NEW t \in Threads, NEW u \in Threads, Inlining(u),
         \/ \E p, a : Programs(t, p, a) \/ Begins(t, p, a) \/ Turns(t, p, a)
         \/ Ends(t) \/ Accepts(t) \/ Reserves(t) \/ Applies(t) \/ Inlines(t) \/ Executes(t)
         \/ Settles(t) \/ Breaks(t) \/ Poisons(t)
         \/ \E k \in 1..Len(queue) : Releases(t, k) \/ Commits(t, k)
  PROVE  (Inlining(u)' /\ arg'[u] = arg[u]) \/ (u = t /\ (Settles(t) \/ Poisons(t)))
<1>0. Inlining(u)' <=> pc'[u] \in {"inline", "inlineDone", "poison"} /\ arg'[u].op = "Inline"
  BY DEF Inlining
<1>1. PICK p, a : Moves(t, p, a)
  BY DEF Programs, Begins, Turns, Ends, Accepts, Reserves, Applies, Inlines, Executes, Settles,
     Breaks, Poisons, Releases, Commits
<1>2. \A v \in Threads : v # t => pc'[v] = pc[v] /\ arg'[v] = arg[v]
  BY <1>1, MovesTo
<1>3. CASE u # t
  BY <1>0, <1>2, <1>3 DEF Inlining
<1>4. CASE u = t
  <2>1. pc[t] \in {"inline", "inlineDone", "poison"} /\ arg[t].op = "Inline"
    BY <1>4 DEF Inlining
  <2>2. Executes(t) \/ Breaks(t) \/ Settles(t) \/ Poisons(t)
    BY <2>1 DEF Programs, Begins, Turns, Ends, Accepts, Reserves, Applies, Inlines, Releases,
       Commits
  <2>3. CASE Executes(t) \/ Breaks(t)
    <3>1. PICK q : q \in {"inlineDone", "poison"} /\ Moves(t, q, arg[t])
      BY <2>3 DEF Executes, Breaks
    <3>2. pc'[t] = q /\ arg'[t] = arg[t]
      BY <3>1, MovesTo
    <3>. QED
      BY <1>0, <1>4, <2>1, <3>1, <3>2
  <2>. QED
    BY <1>4, <2>2, <2>3
<1>. QED
  BY <1>3, <1>4

\* Only the cut entry leaves.
LEMMA CutKeeps ==
  ASSUME NEW s, Len(s) \in Nat, NEW k, NEW u, CutAt(s, k, u), NEW i \in 1..Len(s), i # k
  PROVE  \E j \in 1..Len(u) : u[j] = s[i]
<1>1. /\ k \in 1..Len(s) /\ Len(u) = Len(s) - 1
      /\ \A j \in 1..(Len(s) - 1) : u[j] = IF j < k THEN s[j] ELSE s[j + 1]
  BY DEF CutAt
<1>2. CASE i < k
  <2>1. i \in 1..(Len(s) - 1)
    BY <1>1, <1>2
  <2>. QED
    BY <1>1, <1>2, <2>1
<1>3. CASE ~ (i < k)
  <2>1. i - 1 \in 1..(Len(s) - 1) /\ ~ (i - 1 < k) /\ (i - 1) + 1 = i
    BY <1>1, <1>3
  <2>. QED
    BY <1>1, <2>1
<1>. QED
  BY <1>2, <1>3

\* What the FIFO retains when an element leaves.
LEMMA InQueueCut ==
  ASSUME Shared, NEW k, CutAt(queue, k, queue'), NEW n
  PROVE  InQueue(n) <=> InQueue(n)' \/ (~ IsHole(queue[k]) /\ queue[k].seq = n)
<1>1. InQueue(n)' <=> \E i \in 1..Len(queue') : ~ IsHole(queue'[i]) /\ queue'[i].seq = n
  BY DEF InQueue, IsHole
<1>2. \A i \in 1..Len(queue') : \E x \in 1..Len(queue) : queue'[i] = queue[x]
  BY CutTicks
<1>3. k \in 1..Len(queue) /\ Len(queue) \in Nat
  BY ItemFields DEF CutAt, Shared
<1>4. \A i \in 1..Len(queue) : i # k => \E j \in 1..Len(queue') : queue'[j] = queue[i]
  BY <1>3, CutKeeps
<1>5. InQueue(n)' => InQueue(n)
  BY <1>1, <1>2 DEF InQueue
<1>6. ~ IsHole(queue[k]) /\ queue[k].seq = n => InQueue(n)
  BY <1>3 DEF InQueue
<1>7. InQueue(n) => InQueue(n)' \/ (~ IsHole(queue[k]) /\ queue[k].seq = n)
  BY <1>1, <1>4 DEF InQueue
<1>. QED
  BY <1>5, <1>6, <1>7

\* What the FIFO retains when an element joins it.
LEMMA InQueueAppend ==
  ASSUME Shared, NEW e \in Items, queue' = Append(queue, e), NEW n
  PROVE  InQueue(n)' <=> InQueue(n) \/ (~ IsHole(e) /\ e.seq = n)
<1>1. InQueue(n)' <=> \E i \in 1..Len(queue') : ~ IsHole(queue'[i]) /\ queue'[i].seq = n
  BY DEF InQueue, IsHole
<1>2. /\ Len(queue') = Len(queue) + 1 /\ queue'[Len(queue) + 1] = e /\ Len(queue) \in Nat
      /\ \A i \in 1..Len(queue) : queue'[i] = queue[i]
  BY AppendEffect, ItemFields DEF Shared
<1>3. /\ \A i \in 1..Len(queue') : i \in 1..Len(queue) \/ i = Len(queue) + 1
      /\ \A i \in 1..Len(queue) : i \in 1..Len(queue')
      /\ Len(queue) + 1 \in 1..Len(queue')
  BY <1>2
<1>. QED
  BY <1>1, <1>2, <1>3 DEF InQueue

\* A thread's step keeps the retention exact.
LEMMA RetainedThread ==
  ASSUME Shared, Shared', Local, Stages, Owned, Retained, ThreadKind
  PROVE  Retained'
<1>1. PICK t \in Threads :
        \/ \E p, a : Programs(t, p, a) \/ Begins(t, p, a) \/ Turns(t, p, a)
        \/ Ends(t) \/ Accepts(t) \/ Reserves(t) \/ Applies(t) \/ Inlines(t) \/ Executes(t)
        \/ Settles(t) \/ Breaks(t) \/ Poisons(t)
        \/ \E k \in 1..Len(queue) : Releases(t, k) \/ Commits(t, k)
  BY DEF ThreadKind
<1>2. \A n : n \in held <=> InQueue(n) \/ InHand(n) \/ InCall(n)
  BY RetainedIs
<1>3. UNCHANGED <<wpc, witem>>
  BY <1>1 DEF Programs, Begins, Turns, Ends, Accepts, Reserves, Applies, Inlines, Executes,
     Settles, Breaks, Poisons, Releases, Commits, gvars
<1>4. \A n : InHand(n)' <=> InHand(n)
  BY <1>3 DEF InHand, Busy
<1>5. \A u \in Threads : Inlining(u)' =>
        (Inlining(u) /\ arg'[u] = arg[u]) \/ (u = t /\ Inlines(t) /\ arg'[u].seq = nextSeq)
  BY <1>1, OwnersThread
<1>6. \A u \in Threads : Inlining(u) =>
        (Inlining(u)' /\ arg'[u] = arg[u]) \/ (u = t /\ (Settles(t) \/ Poisons(t)))
  BY <1>1, InlinersThread
<1>7. \A n : InCall(n)' <=> \E u \in Threads : Inlining(u)' /\ arg'[u].seq = n
  BY DEF InCall
<1>8. ASSUME ~ Inlines(t), ~ Settles(t), ~ Poisons(t), NEW n
      PROVE  InCall(n)' <=> InCall(n)
  <2>1. InCall(n)' => InCall(n)
    BY <1>5, <1>7, <1>8 DEF InCall
  <2>2. InCall(n) => InCall(n)'
    BY <1>6, <1>7, <1>8 DEF InCall
  <2>. QED
    BY <2>1, <2>2
<1>9. ASSUME UNCHANGED queue, NEW n PROVE InQueue(n)' <=> InQueue(n)
  BY <1>9 DEF InQueue, IsHole
<1>10. CASE \/ \E p, a : Programs(t, p, a) \/ Begins(t, p, a) \/ Turns(t, p, a)
            \/ Ends(t) \/ Applies(t) \/ Executes(t) \/ Breaks(t)
  <2>1. UNCHANGED <<queue, held>>
    BY <1>10 DEF Programs, Begins, Turns, Ends, Applies, Executes, Breaks, gvars
  <2>2. CASE Settles(t) \/ Poisons(t) \/ Inlines(t)
    <3>1. CASE Inlines(t)
      <4>1. nextSeq' = nextSeq + 1 /\ nextSeq \in Nat
        BY <3>1 DEF Inlines, Numbers, Shared
      <4>2. nextSeq' = nextSeq
        BY <1>10 DEF Programs, Begins, Turns, Ends, Applies, Executes, Breaks, gvars
      <4>. QED
        BY <4>1, <4>2
    <3>2. CASE Settles(t) \/ Poisons(t)
      <4>1. pc'[t] = "idle" /\ pc[t] \in {"inlineDone", "poison"}
        BY <3>2, MovesTo DEF Settles, Poisons
      <4>2. ASSUME NEW q, NEW b, Programs(t, q, b) \/ Begins(t, q, b) \/ Turns(t, q, b)
            PROVE  FALSE
        BY <4>1, <4>2 DEF Programs, Begins, Turns
      <4>3. ~ Ends(t) /\ ~ Applies(t) /\ ~ Executes(t) /\ ~ Breaks(t)
        BY <4>1 DEF Ends, Applies, Executes, Breaks
      <4>. QED
        BY <1>10, <4>2, <4>3
    <3>. QED
      BY <2>2, <3>1, <3>2
  <2>3. CASE ~ Inlines(t) /\ ~ Settles(t) /\ ~ Poisons(t)
    <3>1. \A n : n \in held' <=> InQueue(n)' \/ InHand(n)' \/ InCall(n)'
      BY <1>2, <1>4, <1>8, <1>9, <2>1, <2>3
    <3>. QED
      BY <3>1, RetainedNext
  <2>. QED
    BY <2>2, <2>3
<1>11. CASE Accepts(t)
  <2>1. /\ Pushed(t) \in Items /\ ~ IsHole(Pushed(t)) /\ Pushed(t).seq = nextSeq
        /\ queue' = Append(queue, Pushed(t)) /\ held' = held \cup {nextSeq}
    BY <1>11, PushedIs DEF Accepts
  <2>2. \A n : InQueue(n)' <=> InQueue(n) \/ n = nextSeq
    BY <2>1, InQueueAppend
  <2>3. ~ Inlines(t) /\ ~ Settles(t) /\ ~ Poisons(t)
    BY <1>11 DEF Accepts, Inlines, Settles, Poisons
  <2>4. \A n : n \in held' <=> InQueue(n)' \/ InHand(n)' \/ InCall(n)'
    BY <1>2, <1>4, <1>8, <2>1, <2>2, <2>3
  <2>. QED
    BY <2>4, RetainedNext
<1>12. CASE Reserves(t)
  <2>1. /\ Placeholder(t) \in Items /\ IsHole(Placeholder(t))
        /\ queue' = Append(queue, Placeholder(t)) /\ held' = held
    BY <1>12, PlaceholderIs DEF Reserves
  <2>2. \A n : InQueue(n)' <=> InQueue(n)
    BY <2>1, InQueueAppend
  <2>3. ~ Inlines(t) /\ ~ Settles(t) /\ ~ Poisons(t)
    BY <1>12 DEF Reserves, Inlines, Settles, Poisons
  <2>4. \A n : n \in held' <=> InQueue(n)' \/ InHand(n)' \/ InCall(n)'
    BY <1>2, <1>4, <1>8, <2>1, <2>2, <2>3
  <2>. QED
    BY <2>4, RetainedNext
<1>13. CASE Inlines(t)
  <2>1. UNCHANGED queue /\ held' = held \cup {nextSeq}
    BY <1>13 DEF Inlines
  <2>2. ~ Settles(t) /\ ~ Poisons(t)
    BY <1>13 DEF Inlines, Settles, Poisons
  <2>3. Inlining(t)' /\ arg'[t].seq = nextSeq
    <3>. DEFINE b == [arg[t] EXCEPT !.seq = nextSeq]
    <3>1. Moves(t, "inline", b) /\ b.seq = nextSeq /\ b.op = "Inline"
      BY <1>13, InlineIs DEF Inlines
    <3>2. pc'[t] = "inline" /\ arg'[t] = b
      BY <3>1, MovesTo
    <3>. HIDE DEF b
    <3>. QED
      BY <3>1, <3>2 DEF Inlining
  <2>4. \A n : InCall(n)' <=> InCall(n) \/ n = nextSeq
    <3>1. \A n : InCall(n) => InCall(n)'
      BY <1>6, <1>7, <2>2 DEF InCall
    <3>2. \A n : InCall(n)' => InCall(n) \/ n = nextSeq
      BY <1>5, <1>7 DEF InCall
    <3>. QED
      BY <1>7, <2>3, <3>1, <3>2
  <2>5. \A n : n \in held' <=> InQueue(n)' \/ InHand(n)' \/ InCall(n)'
    BY <1>2, <1>4, <1>9, <2>1, <2>4
  <2>. QED
    BY <2>5, RetainedNext
<1>14. ASSUME NEW k \in 1..Len(queue), Releases(t, k) PROVE Retained'
  <2>1. CutAt(queue, k, queue') /\ IsHole(queue[k]) /\ held' = held
    BY <1>14 DEF Releases
  <2>2. \A n : InQueue(n)' <=> InQueue(n)
    BY <2>1, InQueueCut
  <2>3. ~ Inlines(t) /\ ~ Settles(t) /\ ~ Poisons(t)
    BY <1>14 DEF Releases, Inlines, Settles, Poisons
  <2>4. \A n : n \in held' <=> InQueue(n)' \/ InHand(n)' \/ InCall(n)'
    BY <1>2, <1>4, <1>8, <2>1, <2>2, <2>3
  <2>. QED
    BY <2>4, RetainedNext
<1>15. ASSUME NEW k \in 1..Len(queue), Commits(t, k) PROVE Retained'
  <2>1. /\ Len(queue') = Len(queue) /\ IsHole(queue[k]) /\ held' = held \cup {arg[t].seq}
        /\ \A i \in 1..Len(queue) : queue'[i] = IF i = k THEN Mutation(t) ELSE queue[i]
    BY <1>15 DEF Commits
  <2>2. ~ IsHole(Mutation(t)) /\ Mutation(t).seq = arg[t].seq
    <3>1. Reserving(t)
      BY <1>15 DEF Commits, Reserving
    <3>. QED
      BY <3>1, MutationIs
  <2>3. \A n : InQueue(n)' <=> \E i \in 1..Len(queue') : ~ IsHole(queue'[i]) /\ queue'[i].seq = n
    BY DEF InQueue, IsHole
  <2>4. \A n : InQueue(n)' <=> InQueue(n) \/ n = arg[t].seq
    BY <2>1, <2>2, <2>3 DEF InQueue
  <2>5. ~ Inlines(t) /\ ~ Settles(t) /\ ~ Poisons(t)
    BY <1>15 DEF Commits, Inlines, Settles, Poisons
  <2>6. \A n : n \in held' <=> InQueue(n)' \/ InHand(n)' \/ InCall(n)'
    BY <1>2, <1>4, <1>8, <2>1, <2>4, <2>5
  <2>. QED
    BY <2>6, RetainedNext
<1>16. CASE Settles(t) \/ Poisons(t)
  <2>1. UNCHANGED queue /\ pc'[t] = "idle" /\ ~ Inlines(t)
    <3>1. pc'[t] = "idle"
      BY <1>16, MovesTo DEF Settles, Poisons
    <3>. QED
      BY <1>16, <3>1 DEF Settles, Poisons, Inlines
  <2>2. \A u \in Threads : Inlining(u)' <=> Inlining(u) /\ u # t
    BY <1>5, <1>6, <2>1 DEF Inlining
  <2>3. \A u \in Threads : u # t => arg'[u] = arg[u]
    BY <1>16, MovesTo DEF Settles, Poisons
  <2>4. CASE Inlining(t)
    <3>1. held' = held \ {arg[t].seq}
      BY <1>16, <2>4 DEF Settles, Poisons, Inlining
    <3>2. \A n : InCall(n)' <=> InCall(n) /\ n # arg[t].seq
      <4>1. \A n : InCall(n)' => InCall(n) /\ n # arg[t].seq
        BY <1>7, <2>2, <2>3, <2>4 DEF InCall, Owned
      <4>2. \A n : InCall(n) /\ n # arg[t].seq => InCall(n)'
        BY <1>7, <2>2, <2>3 DEF InCall
      <4>. QED
        BY <4>1, <4>2
    <3>3. \A n : InQueue(n) => n # arg[t].seq
      BY <2>4 DEF InQueue, Owned
    <3>4. \A n : InHand(n) => n # arg[t].seq
      BY <2>4 DEF InHand, Owned
    <3>5. \A n : n \in held' <=> InQueue(n)' \/ InHand(n)' \/ InCall(n)'
      BY <1>2, <1>4, <1>9, <2>1, <3>1, <3>2, <3>3, <3>4
    <3>. QED
      BY <3>5, RetainedNext
  <2>5. CASE ~ Inlining(t)
    <3>1. held' = held
      <4>1. CASE Settles(t)
        <5>1. arg[t].op = "Inline" /\ pc[t] = "inlineDone"
          BY <4>1, InlineIs DEF Settles
        <5>. QED
          BY <2>5, <5>1 DEF Inlining
      <4>2. CASE Poisons(t)
        BY <2>5, <4>2 DEF Poisons, Inlining
      <4>. QED
        BY <1>16, <4>1, <4>2
    <3>2. \A n : InCall(n)' <=> InCall(n)
      BY <1>7, <2>2, <2>3, <2>5 DEF InCall
    <3>3. \A n : n \in held' <=> InQueue(n)' \/ InHand(n)' \/ InCall(n)'
      BY <1>2, <1>4, <1>9, <2>1, <3>1, <3>2
    <3>. QED
      BY <3>3, RetainedNext
  <2>. QED
    BY <2>4, <2>5
<1>. QED
  BY <1>1, <1>10, <1>11, <1>12, <1>13, <1>14, <1>15, <1>16

\* So do the other steps.
LEMMA RetainedOther ==
  ASSUME Shared, Shared', Local, Stages, Ordered, Owned, Retained, OtherKind
  PROVE  Retained'
<1>1. \A n : n \in held <=> InQueue(n) \/ InHand(n) \/ InCall(n)
  BY RetainedIs
<1>2. UNCHANGED <<pc, arg>>
  BY LocalOther
<1>3. \A n : InCall(n)' <=> InCall(n)
  BY <1>2 DEF InCall, Inlining
<1>4. ASSUME UNCHANGED queue, NEW n PROVE InQueue(n)' <=> InQueue(n)
  BY <1>4 DEF InQueue, IsHole
<1>5. CASE Rests \/ Refused \/ Quits \/ Plays \/ Publishes \/ Fails \/ Stops \/ Falls
  <2>1. UNCHANGED <<queue, held, witem>> /\ (Busy' <=> Busy)
    BY <1>5 DEF Rests, Refused, Quits, Plays, Publishes, Fails, Stops, Falls, Busy, gvars
  <2>2. \A n : InHand(n)' <=> InHand(n)
    BY <2>1 DEF InHand
  <2>3. \A n : n \in held' <=> InQueue(n)' \/ InHand(n)' \/ InCall(n)'
    BY <1>1, <1>3, <1>4, <2>1, <2>2
  <2>. QED
    BY <2>3, RetainedNext
<1>6. CASE Takes
  <2>1. /\ CutAt(queue, 1, queue') /\ witem' = queue[1] /\ ~ IsHole(queue[1]) /\ held' = held
        /\ Busy' /\ ~ Busy
    BY <1>6 DEF Takes, Busy
  <2>2. \A n : InQueue(n) <=> InQueue(n)' \/ queue[1].seq = n
    BY <2>1, InQueueCut
  <2>3. \A n : (InHand(n)' <=> queue[1].seq = n) /\ ~ InHand(n)
    BY <2>1 DEF InHand
  <2>4. \A n : n \in held' <=> InQueue(n)' \/ InHand(n)' \/ InCall(n)'
    BY <1>1, <1>3, <2>1, <2>2, <2>3
  <2>. QED
    BY <2>4, RetainedNext
<1>7. CASE Drops
  <2>1. UNCHANGED queue /\ held' = held \ {witem.seq} /\ Busy /\ ~ Busy'
    BY <1>7 DEF Drops, Busy
  <2>2. \A n : (InHand(n) <=> witem.seq = n) /\ ~ InHand(n)'
    BY <2>1 DEF InHand
  <2>3. \A i \in 1..Len(queue) : queue[i].seq # witem.seq
    <3>1. /\ \A i \in 1..Len(queue) : witem.seq < queue[i].seq /\ queue[i].seq \in Nat
          /\ witem.seq \in Nat
      BY <2>1, ItemHeld, ItemFields DEF Ordered, Before, Shared
    <3>. QED
      BY <3>1
  <2>4. \A n : InQueue(n) => n # witem.seq
    BY <2>3 DEF InQueue
  <2>5. \A n : InCall(n) => n # witem.seq
    BY <2>1 DEF InCall, Owned
  <2>6. \A n : n \in held' <=> InQueue(n)' \/ InHand(n)' \/ InCall(n)'
    BY <1>1, <1>3, <1>4, <2>1, <2>2, <2>4, <2>5
  <2>. QED
    BY <2>6, RetainedNext
<1>8. CASE Empties
  <2>. DEFINE All == {queue[i].seq : i \in 1..Len(queue)}
  <2>1. queue' = <<>> /\ held' = held \ All /\ ~ Busy /\ ~ Busy'
    BY <1>8 DEF Empties, Busy
  <2>2. 1..Len(queue') = {}
    BY <2>1
  <2>3. \A n : ~ InQueue(n)'
    BY <2>2 DEF InQueue
  <2>4. \A n : ~ InHand(n) /\ ~ InHand(n)'
    BY <2>1 DEF InHand
  <2>5. \A n : InQueue(n) => n \in All
    BY DEF InQueue
  <2>6. \A n : InCall(n) => n \notin All
    BY DEF InCall, Owned
  <2>. HIDE DEF All
  <2>7. \A n : n \in held' <=> InQueue(n)' \/ InHand(n)' \/ InCall(n)'
    BY <1>1, <1>3, <2>1, <2>3, <2>4, <2>5, <2>6
  <2>. QED
    BY <2>7, RetainedNext
<1>. QED
  BY <1>5, <1>6, <1>7, <1>8 DEF OtherKind


-----------------------------------------------------------------------------
(* The calls. *)

\* The places of a call that can still take an ordinal.
LEMMA TakingIs ==
  ASSUME Local, NEW t \in Threads
  PROVE  t \in Taking <=> \/ pc[t] \in {"push", "reserve"}
                          \/ arg[t].op = "Inline" /\
                             pc[t] \in {"drain", "drainWait", "drained", "inlineCheck"}
BY DEF Taking

\* At most one more thread than before may take an ordinal, for one more call.
LEMMA CountedMore ==
  ASSUME Shared, Counted, NEW t \in Threads, Taking' \subseteq Taking \cup {t},
         calls' = calls + 1, calls < MaxCalls, UNCHANGED nextSeq
  PROVE  Counted'
<1>1. IsFiniteSet(Taking) /\ Cardinality(Taking) \in Nat
  BY FS_CardinalityType DEF Counted
<1>2. IsFiniteSet(Taking \cup {t}) /\ Cardinality(Taking \cup {t}) \in Nat
        /\ Cardinality(Taking \cup {t}) <= Cardinality(Taking) + 1
  <2>1. /\ IsFiniteSet(Taking \cup {t})
        /\ \/ Cardinality(Taking \cup {t}) = Cardinality(Taking)
           \/ Cardinality(Taking \cup {t}) = Cardinality(Taking) + 1
    BY <1>1, FS_AddElement
  <2>. QED
    BY <1>1, <2>1
<1>3. IsFiniteSet(Taking') /\ Cardinality(Taking') <= Cardinality(Taking \cup {t})
  BY <1>2, FS_Subset
<1>4. Cardinality(Taking') \in Nat
  BY <1>3, FS_CardinalityType
<1>5. nextSeq - 1 + Cardinality(Taking) <= calls
  BY DEF Counted
<1>6. calls \in Nat /\ nextSeq \in Nat /\ MaxCalls \in Nat
  BY Bounds DEF Shared
<1>7. nextSeq' - 1 + Cardinality(Taking') <= calls' /\ calls' <= MaxCalls
  BY <1>1, <1>2, <1>3, <1>4, <1>5, <1>6
<1>. QED
  BY <1>3, <1>7 DEF Counted

\* No other thread than before may take an ordinal.
LEMMA CountedSame ==
  ASSUME Shared, Counted, Taking' \subseteq Taking, UNCHANGED <<calls, nextSeq>>
  PROVE  Counted'
<1>1. IsFiniteSet(Taking) /\ Cardinality(Taking) \in Nat
  BY FS_CardinalityType DEF Counted
<1>2. IsFiniteSet(Taking') /\ Cardinality(Taking') <= Cardinality(Taking)
  BY <1>1, FS_Subset
<1>3. Cardinality(Taking') \in Nat
  BY <1>2, FS_CardinalityType
<1>4. nextSeq - 1 + Cardinality(Taking) <= calls /\ calls <= MaxCalls
  BY DEF Counted
<1>5. calls \in Nat /\ nextSeq \in Nat
  BY DEF Shared
<1>6. nextSeq' - 1 + Cardinality(Taking') <= calls'
  BY <1>1, <1>2, <1>3, <1>4, <1>5
<1>. QED
  BY <1>2, <1>4, <1>6 DEF Counted

\* A thread takes its ordinal.
LEMMA CountedTakes ==
  ASSUME Shared, Counted, NEW t \in Taking, Taking' \subseteq Taking \ {t},
         UNCHANGED calls, nextSeq' = nextSeq + 1
  PROVE  Counted'
<1>1. IsFiniteSet(Taking) /\ Cardinality(Taking) \in Nat
  BY FS_CardinalityType DEF Counted
<1>2. IsFiniteSet(Taking \ {t}) /\ Cardinality(Taking \ {t}) = Cardinality(Taking) - 1
  BY <1>1, FS_RemoveElement
<1>3. IsFiniteSet(Taking') /\ Cardinality(Taking') <= Cardinality(Taking \ {t})
  BY <1>2, FS_Subset
<1>4. Cardinality(Taking') \in Nat
  BY <1>3, FS_CardinalityType
<1>5. nextSeq - 1 + Cardinality(Taking) <= calls /\ calls <= MaxCalls
  BY DEF Counted
<1>6. calls \in Nat /\ nextSeq \in Nat
  BY DEF Shared
<1>7. nextSeq' - 1 + Cardinality(Taking') <= calls'
  BY <1>1, <1>2, <1>3, <1>4, <1>5, <1>6
<1>. QED
  BY <1>3, <1>5, <1>7 DEF Counted

\* A thread's step takes an ordinal only for a call that was made.
LEMMA CountedThread ==
  ASSUME Shared, Local, Local', Stages, Counted, ThreadKind
  PROVE  Counted'
<1>1. PICK t \in Threads :
        \/ \E p, a : Programs(t, p, a) \/ Begins(t, p, a) \/ Turns(t, p, a)
        \/ Ends(t) \/ Accepts(t) \/ Reserves(t) \/ Applies(t) \/ Inlines(t) \/ Executes(t)
        \/ Settles(t) \/ Breaks(t) \/ Poisons(t)
        \/ \E k \in 1..Len(queue) : Releases(t, k) \/ Commits(t, k)
  BY DEF ThreadKind
<1>2. PICK p, a : Moves(t, p, a)
  BY <1>1 DEF Programs, Begins, Turns, Ends, Accepts, Reserves, Applies, Inlines, Executes,
     Settles, Breaks, Poisons, Releases, Commits
<1>3. /\ \A v \in Threads : v # t => pc'[v] = pc[v] /\ arg'[v] = arg[v]
      /\ Taking \subseteq Threads
      /\ Taking' = {u \in Threads : \/ pc'[u] \in {"push", "reserve"}
                                    \/ arg'[u].op = "Inline" /\
                                       pc'[u] \in {"drain", "drainWait", "drained", "inlineCheck"}}
  BY <1>2, MovesTo DEF Taking
<1>4. \A u \in Taking' : u = t \/ u \in Taking
  BY <1>3 DEF Taking
<1>5. t \in Taking' => \/ pc'[t] \in {"push", "reserve"}
                       \/ arg'[t].op = "Inline" /\
                          pc'[t] \in {"drain", "drainWait", "drained", "inlineCheck"}
  BY <1>3
<1>6. ASSUME NEW q, NEW b, Programs(t, q, b) \/ Begins(t, q, b) PROVE Counted'
  <2>1. calls' = calls + 1 /\ calls < MaxCalls /\ UNCHANGED nextSeq
    BY <1>6 DEF Programs, Begins, gvars
  <2>2. Taking' \subseteq Taking \cup {t}
    BY <1>4
  <2>. QED
    BY <2>1, <2>2, CountedMore
<1>7. ASSUME NEW q, NEW b, Turns(t, q, b) PROVE Counted'
  <2>1. pc'[t] = q /\ arg'[t] = b /\ UNCHANGED <<calls, nextSeq>>
    BY <1>7, MovesTo DEF Turns, gvars
  <2>2. t \in Taking' => t \in Taking
    <3>. SUFFICES ASSUME t \in Taking' PROVE t \in Taking
      OBVIOUS
    <3>1. q \notin {"push", "reserve"}
      BY <1>7 DEF Turns
    <3>2. b.op = "Inline" /\ q \in {"drain", "drainWait", "drained", "inlineCheck"}
      BY <1>5, <2>1, <3>1
    <3>3. \A x \in BufferArgs("Lost") : x.op = "Lost"
      BY ArgKinds
    <3>4. b = arg[t] /\ pc[t] \in {"drain", "drainWait", "drained"}
      BY <1>7, <3>2, <3>3 DEF Turns
    <3>. QED
      BY <3>2, <3>4 DEF Taking
  <2>3. Taking' \subseteq Taking
    BY <1>4, <2>2
  <2>. QED
    BY <2>1, <2>3, CountedSame
<1>8. ASSUME pc'[t] \in {"idle", "rotate", "inline", "inlineDone", "poison"} PROVE t \notin Taking'
  BY <1>5, <1>8
<1>9. CASE \/ Ends(t) \/ Applies(t) \/ Executes(t) \/ Settles(t) \/ Breaks(t) \/ Poisons(t)
           \/ \E k \in 1..Len(queue) : Releases(t, k) \/ Commits(t, k)
  <2>1. PICK q, b : q \in {"idle", "inlineDone", "poison"} /\ Moves(t, q, b)
    BY <1>9 DEF Ends, Applies, Executes, Settles, Breaks, Poisons, Releases, Commits
  <2>2. pc'[t] = q
    BY <2>1, MovesTo
  <2>3. UNCHANGED <<calls, nextSeq>>
    BY <1>9 DEF Ends, Applies, Executes, Settles, Breaks, Poisons, Releases, Commits, Leaves, gvars
  <2>4. Taking' \subseteq Taking
    BY <1>4, <1>8, <2>1, <2>2
  <2>. QED
    BY <2>3, <2>4, CountedSame
<1>10. CASE Accepts(t) \/ Reserves(t) \/ Inlines(t)
  <2>1. PICK q, b : q \in {"idle", "rotate", "inline"} /\ Moves(t, q, b)
    BY <1>10 DEF Accepts, Reserves, Inlines
  <2>2. pc'[t] = q
    BY <2>1, MovesTo
  <2>3. nextSeq' = nextSeq + 1 /\ UNCHANGED calls
    BY <1>10 DEF Accepts, Reserves, Inlines, Numbers, Leaves
  <2>4. t \in Taking
    <3>1. Inlines(t) => pc[t] = "inlineCheck" /\ arg[t].op = "Inline"
      BY InlineIs DEF Inlines
    <3>. QED
      BY <1>10, <3>1 DEF Accepts, Reserves, Taking
  <2>5. Taking' \subseteq Taking \ {t}
    BY <1>4, <1>8, <2>1, <2>2
  <2>. QED
    BY <2>3, <2>4, <2>5, <1>3, CountedTakes
<1>. QED
  BY <1>1, <1>6, <1>7, <1>9, <1>10

\* The other steps take none.
LEMMA CountedOther ==
  ASSUME Shared, Local, Counted, OtherKind
  PROVE  Counted'
<1>1. UNCHANGED Taking
  BY LocalOther DEF Taking
<1>2. UNCHANGED nextSeq
  BY DEF OtherKind, Rests, Refused, Takes, Quits, Plays, Publishes, Drops, Fails, Stops, Empties,
     Falls, Alone, gvars
<1>3. CASE Refused
  <2>1. calls' = calls + 1 /\ calls < MaxCalls
    BY <1>3 DEF Refused
  <2>2. /\ IsFiniteSet(Taking) /\ Cardinality(Taking) \in Nat
        /\ nextSeq - 1 + Cardinality(Taking) <= calls
    BY FS_CardinalityType DEF Counted
  <2>3. calls \in Nat /\ nextSeq \in Nat /\ MaxCalls \in Nat
    BY Bounds DEF Shared
  <2>4. nextSeq - 1 + Cardinality(Taking) <= calls' /\ calls' <= MaxCalls
    BY <2>1, <2>2, <2>3
  <2>. QED
    BY <1>1, <1>2, <2>2, <2>4 DEF Counted
<1>4. CASE Rests \/ Takes \/ Quits \/ Plays \/ Publishes \/ Drops \/ Fails \/ Stops \/ Empties
           \/ Falls
  <2>1. UNCHANGED calls
    BY <1>4 DEF Rests, Takes, Quits, Plays, Publishes, Drops, Fails, Stops, Empties, Falls, Alone
  <2>. QED
    BY <1>1, <1>2, <2>1 DEF Counted
<1>. QED
  BY <1>3, <1>4 DEF OtherKind


-----------------------------------------------------------------------------
(* The ledger. *)

\* The ledger after a step.
LEMMA LedgerNext ==
  ASSUME \A r \in Targets : lastQueued'[r] < nextSeq',
         \A r \in Targets : lastReplayed'[r] # 0 => lastReplayed'[r] \in Done',
         \A q \in Queries : /\ lastReplayed'[q] <= pollOrdinal'[q]
                            /\ pollOrdinal'[q] <= lastQueued'[q],
         \A i \in 1..Len(queue') : ~ IsHole(queue'[i]) => Unpolled(queue'[i], pollOrdinal'),
         wpc' = "replay" => Unpolled(witem', pollOrdinal'),
         wpc' = "publish" => \A q \in Queries : q \in witem'.res => witem'.seq <= pollOrdinal'[q],
         \A t \in Threads : KnowsAt(pc'[t], arg'[t], pollOrdinal', lastQueued', Done')
  PROVE  Ledger'
<1>1. \A x : IsHole(x) <=> x.kind = "hole"
  BY DEF IsHole
<1>2. \A i \in 1..Len(queue') : ~ IsHole(queue'[i]) => Unpolled(queue'[i], pollOrdinal')
  OBVIOUS
<1>. QED
  BY <1>1, <1>2 DEF Ledger, IsHole, Unpolled, KnowsAt

\* The numbers of the ledger.
LEMMA LedgerNumbers ==
  ASSUME Shared, Ledger
  PROVE  /\ nextSeq \in Nat
         /\ \A r \in Targets : /\ lastQueued[r] \in Nat /\ lastReplayed[r] \in Nat
                               /\ lastQueued[r] < nextSeq
         /\ \A q \in Queries : /\ q \in Targets /\ pollOrdinal[q] \in Nat
                               /\ lastReplayed[q] <= pollOrdinal[q]
                               /\ pollOrdinal[q] <= lastQueued[q]
<1>1. \A q \in Queries : q \in Targets
  BY DEF Targets
<1>. QED
  BY <1>1 DEF Shared, Ledger

\* Which steps write a query's snapshot.
Issuing(q) ==
  \/ \E t \in Threads : Executes(t) /\ q \in arg[t].chunk.res /\ pollOrdinal'[q] = arg[t].seq
  \/ wpc = "replay" /\ wpc' # "replay" /\ q \in witem.res /\ pollOrdinal'[q] = witem.seq
       /\ UNCHANGED <<pc, arg, queue>>

\* No other step does.
LEMMA PollSteps ==
  ASSUME Shared, Local, ThreadKind \/ OtherKind
  PROVE  \A q \in Queries : pollOrdinal'[q] = pollOrdinal[q] \/ Issuing(q)
<1>1. ASSUME NEW t \in Threads,
             \/ \E p, a : Programs(t, p, a) \/ Begins(t, p, a) \/ Turns(t, p, a)
             \/ Ends(t) \/ Accepts(t) \/ Reserves(t) \/ Applies(t) \/ Inlines(t)
             \/ Settles(t) \/ Breaks(t) \/ Poisons(t)
             \/ \E k \in 1..Len(queue) : Releases(t, k) \/ Commits(t, k)
      PROVE  UNCHANGED pollOrdinal
  BY <1>1 DEF Programs, Begins, Turns, Ends, Accepts, Reserves, Applies, Inlines, Settles,
     Breaks, Poisons, Releases, Commits, gvars
<1>2. ASSUME NEW t \in Threads, Executes(t), NEW q \in Queries
      PROVE  pollOrdinal'[q] = pollOrdinal[q] \/ Issuing(q)
  BY <1>2 DEF Executes, Polls, Issuing
<1>3. CASE ThreadKind
  BY <1>1, <1>2, <1>3 DEF ThreadKind
<1>4. CASE Plays \/ Fails
  <2>1. /\ UNCHANGED pollOrdinal \/ Polls(witem.res, witem.seq)
        /\ wpc = "replay" /\ wpc' # "replay" /\ UNCHANGED <<pc, arg, queue>>
    BY <1>4 DEF Plays, Fails, Alone
  <2>. QED
    BY <2>1 DEF Polls, Issuing
<1>5. CASE Rests \/ Refused \/ Takes \/ Quits \/ Publishes \/ Drops \/ Stops \/ Empties \/ Falls
  BY <1>5 DEF Rests, Refused, Takes, Quits, Publishes, Drops, Stops, Empties, Falls, gvars
<1>. QED
  BY <1>3, <1>4, <1>5 DEF OtherKind

\* A snapshot only rises, and never past what was accepted.
LEMMA PollGrows ==
  ASSUME Shared, Local, Stages, Ordered, Ledger, ThreadKind \/ OtherKind
  PROVE  \A q \in Queries : /\ pollOrdinal[q] <= pollOrdinal'[q]
                            /\ pollOrdinal'[q] <= lastQueued[q] /\ pollOrdinal'[q] \in Nat
<1>. SUFFICES ASSUME NEW q \in Queries
              PROVE  /\ pollOrdinal[q] <= pollOrdinal'[q]
                     /\ pollOrdinal'[q] <= lastQueued[q] /\ pollOrdinal'[q] \in Nat
  OBVIOUS
<1>1. /\ q \in Targets /\ pollOrdinal[q] \in Nat /\ lastQueued[q] \in Nat
      /\ pollOrdinal[q] <= lastQueued[q]
  BY LedgerNumbers
<1>2. CASE pollOrdinal'[q] = pollOrdinal[q]
  BY <1>1, <1>2
<1>3. ASSUME NEW t \in Threads, Executes(t), q \in arg[t].chunk.res, pollOrdinal'[q] = arg[t].seq
      PROVE  pollOrdinal[q] < pollOrdinal'[q] /\ pollOrdinal'[q] <= lastQueued[q]
               /\ pollOrdinal'[q] \in Nat
  <2>1. pc[t] = "inline"
    BY <1>3 DEF Executes
  <2>2. arg[t].seq \in Nat
    BY <2>1, InlineIs
  <2>. QED
    BY <1>3, <2>1, <2>2 DEF Ledger, KnowsAt
<1>4. ASSUME wpc = "replay", q \in witem.res, pollOrdinal'[q] = witem.seq
      PROVE  pollOrdinal[q] < pollOrdinal'[q] /\ pollOrdinal'[q] <= lastQueued[q]
               /\ pollOrdinal'[q] \in Nat
  <2>1. Busy
    BY <1>4 DEF Busy
  <2>2. Sound(witem) /\ ~ IsHole(witem) /\ witem.seq \in Nat
    BY <2>1, ItemHeld DEF Ordered
  <2>3. witem.seq <= lastQueued[q]
    BY <1>4, <2>2 DEF Sound, SoundAt, IsHole
  <2>4. pollOrdinal[q] < witem.seq
    BY <1>4 DEF Ledger, Unpolled
  <2>. QED
    BY <1>4, <2>2, <2>3, <2>4
<1>5. pollOrdinal'[q] = pollOrdinal[q] \/ Issuing(q)
  BY PollSteps
<1>6. CASE Issuing(q)
  <2>1. /\ pollOrdinal[q] < pollOrdinal'[q] /\ pollOrdinal'[q] <= lastQueued[q]
        /\ pollOrdinal'[q] \in Nat
    BY <1>3, <1>4, <1>6 DEF Issuing
  <2>. QED
    BY <1>1, <2>1
<1>. QED
  BY <1>2, <1>5, <1>6

\* Only a chunk of the program issues queries.
LEMMA NoIssue ==
  ASSUME NEW e \in Items, Sound(e), ~ IsHole(e), e.tick = 0, NEW q \in Queries
  PROVE  q \notin e.res
<1>1. e.kind \in {"Chunk", "StateBlock", "Mutation", "hole"}
  BY DEF Items
<1>2. e.kind \in {"StateBlock", "Mutation"}
  BY <1>1 DEF Sound, SoundAt, IsHole
<1>3. q \notin Buffers
  BY Bounds
<1>. QED
  BY <1>2, <1>3 DEF Sound, SoundAt

\* While a chunk is replayed inline, nothing else that issues queries is to be replayed.
LEMMA InlineAlone ==
  ASSUME Shared, Local, Stages, Ordered, Cleared, NEW t \in Threads, pc[t] = "inline",
         NEW q \in Queries
  PROVE  /\ \A i \in 1..Len(queue) : ~ IsHole(queue[i]) => q \notin queue[i].res
         /\ Busy => q \notin witem.res
         /\ \A u \in Threads : u # t => pc[u] # "inline"
<1>1. arg[t].op = "Inline"
  BY InlineIs
<1>2. Clear
  BY <1>1 DEF Cleared
<1>3. \A i \in 1..Len(queue) : queue[i] \in Items /\ Sound(queue[i]) /\ queue[i].tick = 0
  BY <1>2, ItemFields DEF Shared, Ordered, Clear
<1>4. \A i \in 1..Len(queue) : ~ IsHole(queue[i]) => q \notin queue[i].res
  BY <1>3, NoIssue
<1>5. Busy => q \notin witem.res
  <2>. SUFFICES ASSUME Busy PROVE q \notin witem.res
    OBVIOUS
  <2>1. witem \in Items /\ Sound(witem) /\ ~ IsHole(witem) /\ witem.tick = 0
    BY <1>2, ItemHeld DEF Ordered, Clear
  <2>. QED
    BY <2>1, NoIssue
<1>6. \A u \in Threads : u # t => pc[u] # "inline"
  <2>. SUFFICES ASSUME NEW u \in Threads, u # t, pc[u] = "inline" PROVE FALSE
    OBVIOUS
  <2>1. arg[u].op = "Inline"
    BY InlineIs
  <2>. QED
    BY <1>1, <2>1, OneRecorder DEF RecorderOps
<1>. QED
  BY <1>4, <1>5, <1>6

\* What is still to be replayed is still to be polled.
LEMMA StaysUnpolled ==
  ASSUME Shared, Local, Stages, Ordered, Cleared, Ledger, ThreadKind \/ OtherKind
  PROVE  /\ \A i \in 1..Len(queue) : ~ IsHole(queue[i]) => Unpolled(queue[i], pollOrdinal')
         /\ wpc = "replay" /\ wpc' = "replay" => Unpolled(witem, pollOrdinal')
         /\ \A t \in Threads : pc[t] = "inline" /\ ~ Executes(t) =>
              \A q \in Queries : q \in arg[t].chunk.res => pollOrdinal'[q] < arg[t].seq
<1>1. \A q \in Queries : pollOrdinal'[q] = pollOrdinal[q] \/ Issuing(q)
  BY PollSteps
<1>2. ASSUME NEW i \in 1..Len(queue), ~ IsHole(queue[i]), NEW q \in Queries, q \in queue[i].res
      PROVE  pollOrdinal'[q] < queue[i].seq
  <2>1. CASE pollOrdinal'[q] = pollOrdinal[q]
    BY <1>2, <2>1 DEF Ledger, Unpolled
  <2>2. ASSUME NEW t \in Threads, Executes(t) PROVE FALSE
    <3>1. pc[t] = "inline"
      BY <2>2 DEF Executes
    <3>. QED
      BY <1>2, <3>1, InlineAlone
  <2>3. CASE wpc = "replay" /\ pollOrdinal'[q] = witem.seq
    <3>1. Busy
      BY <2>3 DEF Busy
    <3>. QED
      BY <2>3, <3>1 DEF Ordered, Before
  <2>. QED
    BY <1>1, <2>1, <2>2, <2>3 DEF Issuing
<1>3. ASSUME wpc = "replay", wpc' = "replay", NEW q \in Queries, q \in witem.res
      PROVE  pollOrdinal'[q] < witem.seq
  <2>1. CASE pollOrdinal'[q] = pollOrdinal[q]
    BY <1>3, <2>1 DEF Ledger, Unpolled
  <2>2. ASSUME NEW t \in Threads, Executes(t) PROVE FALSE
    <3>1. pc[t] = "inline" /\ Busy
      BY <1>3, <2>2 DEF Executes, Busy
    <3>. QED
      BY <1>3, <3>1, InlineAlone
  <2>. QED
    BY <1>1, <1>3, <2>1, <2>2 DEF Issuing
<1>4. ASSUME NEW t \in Threads, pc[t] = "inline", ~ Executes(t), NEW q \in Queries,
             q \in arg[t].chunk.res
      PROVE  pollOrdinal'[q] < arg[t].seq
  <2>1. CASE pollOrdinal'[q] = pollOrdinal[q]
    BY <1>4, <2>1 DEF Ledger, KnowsAt
  <2>2. ASSUME NEW u \in Threads, Executes(u) PROVE FALSE
    <3>1. pc[u] = "inline" /\ u # t
      BY <1>4, <2>2 DEF Executes
    <3>. QED
      BY <1>4, <3>1, InlineAlone
  <2>3. CASE wpc = "replay" /\ q \in witem.res
    <3>1. Busy
      BY <2>3 DEF Busy
    <3>. QED
      BY <1>4, <2>3, <3>1, InlineAlone
  <2>. QED
    BY <1>1, <2>1, <2>2, <2>3 DEF Issuing
<1>. QED
  BY <1>2, <1>3, <1>4 DEF Unpolled

\* A thread that stays where it is keeps what it has of the ledger.
LEMMA KnowsKept ==
  ASSUME Shared, Shared', Local, Stages, Ordered, Cleared, Ledger, Grows, ThreadKind \/ OtherKind,
         NEW t \in Threads, pc'[t] = pc[t], arg'[t] = arg[t]
  PROVE  KnowsAt(pc'[t], arg'[t], pollOrdinal', lastQueued', Done')
<1>1. KnowsAt(pc[t], arg[t], pollOrdinal, lastQueued, Done)
  BY DEF Ledger
<1>2. Done \subseteq Done'
  BY DoneGrows
<1>3. ~ Executes(t)
  <2>. SUFFICES ASSUME Executes(t) PROVE FALSE
    OBVIOUS
  <2>1. pc[t] = "inline" /\ pc'[t] = "inlineDone"
    BY MovesTo DEF Executes
  <2>. QED
    BY <2>1
<1>4. ASSUME pc[t] = "inline", NEW q \in Queries, q \in arg[t].chunk.res
      PROVE  pollOrdinal'[q] < arg[t].seq /\ arg[t].seq <= lastQueued'[q]
  <2>1. pollOrdinal'[q] < arg[t].seq
    BY <1>3, <1>4, StaysUnpolled
  <2>2. arg[t].seq <= lastQueued[q] /\ arg[t].seq \in Nat
    BY <1>1, <1>4, InlineIs DEF KnowsAt
  <2>3. q \in Targets /\ lastQueued[q] \in Nat
    BY LedgerNumbers
  <2>4. lastQueued[q] <= lastQueued'[q] /\ lastQueued'[q] \in Nat
    BY <2>3 DEF Grows, Shared
  <2>. QED
    BY <2>1, <2>2, <2>3, <2>4
<1>5. ASSUME pc[t] = "inlineDone", NEW q \in Queries, q \in arg[t].chunk.res
      PROVE  arg[t].seq <= pollOrdinal'[q]
  <2>1. arg[t].seq <= pollOrdinal[q] /\ arg[t].seq \in Nat
    BY <1>1, <1>5, InlineIs DEF KnowsAt
  <2>2. pollOrdinal[q] <= pollOrdinal'[q] /\ pollOrdinal'[q] \in Nat /\ pollOrdinal[q] \in Nat
    BY PollGrows, LedgerNumbers
  <2>. QED
    BY <2>1, <2>2
<1>. QED
  BY <1>1, <1>2, <1>4, <1>5 DEF KnowsAt

\* The same, when its call has come further.
LEMMA KnowsMoved ==
  ASSUME Shared, Shared', Local, Stages, Ordered, Cleared, Ledger, Grows, ThreadKind,
         NEW t \in Threads,
         \/ \E p, a : Programs(t, p, a) \/ Begins(t, p, a) \/ Turns(t, p, a)
         \/ Ends(t) \/ Accepts(t) \/ Reserves(t) \/ Applies(t) \/ Inlines(t) \/ Executes(t)
         \/ Settles(t) \/ Breaks(t) \/ Poisons(t)
         \/ \E k \in 1..Len(queue) : Releases(t, k) \/ Commits(t, k)
  PROVE  KnowsAt(pc'[t], arg'[t], pollOrdinal', lastQueued', Done')
<1> DEFINE Goal == KnowsAt(pc'[t], arg'[t], pollOrdinal', lastQueued', Done')
<1>1. ASSUME pc'[t] \notin {"inline", "inlineDone", "receiptWait", "visit", "poll"} PROVE Goal
  BY <1>1 DEF KnowsAt
<1>2. Done \subseteq Done'
  BY DoneGrows
<1>3. ASSUME NEW p, NEW a, Programs(t, p, a) \/ Begins(t, p, a) PROVE Goal
  <2>1. /\ Moves(t, p, a) /\ p \in {"push", "drain", "pending", "reserve", "receiptWait"}
        /\ p = "receiptWait" => a.captured # 0
    BY <1>3 DEF Programs, Begins
  <2>2. pc'[t] = p /\ arg'[t] = a
    BY <2>1, MovesTo
  <2>. QED
    BY <2>1, <2>2 DEF KnowsAt
<1>4. ASSUME NEW p, NEW a, Turns(t, p, a) PROVE Goal
  <2>1. pc'[t] = p /\ arg'[t] = a
    BY <1>4, MovesTo DEF Turns
  <2>2. p \notin {"inline", "inlineDone", "receiptWait"}
    BY <1>4 DEF Turns
  <2>3. CASE p = "visit"
    <3>1. a = arg[t] /\ pc[t] = "receiptWait"
      BY <1>4, <2>3 DEF Turns
    <3>2. a.captured # 0
      BY <3>1 DEF Ledger, KnowsAt
    <3>. QED
      BY <2>1, <2>3, <3>2 DEF KnowsAt
  <2>4. CASE p = "poll"
    <3>1. a = arg[t] /\ pc[t] = "visit" /\ Classify(arg[t].captured, arg[t].query) = "Ready"
      BY <1>4, <2>4 DEF Turns
    <3>. DEFINE c == arg[t].captured
                q == arg[t].query
    <3>2. q \in Queries /\ c \in Nat /\ c # 0
      BY <3>1, ArgFields, ArgKinds DEF Ledger, KnowsAt
    <3>3. c = lastQueued[q] /\ lastReplayed[q] >= c
      BY <3>1 DEF Classify
    <3>4. /\ lastReplayed[q] <= lastQueued[q] /\ lastReplayed[q] \in Nat /\ lastQueued[q] \in Nat
          /\ q \in Targets
      BY <3>2, LedgerNumbers
    <3>5. lastReplayed[q] = c
      BY <3>2, <3>3, <3>4
    <3>6. c \in Done
      BY <3>2, <3>4, <3>5 DEF Ledger
    <3>. QED
      BY <1>2, <2>1, <2>4, <3>1, <3>6 DEF KnowsAt
  <2>. QED
    BY <1>1, <2>1, <2>2, <2>3, <2>4
<1>5. CASE \/ Ends(t) \/ Accepts(t) \/ Applies(t) \/ Settles(t) \/ Poisons(t)
           \/ \E k \in 1..Len(queue) : Releases(t, k) \/ Commits(t, k)
  <2>1. pc'[t] = "idle"
    BY <1>5, MovesTo DEF Ends, Accepts, Applies, Settles, Poisons, Releases, Commits
  <2>. QED
    BY <1>1, <2>1
<1>6. CASE Reserves(t) \/ Breaks(t)
  <2>1. PICK p, a : p \in {"rotate", "poison"} /\ Moves(t, p, a)
    BY <1>6 DEF Reserves, Breaks
  <2>2. pc'[t] = p
    BY <2>1, MovesTo
  <2>. QED
    BY <1>1, <2>1, <2>2
<1>7. CASE Inlines(t)
  <2>. DEFINE b == [arg[t] EXCEPT !.seq = nextSeq]
  <2>1. /\ Moves(t, "inline", b) /\ b.seq = nextSeq /\ b.chunk = arg[t].chunk
        /\ Stamps(arg[t].chunk.res)
    BY <1>7, InlineIs DEF Inlines
  <2>2. pc'[t] = "inline" /\ arg'[t] = b
    BY <2>1, MovesTo
  <2>. HIDE DEF b
  <2>3. ASSUME NEW q \in Queries, q \in b.chunk.res
        PROVE  pollOrdinal'[q] < b.seq /\ b.seq <= lastQueued'[q]
    <3>1. /\ q \in Targets /\ lastQueued[q] \in Nat /\ lastQueued[q] < nextSeq /\ nextSeq \in Nat
          /\ pollOrdinal'[q] <= lastQueued[q] /\ pollOrdinal'[q] \in Nat
      BY LedgerNumbers, PollGrows
    <3>2. lastQueued'[q] = nextSeq
      BY <2>1, <2>3, <3>1 DEF Stamps
    <3>. QED
      BY <2>1, <3>1, <3>2
  <2>. QED
    BY <2>2, <2>3 DEF KnowsAt
<1>8. CASE Executes(t)
  <2>1. /\ Moves(t, "inlineDone", arg[t]) /\ pc[t] = "inline"
        /\ effects' = Append(effects, Inlined(t)) /\ Polls(arg[t].chunk.res, arg[t].seq)
    BY <1>8 DEF Executes
  <2>2. pc'[t] = "inlineDone" /\ arg'[t] = arg[t]
    BY <2>1, MovesTo
  <2>3. Inlined(t) \in EffectType /\ Inlined(t).seq = arg[t].seq /\ arg[t].seq \in Nat
    BY <2>1, InlineIs DEF Inlined, EffectType
  <2>4. arg[t].seq \in Done'
    BY <2>1, <2>3, DoneAppend
  <2>5. \A q \in Queries : q \in arg[t].chunk.res => arg[t].seq <= pollOrdinal'[q]
    BY <2>1, <2>3 DEF Polls
  <2>. QED
    BY <2>2, <2>4, <2>5 DEF KnowsAt
<1>. QED
  BY <1>3, <1>4, <1>5, <1>6, <1>7, <1>8


\* A thread's step keeps the ledger.
LEMMA LedgerThread ==
  ASSUME Shared, Shared', Local, Stages, Ordered, Owned, Cleared, Ledger, Grows, ThreadKind
  PROVE  Ledger'
<1>1. PICK t \in Threads :
        \/ \E p, a : Programs(t, p, a) \/ Begins(t, p, a) \/ Turns(t, p, a)
        \/ Ends(t) \/ Accepts(t) \/ Reserves(t) \/ Applies(t) \/ Inlines(t) \/ Executes(t)
        \/ Settles(t) \/ Breaks(t) \/ Poisons(t)
        \/ \E k \in 1..Len(queue) : Releases(t, k) \/ Commits(t, k)
  BY DEF ThreadKind
<1>2. /\ nextSeq \in Nat
      /\ \A r \in Targets : /\ lastQueued[r] \in Nat /\ lastReplayed[r] \in Nat
                            /\ lastQueued[r] < nextSeq
      /\ \A q \in Queries : /\ q \in Targets /\ pollOrdinal[q] \in Nat
                            /\ lastReplayed[q] <= pollOrdinal[q]
                            /\ pollOrdinal[q] <= lastQueued[q]
      /\ \A q \in Queries : /\ pollOrdinal[q] <= pollOrdinal'[q]
                            /\ pollOrdinal'[q] <= lastQueued[q] /\ pollOrdinal'[q] \in Nat
  BY LedgerNumbers, PollGrows
<1>3. UNCHANGED <<wpc, witem>>
  BY <1>1 DEF Programs, Begins, Turns, Ends, Accepts, Reserves, Applies, Inlines, Executes,
     Settles, Breaks, Poisons, Releases, Commits, gvars
<1>4. \A r \in Targets : lastQueued'[r] < nextSeq'
  <2>1. CASE \/ \E p, a : Programs(t, p, a) \/ Begins(t, p, a) \/ Turns(t, p, a)
             \/ Ends(t) \/ Applies(t) \/ Executes(t) \/ Settles(t) \/ Breaks(t) \/ Poisons(t)
             \/ \E k \in 1..Len(queue) : Releases(t, k)
    <3>1. UNCHANGED <<lastQueued, nextSeq>>
      BY <2>1 DEF Programs, Begins, Turns, Ends, Applies, Executes, Settles, Breaks, Poisons,
         Releases, gvars
    <3>. QED
      BY <1>2, <3>1
  <2>2. CASE Reserves(t)
    <3>1. UNCHANGED lastQueued /\ nextSeq' = nextSeq + 1
      BY <2>2 DEF Reserves, Numbers
    <3>. QED
      BY <1>2, <3>1
  <2>3. CASE Accepts(t) \/ Inlines(t)
    <3>1. PICK res : Stamps(res) /\ Numbers
      BY <2>3 DEF Accepts, Inlines
    <3>2. \A r \in Targets : lastQueued'[r] = nextSeq \/ lastQueued'[r] = lastQueued[r]
      BY <3>1 DEF Stamps
    <3>. QED
      BY <1>2, <3>1, <3>2 DEF Numbers
  <2>4. ASSUME NEW k \in 1..Len(queue), Commits(t, k)
        PROVE  \A r \in Targets : lastQueued'[r] < nextSeq'
    <3>1. Reserving(t)
      BY <2>4 DEF Commits, Reserving
    <3>2. arg[t].seq \in 1..(nextSeq - 1)
      BY <3>1 DEF Owned
    <3>3. arg[t].seq < nextSeq
      BY <1>2, <3>2
    <3>. DEFINE b == arg[t].buf
                s == arg[t].seq
    <3>4. /\ lastQueued' = [lastQueued EXCEPT ![b] = IF s > lastQueued[b] THEN s ELSE lastQueued[b]]
          /\ UNCHANGED nextSeq /\ lastQueued \in [Targets -> Nat]
      BY <2>4 DEF Commits, Shared
    <3>5. s < nextSeq
      BY <3>3
    <3>. HIDE DEF b, s
    <3>6. \A r \in Targets : lastQueued'[r] = s \/ lastQueued'[r] = lastQueued[r]
      BY <3>4
    <3>. QED
      BY <1>2, <3>4, <3>5, <3>6
  <2>. QED
    BY <1>1, <2>1, <2>2, <2>3, <2>4
<1>5. \A q \in Queries : lastQueued[q] <= lastQueued'[q] /\ lastQueued'[q] \in Nat
  BY <1>2 DEF Grows, Shared
<1>6. Done \subseteq Done'
  BY DoneGrows
<1>7. /\ \A r \in Targets : lastReplayed'[r] # 0 => lastReplayed'[r] \in Done'
      /\ \A q \in Queries : lastReplayed'[q] <= pollOrdinal'[q] /\ pollOrdinal'[q] <= lastQueued'[q]
  <2>1. CASE UNCHANGED lastReplayed
    <3>1. \A r \in Targets : lastReplayed[r] # 0 => lastReplayed[r] \in Done
      BY DEF Ledger
    <3>2. \A q \in Queries : lastReplayed[q] <= pollOrdinal'[q] /\ pollOrdinal'[q] <= lastQueued'[q]
      BY <1>2, <1>5
    <3>. QED
      BY <1>6, <2>1, <3>1, <3>2
  <2>2. CASE Settles(t)
    <3>1. /\ pc[t] = "inlineDone" /\ UNCHANGED pollOrdinal
          /\ lastReplayed' = Replayed(arg[t].chunk.res, arg[t].seq)
      BY <2>2 DEF Settles
    <3>2. /\ arg[t].seq \in Done
          /\ \A q \in Queries : q \in arg[t].chunk.res => arg[t].seq <= pollOrdinal[q]
      BY <3>1 DEF Ledger, KnowsAt
    <3>3. \A r \in Targets : \/ lastReplayed'[r] = lastReplayed[r]
                             \/ r \in arg[t].chunk.res /\ lastReplayed'[r] = arg[t].seq
      BY <3>1 DEF Replayed
    <3>4. \A r \in Targets : lastReplayed[r] # 0 => lastReplayed[r] \in Done
      BY DEF Ledger
    <3>5. \A r \in Targets : lastReplayed'[r] # 0 => lastReplayed'[r] \in Done'
      BY <1>6, <3>2, <3>3, <3>4
    <3>6. \A q \in Queries : pollOrdinal'[q] <= lastQueued'[q]
      BY <1>2, <1>5
    <3>7. \A q \in Queries : lastReplayed'[q] <= pollOrdinal'[q]
      BY <1>2, <3>1, <3>2, <3>3
    <3>. QED
      BY <3>5, <3>6, <3>7
  <2>3. UNCHANGED lastReplayed \/ Settles(t)
    BY <1>1 DEF Programs, Begins, Turns, Ends, Accepts, Reserves, Applies, Inlines, Executes,
       Breaks, Poisons, Releases, Commits, gvars
  <2>. QED
    BY <2>1, <2>2, <2>3
<1>8. /\ \A i \in 1..Len(queue) : ~ IsHole(queue[i]) => Unpolled(queue[i], pollOrdinal')
      /\ wpc = "replay" /\ wpc' = "replay" => Unpolled(witem, pollOrdinal')
  BY StaysUnpolled
<1>9. \A i \in 1..Len(queue') : ~ IsHole(queue'[i]) => Unpolled(queue'[i], pollOrdinal')
  <2>1. CASE \A i \in 1..Len(queue') : \E x \in 1..Len(queue) : queue'[i] = queue[x]
    BY <1>8, <2>1
  <2>2. ASSUME NEW e \in Items, queue' = Append(queue, e),
               ~ IsHole(e) => Unpolled(e, pollOrdinal')
        PROVE  \A i \in 1..Len(queue') : ~ IsHole(queue'[i]) => Unpolled(queue'[i], pollOrdinal')
    <3>1. /\ Len(queue') = Len(queue) + 1 /\ queue'[Len(queue) + 1] = e /\ Len(queue) \in Nat
          /\ \A i \in 1..Len(queue) : queue'[i] = queue[i]
      BY <2>2, AppendEffect, ItemFields DEF Shared
    <3>2. \A i \in 1..Len(queue') : i \in 1..Len(queue) \/ i = Len(queue) + 1
      BY <3>1
    <3>. QED
      BY <1>8, <2>2, <3>1, <3>2
  <2>3. CASE Accepts(t)
    <3>1. /\ Pushed(t) \in Items /\ queue' = Append(queue, Pushed(t)) /\ Pushed(t).seq = nextSeq
      BY <2>3, PushedIs DEF Accepts
    <3>2. \A q \in Queries : pollOrdinal'[q] < nextSeq
      BY <1>2
    <3>3. Unpolled(Pushed(t), pollOrdinal')
      BY <3>1, <3>2 DEF Unpolled
    <3>. QED
      BY <2>2, <3>1, <3>3
  <2>4. CASE Reserves(t)
    <3>1. Placeholder(t) \in Items /\ queue' = Append(queue, Placeholder(t)) /\ IsHole(Placeholder(t))
      BY <2>4, PlaceholderIs DEF Reserves
    <3>. QED
      BY <2>2, <3>1
  <2>5. ASSUME NEW k \in 1..Len(queue), Commits(t, k)
        PROVE  \A i \in 1..Len(queue') : ~ IsHole(queue'[i]) => Unpolled(queue'[i], pollOrdinal')
    <3>1. Reserving(t)
      BY <2>5 DEF Commits, Reserving
    <3>2. Mutation(t).res = {arg[t].buf} /\ arg[t].buf \in Buffers
      BY <3>1, MutationIs
    <3>3. \A q \in Queries : q \notin Mutation(t).res
      BY <3>2, Bounds
    <3>4. Unpolled(Mutation(t), pollOrdinal')
      BY <3>3 DEF Unpolled
    <3>5. /\ Len(queue') = Len(queue)
          /\ \A i \in 1..Len(queue) : queue'[i] = IF i = k THEN Mutation(t) ELSE queue[i]
      BY <2>5 DEF Commits
    <3>. QED
      BY <1>8, <3>4, <3>5
  <2>6. ASSUME NEW k \in 1..Len(queue), Releases(t, k)
        PROVE  \A i \in 1..Len(queue') : ~ IsHole(queue'[i]) => Unpolled(queue'[i], pollOrdinal')
    <3>1. CutAt(queue, k, queue')
      BY <2>6 DEF Releases
    <3>. QED
      BY <2>1, <3>1, CutTicks
  <2>7. CASE \/ \E p, a : Programs(t, p, a) \/ Begins(t, p, a) \/ Turns(t, p, a)
             \/ Ends(t) \/ Applies(t) \/ Inlines(t) \/ Executes(t) \/ Settles(t) \/ Breaks(t)
             \/ Poisons(t)
    <3>1. UNCHANGED queue
      BY <2>7 DEF Programs, Begins, Turns, Ends, Applies, Inlines, Executes, Settles, Breaks,
         Poisons, gvars
    <3>. QED
      BY <2>1, <3>1
  <2>. QED
    BY <1>1, <2>3, <2>4, <2>5, <2>6, <2>7
<1>10. wpc' = "replay" => Unpolled(witem', pollOrdinal')
  BY <1>3, <1>8
<1>11. wpc' = "publish" => \A q \in Queries : q \in witem'.res => witem'.seq <= pollOrdinal'[q]
  <2>. SUFFICES ASSUME wpc = "publish", NEW q \in Queries, q \in witem.res
                PROVE  witem.seq <= pollOrdinal'[q]
    BY <1>3
  <2>1. witem.seq <= pollOrdinal[q] /\ witem.seq \in Nat
    BY ItemHeld DEF Ledger, Busy
  <2>. QED
    BY <1>2, <2>1
<1>12. \A u \in Threads : KnowsAt(pc'[u], arg'[u], pollOrdinal', lastQueued', Done')
  <2>1. PICK p, a : Moves(t, p, a)
    BY <1>1 DEF Programs, Begins, Turns, Ends, Accepts, Reserves, Applies, Inlines, Executes,
       Settles, Breaks, Poisons, Releases, Commits
  <2>2. \A v \in Threads : v # t => pc'[v] = pc[v] /\ arg'[v] = arg[v]
    BY <2>1, MovesTo
  <2>3. KnowsAt(pc'[t], arg'[t], pollOrdinal', lastQueued', Done')
    BY <1>1, KnowsMoved
  <2>. QED
    BY <2>2, <2>3, KnowsKept
<1>. QED
  BY <1>4, <1>7, <1>9, <1>10, <1>11, <1>12, LedgerNext

\* So do the other steps.
LEMMA LedgerOther ==
  ASSUME Shared, Shared', Local, Stages, Ordered, Effected, Cleared, Ledger, Grows, OtherKind
  PROVE  Ledger'
<1>1. UNCHANGED <<pc, arg, nextSeq, lastQueued>>
  BY DEF OtherKind, Rests, Refused, Takes, Quits, Plays, Publishes, Drops, Fails, Stops, Empties,
     Falls, Alone, gvars
<1>2. /\ nextSeq \in Nat
      /\ \A r \in Targets : /\ lastQueued[r] \in Nat /\ lastReplayed[r] \in Nat
                            /\ lastQueued[r] < nextSeq
      /\ \A q \in Queries : /\ q \in Targets /\ pollOrdinal[q] \in Nat
                            /\ lastReplayed[q] <= pollOrdinal[q]
                            /\ pollOrdinal[q] <= lastQueued[q]
      /\ \A q \in Queries : /\ pollOrdinal[q] <= pollOrdinal'[q]
                            /\ pollOrdinal'[q] <= lastQueued[q] /\ pollOrdinal'[q] \in Nat
  BY LedgerNumbers, PollGrows
<1>3. Done \subseteq Done'
  BY DoneGrows
<1>4. \A r \in Targets : lastQueued'[r] < nextSeq'
  BY <1>1, <1>2
<1>5. /\ \A r \in Targets : lastReplayed'[r] # 0 => lastReplayed'[r] \in Done'
      /\ \A q \in Queries : lastReplayed'[q] <= pollOrdinal'[q] /\ pollOrdinal'[q] <= lastQueued'[q]
  <2>0. \A r \in Targets : lastReplayed[r] # 0 => lastReplayed[r] \in Done
    BY DEF Ledger
  <2>1. CASE UNCHANGED lastReplayed
    <3>1. \A q \in Queries : lastReplayed[q] <= pollOrdinal'[q] /\ pollOrdinal'[q] <= lastQueued[q]
      BY <1>2
    <3>. QED
      BY <1>1, <1>3, <2>0, <2>1, <3>1
  <2>2. CASE Publishes
    <3>1. /\ wpc = "publish" /\ UNCHANGED pollOrdinal
          /\ lastReplayed' = Replayed(witem.res, witem.seq)
      BY <2>2 DEF Publishes
    <3>2. /\ witem.seq \in Done
          /\ \A q \in Queries : q \in witem.res => witem.seq <= pollOrdinal[q]
      BY <3>1 DEF Ledger, Effected
    <3>3. \A r \in Targets : \/ lastReplayed'[r] = lastReplayed[r]
                             \/ r \in witem.res /\ lastReplayed'[r] = witem.seq
      BY <3>1 DEF Replayed
    <3>4. \A r \in Targets : lastReplayed'[r] # 0 => lastReplayed'[r] \in Done'
      BY <1>3, <2>0, <3>2, <3>3
    <3>5. \A q \in Queries : lastReplayed'[q] <= pollOrdinal'[q]
      BY <1>2, <3>1, <3>2, <3>3
    <3>. QED
      BY <1>1, <1>2, <3>4, <3>5
  <2>3. UNCHANGED lastReplayed \/ Publishes
    BY DEF OtherKind, Rests, Refused, Takes, Quits, Plays, Drops, Fails, Stops, Empties,
       Falls, gvars
  <2>. QED
    BY <2>1, <2>2, <2>3
<1>6. /\ \A i \in 1..Len(queue) : ~ IsHole(queue[i]) => Unpolled(queue[i], pollOrdinal')
      /\ wpc = "replay" /\ wpc' = "replay" => Unpolled(witem, pollOrdinal')
  BY StaysUnpolled
<1>7. CASE Takes
  <2>1. /\ CutAt(queue, 1, queue') /\ witem' = queue[1] /\ ~ IsHole(queue[1]) /\ wpc' = "replay"
        /\ 1 \in 1..Len(queue)
    BY <1>7 DEF Takes, CutAt
  <2>2. \A i \in 1..Len(queue') : ~ IsHole(queue'[i]) => Unpolled(queue'[i], pollOrdinal')
    BY <1>6, <2>1, CutTicks
  <2>3. Unpolled(witem', pollOrdinal')
    BY <1>6, <2>1
  <2>4. \A u \in Threads : KnowsAt(pc'[u], arg'[u], pollOrdinal', lastQueued', Done')
    BY <1>1, KnowsKept
  <2>. QED
    BY <1>4, <1>5, <2>1, <2>2, <2>3, <2>4, LedgerNext
<1>8. CASE ~ Takes
  <2>1. UNCHANGED queue \/ queue' = <<>>
    BY <1>8 DEF OtherKind, Rests, Refused, Quits, Plays, Publishes, Drops, Fails, Stops, Empties,
       Falls, gvars
  <2>2. 1..Len(<<>>) = {}
    OBVIOUS
  <2>3. \A i \in 1..Len(queue') : ~ IsHole(queue'[i]) => Unpolled(queue'[i], pollOrdinal')
    BY <1>6, <2>1, <2>2
  <2>4. wpc' = "replay" => wpc = "replay" /\ witem' = witem
    BY <1>8 DEF OtherKind, Rests, Refused, Quits, Plays, Publishes, Drops, Fails, Stops, Empties,
       Falls, gvars
  <2>5. wpc' = "publish" => witem' = witem /\ (wpc = "publish" \/ Plays)
    BY <1>8 DEF OtherKind, Rests, Refused, Quits, Plays, Publishes, Drops, Fails, Stops, Empties,
       Falls, gvars
  <2>6. wpc' = "publish" => \A q \in Queries : q \in witem'.res => witem'.seq <= pollOrdinal'[q]
    <3>. SUFFICES ASSUME wpc' = "publish", NEW q \in Queries, q \in witem.res
                  PROVE  witem.seq <= pollOrdinal'[q]
      BY <2>5
    <3>1. wpc \in {"publish", "replay"}
      BY <2>5 DEF Plays
    <3>2. witem.seq \in Nat
      BY <3>1, ItemHeld DEF Busy
    <3>3. CASE wpc = "publish"
      <4>1. witem.seq <= pollOrdinal[q]
        BY <3>3 DEF Ledger
      <4>. QED
        BY <1>2, <3>2, <4>1
    <3>4. CASE Plays
      <4>1. pollOrdinal'[q] = witem.seq
        BY <3>4 DEF Plays, Polls
      <4>. QED
        BY <3>2, <4>1
    <3>. QED
      BY <2>5, <3>3, <3>4
  <2>7. \A u \in Threads : KnowsAt(pc'[u], arg'[u], pollOrdinal', lastQueued', Done')
    BY <1>1, KnowsKept
  <2>. QED
    BY <1>4, <1>5, <1>6, <2>3, <2>4, <2>6, <2>7, LedgerNext
<1>. QED
  BY <1>7, <1>8

-----------------------------------------------------------------------------
(* The fences. *)

\* What is outstanding: in the FIFO, or with the worker.
LEMMA OutstandingIs ==
  ASSUME Shared
  PROVE  \A n : n \in Outstanding <=> InQueue(n) \/ (wpc = "replay" /\ witem.seq = n)
<1>1. DOMAIN queue = 1..Len(queue)
  BY ItemFields DEF Shared
<1>. QED
  BY <1>1 DEF Outstanding, InQueue

\* The same after a step.
LEMMA OutstandingNext ==
  ASSUME Shared'
  PROVE  \A n : n \in Outstanding' <=> InQueue(n)' \/ (wpc' = "replay" /\ witem'.seq = n)
<1>1. DOMAIN queue' = 1..Len(queue')
  BY ItemFields DEF Shared
<1>. QED
  BY <1>1 DEF Outstanding, InQueue, IsHole

\* While the device runs and has not failed, what is outstanding stays so until it is done.
LEMMA OutstandingStays ==
  ASSUME Shared, Shared', Local, Stages, ThreadKind \/ OtherKind, terminal' = "Running", down = "up"
  PROVE  Outstanding \subseteq Outstanding' \cup Done'
<1>1. \A n : n \in Outstanding <=> InQueue(n) \/ (wpc = "replay" /\ witem.seq = n)
  BY OutstandingIs
<1>2. \A n : n \in Outstanding' <=> InQueue(n)' \/ (wpc' = "replay" /\ witem'.seq = n)
  BY OutstandingNext
<1>3. ASSUME UNCHANGED queue, NEW n PROVE InQueue(n) => InQueue(n)'
  BY <1>3 DEF InQueue, IsHole
<1>4. ASSUME NEW t \in Threads,
             \/ \E p, a : Programs(t, p, a) \/ Begins(t, p, a) \/ Turns(t, p, a)
             \/ Ends(t) \/ Accepts(t) \/ Reserves(t) \/ Applies(t) \/ Inlines(t) \/ Executes(t)
             \/ Settles(t) \/ Breaks(t) \/ Poisons(t)
             \/ \E k \in 1..Len(queue) : Releases(t, k) \/ Commits(t, k)
      PROVE  Outstanding \subseteq Outstanding'
  <2>1. UNCHANGED <<wpc, witem>>
    BY <1>4 DEF Programs, Begins, Turns, Ends, Accepts, Reserves, Applies, Inlines, Executes,
       Settles, Breaks, Poisons, Releases, Commits, gvars
  <2>2. ASSUME \A n : InQueue(n) => InQueue(n)' PROVE Outstanding \subseteq Outstanding'
    BY <1>1, <1>2, <2>1, <2>2
  <2>3. CASE Accepts(t)
    <3>1. Pushed(t) \in Items /\ queue' = Append(queue, Pushed(t))
      BY <2>3, PushedIs DEF Accepts
    <3>. QED
      BY <2>2, <3>1, InQueueAppend
  <2>4. CASE Reserves(t)
    <3>1. Placeholder(t) \in Items /\ queue' = Append(queue, Placeholder(t))
      BY <2>4, PlaceholderIs DEF Reserves
    <3>. QED
      BY <2>2, <3>1, InQueueAppend
  <2>5. ASSUME NEW k \in 1..Len(queue), Releases(t, k) PROVE Outstanding \subseteq Outstanding'
    <3>1. CutAt(queue, k, queue') /\ IsHole(queue[k])
      BY <2>5 DEF Releases
    <3>. QED
      BY <2>2, <3>1, InQueueCut
  <2>6. ASSUME NEW k \in 1..Len(queue), Commits(t, k) PROVE Outstanding \subseteq Outstanding'
    <3>1. /\ Len(queue') = Len(queue) /\ IsHole(queue[k])
          /\ \A i \in 1..Len(queue) : queue'[i] = IF i = k THEN Mutation(t) ELSE queue[i]
      BY <2>6 DEF Commits
    <3>2. \A n : InQueue(n)' <=> \E i \in 1..Len(queue') : ~ IsHole(queue'[i]) /\ queue'[i].seq = n
      BY DEF InQueue, IsHole
    <3>3. \A n : InQueue(n) => InQueue(n)'
      BY <3>1, <3>2 DEF InQueue
    <3>. QED
      BY <2>2, <3>3
  <2>7. CASE \/ \E p, a : Programs(t, p, a) \/ Begins(t, p, a) \/ Turns(t, p, a)
             \/ Ends(t) \/ Applies(t) \/ Inlines(t) \/ Executes(t) \/ Settles(t) \/ Breaks(t)
             \/ Poisons(t)
    <3>1. UNCHANGED queue
      BY <2>7 DEF Programs, Begins, Turns, Ends, Applies, Inlines, Executes, Settles, Breaks,
         Poisons, gvars
    <3>. QED
      BY <1>3, <2>2, <3>1
  <2>. QED
    BY <1>4, <2>3, <2>4, <2>5, <2>6, <2>7
<1>5. CASE ThreadKind
  BY <1>4, <1>5 DEF ThreadKind
<1>6. CASE Takes
  <2>1. CutAt(queue, 1, queue') /\ witem' = queue[1] /\ wpc' = "replay" /\ wpc = "pop"
    BY <1>6 DEF Takes
  <2>2. \A n : InQueue(n) => InQueue(n)' \/ queue[1].seq = n
    BY <2>1, InQueueCut
  <2>. QED
    BY <1>1, <1>2, <2>1, <2>2
<1>7. CASE Plays
  <2>1. /\ UNCHANGED <<queue, witem>> /\ wpc = "replay" /\ effects' = Append(effects, Carried)
    BY <1>7 DEF Plays
  <2>2. Carried \in EffectType /\ Carried.seq = witem.seq
    BY <2>1, ItemHeld DEF Busy, Carried, EffectType
  <2>3. witem.seq \in Done'
    BY <2>1, <2>2, DoneAppend
  <2>. QED
    BY <1>1, <1>2, <1>3, <2>1, <2>3
<1>8. CASE Rests \/ Refused \/ Quits \/ Publishes \/ Drops \/ Fails \/ Stops \/ Falls
  <2>1. /\ UNCHANGED queue /\ (wpc = "replay" => wpc' = "replay" /\ witem' = witem)
    BY <1>8 DEF Rests, Refused, Quits, Publishes, Drops, Fails, Stops, Falls, gvars
  <2>. QED
    BY <1>1, <1>2, <1>3, <2>1
<1>9. CASE Empties
  <2>1. wpc \in {"epilogue", "exited"} /\ UNCHANGED terminal
    BY <1>9 DEF Empties
  <2>. QED
    BY <2>1 DEF Stages
<1>. QED
  BY <1>5, <1>6, <1>7, <1>8, <1>9 DEF OtherKind

\* A fence still holds for a thread that stays where it is.
LEMMA WaitsKept ==
  ASSUME Shared, Shared', Local, Stages, Fenced, ThreadKind \/ OtherKind,
         NEW t \in Threads, pc'[t] = pc[t], arg'[t] = arg[t]
  PROVE  WaitsAt(pc'[t], arg'[t], Outstanding', Done', terminal')
<1>1. WaitsAt(pc[t], arg[t], Outstanding, Done, terminal)
  BY DEF Fenced
<1>2. Done \subseteq Done' /\ (terminal' = "Running" => terminal = "Running")
  BY DoneGrows, StaysRunning
<1>3. CASE down = "up"
  <2>1. terminal' = "Running" => Outstanding \subseteq Outstanding' \cup Done'
    BY <1>3, OutstandingStays
  <2>. DEFINE o == Outstanding
              o2 == Outstanding'
              d == Done
              d2 == Done'
  <2>2. /\ WaitsAt(pc[t], arg[t], o, d, terminal) /\ d \subseteq d2
        /\ terminal' = "Running" => terminal = "Running" /\ o \subseteq o2 \cup d2
    BY <1>1, <1>2, <2>1
  <2>. HIDE DEF o, o2, d, d2
  <2>3. WaitsAt(pc[t], arg[t], o2, d2, terminal')
    BY <2>2 DEF WaitsAt
  <2>. QED
    BY <2>3 DEF o2, d2
<1>4. CASE down # "up"
  <2>1. pc[t] = "idle"
    BY <1>4 DEF Stages
  <2>. QED
    BY <2>1 DEF WaitsAt
<1>. QED
  BY <1>3, <1>4

\* A step of the worker or of the teardown keeps the fences.
LEMMA FencedOther ==
  ASSUME Shared, Shared', Local, Stages, Fenced, OtherKind
  PROVE  Fenced'
<1>1. UNCHANGED <<pc, arg>>
  BY LocalOther
<1>2. \A t \in Threads : WaitsAt(pc'[t], arg'[t], Outstanding', Done', terminal')
  BY <1>1, WaitsKept
<1>. QED
  BY <1>2 DEF Fenced, WaitsAt

\* So does a thread's step.
LEMMA FencedThread ==
  ASSUME Shared, Shared', Local, Stages, Fenced, ThreadKind
  PROVE  Fenced'
<1>1. PICK t \in Threads :
        \/ \E p, a : Programs(t, p, a) \/ Begins(t, p, a) \/ Turns(t, p, a)
        \/ Ends(t) \/ Accepts(t) \/ Reserves(t) \/ Applies(t) \/ Inlines(t) \/ Executes(t)
        \/ Settles(t) \/ Breaks(t) \/ Poisons(t)
        \/ \E k \in 1..Len(queue) : Releases(t, k) \/ Commits(t, k)
  BY DEF ThreadKind
<1> DEFINE Goal == WaitsAt(pc'[t], arg'[t], Outstanding', Done', terminal')
<1>2. ASSUME \/ pc'[t] \notin {"push", "drain", "drainWait", "drained", "inCall"}
             \/ arg'[t].op \notin {"StateBlock", "Direct"}
      PROVE  Goal
  BY <1>2 DEF WaitsAt
<1>3. /\ Idle.op = "none"
      /\ \A a \in ChunkArgs : a.op = "Chunk"
      /\ \A a \in InlineArgs : a.op = "Inline"
      /\ \A o : \A a \in BufferArgs(o) : a.op = o
      /\ \A a \in MutationArgs : a.op = "Mutation"
      /\ \A a \in QueryArgs : a.op = "Query"
  BY ArgKinds
<1>4. Done \subseteq Done' /\ (terminal' = "Running" => terminal = "Running")
  BY DoneGrows, StaysRunning
<1>5. ASSUME NEW p, NEW a, Programs(t, p, a) \/ Begins(t, p, a) PROVE Goal
  <2>1. /\ Moves(t, p, a) /\ down = "up"
        /\ \/ p \in {"push", "drain"} /\ a.need = Outstanding
           \/ p \notin {"push", "drain", "drainWait", "drained", "inCall"}
           \/ a.op \notin {"StateBlock", "Direct"}
    BY <1>3, <1>5 DEF Programs, Begins
  <2>2. pc'[t] = p /\ arg'[t] = a
    BY <2>1, MovesTo
  <2>3. terminal' = "Running" => Outstanding \subseteq Outstanding' \cup Done'
    BY <2>1, OutstandingStays
  <2>4. CASE p \in {"push", "drain"} /\ a.need = Outstanding
    BY <2>2, <2>3, <2>4 DEF WaitsAt
  <2>. QED
    BY <1>2, <2>1, <2>2, <2>4
<1>6. ASSUME NEW p, NEW a, Turns(t, p, a) PROVE Goal
  <2>1. pc'[t] = p /\ arg'[t] = a
    BY <1>6, MovesTo DEF Turns
  <2>2. WaitsAt(pc[t], arg[t], Outstanding, Done, terminal)
    BY DEF Fenced
  <2>3. pc[t] # "idle" /\ p \in Places /\ a \in ArgsAt(p)
    BY <1>6, TurnsArgs
  <2>4. down = "up"
    BY <2>3 DEF Stages
  <2>5. terminal' = "Running" => Outstanding \subseteq Outstanding' \cup Done'
    BY <2>4, OutstandingStays
  <2>6. CASE p \in {"drain", "drainWait"} /\ a = arg[t] /\ pc[t] \in {"push", "drain"}
    BY <1>4, <2>1, <2>2, <2>5, <2>6 DEF WaitsAt
  <2>7. CASE p = "drained"
    <3>1. terminal = "Running" => /\ queue = <<>> /\ ~ inFlight /\ a = arg[t]
                                  /\ pc[t] \in {"drain", "drainWait"}
      BY <1>6, <2>7, DrainedEmpty
    <3>2. queue = <<>> /\ ~ inFlight => Outstanding = {}
      <4>1. ASSUME queue = <<>>, ~ inFlight PROVE Outstanding = {}
        <5>1. ~ Busy /\ 1..Len(queue) = {}
          BY <4>1 DEF Stages
        <5>2. \A n : ~ InQueue(n) /\ wpc # "replay"
          BY <5>1 DEF InQueue, Busy
        <5>. QED
          BY <5>2, OutstandingIs
      <4>. QED
        BY <4>1
    <3>3. terminal' = "Running" /\ a.op \in {"StateBlock", "Direct"} => a.need \subseteq Done'
      BY <1>4, <2>2, <3>1, <3>2 DEF WaitsAt
    <3>. QED
      BY <2>1, <2>7, <3>3 DEF WaitsAt
  <2>8. CASE p = "inCall" /\ pc[t] = "drained" /\ terminal = "Running" /\ a = arg[t]
    BY <1>4, <2>1, <2>2, <2>8 DEF WaitsAt
  <2>9. CASE p = "inCall" /\ pc[t] \in {"pending", "ledgerWait"} /\ a = arg[t]
    <3>1. a.op = "Buffer"
      BY <1>3, <2>9, ArgFields
    <3>. QED
      BY <1>2, <2>1, <3>1
  <2>10. CASE p = "drain" /\ a \in BufferArgs("Lost")
    BY <1>2, <1>3, <2>1, <2>10
  <2>11. CASE p \notin {"push", "drain", "drainWait", "drained", "inCall"}
    BY <1>2, <2>1, <2>11
  <2>. QED
    BY <1>6, <2>6, <2>7, <2>8, <2>9, <2>10, <2>11 DEF Turns
<1>7. ASSUME \/ Ends(t) \/ Accepts(t) \/ Reserves(t) \/ Applies(t) \/ Inlines(t) \/ Executes(t)
             \/ Settles(t) \/ Breaks(t) \/ Poisons(t)
             \/ \E k \in 1..Len(queue) : Releases(t, k) \/ Commits(t, k)
      PROVE  Goal
  <2>1. PICK p, a : p \in {"idle", "rotate", "inline", "inlineDone", "poison"} /\ Moves(t, p, a)
    BY <1>7 DEF Ends, Accepts, Reserves, Applies, Inlines, Executes, Settles, Breaks, Poisons,
       Releases, Commits
  <2>2. pc'[t] = p
    BY <2>1, MovesTo
  <2>3. pc'[t] \notin {"push", "drain", "drainWait", "drained", "inCall"}
    BY <2>1, <2>2
  <2>. QED
    BY <1>2, <2>3
<1>8. Goal
  BY <1>1, <1>5, <1>6, <1>7
<1>9. \A u \in Threads : WaitsAt(pc'[u], arg'[u], Outstanding', Done', terminal')
  <2>1. PICK p, a : Moves(t, p, a)
    BY <1>1 DEF Programs, Begins, Turns, Ends, Accepts, Reserves, Applies, Inlines, Executes,
       Settles, Breaks, Poisons, Releases, Commits
  <2>2. \A v \in Threads : v # t => pc'[v] = pc[v] /\ arg'[v] = arg[v]
    BY <2>1, MovesTo
  <2>. QED
    BY <1>8, <2>2, WaitsKept
<1>. QED
  BY <1>9 DEF Fenced, WaitsAt


-----------------------------------------------------------------------------
(* The invariant. *)

\* The invariant holds at first.
LEMMA OffloadStart ==
  ASSUME Init
  PROVE  OffloadInv
<1>1. 1..Len(<<>>) = {} /\ Len(<<>>) = 0
  OBVIOUS
<1>2. ~ Busy /\ wpc = "pop" /\ queue = <<>> /\ effects = <<>>
  BY DEF Init, Busy
<1>3. \A t \in Threads : pc[t] = "idle" /\ arg[t] = Idle
  BY DEF Init
<1>4. Idle.op = "none"
  BY ArgKinds
<1>5. Shared
  <2>1. <<>> \in Seq(Items) /\ <<>> \in Seq(EffectType)
    OBVIOUS
  <2>2. queue \in Seq(Items) /\ effects \in Seq(EffectType)
    BY <1>2, <2>1
  <2>3. queuedBytes \in Nat /\ nextSeq \in Nat \ {0} /\ issued \in Nat /\ calls \in Nat
    BY DEF Init
  <2>4. inFlight \in BOOLEAN /\ stop \in BOOLEAN
    BY DEF Init
  <2>5. lastQueued \in [Targets -> Nat] /\ lastReplayed \in [Targets -> Nat]
        /\ pollOrdinal \in [Queries -> Nat]
    BY DEF Init
  <2>6. /\ terminal \in {"Running", "Stopped", "Failed"} /\ wpc \in WorkerPlaces
        /\ down \in {"up", "drain", "ledger", "queue", "join", "gone"}
    BY DEF Init, WorkerPlaces
  <2>7. witem \in Items \cup {Idle} /\ held \subseteq Nat
    BY DEF Init
  <2>. QED
    BY <2>2, <2>3, <2>4, <2>5, <2>6, <2>7 DEF Shared
<1>6. Flags
  BY DEF Init, Flags
<1>7. Local
  <2>1. Idle \in ArgsAt("idle") /\ "idle" \in Places
    BY DEF ArgsAt, Places
  <2>2. Nobody \notin Threads
    BY Bounds
  <2>. QED
    BY <1>4, <2>1, <2>2 DEF Init, Local, RecorderOps
<1>8. Stages
  <2>1. witem \notin Items
    BY IdleIsNone DEF Init
  <2>2. Busy = FALSE /\ inFlight = FALSE /\ stop = FALSE
    BY <1>2 DEF Init, Busy
  <2>3. wpc = "pop" /\ down = "up"
    BY DEF Init
  <2>4. inFlight = Busy /\ (witem \in Items <=> Busy)
    BY <2>1, <2>2
  <2>. QED
    BY <2>2, <2>3, <2>4 DEF Stages
<1>9. Ordered /\ Effected
  BY <1>1, <1>2 DEF Ordered, Effected
<1>10. Youngest /\ Cleared /\ Fenced
  BY <1>3, <1>4 DEF Youngest, Cleared, Fenced, WaitsAt, RecorderOps
<1>11. \A t \in Threads : ~ Reserving(t) /\ ~ Inlining(t)
  BY <1>3 DEF Reserving, Inlining
<1>12. Owned
  BY <1>11 DEF Owned
<1>13. Retained
  <2>1. held = {}
    BY DEF Init
  <2>2. {queue[i].seq : i \in {j \in 1..Len(queue) : ~ IsHole(queue[j])}} = {}
    BY <1>1, <1>2
  <2>3. {arg[t].seq : t \in {u \in Threads : Inlining(u)}} = {}
    BY <1>11
  <2>. QED
    BY <1>2, <2>1, <2>2, <2>3 DEF Retained
<1>14. Charged
  <2>1. Charge(queue) = 0
    BY <1>2, <1>5, ChargeType DEF Shared
  <2>2. queuedBytes = 0 /\ Len(queue) <= MaxChunks /\ ~ (0 > MaxBytes)
    BY <1>1, <1>2, Bounds DEF Init
  <2>. QED
    BY <2>1, <2>2 DEF Charged
<1>15. Counted
  <2>1. Taking = {}
    BY <1>3, <1>4 DEF Taking
  <2>2. IsFiniteSet(Taking) /\ Cardinality(Taking) = 0
    BY <2>1, FS_EmptySet
  <2>3. nextSeq = 1 /\ calls = 0 /\ MaxCalls \in Nat
    BY Bounds DEF Init
  <2>4. nextSeq - 1 + 0 <= calls /\ calls <= MaxCalls
    BY <2>3
  <2>. QED
    BY <2>2, <2>4 DEF Counted
<1>16. Ledger
  <2>1. \A q \in Queries : q \in Targets
    BY DEF Targets
  <2>2. /\ nextSeq = 1
        /\ \A r \in Targets : lastQueued[r] = 0 /\ lastReplayed[r] = 0
        /\ \A q \in Queries : pollOrdinal[q] = 0
    BY DEF Init
  <2>3. \A t \in Threads : KnowsAt(pc[t], arg[t], pollOrdinal, lastQueued, Done)
    BY <1>3 DEF KnowsAt
  <2>4. \A r \in Targets : lastQueued[r] < nextSeq
    BY <2>2
  <2>5. \A q \in Queries : lastReplayed[q] <= pollOrdinal[q] /\ pollOrdinal[q] <= lastQueued[q]
    BY <2>1, <2>2
  <2>. QED
    BY <1>1, <1>2, <2>2, <2>3, <2>4, <2>5 DEF Ledger
<1>. QED
  BY <1>5, <1>6, <1>7, <1>8, <1>9, <1>10, <1>12, <1>13, <1>14, <1>15, <1>16 DEF OffloadInv

\* Every step preserves it.
LEMMA OffloadStep ==
  ASSUME OffloadInv, [Next]_vars
  PROVE  OffloadInv' /\ (ThreadKind \/ OtherKind) /\ Grows
<1>1. /\ Shared /\ Flags /\ Local /\ Stages /\ Ordered /\ Effected /\ Youngest /\ Cleared
      /\ Owned /\ Retained /\ Charged /\ Counted /\ Ledger /\ Fenced
  BY DEF OffloadInv
<1>2. ThreadKind \/ OtherKind
  BY <1>1, NextKinds
<1>3. Flags' /\ Grows
  BY <1>1, <1>2, FlagsStep, StepGrows
<1>4. CASE ThreadKind
  <2>1. Shared' /\ Local' /\ Stages'
    BY <1>1, <1>4, SharedThread, LocalThread, StagesThread
  <2>2. Ordered' /\ Youngest' /\ Cleared' /\ Owned'
    BY <1>1, <1>3, <1>4, <2>1, OrderedThread, YoungestThread, ClearedThread, OwnedThread
  <2>3. Effected' /\ Ledger'
    BY <1>1, <1>3, <1>4, <2>1, EffectedThread, LedgerThread
  <2>4. Retained' /\ Charged' /\ Counted' /\ Fenced'
    BY <1>1, <1>4, <2>1, RetainedThread, ChargedThread, CountedThread, FencedThread
  <2>. QED
    BY <1>2, <1>3, <2>1, <2>2, <2>3, <2>4 DEF OffloadInv
<1>5. CASE OtherKind
  <2>1. Shared' /\ Local' /\ Stages'
    BY <1>1, <1>5, SharedOther, LocalOther, StagesOther
  <2>2. Ordered' /\ Youngest' /\ Cleared' /\ Owned'
    BY <1>1, <1>3, <1>5, <2>1, OrderedOther, YoungestOther, ClearedOther, OwnedOther
  <2>3. Effected' /\ Ledger'
    BY <1>1, <1>3, <1>5, <2>1, EffectedOther, LedgerOther
  <2>4. Retained' /\ Charged' /\ Counted' /\ Fenced'
    BY <1>1, <1>5, <2>1, RetainedOther, ChargedOther, CountedOther, FencedOther
  <2>. QED
    BY <1>2, <1>3, <2>1, <2>2, <2>3, <2>4 DEF OffloadInv
<1>. QED
  BY <1>2, <1>4, <1>5

\* Every reachable state satisfies it.
LEMMA OffloadAlways == Spec => []OffloadInv
<1>1. Init => OffloadInv
  BY OffloadStart
<1>2. OffloadInv /\ [Next]_vars => OffloadInv'
  BY OffloadStep
<1>. QED
  BY <1>1, <1>2, PTL DEF Spec

-----------------------------------------------------------------------------
(* The books, the order of the ordinals and the order of the program. *)

\* The invariant implies that every variable has its type.
LEMMA InvTypes ==
  ASSUME OffloadInv
  PROVE  TypeOK
<1>1. Shared /\ Flags /\ Local /\ Stages /\ Ordered /\ Owned /\ Counted /\ Retained
  BY DEF OffloadInv
<1>2. nextSeq \in 1..(MaxCalls + 1)
  <2>1. Cardinality(Taking) \in Nat
    BY <1>1, FS_CardinalityType DEF Counted
  <2>2. nextSeq - 1 + Cardinality(Taking) <= calls /\ calls <= MaxCalls
    BY <1>1 DEF Counted
  <2>3. nextSeq \in Nat \ {0} /\ calls \in Nat /\ MaxCalls \in Nat
    BY <1>1, Bounds DEF Shared
  <2>. QED
    BY <2>1, <2>2, <2>3
<1>3. held \subseteq 1..MaxCalls
  <2>1. \A n : n \in held => n \in 1..(nextSeq - 1)
    <3>1. \A n : n \in held <=> InQueue(n) \/ InHand(n) \/ InCall(n)
      BY <1>1, RetainedIs
    <3>2. \A n : InQueue(n) \/ InHand(n) => n \in 1..(nextSeq - 1)
      BY <1>1, SoundNumbers DEF InQueue, InHand
    <3>3. \A n : InCall(n) => n \in 1..(nextSeq - 1)
      BY <1>1 DEF InCall, Owned
    <3>. QED
      BY <3>1, <3>2, <3>3
  <2>2. \A n \in 1..(nextSeq - 1) : n \in 1..MaxCalls
    BY <1>2, Bounds
  <2>. QED
    BY <2>1, <2>2
<1>4. /\ queue \in Seq([kind : {"Chunk", "StateBlock", "Mutation", "hole"},
                        seq : Nat, res : SUBSET Targets, bytes : Nat, tick : Nat])
      /\ queuedBytes \in Nat /\ inFlight \in BOOLEAN /\ stop \in BOOLEAN
      /\ lastQueued \in [Targets -> Nat] /\ lastReplayed \in [Targets -> Nat]
      /\ terminal \in {"Running", "Stopped", "Failed"}
      /\ wpc \in {"pop", "replay", "publish", "release", "failing", "poison",
                  "stopQueue", "abandon", "epilogue", "exited"}
      /\ pollOrdinal \in [Queries -> Nat]
  BY <1>1 DEF Shared, Items, WorkerPlaces
<1>5. /\ {accepting, stopping, poisoned, failed} \subseteq BOOLEAN
      /\ asleep \subseteq Threads \cup {Worker, "owner"}
  BY <1>1 DEF Flags
<1>6. DOMAIN pc = Threads /\ DOMAIN arg = Threads /\ recorder \in Threads \cup {Nobody}
  BY <1>1 DEF Local
<1>. QED
  BY <1>2, <1>3, <1>4, <1>5, <1>6 DEF TypeOK

\* The invariant implies that retention is exact.
LEMMA InvRetention ==
  ASSUME OffloadInv
  PROVE  RetentionExact
<1>1. Shared /\ Stages /\ Retained
  BY DEF OffloadInv
<1>2. DOMAIN queue = 1..Len(queue)
  BY <1>1, ItemFields DEF Shared
<1>3. witem = Idle <=> ~ Busy
  BY <1>1, IdleIsNone DEF Shared, Stages
<1>4. {u \in Threads : Inlining(u)} =
        {u \in Threads : pc[u] \in {"inline", "inlineDone", "poison"} /\ arg[u].op = "Inline"}
  BY DEF Inlining
<1>5. held = {queue[i].seq : i \in {j \in DOMAIN queue : ~ IsHole(queue[j])}}
             \cup (IF witem = Idle THEN {} ELSE {witem.seq})
             \cup {arg[t].seq : t \in {u \in Threads : Inlining(u)}}
  BY <1>1, <1>2, <1>3 DEF Retained
<1>6. wpc = "exited" => queue = <<>>
  BY <1>1 DEF Stages
<1>. QED
  BY <1>4, <1>5, <1>6 DEF RetentionExact

\* For any threads, buffers, queries, chunks and bounds, the charge of the FIFO is that
\* of its elements and stays within its bounds, and an item's retention is held exactly
\* while the item is queued, replayed by the worker or replayed inline, through refused
\* pushes, abandoned reservations, fail-stop and teardown.
THEOREM OffloadBooks == Spec => []BooksExact
<1>1. OffloadInv => BooksExact
  <2>1. ASSUME OffloadInv PROVE QueueBounded
    BY <2>1 DEF OffloadInv, Charged, QueueBounded
  <2>. QED
    BY <2>1, InvTypes, InvRetention DEF BooksExact
<1>. QED
  BY <1>1, OffloadAlways, PTL

\* The FIFO replays by ordinal: what the worker replays takes effect in the order in
\* which the places were given out, reservations included.
THEOREM OffloadOrdinals == Spec => []OrdinalOrder
<1>1. ASSUME OffloadInv PROVE OrdinalOrder
  <2>1. DOMAIN effects = 1..Len(effects)
    BY <1>1, EffectFields DEF OffloadInv
  <2>. QED
    BY <1>1, <2>1 DEF OffloadInv, Effected, Ahead, OrdinalOrder
<1>. QED
  BY <1>1, OffloadAlways, PTL

\* Chunks, state-block applies and inline chunks take effect in the order in which the
\* application made the calls, whatever the lanes: deferred, applied by the calling
\* thread after a refused push, or replayed inline.
THEOREM OffloadProgram == Spec => []ProgramOrder
<1>1. ASSUME OffloadInv PROVE ProgramOrder
  <2>1. DOMAIN effects = 1..Len(effects)
    BY <1>1, EffectFields DEF OffloadInv
  <2>. QED
    BY <1>1, <2>1 DEF OffloadInv, Effected, Ahead, InProgram, ProgramOrder
<1>. QED
  BY <1>1, OffloadAlways, PTL


-----------------------------------------------------------------------------
(* What holds when inline chunks and other threads do not meet. *)

\* One thread makes the calls, or no chunk is replayed inline.
Apart == (\E t \in Threads : Threads = {t}) \/ \A c \in Chunks : ~ c.inline

\* What took effect is older than what is still to be replayed, reservations included.
Older ==
  \A n \in 1..Len(effects) :
    /\ \A i \in 1..Len(queue) : effects[n].seq < queue[i].seq
    /\ wpc = "replay" => effects[n].seq < witem.seq

\* An inline lane that has drained the FIFO has it for itself.
Quieted ==
  \A t \in Threads : arg[t].op = "Inline" =>
    /\ pc[t] \in {"drained", "inlineCheck"} /\ terminal = "Running" =>
         queue = <<>> /\ ~ Busy
    /\ pc[t] = "inline" => queue = <<>> /\ ~ Busy

\* Work on a buffer that a lock waits for: done, or behind what was replayed of the
\* buffer, not behind the watermark and, while the worker lives, still to come.
Coming(b, n) ==
  \/ \E i \in 1..Len(queue) : ~ IsHole(queue[i]) /\ b \in queue[i].res /\ queue[i].seq = n
  \/ wpc = "replay" /\ b \in witem.res /\ witem.seq = n
Awaits(b, n) ==
  \/ n \in Done
  \/ /\ lastReplayed[b] < n /\ n <= lastQueued[b]
     /\ Alive => Coming(b, n)
BufferFenced ==
  \A t \in Threads : arg[t].op = "Buffer" =>
    /\ pc[t] \in {"pending", "ledgerWait"} =>
         \A b \in Buffers, n \in Nat : b = arg[t].buf /\ n \in arg[t].need => Awaits(b, n)
    /\ pc[t] = "inCall" => arg[t].need \subseteq Done

\* The invariant of a device whose lanes stay apart.
ApartInv == Older /\ Quieted /\ BufferFenced

\* A thread that makes an inline call is the only one.
LEMMA SoloInline ==
  ASSUME Apart, Local, NEW t \in Threads, arg[t].op = "Inline"
  PROVE  Threads = {t}
<1>1. arg[t] \in InlineArgs
  BY OpPlaces
<1>2. arg[t].chunk \in Chunks /\ arg[t].chunk.inline
  BY <1>1, ArgKinds
<1>. QED
  BY <1>2 DEF Apart

\* The history stays older than what is to be replayed, if the step brings nothing older.
LEMMA OlderKeep ==
  ASSUME Older, UNCHANGED effects,
         \A i \in 1..Len(queue') : \/ \E x \in 1..Len(queue) : queue'[i].seq = queue[x].seq
                                   \/ \A n \in 1..Len(effects) : effects[n].seq < queue'[i].seq,
         wpc' = "replay" => \/ wpc = "replay" /\ witem' = witem
                            \/ \E x \in 1..Len(queue) : witem' = queue[x]
  PROVE  Older'
<1>1. \A n \in 1..Len(effects), i \in 1..Len(queue') : effects[n].seq < queue'[i].seq
  BY DEF Older
<1>2. wpc' = "replay" => \A n \in 1..Len(effects) : effects[n].seq < witem'.seq
  BY DEF Older
<1>. QED
  BY <1>1, <1>2 DEF Older

\* It stays so when something takes effect that is older itself.
LEMMA OlderAppend ==
  ASSUME Shared, Older, NEW x \in EffectType, effects' = Append(effects, x), UNCHANGED queue,
         \A i \in 1..Len(queue) : x.seq < queue[i].seq,
         wpc' = "replay" => wpc = "replay" /\ witem' = witem /\ x.seq < witem.seq
  PROVE  Older'
<1>1. /\ Len(effects') = Len(effects) + 1 /\ effects'[Len(effects) + 1] = x
      /\ Len(effects) \in Nat
      /\ \A n \in 1..Len(effects) : effects'[n] = effects[n]
  BY DoneAppend, EffectFields
<1>2. \A n \in 1..Len(effects') : n \in 1..Len(effects) \/ n = Len(effects) + 1
  BY <1>1
<1>3. \A n \in 1..Len(effects'), i \in 1..Len(queue) : effects'[n].seq < queue[i].seq
  BY <1>1, <1>2 DEF Older
<1>4. wpc' = "replay" => \A n \in 1..Len(effects') : effects'[n].seq < witem'.seq
  BY <1>1, <1>2 DEF Older
<1>. QED
  BY <1>3, <1>4 DEF Older

\* A thread's step keeps the history older.
LEMMA OlderThread ==
  ASSUME Shared, Local, Stages, Ordered, Effected, Older, Quieted, ThreadKind
  PROVE  Older'
<1>1. PICK t \in Threads :
        \/ \E p, a : Programs(t, p, a) \/ Begins(t, p, a) \/ Turns(t, p, a)
        \/ Ends(t) \/ Accepts(t) \/ Reserves(t) \/ Applies(t) \/ Inlines(t) \/ Executes(t)
        \/ Settles(t) \/ Breaks(t) \/ Poisons(t)
        \/ \E k \in 1..Len(queue) : Releases(t, k) \/ Commits(t, k)
  BY DEF ThreadKind
<1>2. UNCHANGED <<wpc, witem>>
  BY <1>1 DEF Programs, Begins, Turns, Ends, Accepts, Reserves, Applies, Inlines, Executes,
     Settles, Breaks, Poisons, Releases, Commits, gvars
<1>3. \A n \in 1..Len(effects) : effects[n].seq < nextSeq
  BY DEF Effected
<1>4. CASE \/ \E p, a : Programs(t, p, a) \/ Begins(t, p, a) \/ Turns(t, p, a)
           \/ Ends(t) \/ Inlines(t) \/ Settles(t) \/ Breaks(t) \/ Poisons(t)
  <2>1. UNCHANGED <<queue, effects>>
    BY <1>4 DEF Programs, Begins, Turns, Ends, Inlines, Settles, Breaks, Poisons, gvars
  <2>. QED
    BY <1>2, <2>1, OlderKeep
<1>5. ASSUME NEW e \in Items, queue' = Append(queue, e), e.seq = nextSeq, UNCHANGED effects
      PROVE  Older'
  <2>1. /\ Len(queue') = Len(queue) + 1 /\ queue'[Len(queue) + 1] = e /\ Len(queue) \in Nat
        /\ \A i \in 1..Len(queue) : queue'[i] = queue[i]
    BY <1>5, AppendEffect, ItemFields DEF Shared
  <2>2. \A i \in 1..Len(queue') : i \in 1..Len(queue) \/ i = Len(queue) + 1
    BY <2>1
  <2>3. \A i \in 1..Len(queue') : \/ \E x \in 1..Len(queue) : queue'[i].seq = queue[x].seq
                                  \/ \A n \in 1..Len(effects) : effects[n].seq < queue'[i].seq
    BY <1>3, <1>5, <2>1, <2>2
  <2>. QED
    BY <1>2, <1>5, <2>3, OlderKeep
<1>6. CASE Accepts(t)
  <2>1. /\ Pushed(t) \in Items /\ Pushed(t).seq = nextSeq
        /\ queue' = Append(queue, Pushed(t)) /\ UNCHANGED effects
    BY <1>6, PushedIs DEF Accepts
  <2>. QED
    BY <1>5, <2>1
<1>7. CASE Reserves(t)
  <2>1. /\ Placeholder(t) \in Items /\ Placeholder(t).seq = nextSeq
        /\ queue' = Append(queue, Placeholder(t)) /\ UNCHANGED effects
    BY <1>7, PlaceholderIs DEF Reserves
  <2>. QED
    BY <1>5, <2>1
<1>8. ASSUME NEW k \in 1..Len(queue), Releases(t, k) PROVE Older'
  <2>1. CutAt(queue, k, queue') /\ UNCHANGED effects
    BY <1>8 DEF Releases
  <2>2. \A i \in 1..Len(queue') : \E x \in 1..Len(queue) : queue'[i] = queue[x]
    BY <2>1, CutTicks
  <2>. QED
    BY <1>2, <2>1, <2>2, OlderKeep
<1>9. ASSUME NEW k \in 1..Len(queue), Commits(t, k) PROVE Older'
  <2>1. /\ Len(queue') = Len(queue) /\ queue[k].seq = arg[t].seq /\ UNCHANGED effects
        /\ \A i \in 1..Len(queue) : queue'[i] = IF i = k THEN Mutation(t) ELSE queue[i]
        /\ Reserving(t)
    BY <1>9 DEF Commits, Reserving
  <2>2. Mutation(t).seq = arg[t].seq
    BY <2>1, MutationIs
  <2>3. \A i \in 1..Len(queue') : \E x \in 1..Len(queue) : queue'[i].seq = queue[x].seq
    BY <2>1, <2>2
  <2>. QED
    BY <1>2, <2>1, <2>3, OlderKeep
<1>10. CASE Applies(t)
  <2>1. /\ effects' = Append(effects, Applied(t)) /\ UNCHANGED queue
        /\ pc[t] = "inCall" /\ arg[t].op = "StateBlock"
    BY <1>10 DEF Applies
  <2>2. arg[t].tick \in Nat
    BY <2>1, OpPlaces, ArgKinds
  <2>3. Applied(t) \in EffectType /\ Applied(t).seq = 0
    BY <2>2 DEF Applied, EffectType
  <2>4. \A i \in 1..Len(queue) : 0 < queue[i].seq
    BY SoundNumbers
  <2>5. wpc = "replay" => 0 < witem.seq
    BY SoundNumbers DEF Busy
  <2>. QED
    BY <1>2, <2>1, <2>3, <2>4, <2>5, OlderAppend
<1>11. CASE Executes(t)
  <2>1. pc[t] = "inline" /\ effects' = Append(effects, Inlined(t)) /\ UNCHANGED queue
    BY <1>11 DEF Executes
  <2>2. arg[t].op = "Inline" /\ arg[t].seq \in Nat /\ arg[t].tick \in Nat
    BY <2>1, InlineIs
  <2>3. Inlined(t) \in EffectType
    BY <2>2 DEF Inlined, EffectType
  <2>4. queue = <<>> /\ ~ Busy
    BY <2>1, <2>2 DEF Quieted
  <2>5. \A i \in 1..Len(queue) : Inlined(t).seq < queue[i].seq
    BY <2>4
  <2>6. wpc # "replay"
    BY <2>4 DEF Busy
  <2>. QED
    BY <1>2, <2>1, <2>3, <2>5, <2>6, OlderAppend
<1>. QED
  BY <1>1, <1>4, <1>6, <1>7, <1>8, <1>9, <1>10, <1>11

\* So do the other steps.
LEMMA OlderOther ==
  ASSUME Shared, Local, Stages, Ordered, Older, OtherKind
  PROVE  Older'
<1>1. CASE Takes
  <2>1. CutAt(queue, 1, queue') /\ witem' = queue[1] /\ UNCHANGED effects /\ 1 \in 1..Len(queue)
    BY <1>1 DEF Takes, CutAt
  <2>2. \A i \in 1..Len(queue') : \E x \in 1..Len(queue) : queue'[i] = queue[x]
    BY <2>1, CutTicks
  <2>. QED
    BY <2>1, <2>2, OlderKeep
<1>2. CASE Plays
  <2>1. /\ wpc = "replay" /\ wpc' = "publish" /\ effects' = Append(effects, Carried)
        /\ UNCHANGED queue
    BY <1>2 DEF Plays
  <2>2. Busy
    BY <2>1 DEF Busy
  <2>3. Carried \in EffectType /\ Carried.seq = witem.seq
    BY <2>2, ItemHeld DEF Carried, EffectType
  <2>4. \A i \in 1..Len(queue) : Carried.seq < queue[i].seq
    BY <2>2, <2>3 DEF Ordered, Before
  <2>. QED
    BY <2>1, <2>3, <2>4, OlderAppend
<1>3. CASE ~ Takes /\ ~ Plays
  <2>1. UNCHANGED effects /\ (UNCHANGED queue \/ queue' = <<>>)
    BY <1>3 DEF OtherKind, Rests, Refused, Quits, Publishes, Drops, Fails, Stops, Empties, Falls,
       gvars
  <2>2. wpc' = "replay" => wpc = "replay" /\ witem' = witem
    BY <1>3 DEF OtherKind, Rests, Refused, Quits, Publishes, Drops, Fails, Stops, Empties, Falls,
       gvars
  <2>3. 1..Len(<<>>) = {}
    OBVIOUS
  <2>4. \A i \in 1..Len(queue') : \E x \in 1..Len(queue) : queue'[i].seq = queue[x].seq
    BY <2>1, <2>3
  <2>. QED
    BY <2>1, <2>2, <2>4, OlderKeep
<1>. QED
  BY <1>1, <1>2, <1>3

\* A thread's step leaves a drained lane alone, as there is no other thread.
LEMMA QuietedThread ==
  ASSUME Apart, Shared, Local, Local', Stages, Quieted, ThreadKind
  PROVE  Quieted'
<1>. SUFFICES ASSUME NEW u \in Threads, arg'[u].op = "Inline",
                     \/ pc'[u] \in {"drained", "inlineCheck"} /\ terminal' = "Running"
                     \/ pc'[u] = "inline"
              PROVE  queue' = <<>> /\ Busy' = FALSE
  BY DEF Quieted
<1>1. Threads = {u}
  <2>1. arg'[u] \in ArgsAt(pc'[u])
    BY DEF Local
  <2>. DEFINE a == arg'[u]
              p == pc'[u]
  <2>2. a \in ArgsAt(p) /\ p \in {"drained", "inlineCheck", "inline"} /\ a.op = "Inline"
    BY <2>1
  <2>. HIDE DEF a, p
  <2>3. a \in InlineArgs
    BY <2>2, ArgKinds DEF ArgsAt
  <2>4. a.chunk \in Chunks /\ a.chunk.inline
    BY <2>3, ArgKinds
  <2>. QED
    BY <2>4 DEF Apart
<1>2. \/ \E p, a : Programs(u, p, a) \/ Begins(u, p, a) \/ Turns(u, p, a)
      \/ Ends(u) \/ Accepts(u) \/ Reserves(u) \/ Applies(u) \/ Inlines(u) \/ Executes(u)
      \/ Settles(u) \/ Breaks(u) \/ Poisons(u)
      \/ \E k \in 1..Len(queue) : Releases(u, k) \/ Commits(u, k)
  BY <1>1 DEF ThreadKind
<1>3. terminal' = "Running" => terminal = "Running"
  BY StaysRunning
<1>4. ASSUME UNCHANGED <<queue, wpc>>, queue = <<>>, ~ Busy PROVE queue' = <<>> /\ Busy' = FALSE
  BY <1>4 DEF Busy
<1>5. ASSUME NEW p, NEW a, Turns(u, p, a) PROVE queue' = <<>> /\ Busy' = FALSE
  <2>1. pc'[u] = p /\ arg'[u] = a /\ UNCHANGED <<queue, wpc>>
    BY <1>5, MovesTo DEF Turns, gvars
  <2>2. CASE p = "drained"
    <3>1. terminal = "Running"
      BY <1>3, <2>1, <2>2
    <3>2. queue = <<>> /\ ~ inFlight
      BY <1>5, <2>2, <3>1, DrainedEmpty
    <3>3. ~ Busy
      BY <3>2 DEF Stages
    <3>. QED
      BY <1>4, <2>1, <3>2, <3>3
  <2>3. CASE p = "inlineCheck"
    <3>1. terminal = "Running"
      BY <1>3, <2>1, <2>3
    <3>2. pc[u] = "drained" /\ a = arg[u]
      BY <1>5, <2>3, <3>1 DEF Turns
    <3>3. queue = <<>> /\ ~ Busy
      BY <2>1, <3>1, <3>2 DEF Quieted
    <3>. QED
      BY <1>4, <2>1, <3>3
  <2>4. p # "inline"
    BY <1>5 DEF Turns
  <2>. QED
    BY <2>1, <2>2, <2>3, <2>4
<1>6. CASE Inlines(u)
  <2>1. pc[u] = "inlineCheck" /\ terminal = "Running" /\ UNCHANGED <<queue, wpc>>
    BY <1>6 DEF Inlines
  <2>2. arg[u].op = "Inline"
    BY <2>1, InlineIs
  <2>3. queue = <<>> /\ ~ Busy
    BY <2>1, <2>2 DEF Quieted
  <2>. QED
    BY <1>4, <2>1, <2>3
<1>7. ASSUME NEW p, NEW a, Programs(u, p, a) \/ Begins(u, p, a)
      PROVE  queue' = <<>> /\ Busy' = FALSE
  <2>1. Moves(u, p, a) /\ p \notin {"drained", "inlineCheck", "inline"}
    BY <1>7 DEF Programs, Begins
  <2>. QED
    BY <2>1, MovesTo
<1>8. CASE \/ Ends(u) \/ Accepts(u) \/ Reserves(u) \/ Applies(u) \/ Executes(u)
           \/ Settles(u) \/ Breaks(u) \/ Poisons(u)
           \/ \E k \in 1..Len(queue) : Releases(u, k) \/ Commits(u, k)
  <2>1. PICK p, a : Moves(u, p, a) /\ p \notin {"drained", "inlineCheck", "inline"}
    BY <1>8 DEF Ends, Accepts, Reserves, Applies, Executes, Settles, Breaks, Poisons, Releases,
       Commits
  <2>. QED
    BY <2>1, MovesTo
<1>. QED
  BY <1>2, <1>5, <1>6, <1>7, <1>8

\* So do the other steps: the worker finds nothing to take.
LEMMA QuietedOther ==
  ASSUME Shared, Local, Stages, Quieted, OtherKind
  PROVE  Quieted'
<1>. SUFFICES ASSUME NEW u \in Threads, arg'[u].op = "Inline",
                     \/ pc'[u] \in {"drained", "inlineCheck"} /\ terminal' = "Running"
                     \/ pc'[u] = "inline"
              PROVE  queue' = <<>> /\ Busy' = FALSE
  BY DEF Quieted
<1>1. UNCHANGED <<pc, arg>>
  BY LocalOther
<1>2. terminal' = "Running" => terminal = "Running"
  BY StaysRunning
<1>3. queue = <<>> /\ ~ Busy
  BY <1>1, <1>2 DEF Quieted
<1>4. ~ Takes
  BY <1>3 DEF Takes
<1>5. UNCHANGED queue \/ queue' = <<>>
  BY <1>4 DEF OtherKind, Rests, Refused, Quits, Plays, Publishes, Drops, Fails, Stops, Empties,
     Falls, gvars
<1>6. wpc \notin {"replay", "publish", "release", "failing", "poison", "stopQueue", "abandon"}
  BY <1>3 DEF Busy
<1>7. wpc' \notin {"replay", "publish", "release", "failing", "poison", "stopQueue", "abandon"}
  BY <1>4, <1>6 DEF OtherKind, Rests, Refused, Quits, Plays, Publishes, Drops, Fails, Stops,
     Empties, Falls, gvars
<1>. QED
  BY <1>3, <1>5, <1>7 DEF Busy


-----------------------------------------------------------------------------
(* The fences of the buffers. *)

\* An element of the FIFO that is no placeholder stays there, unless the worker takes it
\* or the FIFO is dropped.
LEMMA ElementStays ==
  ASSUME Shared, Local, Stages, ThreadKind \/ OtherKind, NEW i \in 1..Len(queue), ~ IsHole(queue[i])
  PROVE  \/ \E j \in 1..Len(queue') : queue'[j] = queue[i]
         \/ Takes /\ i = 1
         \/ Empties
<1> DEFINE There == \E j \in 1..Len(queue') : queue'[j] = queue[i]
<1>1. ASSUME UNCHANGED queue PROVE There
  BY <1>1
<1>2. ASSUME NEW e \in Items, queue' = Append(queue, e) PROVE There
  <2>1. /\ Len(queue') = Len(queue) + 1 /\ Len(queue) \in Nat
        /\ \A x \in 1..Len(queue) : queue'[x] = queue[x]
    BY <1>2, AppendEffect, ItemFields DEF Shared
  <2>2. i \in 1..Len(queue')
    BY <2>1
  <2>. QED
    BY <2>1, <2>2
<1>3. ASSUME NEW k, CutAt(queue, k, queue'), i # k PROVE There
  <2>1. Len(queue) \in Nat
    BY ItemFields DEF Shared
  <2>. QED
    BY <1>3, <2>1, CutKeeps
<1>4. ASSUME NEW t \in Threads,
             \/ \E p, a : Programs(t, p, a) \/ Begins(t, p, a) \/ Turns(t, p, a)
             \/ Ends(t) \/ Accepts(t) \/ Reserves(t) \/ Applies(t) \/ Inlines(t) \/ Executes(t)
             \/ Settles(t) \/ Breaks(t) \/ Poisons(t)
             \/ \E k \in 1..Len(queue) : Releases(t, k) \/ Commits(t, k)
      PROVE  There
  <2>1. CASE Accepts(t)
    <3>1. Pushed(t) \in Items /\ queue' = Append(queue, Pushed(t))
      BY <2>1, PushedIs DEF Accepts
    <3>. QED
      BY <1>2, <3>1
  <2>2. CASE Reserves(t)
    <3>1. Placeholder(t) \in Items /\ queue' = Append(queue, Placeholder(t))
      BY <2>2, PlaceholderIs DEF Reserves
    <3>. QED
      BY <1>2, <3>1
  <2>3. ASSUME NEW k \in 1..Len(queue), Releases(t, k) PROVE There
    <3>1. CutAt(queue, k, queue') /\ IsHole(queue[k])
      BY <2>3 DEF Releases
    <3>2. i # k
      BY <3>1
    <3>. QED
      BY <1>3, <3>1, <3>2
  <2>4. ASSUME NEW k \in 1..Len(queue), Commits(t, k) PROVE There
    <3>1. /\ Len(queue') = Len(queue) /\ IsHole(queue[k])
          /\ \A x \in 1..Len(queue) : queue'[x] = IF x = k THEN Mutation(t) ELSE queue[x]
      BY <2>4 DEF Commits
    <3>2. i # k
      BY <3>1
    <3>. QED
      BY <3>1, <3>2
  <2>5. CASE \/ \E p, a : Programs(t, p, a) \/ Begins(t, p, a) \/ Turns(t, p, a)
             \/ Ends(t) \/ Applies(t) \/ Inlines(t) \/ Executes(t) \/ Settles(t) \/ Breaks(t)
             \/ Poisons(t)
    <3>1. UNCHANGED queue
      BY <2>5 DEF Programs, Begins, Turns, Ends, Applies, Inlines, Executes, Settles, Breaks,
         Poisons, gvars
    <3>. QED
      BY <1>1, <3>1
  <2>. QED
    BY <1>4, <2>1, <2>2, <2>3, <2>4, <2>5
<1>5. CASE ThreadKind
  BY <1>4, <1>5 DEF ThreadKind
<1>6. CASE Takes
  <2>1. CutAt(queue, 1, queue')
    BY <1>6 DEF Takes
  <2>. QED
    BY <1>3, <1>6, <2>1
<1>7. CASE Rests \/ Refused \/ Quits \/ Plays \/ Publishes \/ Drops \/ Fails \/ Stops \/ Falls
  <2>1. UNCHANGED queue
    BY <1>7 DEF Rests, Refused, Quits, Plays, Publishes, Drops, Fails, Stops, Falls, gvars
  <2>. QED
    BY <1>1, <2>1
<1>. QED
  BY <1>5, <1>6, <1>7 DEF OtherKind

\* A thread leaves the worker and its item alone, and only an inline chunk moves the
\* watermark of what was replayed.
LEMMA ThreadLeaves ==
  ASSUME ThreadKind
  PROVE  /\ UNCHANGED <<wpc, witem>>
         /\ UNCHANGED lastReplayed \/ \E t \in Threads : Settles(t)
<1>1. PICK t \in Threads :
        \/ \E p, a : Programs(t, p, a) \/ Begins(t, p, a) \/ Turns(t, p, a)
        \/ Ends(t) \/ Accepts(t) \/ Reserves(t) \/ Applies(t) \/ Inlines(t) \/ Executes(t)
        \/ Settles(t) \/ Breaks(t) \/ Poisons(t)
        \/ \E k \in 1..Len(queue) : Releases(t, k) \/ Commits(t, k)
  BY DEF ThreadKind
<1>2. CASE \E p, a : Programs(t, p, a) \/ Begins(t, p, a) \/ Turns(t, p, a)
  <2>1. UNCHANGED gvars
    BY <1>2 DEF Programs, Begins, Turns
  <2>. QED
    BY <2>1 DEF gvars
<1>3. CASE Ends(t) \/ Accepts(t) \/ Reserves(t) \/ Applies(t) \/ Inlines(t) \/ Executes(t)
  <2>1. UNCHANGED <<wpc, witem, lastReplayed>>
    BY <1>3 DEF Ends, Accepts, Reserves, Applies, Inlines, Executes, gvars
  <2>. QED
    BY <2>1
<1>4. CASE Settles(t)
  <2>1. UNCHANGED <<wpc, witem>>
    BY <1>4 DEF Settles
  <2>. QED
    BY <1>4, <2>1
<1>5. CASE Breaks(t) \/ Poisons(t) \/ \E k \in 1..Len(queue) : Releases(t, k) \/ Commits(t, k)
  <2>1. UNCHANGED <<wpc, witem, lastReplayed>>
    BY <1>5 DEF Breaks, Poisons, Releases, Commits
  <2>. QED
    BY <2>1
<1>. QED
  BY <1>1, <1>2, <1>3, <1>4, <1>5

\* What is still to come is done by the step, comes later, or the worker has left.
LEMMA ComingStays ==
  ASSUME Shared, Local, Stages, ThreadKind \/ OtherKind, NEW b \in Buffers, NEW n \in Nat,
         Coming(b, n), Alive'
  PROVE  n \in Done' \/ Coming(b, n)'
<1>1. \A x : IsHole(x) <=> x.kind = "hole"
  BY DEF IsHole
<1>2. Coming(b, n)' <=>
        \/ \E i \in 1..Len(queue') :
             ~ IsHole(queue'[i]) /\ b \in queue'[i].res /\ queue'[i].seq = n
        \/ wpc' = "replay" /\ b \in witem'.res /\ witem'.seq = n
  BY DEF Coming, IsHole
<1>3. wpc' \in {"pop", "replay", "publish", "release"}
  BY DEF Alive
<1>4. ASSUME NEW i \in 1..Len(queue), ~ IsHole(queue[i]), b \in queue[i].res, queue[i].seq = n
      PROVE  Coming(b, n)'
  <2>1. CASE Takes /\ i = 1
    <3>1. wpc' = "replay" /\ witem' = queue[i]
      BY <2>1 DEF Takes
    <3>. QED
      BY <1>2, <1>4, <3>1
  <2>2. ~ Empties
    <3>. SUFFICES ASSUME Empties PROVE FALSE
      OBVIOUS
    <3>1. wpc' = "exited"
      BY DEF Empties
    <3>. QED
      BY <1>3, <3>1
  <2>3. CASE \E j \in 1..Len(queue') : queue'[j] = queue[i]
    BY <1>2, <1>4, <2>3
  <2>. QED
    BY <1>4, <2>1, <2>2, <2>3, ElementStays
<1>5. ASSUME wpc = "replay", b \in witem.res, witem.seq = n
      PROVE  n \in Done' \/ Coming(b, n)'
  <2>1. CASE wpc' = "replay" /\ witem' = witem
    BY <1>2, <1>5, <2>1
  <2>2. CASE Plays
    <3>1. Carried \in EffectType /\ Carried.seq = witem.seq
      BY <1>5, ItemHeld DEF Busy, Carried, EffectType
    <3>2. effects' = Append(effects, Carried)
      BY <2>2 DEF Plays
    <3>. QED
      BY <1>5, <3>1, <3>2, DoneAppend
  <2>3. CASE ThreadKind
    <3>1. UNCHANGED <<wpc, witem>>
      BY <2>3, ThreadLeaves
    <3>. QED
      BY <1>5, <2>1, <3>1
  <2>4. CASE OtherKind /\ ~ Plays
    <3>1. wpc' = "replay" /\ witem' = witem
      BY <1>3, <1>5, <2>4 DEF OtherKind, Rests, Refused, Takes, Quits, Publishes, Drops, Fails,
         Stops, Empties, Falls, gvars
    <3>. QED
      BY <2>1, <3>1
  <2>. QED
    BY <2>2, <2>3, <2>4
<1>. QED
  BY <1>4, <1>5 DEF Coming

\* The worker never comes back.
LEMMA AliveBefore ==
  ASSUME ThreadKind \/ OtherKind, Alive'
  PROVE  Alive
<1>1. CASE ThreadKind
  <2>1. UNCHANGED wpc
    BY <1>1, ThreadLeaves
  <2>. QED
    BY <2>1 DEF Alive
<1>2. CASE OtherKind
  <2>1. wpc' \in {"pop", "replay", "publish", "release"}
    BY DEF Alive
  <2>2. wpc \in {"pop", "replay", "publish", "release"}
    BY <1>2, <2>1 DEF OtherKind, Rests, Refused, Takes, Quits, Plays, Publishes, Drops, Fails,
       Stops, Empties, Falls, gvars
  <2>. QED
    BY <2>2 DEF Alive
<1>. QED
  BY <1>1, <1>2

\* What a lock waits for it still waits for after the step, when no inline chunk is
\* published.
LEMMA AwaitsStays ==
  ASSUME Shared, Shared', Local, Stages, Ordered, Grows, ThreadKind \/ OtherKind,
         \A u \in Threads : ~ Settles(u), NEW b \in Buffers, NEW n \in Nat, Awaits(b, n)
  PROVE  Awaits(b, n)'
<1>1. Done \subseteq Done'
  BY DoneGrows
<1>2. CASE n \in Done
  BY <1>1, <1>2 DEF Awaits
<1>3. ASSUME n \notin Done PROVE Awaits(b, n)'
  <2>1. lastReplayed[b] < n /\ n <= lastQueued[b] /\ (Alive => Coming(b, n))
    BY <1>3 DEF Awaits
  <2>2. /\ b \in Targets /\ lastReplayed[b] \in Nat /\ lastQueued[b] \in Nat
        /\ lastQueued'[b] \in Nat /\ lastQueued[b] <= lastQueued'[b]
    BY DEF Shared, Grows, Targets
  <2>3. n <= lastQueued'[b]
    BY <2>1, <2>2
  <2>4. Alive' => n \in Done' \/ Coming(b, n)'
    BY <2>1, AliveBefore, ComingStays
  <2>5. CASE Publishes
    <3>1. /\ wpc = "publish" /\ lastReplayed' = Replayed(witem.res, witem.seq)
      BY <2>5 DEF Publishes
    <3>2. Alive /\ Busy
      BY <3>1 DEF Alive, Busy
    <3>3. PICK i \in 1..Len(queue) : queue[i].seq = n
      BY <2>1, <3>1, <3>2 DEF Coming
    <3>4. witem.seq < n
      BY <3>2, <3>3 DEF Ordered, Before
    <3>5. lastReplayed'[b] = lastReplayed[b] \/ lastReplayed'[b] = witem.seq
      BY <2>2, <3>1 DEF Replayed
    <3>6. lastReplayed'[b] < n
      BY <2>1, <3>4, <3>5
    <3>. QED
      BY <2>3, <2>4, <3>6 DEF Awaits
  <2>6. CASE ~ Publishes
    <3>1. ThreadKind => UNCHANGED lastReplayed
      BY ThreadLeaves
    <3>2. OtherKind => UNCHANGED lastReplayed
      BY <2>6 DEF OtherKind, Rests, Refused, Takes, Quits, Plays, Drops, Fails, Stops,
         Empties, Falls, gvars
    <3>. QED
      BY <2>1, <2>3, <2>4, <3>1, <3>2 DEF Awaits
  <2>. QED
    BY <2>5, <2>6
<1>. QED
  BY <1>2, <1>3

\* What is outstanding on a buffer when a lock begins is awaited.
LEMMA AwaitsBegins ==
  ASSUME Apart, OffloadInv, Older, NEW t \in Threads, pc[t] = "idle", NEW b \in Buffers,
         NEW n \in OutstandingOn(b)
  PROVE  n \in Nat /\ Awaits(b, n)
<1>1. Shared /\ Local /\ Stages /\ Ordered /\ Ledger
  BY DEF OffloadInv
<1>2. DOMAIN queue = 1..Len(queue) /\ b \in Targets
  BY <1>1, ItemFields DEF Shared, Targets
<1>3. lastReplayed[b] = 0 \/ \E m \in 1..Len(effects) : effects[m].seq = lastReplayed[b]
  <2>1. Done = {effects[m].seq : m \in 1..Len(effects)}
    BY <1>1, EffectFields
  <2>2. lastReplayed[b] # 0 => lastReplayed[b] \in Done
    BY <1>1, <1>2 DEF Ledger
  <2>. QED
    BY <2>1, <2>2
<1>4. ASSUME NEW u \in Threads PROVE pc[u] # "inline"
  <2>. SUFFICES ASSUME pc[u] = "inline" PROVE FALSE
    OBVIOUS
  <2>1. arg[u].op = "Inline"
    BY <1>1, InlineIs
  <2>2. Threads = {u}
    BY <1>1, <2>1, SoloInline
  <2>. QED
    BY <2>2
<1>5. CASE \E i \in 1..Len(queue) : ~ IsHole(queue[i]) /\ b \in queue[i].res /\ queue[i].seq = n
  <2>1. PICK i \in 1..Len(queue) : ~ IsHole(queue[i]) /\ b \in queue[i].res /\ queue[i].seq = n
    BY <1>5
  <2>2. queue[i].seq \in 1..(nextSeq - 1) /\ queue[i].seq \in Nat /\ nextSeq \in Nat
    BY <1>1, SoundNumbers
  <2>3. n <= lastQueued[b]
    BY <1>1, <2>1 DEF Ordered, Sound, SoundAt, IsHole
  <2>4. lastReplayed[b] < n
    BY <1>3, <2>1, <2>2 DEF Older
  <2>. QED
    BY <2>1, <2>2, <2>3, <2>4 DEF Awaits, Coming
<1>6. CASE wpc = "replay" /\ b \in witem.res /\ witem.seq = n
  <2>1. Busy
    BY <1>6 DEF Busy
  <2>2. witem.seq \in 1..(nextSeq - 1) /\ witem.seq \in Nat /\ nextSeq \in Nat
    BY <1>1, <2>1, SoundNumbers
  <2>3. n <= lastQueued[b]
    BY <1>1, <1>6, <2>1 DEF Ordered, Sound, SoundAt, IsHole
  <2>4. lastReplayed[b] < n
    BY <1>3, <1>6, <2>2 DEF Older
  <2>. QED
    BY <1>6, <2>2, <2>3, <2>4 DEF Awaits, Coming
<1>7. \/ \E i \in 1..Len(queue) : ~ IsHole(queue[i]) /\ b \in queue[i].res /\ queue[i].seq = n
      \/ wpc = "replay" /\ b \in witem.res /\ witem.seq = n
  BY <1>2, <1>4 DEF OutstandingOn
<1>. QED
  BY <1>5, <1>6, <1>7


\* No inline chunk is published while another thread is in a call.
LEMMA NoSettles ==
  ASSUME Apart, Shared, Local, NEW t \in Threads, pc[t] # "inlineDone"
  PROVE  \A u \in Threads : ~ Settles(u)
<1>. SUFFICES ASSUME NEW u \in Threads, Settles(u) PROVE FALSE
  OBVIOUS
<1>1. pc[u] = "inlineDone"
  BY DEF Settles
<1>2. arg[u].op = "Inline"
  BY <1>1, InlineIs
<1>3. Threads = {u}
  BY <1>2, SoloInline
<1>. QED
  BY <1>1, <1>3

\* What one thread's buffer fence says after a step, with the locals a at p.
BufferAt(p, a) ==
  a.op = "Buffer" =>
    /\ p \in {"pending", "ledgerWait"} =>
         \A b \in Buffers, n \in Nat : b = a.buf /\ n \in a.need => Awaits(b, n)'
    /\ p = "inCall" => a.need \subseteq Done'

\* A thread that stays where it is keeps its fence.
LEMMA BufferKept ==
  ASSUME Apart, Shared, Shared', Local, Stages, Ordered, Grows, BufferFenced,
         ThreadKind \/ OtherKind, NEW t \in Threads
  PROVE  BufferAt(pc[t], arg[t])
<1>1. Done \subseteq Done'
  BY DoneGrows
<1>2. ASSUME pc[t] \in {"pending", "ledgerWait"}, arg[t].op = "Buffer",
             NEW b \in Buffers, NEW n \in Nat, b = arg[t].buf, n \in arg[t].need
      PROVE  Awaits(b, n)'
  <2>1. Awaits(b, n)
    BY <1>2 DEF BufferFenced
  <2>2. \A u \in Threads : ~ Settles(u)
    BY <1>2, NoSettles
  <2>. QED
    BY <2>1, <2>2, AwaitsStays
<1>3. pc[t] = "inCall" /\ arg[t].op = "Buffer" => arg[t].need \subseteq Done'
  BY <1>1 DEF BufferFenced
<1>. QED
  BY <1>2, <1>3 DEF BufferAt

\* A thread's step keeps the fences of the buffers.
LEMMA BufferThread ==
  ASSUME Apart, OffloadInv, Shared', Grows, Older, BufferFenced, ThreadKind
  PROVE  BufferFenced'
<1>1. Shared /\ Local /\ Stages /\ Ordered /\ Ledger
  BY DEF OffloadInv
<1>2. PICK t \in Threads :
        \/ \E p, a : Programs(t, p, a) \/ Begins(t, p, a) \/ Turns(t, p, a)
        \/ Ends(t) \/ Accepts(t) \/ Reserves(t) \/ Applies(t) \/ Inlines(t) \/ Executes(t)
        \/ Settles(t) \/ Breaks(t) \/ Poisons(t)
        \/ \E k \in 1..Len(queue) : Releases(t, k) \/ Commits(t, k)
  BY DEF ThreadKind
<1>3. \A u \in Threads : BufferAt(pc[u], arg[u])
  BY <1>1, BufferKept
<1>4. /\ Idle.op = "none"
      /\ \A a \in ChunkArgs : a.op = "Chunk"
      /\ \A a \in StateArgs : a.op = "StateBlock"
      /\ \A a \in InlineArgs : a.op = "Inline"
      /\ \A o : \A a \in BufferArgs(o) : a.op = o /\ a.buf \in Buffers /\ a.need \subseteq Nat
      /\ \A a \in MutationArgs : a.op = "Mutation"
      /\ \A a \in DirectArgs : a.op = "Direct"
      /\ \A a \in QueryArgs : a.op = "Query"
  BY ArgKinds
<1> DEFINE Goal == BufferAt(pc'[t], arg'[t])
<1>5. ASSUME pc'[t] \notin {"pending", "ledgerWait", "inCall"} PROVE Goal
  BY <1>5 DEF BufferAt
<1>6. ASSUME NEW p, NEW a, Programs(t, p, a) PROVE Goal
  <2>1. Moves(t, p, a) /\ p \in {"push", "drain"}
    BY <1>6 DEF Programs
  <2>2. pc'[t] = p
    BY <1>1, <2>1, MovesTo
  <2>. QED
    BY <1>5, <2>1, <2>2
<1>7. ASSUME NEW p, NEW a, Begins(t, p, a) PROVE Goal
  <2>1. Moves(t, p, a) /\ pc[t] = "idle"
    BY <1>7 DEF Begins
  <2>2. pc'[t] = p /\ arg'[t] = a
    BY <1>1, <2>1, MovesTo
  <2>3. CASE p = "pending"
    <3>1. a.need = OutstandingOn(a.buf) /\ a \in BufferArgs("Buffer")
      BY <1>7, <2>3 DEF Begins
    <3>2. \A u \in Threads : ~ Settles(u)
      BY <1>1, <2>1, NoSettles
    <3>3. ASSUME NEW b \in Buffers, NEW n \in Nat, b = a.buf, n \in a.need PROVE Awaits(b, n)'
      <4>1. n \in OutstandingOn(b)
        BY <3>1, <3>3
      <4>2. Awaits(b, n)
        BY <2>1, <4>1, AwaitsBegins
      <4>. QED
        BY <1>1, <3>2, <4>2, AwaitsStays
    <3>. QED
      BY <2>2, <2>3, <3>3 DEF BufferAt
  <2>4. CASE p # "pending"
    <3>1. p \in {"drain", "reserve", "receiptWait"}
      BY <1>7, <2>4 DEF Begins
    <3>. QED
      BY <1>5, <2>2, <3>1
  <2>. QED
    BY <2>3, <2>4
<1>8. ASSUME NEW p, NEW a, Turns(t, p, a) PROVE Goal
  <2>1. pc'[t] = p /\ arg'[t] = a
    BY <1>1, <1>8, MovesTo DEF Turns
  <2>2. CASE p = "ledgerWait"
    <3>1. pc[t] = "pending" /\ a = arg[t]
      BY <1>8, <2>2 DEF Turns
    <3>2. BufferAt("pending", a)
      BY <1>3, <3>1
    <3>. QED
      BY <2>1, <2>2, <3>2 DEF BufferAt
  <2>3. CASE p = "inCall" /\ pc[t] \in {"pending", "ledgerWait"}
    <3>1. a = arg[t] /\ lastQueued[arg[t].buf] <= lastReplayed[arg[t].buf]
      BY <1>8, <2>3 DEF Turns
    <3>2. a \in BufferArgs("Buffer") /\ a.op = "Buffer" /\ a.buf \in Buffers /\ a.need \subseteq Nat
      BY <1>1, <1>4, <2>3, <3>1, ArgFields
    <3>3. ASSUME NEW n \in a.need PROVE n \in Done
      <4>. DEFINE b == a.buf
      <4>1. n \in Nat /\ b \in Buffers /\ lastQueued[b] <= lastReplayed[b]
        BY <3>1, <3>2
      <4>2. Awaits(b, n)
        BY <2>3, <3>1, <3>2, <4>1 DEF BufferFenced
      <4>3. lastQueued[b] \in Nat /\ lastReplayed[b] \in Nat
        BY <1>1, <4>1 DEF Shared, Targets
      <4>4. ~ (lastReplayed[b] < n /\ n <= lastQueued[b])
        BY <4>1, <4>3
      <4>. QED
        BY <4>2, <4>4 DEF Awaits
    <3>4. Done \subseteq Done'
      BY <1>1, DoneGrows
    <3>5. a.need \subseteq Done'
      BY <3>3, <3>4
    <3>. QED
      BY <2>1, <2>3, <3>5 DEF BufferAt
  <2>4. CASE p = "inCall" /\ pc[t] = "drained"
    <3>1. a = arg[t]
      BY <1>8, <2>4 DEF Turns
    <3>2. a.op # "Buffer"
      BY <1>1, <1>4, <2>4, <3>1, ArgFields
    <3>. QED
      BY <2>1, <3>2 DEF BufferAt
  <2>5. \/ p \notin {"pending", "ledgerWait", "inCall"}
        \/ p = "ledgerWait"
        \/ p = "inCall" /\ pc[t] \in {"pending", "ledgerWait", "drained"}
    BY <1>8 DEF Turns
  <2>. QED
    BY <1>5, <2>1, <2>2, <2>3, <2>4, <2>5
<1>9. ASSUME \/ Ends(t) \/ Accepts(t) \/ Reserves(t) \/ Applies(t) \/ Inlines(t) \/ Executes(t)
             \/ Settles(t) \/ Breaks(t) \/ Poisons(t)
             \/ \E k \in 1..Len(queue) : Releases(t, k) \/ Commits(t, k)
      PROVE  Goal
  <2>1. PICK p, a : Moves(t, p, a) /\ p \notin {"pending", "ledgerWait", "inCall"}
    BY <1>9 DEF Ends, Accepts, Reserves, Applies, Inlines, Executes, Settles, Breaks, Poisons,
       Releases, Commits
  <2>2. pc'[t] = p
    BY <1>1, <2>1, MovesTo
  <2>. QED
    BY <1>5, <2>1, <2>2
<1>10. Goal
  BY <1>2, <1>6, <1>7, <1>8, <1>9
<1>11. \A u \in Threads : BufferAt(pc'[u], arg'[u])
  <2>1. PICK p, a : Moves(t, p, a)
    BY <1>2 DEF Programs, Begins, Turns, Ends, Accepts, Reserves, Applies, Inlines, Executes,
       Settles, Breaks, Poisons, Releases, Commits
  <2>2. \A v \in Threads : v # t => pc'[v] = pc[v] /\ arg'[v] = arg[v]
    BY <1>1, <2>1, MovesTo
  <2>. QED
    BY <1>3, <1>10, <2>2
<1>. QED
  BY <1>11 DEF BufferFenced, BufferAt

\* So do the other steps.
LEMMA BufferOther ==
  ASSUME Apart, Shared, Shared', Local, Stages, Ordered, Grows, BufferFenced, OtherKind
  PROVE  BufferFenced'
<1>1. UNCHANGED <<pc, arg>>
  BY LocalOther
<1>2. \A u \in Threads : BufferAt(pc'[u], arg'[u])
  BY <1>1, BufferKept
<1>. QED
  BY <1>2 DEF BufferFenced, BufferAt

-----------------------------------------------------------------------------
(* The fences and the inline lane of a device whose lanes stay apart. *)

\* The invariant holds at first.
LEMMA ApartStart ==
  ASSUME Init
  PROVE  ApartInv
<1>1. \A t \in Threads : pc[t] = "idle" /\ arg[t] = Idle
  BY DEF Init
<1>2. Idle.op = "none"
  BY ArgKinds
<1>3. Quieted /\ BufferFenced
  BY <1>1, <1>2 DEF Quieted, BufferFenced
<1>4. 1..Len(effects) = {}
  BY DEF Init
<1>. QED
  BY <1>3, <1>4 DEF Older, ApartInv

\* Every step preserves it.
LEMMA ApartStep ==
  ASSUME Apart, OffloadInv, ApartInv, [Next]_vars
  PROVE  ApartInv'
<1>1. OffloadInv' /\ (ThreadKind \/ OtherKind) /\ Grows
  BY OffloadStep
<1>2. Shared /\ Local /\ Stages /\ Ordered /\ Effected
  BY DEF OffloadInv
<1>3. Shared' /\ Local'
  BY <1>1 DEF OffloadInv
<1>4. Older /\ Quieted /\ BufferFenced
  BY DEF ApartInv
<1>5. CASE ThreadKind
  <2>1. Older' /\ Quieted' /\ BufferFenced'
    BY <1>1, <1>2, <1>3, <1>4, <1>5, OlderThread, QuietedThread, BufferThread
  <2>. QED
    BY <2>1 DEF ApartInv
<1>6. CASE OtherKind
  <2>1. Older' /\ Quieted' /\ BufferFenced'
    BY <1>1, <1>2, <1>3, <1>4, <1>6, OlderOther, QuietedOther, BufferOther
  <2>. QED
    BY <2>1 DEF ApartInv
<1>. QED
  BY <1>1, <1>5, <1>6

\* Every reachable state satisfies it.
LEMMA ApartAlways ==
  ASSUME Apart
  PROVE  Spec => [](OffloadInv /\ ApartInv)
<1>1. Init => OffloadInv /\ ApartInv
  BY OffloadStart, ApartStart
<1>2. OffloadInv /\ ApartInv /\ [Next]_vars => (OffloadInv /\ ApartInv)'
  BY OffloadStep, ApartStep
<1>. QED
  BY <1>1, <1>2, PTL DEF Spec

\* A poll whose receipt is ready has the issue it captured, whatever the lanes.
LEMMA InvReceipts ==
  ASSUME OffloadInv
  PROVE  ReceiptReadsCaptured
<1>1. Local /\ Ledger
  BY DEF OffloadInv
<1>2. ASSUME NEW t \in Threads, pc[t] = "poll" PROVE arg[t].captured \in Done
  <2>1. KnowsAt(pc[t], arg[t], pollOrdinal, lastQueued, Done)
    BY <1>1 DEF Ledger
  <2>. QED
    BY <1>2, <2>1 DEF KnowsAt
<1>3. ASSUME NEW t \in Threads PROVE arg[t].op # "Mismatch"
  BY <1>1, ArgFields, ArgKinds DEF Places
<1>. QED
  BY <1>2, <1>3 DEF ReceiptReadsCaptured

\* The same of every reachable state: other threads that issue the query again, replays
\* and failures while the poll waits never give it another issue's snapshot.
THEOREM OffloadReceipts == Spec => []ReceiptReadsCaptured
<1>1. OffloadInv => ReceiptReadsCaptured
  BY InvReceipts
<1>. QED
  BY <1>1, OffloadAlways, PTL

\* For any threads without inline chunks, and for one thread with them: a call behind the
\* global drain, a buffer's fence or a ready receipt runs only when everything it had to
\* wait for has been replayed, and a poll reads the issue it captured; never after work
\* that a fail-stop threw away.
THEOREM OffloadFences ==
  ASSUME Apart
  PROVE  Spec => []DirectCallsCurrent
<1>1. ASSUME OffloadInv, ApartInv PROVE DirectCallsCurrent
  <2>1. Local /\ Fenced /\ BufferFenced
    BY <1>1 DEF OffloadInv, ApartInv
  <2>2. ASSUME NEW t \in Threads, pc[t] = "inCall" PROVE arg[t].need \subseteq Done
    <3>1. arg[t].op \in {"StateBlock", "Direct", "Buffer"}
      BY <2>1, <2>2, ArgFields, ArgKinds
    <3>2. WaitsAt(pc[t], arg[t], Outstanding, Done, terminal)
      BY <2>1 DEF Fenced
    <3>3. arg[t].op \in {"StateBlock", "Direct"} => arg[t].need \subseteq Done
      BY <2>2, <3>2 DEF WaitsAt
    <3>4. arg[t].op = "Buffer" => arg[t].need \subseteq Done
      BY <2>1, <2>2 DEF BufferFenced
    <3>. QED
      BY <3>1, <3>3, <3>4
  <2>3. FenceHolds
    BY <2>2 DEF FenceHolds
  <2>. QED
    BY <1>1, <2>3, InvReceipts DEF DirectCallsCurrent
<1>. QED
  BY <1>1, ApartAlways, PTL

\* An inline replay runs alone as long as one thread makes the calls: what was accepted
\* before it has been replayed and the worker replays nothing meanwhile.
THEOREM OffloadInline ==
  ASSUME Apart
  PROVE  Spec => []ReplaySerial
<1>1. ASSUME OffloadInv, ApartInv PROVE ReplaySerial
  <2>1. Shared /\ Local /\ Quieted
    BY <1>1 DEF OffloadInv, ApartInv
  <2>2. ASSUME NEW t \in Threads, pc[t] = "inline"
        PROVE  wpc # "replay" /\ \A i \in DOMAIN queue : queue[i].seq > arg[t].seq
    <3>1. arg[t].op = "Inline"
      BY <2>1, <2>2, InlineIs
    <3>2. queue = <<>> /\ ~ Busy
      BY <2>1, <2>2, <3>1 DEF Quieted
    <3>3. wpc # "replay" /\ DOMAIN queue = {}
      BY <3>2 DEF Busy
    <3>. QED
      BY <3>3
  <2>. QED
    BY <2>2 DEF ReplaySerial
<1>. QED
  BY <1>1, ApartAlways, PTL
=============================================================================

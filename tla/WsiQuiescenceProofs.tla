------------------------ MODULE WsiQuiescenceProofs ------------------------
(***************************************************************************)
(* Proofs about the window-system gate: the three invariants of            *)
(* WsiQuiescence for every number of threads, swap chains and changes.     *)
(*                                                                         *)
(* The argument.  An owner that has armed the gate is the only one         *)
(* (GateOwned), so once it saw no use inside, no Present can enter before   *)
(* it opens the gate (Quieted); with the arenas kept out by the same gate  *)
(* nothing is published any more, so the sequence the fence waits for is   *)
(* the last one and the encoder has no Present left to resolve (Fenced).   *)
(* That is the only time at which a Presenter is destroyed, and so no      *)
(* pointer that a Present or the encoder resolved is left dangling         *)
(* (PointersLive).  On the registry's side a generation is issued once     *)
(* per slot: an id that is still around names a slot whose generation is   *)
(* at least its own, and equal only while the slot holds the Presenter the *)
(* id was issued for (IdsSound); and the slots of two swap chains, or of a *)
(* swap chain and a candidate, differ (BindingsOwn).                       *)
(***************************************************************************)
EXTENDS WsiQuiescence, FiniteSetTheorems, SequenceTheorems, TLAPS

Pcs == {"idle"} \cup PresentPcs \cup UsePcs \cup AdmitPcs \cup ChangePcs

\* Where an owner has drained the uses, has passed the arenas, and where it
\* has passed the fence.
DrainedPcs == {"fence", "fencing", "swap", "commit", "end"}
QuietPcs == GatedPcs \ {"arenaWait"}
SwapPcs == {"swap", "commit"}

\* Where a thread sleeps, or is about to, because the gate was armed.
BlockedPcs == {"enterChecked", "enterAsleep", "gateChecked", "gateAsleep"}

\* The uses that wsiPresentUsers_ counts.
Users == {t \in Threads : pc[t] \in UsePcs}

\* The counters of the queue follow each other, and the Present that is being
\* encoded has not been counted yet.
CountersOrdered ==
  /\ completed <= encoded /\ encoded <= Len(committed)
  /\ enc.pc = "encoding" => encoded < Len(committed)

\* A change knows its swap chain from its begin to its end, and has no
\* candidate before it registered one.
ChangeShape ==
  \A t \in Threads :
    /\ pc[t] \in ChangePcs => reg[t].chain \in Chains
    /\ pc[t] \in ChangePcs \ {"commit", "end"} => reg[t].id = NoId

\* The gate has one owner, and whoever found it armed still does.
GateOwned ==
  /\ \A t \in Threads : pc[t] \in GatedPcs \cup BlockedPcs => gate
  /\ \A s, t \in Threads : pc[s] \in GatedPcs /\ pc[t] \in GatedPcs => s = t

UsersCounted == IsFiniteSet(Users) /\ users = Cardinality(Users)

\* Behind the gate the uses are drained and no arena can publish any more.
Quieted ==
  \A o \in Threads :
    /\ pc[o] \in DrainedPcs => Users = {}
    /\ pc[o] \in QuietPcs => arena = Nobody \/ stop

\* The fence waits for the last sequence, and past it the encoder has nothing
\* left to resolve.
Fenced ==
  \A o \in Threads :
    /\ pc[o] = "fencing" => reg[o].seq = Len(committed)
    /\ pc[o] \in SwapPcs => /\ encoded = Len(committed)
                            /\ stop \/ completed = Len(committed)

\* What a Present or the encoder resolved is alive or null, and a Present
\* that has not resolved yet holds nothing.
PointersLive ==
  /\ \A t \in Threads : pc[t] \in PresentPcs \cup {"using"} => reg[t].ptr = None
  /\ UseKeepsPresenter
  /\ EncodeKeepsPresenter

\* A slot holds a live Presenter or nothing, two slots never the same one, and
\* the free stack has empty slots, each once.
RegistrySound ==
  /\ live \subseteq 1..objects
  /\ \A i \in 1..Len(slots) : slots[i].presenter \in live \cup {None}
  /\ \A i, j \in 1..Len(slots) :
       slots[i].presenter = slots[j].presenter /\ slots[i].presenter # None
         => i = j
  /\ \A k \in 1..Len(free) :
       free[k] \in 1..Len(slots) /\ slots[free[k]].presenter = None
  /\ \A k, l \in 1..Len(free) : free[k] = free[l] => k = l

\* An id that was issued: its slot has not gone back to an older generation,
\* and in the same generation it holds the Presenter of the id.
IdSound(id) ==
  \/ id = NoId
  \/ /\ id.slot \in 1..Len(slots)
     /\ id.obj \in 1..objects
     /\ id.generation <= slots[id.slot].generation
     /\ id.generation = slots[id.slot].generation
          => slots[id.slot].presenter = id.obj

IdsSound ==
  /\ \A t \in Threads : IdSound(reg[t].id)
  /\ \A c \in Chains : IdSound(binding[c])
  /\ \A i \in 1..Len(committed) : IdSound(committed[i])
  /\ \A i \in 1..Len(arenaPresent) : IdSound(arenaPresent[i])

\* An id in force: its slot has its generation and its live Presenter.
Resolves(id) ==
  /\ id.slot \in 1..Len(slots)
  /\ slots[id.slot].generation = id.generation
  /\ slots[id.slot].presenter = id.obj
  /\ id.obj \in live

\* Every swap chain's id is in force and no other chain's slot; so is the
\* candidate of the change that is about to bind it.
BindingsOwn ==
  /\ \A c \in Chains : binding[c] # NoId => Resolves(binding[c])
  /\ \A c, d \in Chains :
       binding[c] # NoId /\ binding[c].slot = binding[d].slot => c = d
  /\ \A o \in Threads : pc[o] = "commit" =>
       /\ Resolves(reg[o].id)
       /\ \A c \in Chains : binding[c].slot # reg[o].id.slot

\* The inductive invariant: the gate's side and the registry's side.
GateInv ==
  /\ CountersOrdered /\ ChangeShape /\ GateOwned /\ UsersCounted
  /\ Quieted /\ Fenced
RegistryInv == PointersLive /\ RegistrySound /\ IdsSound /\ BindingsOwn
WsiInv == TypeOK /\ GateInv /\ RegistryInv

-----------------------------------------------------------------------------
(* Where the threads are. *)

\* A thread that was woken is at the same wait, and otherwise it did not move.
Alike(a, b) ==
  \/ a = b
  \/ a = "enterAsleep" /\ b = "enter"
  \/ a = "drainAsleep" /\ b = "drain"
  \/ a = "gateAsleep" /\ b = "gateWait"
  \/ a = "admitAsleep" /\ b = "admit"

\* What a step leaves of the place of a thread that does not take it.
Stays(s) ==
  /\ pc'[s] \in GatedPcs <=> pc[s] \in GatedPcs
  /\ pc'[s] \in DrainedPcs <=> pc[s] \in DrainedPcs
  /\ pc'[s] \in QuietPcs <=> pc[s] \in QuietPcs
  /\ pc'[s] \in SwapPcs <=> pc[s] \in SwapPcs
  /\ pc'[s] \in UsePcs <=> pc[s] \in UsePcs
  /\ pc'[s] \in ChangePcs <=> pc[s] \in ChangePcs
  /\ pc'[s] \in ChangePcs \ {"commit", "end"}
       <=> pc[s] \in ChangePcs \ {"commit", "end"}
  /\ pc'[s] \in PresentPcs \cup {"using"} <=> pc[s] \in PresentPcs \cup {"using"}
  /\ pc'[s] \in {"acquire", "leave"} <=> pc[s] \in {"acquire", "leave"}
  /\ pc'[s] = "fencing" <=> pc[s] = "fencing"
  /\ pc'[s] = "commit" <=> pc[s] = "commit"
  /\ pc'[s] \in BlockedPcs => pc[s] \in BlockedPcs

\* The thread t goes from one place to another, the others stay; nobody moves.
Moves(t, from, to) ==
  /\ pc \in [Threads -> Pcs] /\ pc' \in [Threads -> Pcs]
  /\ pc[t] = from /\ pc'[t] = to
  /\ \A s \in Threads : s # t => Stays(s)
Rests ==
  /\ pc \in [Threads -> Pcs] /\ pc' \in [Threads -> Pcs]
  /\ \A s \in Threads : Stays(s)

\* A woken thread is where it was, as far as the invariants can tell.
LEMMA AlikeStays ==
  ASSUME NEW s \in Threads, Alike(pc[s], pc'[s])
  PROVE  Stays(s)
BY DEF Alike, Stays, PresentPcs, UsePcs, ChangePcs, GatedPcs, DrainedPcs,
       QuietPcs, SwapPcs, BlockedPcs

\* Goto moves one thread and leaves the others where they are.
LEMMA GotoMoves ==
  ASSUME TypeOK, NEW t \in Threads, NEW to \in Pcs, pc' = Goto(t, to)
  PROVE  Moves(t, pc[t], to)
<1>1. pc \in [Threads -> Pcs]
  BY DEF TypeOK, Pcs
<1>2. /\ pc' \in [Threads -> Pcs] /\ pc'[t] = to
      /\ \A s \in Threads : s # t => pc'[s] = pc[s]
  BY <1>1 DEF Goto
<1>3. ASSUME NEW s \in Threads, s # t PROVE Stays(s)
  BY <1>2, <1>3, AlikeStays DEF Alike
<1> QED
  BY <1>1, <1>2, <1>3 DEF Moves

\* A notification moves a sleeper to the head of its wait and nobody else.
LEMMA WakeWsiAlike ==
  ASSUME NEW p \in [Threads -> Pcs]
  PROVE  /\ WakeWsi(p) \in [Threads -> Pcs]
         /\ \A s \in Threads : Alike(p[s], WakeWsi(p)[s])
         /\ \A s \in Threads :
              WakeWsi(p)[s] \notin {"enterAsleep", "gateAsleep"}
<1>1. ASSUME NEW s \in Threads
      PROVE  /\ WakeWsi(p)[s] \in Pcs /\ Alike(p[s], WakeWsi(p)[s])
             /\ WakeWsi(p)[s] \notin {"enterAsleep", "gateAsleep"}
  <2>1. WakeWsi(p)[s] = CASE p[s] = "enterAsleep" -> "enter"
                          [] p[s] = "drainAsleep" -> "drain"
                          [] p[s] = "gateAsleep" -> "gateWait"
                          [] OTHER -> p[s]
    BY DEF WakeWsi
  <2>2. CASE p[s] = "enterAsleep"
    BY <2>1, <2>2 DEF Alike, Pcs, PresentPcs
  <2>3. CASE p[s] = "drainAsleep"
    BY <2>1, <2>3 DEF Alike, Pcs, ChangePcs, GatedPcs
  <2>4. CASE p[s] = "gateAsleep"
    BY <2>1, <2>4 DEF Alike, Pcs, ChangePcs
  <2>5. CASE p[s] \notin {"enterAsleep", "drainAsleep", "gateAsleep"}
    BY <2>1, <2>5 DEF Alike
  <2> QED
    BY <2>2, <2>3, <2>4, <2>5
<1>2. WakeWsi(p) = [s \in Threads |-> WakeWsi(p)[s]]
  BY DEF WakeWsi
<1> QED
  BY <1>1, <1>2

\* The same for writeCv_, which wakes no sleeper of the gate.
LEMMA WakeWriteAlike ==
  ASSUME NEW p \in [Threads -> Pcs]
  PROVE  /\ WakeWrite(p) \in [Threads -> Pcs]
         /\ \A s \in Threads : Alike(p[s], WakeWrite(p)[s])
         /\ \A s \in Threads :
              WakeWrite(p)[s] \in {"enterAsleep", "gateAsleep"}
                => p[s] \in {"enterAsleep", "gateAsleep"}
<1>1. ASSUME NEW s \in Threads
      PROVE  /\ WakeWrite(p)[s] \in Pcs /\ Alike(p[s], WakeWrite(p)[s])
             /\ WakeWrite(p)[s] \in {"enterAsleep", "gateAsleep"}
                  => p[s] \in {"enterAsleep", "gateAsleep"}
  BY DEF WakeWrite, Alike, Pcs, AdmitPcs
<1>2. WakeWrite(p) = [s \in Threads |-> WakeWrite(p)[s]]
  BY DEF WakeWrite
<1> QED
  BY <1>1, <1>2

\* Two notifications in a row are like one.
LEMMA AlikeTransitive ==
  ASSUME NEW a, NEW b, NEW c, Alike(a, b), Alike(b, c)
  PROVE  Alike(a, c)
BY DEF Alike

\* A step of a thread with a notification of either condition variable, and
\* one that only notifies.
LEMMA WokenAlike ==
  ASSUME NEW p \in [Threads -> Pcs],
         \/ pc' = p \/ pc' = WakeWsi(p) \/ pc' = WakeWrite(p)
         \/ pc' = WakeWrite(WakeWsi(p))
  PROVE  /\ pc' \in [Threads -> Pcs]
         /\ \A s \in Threads : Alike(p[s], pc'[s])
<1>1. CASE pc' = p
  BY <1>1 DEF Alike
<1>2. CASE pc' = WakeWsi(p)
  BY <1>2, WakeWsiAlike
<1>3. CASE pc' = WakeWrite(p)
  BY <1>3, WakeWriteAlike
<1>4. CASE pc' = WakeWrite(WakeWsi(p))
  <2>1. /\ WakeWsi(p) \in [Threads -> Pcs]
        /\ \A s \in Threads : Alike(p[s], WakeWsi(p)[s])
    BY WakeWsiAlike
  <2>2. /\ pc' \in [Threads -> Pcs]
        /\ \A s \in Threads : Alike(WakeWsi(p)[s], pc'[s])
    BY <1>4, <2>1, WakeWriteAlike
  <2> QED
    BY <2>1, <2>2, AlikeTransitive
<1> QED
  BY <1>1, <1>2, <1>3, <1>4

\* A thread that moves and notifies moves, and the others stay.
LEMMA WokenMoves ==
  ASSUME TypeOK, NEW t \in Threads,
         NEW to \in Pcs \ {"enterAsleep", "drainAsleep", "gateAsleep",
                           "admitAsleep"},
         \/ pc' = Goto(t, to) \/ pc' = WakeWsi(Goto(t, to))
         \/ pc' = WakeWrite(Goto(t, to)) \/ pc' = WakeWrite(WakeWsi(Goto(t, to)))
  PROVE  Moves(t, pc[t], to)
<1> DEFINE p == Goto(t, to)
<1>1. pc \in [Threads -> Pcs]
  BY DEF TypeOK, Pcs
<1>2. /\ p \in [Threads -> Pcs] /\ p[t] = to
      /\ \A s \in Threads : s # t => p[s] = pc[s]
  BY <1>1 DEF Goto
<1>3. pc' = p \/ pc' = WakeWsi(p) \/ pc' = WakeWrite(p)
        \/ pc' = WakeWrite(WakeWsi(p))
  OBVIOUS
<1> HIDE DEF p
<1>4. /\ pc' \in [Threads -> Pcs] /\ \A s \in Threads : Alike(p[s], pc'[s])
  BY <1>2, <1>3, WokenAlike
<1>5. pc'[t] = to
  BY <1>2, <1>4 DEF Alike
<1>6. ASSUME NEW s \in Threads, s # t PROVE Stays(s)
  BY <1>2, <1>4, <1>6, AlikeStays
<1> QED
  BY <1>1, <1>4, <1>5, <1>6 DEF Moves

\* A notification alone leaves every thread at its wait.
LEMMA WokenRests ==
  ASSUME TypeOK,
         \/ pc' = pc \/ pc' = WakeWrite(pc) \/ pc' = WakeWrite(WakeWsi(pc))
  PROVE  Rests
<1>1. pc \in [Threads -> Pcs]
  BY DEF TypeOK, Pcs
<1>2. /\ pc' \in [Threads -> Pcs] /\ \A s \in Threads : Alike(pc[s], pc'[s])
  BY <1>1, WokenAlike
<1>3. ASSUME NEW s \in Threads PROVE Stays(s)
  BY <1>2, AlikeStays
<1> QED
  BY <1>1, <1>2, <1>3 DEF Rests

-----------------------------------------------------------------------------
(* What keeps each part of the gate's invariant. *)

\* The registers of the other threads.
RegsKept(t) ==
  /\ reg \in [Threads -> Regs] /\ reg' \in [Threads -> Regs]
  /\ \A s \in Threads : s # t => reg'[s] = reg[s]

\* A moving thread keeps ChangeShape when its own registers fit its place.
LEMMA ShapeKept ==
  ASSUME ChangeShape, NEW t \in Threads, NEW from, NEW to,
         Moves(t, from, to), RegsKept(t),
         to \in ChangePcs => reg'[t].chain \in Chains,
         to \in ChangePcs \ {"commit", "end"} => reg'[t].id = NoId
  PROVE  ChangeShape'
<1>1. ASSUME NEW s \in Threads, s # t
      PROVE  /\ pc'[s] \in ChangePcs => reg'[s].chain \in Chains
             /\ pc'[s] \in ChangePcs \ {"commit", "end"} => reg'[s].id = NoId
  BY <1>1 DEF ChangeShape, Moves, Stays, RegsKept
<1>2. pc'[t] = to
  BY DEF Moves
<1> QED
  BY <1>1, <1>2 DEF ChangeShape

\* With the gate as it was, GateOwned needs no new owner and no false sleeper.
LEMMA GateKept ==
  ASSUME GateOwned, NEW t \in Threads, NEW from, NEW to,
         Moves(t, from, to), gate' = gate,
         to \in GatedPcs => from \in GatedPcs,
         to \in BlockedPcs => gate
  PROVE  GateOwned'
<1>1. \A s \in Threads : pc'[s] \in GatedPcs => pc[s] \in GatedPcs
  BY DEF Moves, Stays
<1>2. \A s \in Threads : pc'[s] \in BlockedPcs => gate
  BY DEF Moves, Stays, GateOwned
<1> QED
  BY <1>1, <1>2 DEF GateOwned

\* Arming an open gate makes its owner the only one behind it.
LEMMA GateArmed ==
  ASSUME GateOwned, NEW t \in Threads, NEW from, NEW to,
         Moves(t, from, to), ~gate, gate'
  PROVE  GateOwned'
<1>1. \A s \in Threads : s # t => pc'[s] \notin GatedPcs
  BY DEF Moves, Stays, GateOwned
<1> QED
  BY <1>1 DEF GateOwned

\* The counter is right when neither it nor the uses change.
LEMMA UsersKept ==
  ASSUME UsersCounted, users' = users,
         \A s \in Threads : pc'[s] \in UsePcs <=> pc[s] \in UsePcs
  PROVE  UsersCounted' /\ Users' = Users
<1>1. Users' = Users
  BY DEF Users
<1> QED
  BY <1>1 DEF UsersCounted

\* A thread that moves inside or outside its use changes no count.
LEMMA UsersStay ==
  ASSUME UsersCounted, NEW t \in Threads, NEW from, NEW to,
         Moves(t, from, to), users' = users, from \in UsePcs <=> to \in UsePcs
  PROVE  UsersCounted' /\ Users' = Users
<1>1. \A s \in Threads : pc'[s] \in UsePcs <=> pc[s] \in UsePcs
  BY DEF Moves, Stays
<1> QED
  BY <1>1, UsersKept

\* waitEnterWsiPresentUse counts the use that it lets in.
LEMMA UsersEnter ==
  ASSUME UsersCounted, NEW t \in Threads, NEW from, NEW to,
         Moves(t, from, to), users' = users + 1,
         from \notin UsePcs, to \in UsePcs
  PROVE  UsersCounted'
<1>1. Users' = Users \cup {t} /\ t \notin Users
  BY DEF Users, Moves, Stays
<1>2. IsFiniteSet(Users \cup {t}) /\ Cardinality(Users \cup {t}) = Cardinality(Users) + 1
  BY <1>1, FS_AddElement DEF UsersCounted
<1> QED
  BY <1>1, <1>2 DEF UsersCounted

\* leaveWsiPresentUse counts down the use that ends.
LEMMA UsersLeave ==
  ASSUME UsersCounted, NEW t \in Threads, NEW from, NEW to,
         Moves(t, from, to), users' = users - 1,
         from \in UsePcs, to \notin UsePcs
  PROVE  UsersCounted' /\ users' \in Nat /\ Users' \subseteq Users
<1>1. Users' = Users \ {t} /\ t \in Users
  BY DEF Users, Moves, Stays
<1>2. IsFiniteSet(Users \ {t}) /\ Cardinality(Users \ {t}) = Cardinality(Users) - 1
  BY <1>1, FS_RemoveElement DEF UsersCounted
<1>3. Cardinality(Users \ {t}) \in Nat
  BY <1>2, FS_CardinalityType
<1> QED
  BY <1>1, <1>2, <1>3 DEF UsersCounted

\* No use is inside exactly when the counter says so.
LEMMA NoUsers ==
  ASSUME UsersCounted
  PROVE  users = 0 <=> Users = {}
BY FS_EmptySet DEF UsersCounted

\* Quieted holds after a move that finds the uses drained and the arena gone.
LEMMA QuietKept ==
  ASSUME Quieted, NEW t \in Threads, NEW from, NEW to,
         Moves(t, from, to), Users' \subseteq Users,
         arena' = arena \/ arena' = Nobody, stop => stop',
         to \in DrainedPcs => from \in DrainedPcs \/ Users' = {},
         to \in QuietPcs => from \in QuietPcs \/ arena' = Nobody \/ stop'
  PROVE  Quieted'
<1>1. ASSUME NEW s \in Threads
      PROVE  pc'[s] \in DrainedPcs => Users' = {}
  BY DEF Quieted, Moves, Stays
<1>2. ASSUME NEW s \in Threads
      PROVE  pc'[s] \in QuietPcs => arena' = Nobody \/ stop'
  BY DEF Quieted, Moves, Stays
<1> QED
  BY <1>1, <1>2 DEF Quieted

\* Fenced holds after a move that waits for, or has seen, the last sequence.
LEMMA FenceKept ==
  ASSUME Fenced, NEW t \in Threads, NEW from, NEW to,
         Moves(t, from, to), RegsKept(t), stop => stop',
         UNCHANGED <<committed, encoded, completed>>,
         to = "fencing" => reg'[t].seq = Len(committed),
         to \in SwapPcs => \/ from \in SwapPcs
                           \/ /\ encoded = Len(committed)
                              /\ stop \/ completed = Len(committed)
  PROVE  Fenced'
<1>1. ASSUME NEW s \in Threads
      PROVE  pc'[s] = "fencing" => reg'[s].seq = Len(committed)
  BY DEF Fenced, Moves, Stays, RegsKept
<1>2. ASSUME NEW s \in Threads
      PROVE  pc'[s] \in SwapPcs => /\ encoded = Len(committed)
                                   /\ stop' \/ completed = Len(committed)
  BY DEF Fenced, Moves, Stays, RegsKept
<1> QED
  BY <1>1, <1>2 DEF Fenced

\* With nobody behind the gate there is nothing to keep quiet.
LEMMA NobodyGated ==
  ASSUME \A s \in Threads : pc'[s] \notin GatedPcs
  PROVE  Quieted' /\ Fenced'
<1>1. \A s \in Threads : pc'[s] \notin DrainedPcs /\ pc'[s] \notin QuietPcs
                         /\ pc'[s] # "fencing" /\ pc'[s] \notin SwapPcs
  BY DEF GatedPcs, DrainedPcs, QuietPcs, SwapPcs
<1> QED
  BY <1>1 DEF Quieted, Fenced

\* At an open gate a step that does not go behind it disturbs nothing.
LEMMA OpenGateQuiet ==
  ASSUME GateInv, ~gate, NEW t \in Threads, NEW from, NEW to,
         Moves(t, from, to), to \notin GatedPcs
  PROVE  Quieted' /\ Fenced'
<1>1. \A s \in Threads : pc[s] \notin GatedPcs
  BY DEF GateInv, GateOwned
<1>2. \A s \in Threads : pc'[s] \notin GatedPcs
  BY <1>1 DEF Moves, Stays
<1> QED
  BY <1>2, NobodyGated

\* Untouched counters stay ordered.
LEMMA CountersKept ==
  ASSUME CountersOrdered, UNCHANGED <<committed, encoded, completed, enc>>
  PROVE  CountersOrdered'
BY DEF CountersOrdered

\* From one place to another that the gate's invariant says no more about.
Calm(from, to) ==
  /\ to \in GatedPcs => from \in GatedPcs
  /\ to \in BlockedPcs => gate
  /\ from \in UsePcs <=> to \in UsePcs
  /\ to \in DrainedPcs => from \in DrainedPcs
  /\ to \in QuietPcs => from \in QuietPcs
  /\ to \in SwapPcs => from \in SwapPcs
  /\ to # "fencing"

\* A step of a thread that changes none of what the gate protects.
LEMMA CalmStep ==
  ASSUME GateInv, NEW t \in Threads, NEW from, NEW to,
         Moves(t, from, to), RegsKept(t), Calm(from, to),
         UNCHANGED <<gate, users, stop, arena, committed, encoded, completed, enc>>,
         to \in ChangePcs => reg'[t].chain \in Chains,
         to \in ChangePcs \ {"commit", "end"} => reg'[t].id = NoId
  PROVE  GateInv'
<1> USE DEF GateInv
<1>1. CountersOrdered'
  BY CountersKept
<1>2. ChangeShape'
  BY ShapeKept
<1>3. GateOwned'
  BY GateKept DEF Calm
<1>4. UsersCounted' /\ Users' = Users
  BY UsersStay DEF Calm
<1>5. Quieted'
  BY <1>4, QuietKept DEF Calm
<1>6. Fenced'
  BY FenceKept DEF Calm
<1> QED
  BY <1>1, <1>2, <1>3, <1>4, <1>5, <1>6

-----------------------------------------------------------------------------
(* What keeps the registry's side of the invariant. *)

\* Ids and what they resolve to depend on the registry alone.
LEMMA RegistrySame ==
  ASSUME UNCHANGED registry
  PROVE  /\ \A id : IdSound(id) <=> IdSound(id)'
         /\ \A id : Resolves(id) <=> Resolves(id)'
         /\ live' = live
         /\ RegistrySound => RegistrySound'
<1> USE DEF registry
<1>1. ASSUME NEW id PROVE IdSound(id) <=> IdSound(id)'
  BY DEF IdSound
<1>2. ASSUME NEW id PROVE Resolves(id) <=> Resolves(id)'
  BY DEF Resolves
<1>3. RegistrySound => RegistrySound'
  BY DEF RegistrySound
<1> QED
  BY <1>1, <1>2, <1>3

\* A step that leaves the registry and the bindings alone, publishes only
\* sound ids and hands out only live pointers; t need not move.
LEMMA ApartStep ==
  ASSUME RegistryInv, NEW t, UNCHANGED <<registry, binding>>,
         \A s \in Threads : s # t => Stays(s) /\ reg'[s] = reg[s],
         t \in Threads => /\ pc'[t] # "commit"
                          /\ IdSound(reg'[t].id)
                          /\ pc'[t] \in PresentPcs \cup {"using"}
                               => reg'[t].ptr = None
                          /\ pc'[t] \in {"acquire", "leave"}
                               => reg'[t].ptr \in live \cup {None},
         \A i \in 1..Len(committed') : IdSound(committed'[i]),
         \A i \in 1..Len(arenaPresent') : IdSound(arenaPresent'[i]),
         enc'.pc = "encoding" => enc'.ptr \in live \cup {None}
  PROVE  RegistryInv'
<1> USE DEF RegistryInv
<1>1. /\ \A id : IdSound(id) <=> IdSound(id)'
      /\ \A id : Resolves(id) <=> Resolves(id)'
      /\ live' = live /\ RegistrySound'
  BY RegistrySame
<1>2. PointersLive'
  <2>1. ASSUME NEW s \in Threads
        PROVE  /\ pc'[s] \in PresentPcs \cup {"using"} => reg'[s].ptr = None
               /\ pc'[s] \in {"acquire", "leave"}
                    => reg'[s].ptr \in live \cup {None}
    BY DEF PointersLive, UseKeepsPresenter, Stays
  <2> QED
    BY <1>1, <2>1 DEF PointersLive, UseKeepsPresenter, EncodeKeepsPresenter
<1>3. IdsSound'
  <2>1. ASSUME NEW s \in Threads PROVE IdSound(reg[s].id)'
    <3>1. IdSound(reg'[s].id)
      BY DEF IdsSound
    <3> QED
      BY <1>1, <3>1
  <2>2. ASSUME NEW c \in Chains PROVE IdSound(binding[c])'
    <3>1. IdSound(binding'[c])
      BY DEF IdsSound
    <3> QED
      BY <1>1, <3>1
  <2>3. \A i \in 1..Len(committed') : IdSound(committed[i])'
    BY <1>1
  <2>4. \A i \in 1..Len(arenaPresent') : IdSound(arenaPresent[i])'
    BY <1>1
  <2> QED
    BY <2>1, <2>2, <2>3, <2>4 DEF IdsSound
<1>4. BindingsOwn'
  <2>1. ASSUME NEW c \in Chains, binding'[c] # NoId PROVE Resolves(binding[c])'
    <3>1. Resolves(binding'[c])
      BY <2>1 DEF BindingsOwn
    <3> QED
      BY <1>1, <3>1
  <2>2. ASSUME NEW c \in Chains, NEW d \in Chains,
               binding'[c] # NoId, binding'[c].slot = binding'[d].slot
        PROVE  c = d
    BY <2>2 DEF BindingsOwn
  <2>3. ASSUME NEW s \in Threads, pc'[s] = "commit"
        PROVE  /\ Resolves(reg[s].id)'
               /\ \A c \in Chains : binding'[c].slot # reg'[s].id.slot
    <3>1. s # t /\ pc[s] = "commit" /\ reg'[s] = reg[s]
      BY <2>3 DEF Stays
    <3>2. Resolves(reg'[s].id) /\ \A c \in Chains : binding[c].slot # reg[s].id.slot
      BY <3>1 DEF BindingsOwn
    <3> QED
      BY <1>1, <3>1, <3>2
  <2> QED
    BY <2>1, <2>2, <2>3 DEF BindingsOwn
<1> QED
  BY <1>1, <1>2, <1>3, <1>4

\* A thread that moves and publishes nothing.
LEMMA ThreadApart ==
  ASSUME RegistryInv, NEW t \in Threads, NEW from, NEW to,
         Moves(t, from, to), RegsKept(t),
         UNCHANGED <<registry, binding, committed, arenaPresent, enc>>,
         to # "commit", IdSound(reg'[t].id),
         to \in PresentPcs \cup {"using"} => reg'[t].ptr = None,
         to \in {"acquire", "leave"} => reg'[t].ptr \in live \cup {None}
  PROVE  RegistryInv'
<1>1. \A s \in Threads : s # t => Stays(s) /\ reg'[s] = reg[s]
  BY DEF Moves, RegsKept
<1>2. pc'[t] = to
  BY DEF Moves
<1>3. /\ \A i \in 1..Len(committed') : IdSound(committed'[i])
      /\ \A i \in 1..Len(arenaPresent') : IdSound(arenaPresent'[i])
  BY DEF RegistryInv, IdsSound
<1>4. enc'.pc = "encoding" => enc'.ptr \in live \cup {None}
  BY DEF RegistryInv, PointersLive, EncodeKeepsPresenter
<1> QED
  BY <1>1, <1>2, <1>3, <1>4, ApartStep

\* The same, when the thread's registers stay.
LEMMA ThreadQuiet ==
  ASSUME RegistryInv, NEW t \in Threads, NEW from, NEW to,
         Moves(t, from, to), RegsKept(t), reg'[t] = reg[t],
         UNCHANGED <<registry, binding, committed, arenaPresent, enc>>,
         to # "commit",
         to \in PresentPcs \cup {"using"} => from \in PresentPcs \cup {"using"},
         to \in {"acquire", "leave"} => from \in {"using", "acquire", "leave"}
  PROVE  RegistryInv'
<1>1. pc[t] = from
  BY DEF Moves
<1>2. IdSound(reg'[t].id)
  BY DEF RegistryInv, IdsSound
<1>3. /\ to \in PresentPcs \cup {"using"} => reg'[t].ptr = None
      /\ to \in {"acquire", "leave"} => reg'[t].ptr \in live \cup {None}
  BY <1>1 DEF RegistryInv, PointersLive, UseKeepsPresenter
<1> QED
  BY <1>2, <1>3, ThreadApart

-----------------------------------------------------------------------------
(* Types and registers. *)

Slots == [presenter : Nat, generation : Nat]

\* The types, after a step that leaves the registry alone.
LEMMA TypeStep ==
  ASSUME TypeOK, pc' \in [Threads -> Pcs], reg' \in [Threads -> Regs],
         UNCHANGED <<registry, binding>>,
         gate' \in BOOLEAN, users' \in Nat,
         admissionStopped' \in BOOLEAN, stop' \in BOOLEAN,
         arena' \in Threads \cup {Nobody}, arenaPresent' \in Seq(PresentIds),
         arenaFailed' \in BOOLEAN, committed' \in Seq(PresentIds),
         encoded' \in Nat, completed' \in Nat,
         enc' \in [pc : {"idle", "encoding", "callbacks"}, ptr : Nat],
         presents' \in Nat, changes' \in Nat
  PROVE  TypeOK'
BY DEF TypeOK, Pcs, registry

\* The same for a step of a thread that only touches the gate.
LEMMA TypeKept ==
  ASSUME TypeOK, NEW t \in Threads, NEW from, NEW to,
         Moves(t, from, to), RegsKept(t),
         gate' \in BOOLEAN, users' \in Nat,
         UNCHANGED <<admissionStopped, stop, arenaVars, registry, binding, queue,
                     enc>>,
         presents' \in Nat, changes' \in Nat
  PROVE  TypeOK'
BY DEF TypeOK, Moves, RegsKept, Pcs, arenaVars, registry, queue

\* Writing the registers of one thread.
LEMMA RegSet ==
  ASSUME TypeOK, NEW t \in Threads, NEW r \in Regs, reg' = [reg EXCEPT ![t] = r]
  PROVE  RegsKept(t) /\ reg'[t] = r
BY DEF TypeOK, RegsKept

\* Writing no registers.
LEMMA RegSame ==
  ASSUME TypeOK, NEW t \in Threads, reg' = reg
  PROVE  RegsKept(t)
BY DEF TypeOK, RegsKept

\* lookupPresenter returns an object or null.
LEMMA LookupType ==
  ASSUME TypeOK, NEW id \in PresentIds
  PROVE  Lookup(id) \in Nat
<1>1. slots \in Seq(Slots) /\ None \in Nat
  BY DEF TypeOK, Slots, None
<1>2. ASSUME id.slot \in DOMAIN slots PROVE slots[id.slot] \in Slots
  BY <1>1, <1>2
<1>3. ASSUME id.slot \in DOMAIN slots PROVE slots[id.slot].presenter \in Nat
  BY <1>2, <1>3 DEF Slots
<1> QED
  BY <1>1, <1>3 DEF Lookup

\* The zero PresentId names no slot.
LEMMA NoIdFacts == NoId \in PresentIds /\ NoId.slot = 0 /\ IdSound(NoId)
BY DEF NoId, PresentIds, None, IdSound

\* The registers that the steps of a Present write.
WritesRegs(t, i, p, q) ==
  reg' = [reg EXCEPT ![t].id = i, ![t].ptr = p, ![t].seq = q]

\* The three registers of a Present, written together.
LEMMA PresentRegs ==
  ASSUME TypeOK, NEW t \in Threads, NEW i \in PresentIds, NEW p \in Nat,
         NEW q \in Nat, WritesRegs(t, i, p, q)
  PROVE  /\ RegsKept(t)
         /\ reg'[t].id = i /\ reg'[t].ptr = p /\ reg'[t].seq = q
         /\ reg'[t].chain = reg[t].chain
<1> DEFINE r == [reg[t] EXCEPT !.id = i, !.ptr = p, !.seq = q]
<1>1. reg[t] \in Regs /\ reg \in [Threads -> Regs]
  BY DEF TypeOK
<1>2. r \in Regs /\ r.id = i /\ r.ptr = p /\ r.seq = q /\ r.chain = reg[t].chain
  BY <1>1 DEF Regs
<1>3. reg' = [reg EXCEPT ![t] = r]
  BY <1>1 DEF WritesRegs
<1> HIDE DEF r
<1> QED
  BY <1>2, <1>3, RegSet

\* A step that only moves a thread between places the invariants treat alike.
LEMMA PlaceOnly ==
  ASSUME WsiInv, NEW t \in Threads, NEW from, NEW to \in Pcs,
         pc[t] = from, pc' = Goto(t, to), Calm(from, to),
         UNCHANGED <<gateVars, arenaVars, registry, binding, queue, enc, reg,
                     bounds>>,
         to # "commit",
         to \in ChangePcs => from \in ChangePcs,
         to \in ChangePcs \ {"commit", "end"}
           => from \in ChangePcs \ {"commit", "end"},
         to \in PresentPcs \cup {"using"} => from \in PresentPcs \cup {"using"},
         to \in {"acquire", "leave"} => from \in {"using", "acquire", "leave"}
  PROVE  WsiInv'
<1> USE DEF WsiInv
<1>1. Moves(t, from, to)
  BY GotoMoves
<1>2. RegsKept(t) /\ reg'[t] = reg[t]
  BY RegSame
<1>3. TypeOK'
  BY <1>1, <1>2, TypeKept DEF gateVars, bounds, TypeOK
<1>4. /\ to \in ChangePcs => reg'[t].chain \in Chains
      /\ to \in ChangePcs \ {"commit", "end"} => reg'[t].id = NoId
  BY <1>2 DEF GateInv, ChangeShape
<1>5. GateInv'
  BY <1>1, <1>2, <1>4, CalmStep DEF gateVars, arenaVars, queue
<1>6. RegistryInv'
  BY <1>1, <1>2, ThreadQuiet DEF arenaVars, queue
<1> QED
  BY <1>3, <1>5, <1>6

-----------------------------------------------------------------------------
(* The steps of a Present. *)

\* The id that Present snapshots is the id of its chain, and is sound.
LEMMA PresentBeginStep ==
  ASSUME WsiInv, NEW t \in Threads, NEW c \in Chains, PresentBegin(t, c)
  PROVE  WsiInv'
<1> USE DEF WsiInv
<1>1. /\ pc[t] = "idle" /\ pc' = Goto(t, "enter")
      /\ reg' = [reg EXCEPT ![t].id = binding[c], ![t].ptr = None, ![t].seq = 0]
      /\ presents' = presents + 1 /\ presents' \in Nat
      /\ UNCHANGED <<gateVars, arenaVars, registry, binding, queue, enc, changes>>
  BY DEF PresentBegin, TypeOK
<1>2. Moves(t, "idle", "enter")
  BY <1>1, GotoMoves DEF Pcs, PresentPcs
<1>3. RegsKept(t) /\ reg'[t].id = binding[c] /\ reg'[t].ptr = None
  <2>1. binding[c] \in PresentIds /\ None \in Nat /\ 0 \in Nat
    BY DEF TypeOK, None
  <2>2. WritesRegs(t, binding[c], None, 0)
    BY <1>1 DEF WritesRegs
  <2> QED
    BY <2>1, <2>2, PresentRegs
<1>4. TypeOK'
  BY <1>1, <1>2, <1>3, TypeKept DEF gateVars, TypeOK
<1>5. Calm("idle", "enter") /\ "enter" \notin ChangePcs
  BY DEF Calm, ChangePcs, GatedPcs, BlockedPcs, UsePcs, DrainedPcs, QuietPcs,
         SwapPcs
<1>6. GateInv'
  BY <1>1, <1>2, <1>3, <1>5, CalmStep DEF gateVars, arenaVars, queue
<1>7. IdSound(reg'[t].id)
  BY <1>3 DEF RegistryInv, IdsSound
<1>8. RegistryInv'
  BY <1>1, <1>2, <1>3, <1>7, ThreadApart DEF arenaVars, queue
<1> QED
  BY <1>4, <1>6, <1>8

\* waitEnterWsiPresentUse lets a Present in at an open gate only.
LEMMA WaitEnterStep ==
  ASSUME WsiInv, NEW t \in Threads, WaitEnter(t)
  PROVE  WsiInv'
<1> USE DEF WsiInv
<1>1. /\ pc[t] = "enter"
      /\ UNCHANGED <<gate, admissionStopped, stop, arenaVars, registry, binding,
                     queue, enc, reg, bounds>>
  BY DEF WaitEnter
<1>2. CASE pc' = Goto(t, "idle") /\ users' = users
  <2>1. Calm("enter", "idle") /\ "idle" \notin ChangePcs /\ "idle" \in Pcs
        /\ "idle" \notin PresentPcs \cup {"using"}
    BY DEF Calm, ChangePcs, GatedPcs, BlockedPcs, UsePcs, DrainedPcs, QuietPcs,
           SwapPcs, Pcs, PresentPcs
  <2> QED
    BY <1>1, <1>2, <2>1, PlaceOnly DEF gateVars
<1>3. CASE gate /\ pc' = Goto(t, "enterChecked") /\ users' = users
  <2>1. Calm("enter", "enterChecked") /\ "enterChecked" \notin ChangePcs
        /\ "enterChecked" \in Pcs /\ "enter" \in PresentPcs \cup {"using"}
    BY <1>3 DEF Calm, ChangePcs, GatedPcs, BlockedPcs, UsePcs, DrainedPcs,
           QuietPcs, SwapPcs, Pcs, PresentPcs
  <2> QED
    BY <1>1, <1>3, <2>1, PlaceOnly DEF gateVars
<1>4. CASE ~gate /\ pc' = Goto(t, "using") /\ users' = users + 1
  <2>1. Moves(t, "enter", "using")
    BY <1>1, <1>4, GotoMoves DEF Pcs, UsePcs
  <2>2. RegsKept(t) /\ reg'[t] = reg[t]
    BY <1>1, RegSame
  <2>3. TypeOK'
    <3>1. users' \in Nat
      BY <1>4 DEF TypeOK
    <3> QED
      BY <1>1, <2>1, <2>2, <3>1, TypeKept DEF bounds, TypeOK
  <2>4. UNCHANGED <<gate, stop, arena, committed, encoded, completed, enc>>
    BY <1>1 DEF arenaVars, queue
  <2>5. CountersOrdered'
    BY <2>4, CountersKept DEF GateInv
  <2>6. ChangeShape'
    BY <2>1, <2>2, ShapeKept DEF GateInv, ChangePcs, GatedPcs
  <2>7. GateOwned'
    BY <2>1, <2>4, GateKept DEF GateInv, GatedPcs, BlockedPcs
  <2>8. UsersCounted'
    BY <1>4, <2>1, UsersEnter DEF GateInv, UsePcs
  <2>9. Quieted' /\ Fenced'
    BY <1>4, <2>1, OpenGateQuiet DEF GatedPcs
  <2>10. RegistryInv'
    BY <1>1, <2>1, <2>2, ThreadQuiet DEF arenaVars, queue, PresentPcs
  <2> QED
    BY <2>3, <2>5, <2>6, <2>7, <2>8, <2>9, <2>10 DEF GateInv
<1> QED
  BY <1>2, <1>3, <1>4 DEF WaitEnter

\* A Present goes to sleep with the gate still armed, as it holds the mutex.
LEMMA EnterSleepStep ==
  ASSUME WsiInv, NEW t \in Threads, EnterSleep(t)
  PROVE  WsiInv'
<1>1. /\ pc[t] = "enterChecked" /\ pc' = Goto(t, "enterAsleep")
      /\ UNCHANGED <<gateVars, arenaVars, registry, binding, queue, enc, reg,
                     bounds>>
  BY DEF EnterSleep
<1>2. gate
  BY <1>1 DEF WsiInv, GateInv, GateOwned, BlockedPcs
<1>3. Calm("enterChecked", "enterAsleep") /\ "enterAsleep" \notin ChangePcs
      /\ "enterAsleep" \in Pcs /\ "enterChecked" \in PresentPcs \cup {"using"}
  BY <1>2 DEF Calm, ChangePcs, GatedPcs, BlockedPcs, UsePcs, DrainedPcs,
              QuietPcs, SwapPcs, Pcs, PresentPcs
<1> QED
  BY <1>1, <1>3, PlaceOnly

\* What lookupPresenter returns is alive or null.
LEMMA LookupLive ==
  ASSUME TypeOK, RegistrySound, NEW id
  PROVE  Lookup(id) \in live \cup {None}
<1>1. DOMAIN slots = 1..Len(slots)
  BY DEF TypeOK
<1> QED
  BY <1>1 DEF Lookup, RegistrySound

\* Resolving hands out a live Presenter or null.
LEMMA ResolvePresentStep ==
  ASSUME WsiInv, NEW t \in Threads, ResolvePresent(t)
  PROVE  WsiInv'
<1> USE DEF WsiInv
<1>1. /\ pc[t] = "using"
      /\ UNCHANGED <<gateVars, registry, binding, queue, enc, bounds>>
  BY DEF ResolvePresent
<1>2. "leave" \in Pcs /\ "acquire" \in Pcs /\ "leave" \notin ChangePcs
      /\ "acquire" \notin ChangePcs /\ Calm("using", "leave")
      /\ Calm("using", "acquire")
      /\ "leave" \notin PresentPcs \cup {"using"}
      /\ "acquire" \notin PresentPcs \cup {"using"}
  BY DEF Calm, ChangePcs, GatedPcs, BlockedPcs, UsePcs, DrainedPcs, QuietPcs,
         SwapPcs, Pcs, PresentPcs
<1>3. CASE /\ arenaFailed' = TRUE /\ pc' = Goto(t, "leave")
           /\ UNCHANGED <<arena, arenaPresent, reg>>
  <2>1. Moves(t, "using", "leave")
    BY <1>1, <1>2, <1>3, GotoMoves
  <2>2. RegsKept(t) /\ reg'[t] = reg[t]
    BY <1>3, RegSame
  <2>3. TypeOK'
    <3>1. pc' \in [Threads -> Pcs] /\ reg' \in [Threads -> Regs]
      BY <2>1, <2>2 DEF Moves, RegsKept
    <3> QED
      BY <1>1, <1>3, <3>1, TypeStep DEF TypeOK, gateVars, queue, bounds
  <2>4. GateInv'
    BY <1>1, <1>2, <1>3, <2>1, <2>2, CalmStep DEF gateVars, queue
  <2>5. RegistryInv'
    BY <1>1, <1>2, <1>3, <2>1, <2>2, ThreadQuiet DEF queue
  <2> QED
    BY <2>3, <2>4, <2>5
<1>4. CASE /\ reg' = [reg EXCEPT ![t].ptr = Lookup(reg[t].id)]
           /\ pc' = Goto(t, "acquire") /\ UNCHANGED arenaVars
  <2>1. Moves(t, "using", "acquire")
    BY <1>1, <1>2, <1>4, GotoMoves
  <2>2. /\ RegsKept(t) /\ reg'[t].id = reg[t].id
        /\ reg'[t].ptr = Lookup(reg[t].id)
    <3> DEFINE r == [reg[t] EXCEPT !.ptr = Lookup(reg[t].id)]
    <3>1. reg[t] \in Regs /\ reg \in [Threads -> Regs] /\ reg[t].id \in PresentIds
      BY DEF TypeOK, Regs
    <3>2. Lookup(reg[t].id) \in Nat
      BY <3>1, LookupType
    <3>3. r \in Regs /\ r.id = reg[t].id /\ r.ptr = Lookup(reg[t].id)
      BY <3>1, <3>2 DEF Regs
    <3>4. reg' = [reg EXCEPT ![t] = r]
      BY <1>4, <3>1
    <3> HIDE DEF r
    <3> QED
      BY <3>3, <3>4, RegSet
  <2>3. TypeOK'
    BY <1>1, <1>4, <2>1, <2>2, TypeKept DEF gateVars, bounds, TypeOK
  <2>4. GateInv'
    BY <1>1, <1>2, <1>4, <2>1, <2>2, CalmStep DEF gateVars, queue, arenaVars
  <2>5. IdSound(reg'[t].id) /\ reg'[t].ptr \in live \cup {None}
    BY <2>2, LookupLive DEF RegistryInv, IdsSound
  <2>6. RegistryInv'
    BY <1>1, <1>2, <1>4, <2>1, <2>2, <2>5, ThreadApart DEF queue, arenaVars
  <2> QED
    BY <2>3, <2>4, <2>6
<1> QED
  BY <1>3, <1>4 DEF ResolvePresent

\* While a use is inside, no owner has drained the gate.
LEMMA UseHoldsOff ==
  ASSUME GateInv, NEW t \in Threads, pc[t] \in UsePcs
  PROVE  \A s \in Threads : pc[s] \notin DrainedPcs
BY DEF GateInv, Quieted, Users

\* Appending to the queue: the counters, the types and the ids.
LEMMA Appended ==
  ASSUME WsiInv, NEW more \in Seq(PresentIds),
         \A i \in 1..Len(more) : IdSound(more[i]),
         committed' = committed \o more, UNCHANGED <<encoded, completed, enc>>
  PROVE  /\ CountersOrdered' /\ committed' \in Seq(PresentIds)
         /\ \A i \in 1..Len(committed') : IdSound(committed'[i])
<1>1. committed \in Seq(PresentIds) /\ encoded \in Nat /\ completed \in Nat
  BY DEF WsiInv, TypeOK
<1>2. /\ committed' \in Seq(PresentIds)
      /\ Len(committed') = Len(committed) + Len(more)
      /\ Len(more) \in Nat /\ Len(committed) \in Nat
      /\ \A i \in 1..Len(committed') :
           committed'[i] = IF i <= Len(committed) THEN committed[i]
                                                  ELSE more[i - Len(committed)]
  BY <1>1
<1>3. CountersOrdered'
  BY <1>1, <1>2 DEF CountersOrdered, WsiInv, GateInv
<1>4. ASSUME NEW i \in 1..Len(committed') PROVE IdSound(committed'[i])
  <2>1. CASE i <= Len(committed)
    BY <1>2, <2>1 DEF WsiInv, RegistryInv, IdsSound
  <2>2. CASE ~(i <= Len(committed))
    <3>1. i - Len(committed) \in 1..Len(more)
      BY <1>2, <2>2
    <3> QED
      BY <1>2, <2>2, <3>1
  <2> QED
    BY <2>1, <2>2
<1> QED
  BY <1>2, <1>3, <1>4

\* Publishing inside a use: nobody waits behind the fence meanwhile.
LEMMA PublishPresentStep ==
  ASSUME WsiInv, NEW t \in Threads, PublishPresent(t)
  PROVE  WsiInv'
<1> USE DEF WsiInv
<1>1. /\ pc[t] = "acquire" /\ pc' = Goto(t, "leave")
      /\ UNCHANGED <<gateVars, registry, binding, encoded, completed, enc, bounds>>
  BY DEF PublishPresent
<1>2. "leave" \in Pcs /\ "leave" \notin ChangePcs /\ Calm("acquire", "leave")
      /\ "leave" \notin PresentPcs \cup {"using"} /\ "acquire" \in UsePcs
  BY DEF Calm, ChangePcs, GatedPcs, BlockedPcs, UsePcs, DrainedPcs, QuietPcs,
         SwapPcs, Pcs, PresentPcs
<1>3. Moves(t, "acquire", "leave")
  BY <1>1, <1>2, GotoMoves
<1>4. /\ reg[t] \in Regs /\ reg \in [Threads -> Regs] /\ reg[t].id \in PresentIds
      /\ IdSound(reg[t].id) /\ reg[t].ptr \in live \cup {None}
  BY <1>1 DEF TypeOK, Regs, RegistryInv, IdsSound, PointersLive, UseKeepsPresenter
<1>5. CASE /\ arenaPresent' = <<reg[t].id>>
           /\ UNCHANGED <<committed, reg, arena, arenaFailed>>
  <2>1. RegsKept(t) /\ reg'[t] = reg[t]
    BY <1>5, RegSame
  <2>2. TypeOK'
    <3>1. pc' \in [Threads -> Pcs] /\ reg' \in [Threads -> Regs]
      BY <1>3, <2>1 DEF Moves, RegsKept
    <3>2. arenaPresent' \in Seq(PresentIds)
      BY <1>4, <1>5
    <3> QED
      BY <1>1, <1>5, <3>1, <3>2, TypeStep DEF TypeOK, gateVars, bounds
  <2>3. GateInv'
    BY <1>1, <1>2, <1>3, <1>5, <2>1, CalmStep DEF gateVars
  <2>4. RegistryInv'
    <3>1. \A i \in 1..Len(arenaPresent') : IdSound(arenaPresent'[i])
      BY <1>4, <1>5
    <3>2. /\ \A i \in 1..Len(committed') : IdSound(committed'[i])
          /\ enc'.pc = "encoding" => enc'.ptr \in live \cup {None}
      BY <1>1, <1>5 DEF RegistryInv, IdsSound, PointersLive, EncodeKeepsPresenter
    <3>3. \A s \in Threads : s # t => Stays(s) /\ reg'[s] = reg[s]
      BY <1>3, <2>1 DEF Moves, RegsKept
    <3>4. pc'[t] = "leave"
      BY <1>3 DEF Moves
    <3> QED
      BY <1>1, <1>2, <1>4, <2>1, <3>1, <3>2, <3>3, <3>4, ApartStep
  <2> QED
    BY <2>2, <2>3, <2>4
<1>6. CASE /\ UNCHANGED committed /\ reg' = [reg EXCEPT ![t].ptr = None]
           /\ UNCHANGED arenaVars
  <2>1. RegsKept(t) /\ reg'[t].id = reg[t].id /\ reg'[t].ptr = None
    <3> DEFINE r == [reg[t] EXCEPT !.ptr = None]
    <3>1. r \in Regs /\ r.id = reg[t].id /\ r.ptr = None
      BY <1>4 DEF Regs, None
    <3>2. reg' = [reg EXCEPT ![t] = r]
      BY <1>4, <1>6
    <3> HIDE DEF r
    <3> QED
      BY <3>1, <3>2, RegSet
  <2>2. TypeOK'
    BY <1>1, <1>3, <1>6, <2>1, TypeKept DEF gateVars, bounds, queue, TypeOK
  <2>3. GateInv'
    BY <1>1, <1>2, <1>3, <1>6, <2>1, CalmStep DEF gateVars, arenaVars
  <2>4. RegistryInv'
    BY <1>1, <1>2, <1>3, <1>4, <1>6, <2>1, ThreadApart DEF arenaVars
  <2> QED
    BY <2>2, <2>3, <2>4
<1>7. CASE /\ committed' = Append(committed, reg[t].id)
           /\ reg' = [reg EXCEPT ![t].seq = Len(committed) + 1, ![t].ptr = None]
           /\ UNCHANGED arenaVars
  <2>1. RegsKept(t) /\ reg'[t].id = reg[t].id /\ reg'[t].ptr = None
    <3> DEFINE q == Len(committed) + 1
               r == [reg[t] EXCEPT !.seq = q, !.ptr = None]
    <3>1. q \in Nat
      BY DEF TypeOK
    <3>2. reg' = [reg EXCEPT ![t] = r]
      BY <1>4, <1>7
    <3> HIDE DEF q
    <3>3. r \in Regs /\ r.id = reg[t].id /\ r.ptr = None
      BY <1>4, <3>1 DEF Regs, None
    <3> HIDE DEF r
    <3> QED
      BY <3>2, <3>3, RegSet
  <2>2. /\ CountersOrdered' /\ committed' \in Seq(PresentIds)
        /\ \A i \in 1..Len(committed') : IdSound(committed'[i])
    <3>1. /\ <<reg[t].id>> \in Seq(PresentIds)
          /\ \A i \in 1..Len(<<reg[t].id>>) : IdSound(<<reg[t].id>>[i])
      BY <1>4
    <3>2. committed' = committed \o <<reg[t].id>>
      <4>1. committed \in Seq(PresentIds)
        BY DEF TypeOK
      <4> QED
        BY <1>4, <1>7, <4>1, AppendIsConcat
    <3> QED
      BY <1>1, <3>1, <3>2, Appended
  <2>3. TypeOK'
    <3>1. pc' \in [Threads -> Pcs] /\ reg' \in [Threads -> Regs]
      BY <1>3, <2>1 DEF Moves, RegsKept
    <3> QED
      BY <1>1, <1>7, <2>2, <3>1, TypeStep DEF TypeOK, gateVars, bounds, arenaVars
  <2>4. GateInv'
    <3>1. UNCHANGED <<gate, users, arena, stop>>
      BY <1>1, <1>7 DEF gateVars, arenaVars
    <3>2. ChangeShape'
      BY <1>2, <1>3, <2>1, ShapeKept DEF GateInv
    <3>3. GateOwned'
      BY <1>2, <1>3, <3>1, GateKept DEF GateInv, Calm
    <3>4. UsersCounted' /\ Users' = Users
      BY <1>2, <1>3, <3>1, UsersStay DEF GateInv, Calm
    <3>5. Quieted'
      BY <1>2, <1>3, <3>1, <3>4, QuietKept DEF GateInv, Calm
    <3>6. \A s \in Threads : pc[s] \notin DrainedPcs
      BY <1>1, <1>2, UseHoldsOff
    <3>7. \A s \in Threads : pc'[s] \notin DrainedPcs
      BY <1>2, <1>3, <3>6 DEF Moves, Stays, Calm
    <3>8. Fenced'
      BY <3>7 DEF Fenced, DrainedPcs, SwapPcs
    <3> QED
      BY <2>2, <3>2, <3>3, <3>4, <3>5, <3>8 DEF GateInv
  <2>5. RegistryInv'
    <3>1. /\ \A i \in 1..Len(arenaPresent') : IdSound(arenaPresent'[i])
          /\ enc'.pc = "encoding" => enc'.ptr \in live \cup {None}
      BY <1>1, <1>7
         DEF arenaVars, RegistryInv, IdsSound, PointersLive, EncodeKeepsPresenter
    <3>2. \A s \in Threads : s # t => Stays(s) /\ reg'[s] = reg[s]
      BY <1>3, <2>1 DEF Moves, RegsKept
    <3>3. pc'[t] = "leave"
      BY <1>3 DEF Moves
    <3> QED
      BY <1>1, <1>2, <1>4, <2>1, <2>2, <3>1, <3>2, <3>3, ApartStep
  <2> QED
    BY <2>3, <2>4, <2>5
<1> QED
  BY <1>5, <1>6, <1>7 DEF PublishPresent

\* The end of a use.
LEMMA LeavePresentStep ==
  ASSUME WsiInv, NEW t \in Threads, LeavePresent(t)
  PROVE  WsiInv'
<1> USE DEF WsiInv
<1>1. /\ pc[t] = "leave" /\ users' = users - 1
      /\ pc' = Goto(t, "idle") \/ pc' = WakeWsi(Goto(t, "idle"))
      /\ reg' = [reg EXCEPT ![t].id = NoId, ![t].ptr = None, ![t].seq = 0]
      /\ UNCHANGED <<gate, admissionStopped, stop, arenaVars, registry, binding,
                     queue, enc, bounds>>
  BY DEF LeavePresent
<1>2. "idle" \in Pcs /\ "idle" \notin ChangePcs /\ "idle" \notin UsePcs
      /\ "leave" \in UsePcs /\ "idle" \notin PresentPcs \cup {"using"}
      /\ "idle" \notin GatedPcs /\ "idle" \notin BlockedPcs
      /\ "idle" \notin DrainedPcs /\ "idle" \notin QuietPcs /\ "idle" \notin SwapPcs
  BY DEF ChangePcs, GatedPcs, BlockedPcs, UsePcs, DrainedPcs, QuietPcs,
         SwapPcs, Pcs, PresentPcs
<1>3. Moves(t, "leave", "idle")
  BY <1>1, <1>2, WokenMoves
<1>4. RegsKept(t) /\ reg'[t].id = NoId
  <2>1. NoId \in PresentIds /\ None \in Nat /\ 0 \in Nat
    BY NoIdFacts DEF None
  <2>2. WritesRegs(t, NoId, None, 0)
    BY <1>1 DEF WritesRegs
  <2> QED
    BY <2>1, <2>2, PresentRegs
<1>5. UsersCounted' /\ users' \in Nat /\ Users' \subseteq Users
  BY <1>1, <1>2, <1>3, UsersLeave DEF GateInv
<1>6. TypeOK'
  BY <1>1, <1>3, <1>4, <1>5, TypeKept DEF bounds, TypeOK
<1>7. UNCHANGED <<gate, stop, arena, committed, encoded, completed, enc>>
  BY <1>1 DEF arenaVars, queue
<1>8. GateInv'
  <2>1. CountersOrdered'
    BY <1>7, CountersKept DEF GateInv
  <2>2. ChangeShape'
    BY <1>2, <1>3, <1>4, ShapeKept DEF GateInv
  <2>3. GateOwned'
    BY <1>2, <1>3, <1>7, GateKept DEF GateInv
  <2>4. Quieted'
    BY <1>2, <1>3, <1>5, <1>7, QuietKept DEF GateInv
  <2>5. Fenced'
    BY <1>2, <1>3, <1>4, <1>7, FenceKept DEF GateInv
  <2> QED
    BY <1>5, <2>1, <2>2, <2>3, <2>4, <2>5 DEF GateInv
<1>9. RegistryInv'
  BY <1>1, <1>2, <1>3, <1>4, NoIdFacts, ThreadApart DEF arenaVars, queue
<1> QED
  BY <1>6, <1>8, <1>9

-----------------------------------------------------------------------------
(* The steps of an arena. *)

\* A thread that notifies between two calls.
LEMMA IdleMoves ==
  ASSUME TypeOK, NEW t \in Threads, pc[t] = "idle",
         pc' = pc \/ pc' = WakeWrite(pc) \/ pc' = WakeWrite(WakeWsi(pc))
  PROVE  Moves(t, "idle", "idle")
<1>1. pc = Goto(t, "idle")
  BY DEF TypeOK, Goto
<1>2. "idle" \in Pcs
  BY DEF Pcs
<1> QED
  BY <1>1, <1>2, WokenMoves

\* "idle" is outside every place the invariants speak of.
LEMMA IdleFacts ==
  /\ "idle" \in Pcs /\ "idle" \notin ChangePcs /\ "idle" \notin UsePcs
  /\ "idle" \notin PresentPcs \cup {"using"} /\ "idle" \notin GatedPcs
  /\ "idle" \notin BlockedPcs /\ "idle" \notin DrainedPcs
  /\ "idle" \notin QuietPcs /\ "idle" \notin SwapPcs
BY DEF ChangePcs, GatedPcs, BlockedPcs, UsePcs, DrainedPcs, QuietPcs,
       SwapPcs, Pcs, PresentPcs

\* An arena begins at an open gate only.
LEMMA BeginArenaStep ==
  ASSUME WsiInv, NEW t \in Threads, BeginArena(t)
  PROVE  WsiInv'
<1> USE DEF WsiInv
<1>1. /\ pc[t] = "idle"
      /\ UNCHANGED <<gateVars, arenaPresent, arenaFailed, registry, binding,
                     queue, enc, reg, bounds>>
  BY DEF BeginArena
<1>2. CASE pc' = Goto(t, "admit") /\ arena' = arena
  <2>1. Calm("idle", "admit") /\ "admit" \in Pcs /\ "admit" \notin ChangePcs
        /\ "admit" \notin PresentPcs \cup {"using"}
    BY DEF Calm, ChangePcs, GatedPcs, BlockedPcs, UsePcs, DrainedPcs, QuietPcs,
           SwapPcs, Pcs, PresentPcs, AdmitPcs
  <2> QED
    BY <1>1, <1>2, <2>1, PlaceOnly DEF arenaVars
<1>3. CASE ~gate /\ arena' = t /\ pc' = pc
  <2>1. Moves(t, "idle", "idle")
    BY <1>1, <1>3, IdleMoves
  <2>2. RegsKept(t) /\ reg'[t] = reg[t]
    BY <1>1, RegSame
  <2>3. TypeOK'
    <3>1. pc' \in [Threads -> Pcs] /\ reg' \in [Threads -> Regs]
      BY <2>1, <2>2 DEF Moves, RegsKept
    <3> QED
      BY <1>1, <1>3, <3>1, TypeStep DEF TypeOK, gateVars, queue, bounds
  <2>4. UNCHANGED <<gate, users, stop, committed, encoded, completed, enc,
                    arenaPresent>>
    BY <1>1 DEF gateVars, queue
  <2>5. CountersOrdered'
    BY <2>4, CountersKept DEF GateInv
  <2>6. ChangeShape'
    BY <2>1, <2>2, IdleFacts, ShapeKept DEF GateInv
  <2>7. GateOwned'
    BY <2>1, <2>4, IdleFacts, GateKept DEF GateInv
  <2>8. UsersCounted'
    BY <2>1, <2>4, UsersStay DEF GateInv
  <2>9. Quieted' /\ Fenced'
    BY <1>3, <2>1, IdleFacts, OpenGateQuiet
  <2>10. RegistryInv'
    BY <1>1, <2>1, <2>2, <2>4, IdleFacts, ThreadQuiet
  <2> QED
    BY <2>3, <2>5, <2>6, <2>7, <2>8, <2>9, <2>10 DEF GateInv
<1> QED
  BY <1>2, <1>3 DEF BeginArena

\* One round of waitForCpuReadyArenaAdmission.
LEMMA AwaitAdmissionStep ==
  ASSUME WsiInv, NEW t \in Threads, AwaitAdmission(t)
  PROVE  WsiInv'
<1>1. /\ pc[t] = "admit"
      /\ pc' = Goto(t, "admitChecked") \/ pc' = Goto(t, "idle")
      /\ UNCHANGED <<gateVars, arenaVars, registry, binding, queue, enc, reg,
                     bounds>>
  BY DEF AwaitAdmission
<1>2. \A to \in {"admitChecked", "idle"} :
        /\ Calm("admit", to) /\ to \in Pcs /\ to \notin ChangePcs
        /\ to \notin PresentPcs \cup {"using"} /\ to \notin {"acquire", "leave"}
        /\ to # "commit"
  BY DEF Calm, ChangePcs, GatedPcs, BlockedPcs, UsePcs, DrainedPcs, QuietPcs,
         SwapPcs, Pcs, PresentPcs, AdmitPcs
<1>3. PICK to \in {"admitChecked", "idle"} : pc' = Goto(t, to)
  BY <1>1
<1> QED
  BY <1>1, <1>2, <1>3, PlaceOnly

\* The admission waiter goes to sleep.
LEMMA AdmissionSleepStep ==
  ASSUME WsiInv, NEW t \in Threads, AdmissionSleep(t)
  PROVE  WsiInv'
<1>1. /\ pc[t] = "admitChecked" /\ pc' = Goto(t, "admitAsleep")
      /\ UNCHANGED <<gateVars, arenaVars, registry, binding, queue, enc, reg,
                     bounds>>
  BY DEF AdmissionSleep
<1>2. Calm("admitChecked", "admitAsleep") /\ "admitAsleep" \in Pcs
      /\ "admitAsleep" \notin ChangePcs
      /\ "admitAsleep" \notin PresentPcs \cup {"using"}
  BY DEF Calm, ChangePcs, GatedPcs, BlockedPcs, UsePcs, DrainedPcs, QuietPcs,
         SwapPcs, Pcs, PresentPcs, AdmitPcs
<1> QED
  BY <1>1, <1>2, PlaceOnly

\* An arena that publishes shows that no owner has passed the arenas yet.
LEMMA PublishArenaStep ==
  ASSUME WsiInv, NEW t \in Threads, PublishArena(t)
  PROVE  WsiInv'
<1> USE DEF WsiInv
<1>1. /\ arena = t /\ pc[t] = "idle" /\ ~stop
      /\ committed' = committed \o arenaPresent
      /\ arena' = Nobody /\ arenaPresent' = <<>> /\ pc' = WakeWrite(pc)
      /\ UNCHANGED <<gateVars, arenaFailed, registry, binding, encoded, completed,
                     enc, reg, bounds>>
  BY DEF PublishArena
<1>2. Moves(t, "idle", "idle")
  BY <1>1, IdleMoves
<1>3. RegsKept(t) /\ reg'[t] = reg[t]
  BY <1>1, RegSame
<1>4. /\ CountersOrdered' /\ committed' \in Seq(PresentIds)
      /\ \A i \in 1..Len(committed') : IdSound(committed'[i])
  <2>1. arenaPresent \in Seq(PresentIds)
        /\ \A i \in 1..Len(arenaPresent) : IdSound(arenaPresent[i])
    BY DEF TypeOK, RegistryInv, IdsSound
  <2> QED
    BY <1>1, <2>1, Appended
<1>5. TypeOK'
  <2>1. pc' \in [Threads -> Pcs] /\ reg' \in [Threads -> Regs]
    BY <1>2, <1>3 DEF Moves, RegsKept
  <2>2. arenaPresent' \in Seq(PresentIds)
    BY <1>1
  <2> QED
    BY <1>1, <1>4, <2>1, <2>2, TypeStep DEF TypeOK, gateVars, bounds
<1>6. GateInv'
  <2>1. UNCHANGED <<gate, users, stop>>
    BY <1>1 DEF gateVars
  <2>2. ChangeShape'
    BY <1>2, <1>3, IdleFacts, ShapeKept DEF GateInv
  <2>3. GateOwned'
    BY <1>2, <2>1, IdleFacts, GateKept DEF GateInv
  <2>4. UsersCounted' /\ Users' = Users
    BY <1>2, <2>1, UsersStay DEF GateInv
  <2>5. Quieted'
    BY <1>1, <1>2, <2>1, <2>4, IdleFacts, QuietKept DEF GateInv
  <2>6. \A s \in Threads : pc[s] \notin QuietPcs
    BY <1>1, WsiAssumption DEF GateInv, Quieted, Threads
  <2>7. \A s \in Threads : pc'[s] \notin QuietPcs
    BY <1>2, <2>6 DEF Moves, Stays
  <2>8. Fenced'
    BY <2>7 DEF Fenced, QuietPcs, SwapPcs, GatedPcs
  <2> QED
    BY <1>4, <2>2, <2>3, <2>4, <2>5, <2>8 DEF GateInv
<1>7. RegistryInv'
  <2>1. \A i \in 1..Len(arenaPresent') : IdSound(arenaPresent'[i])
    BY <1>1
  <2>2. enc'.pc = "encoding" => enc'.ptr \in live \cup {None}
    BY <1>1 DEF RegistryInv, PointersLive, EncodeKeepsPresenter
  <2>3. \A s \in Threads : s # t => Stays(s) /\ reg'[s] = reg[s]
    BY <1>2, <1>3 DEF Moves, RegsKept
  <2>4. pc'[t] = "idle" /\ IdSound(reg'[t].id)
    BY <1>2, <1>3 DEF Moves, RegistryInv, IdsSound
  <2> QED
    BY <1>1, <1>4, <2>1, <2>2, <2>3, <2>4, IdleFacts, ApartStep
<1> QED
  BY <1>5, <1>6, <1>7

\* Dropping the arena, with a stop of the queue or without.
LEMMA ArenaDropped ==
  ASSUME WsiInv, NEW t \in Threads, NEW from, NEW to,
         Moves(t, from, to), RegsKept(t), reg'[t] = reg[t],
         arena' = Nobody, arenaPresent' = <<>>,
         \/ stop' = TRUE /\ admissionStopped' = TRUE
         \/ UNCHANGED <<stop, admissionStopped>>,
         UNCHANGED <<gate, users, arenaFailed, registry, binding, queue, enc, reg,
                     bounds>>,
         \/ from = "idle" /\ to = "idle"
         \/ from = "arenaWait" /\ to = "drain"
  PROVE  WsiInv'
<1> USE DEF WsiInv
<1>1. TypeOK'
  <2>1. pc' \in [Threads -> Pcs] /\ reg' \in [Threads -> Regs]
    BY DEF Moves, RegsKept
  <2>2. arenaPresent' \in Seq(PresentIds)
    OBVIOUS
  <2>3. stop' \in BOOLEAN /\ admissionStopped' \in BOOLEAN
    BY DEF TypeOK
  <2> QED
    BY <2>1, <2>2, <2>3, TypeStep DEF TypeOK, queue, bounds
<1>2. /\ stop => stop'
      /\ UNCHANGED <<committed, encoded, completed>>
      /\ pc[t] = from
  BY DEF queue, Moves, TypeOK
<1>3. /\ to \in ChangePcs => from \in ChangePcs \ {"commit", "end"}
      /\ to \in GatedPcs => from \in GatedPcs
      /\ to \notin BlockedPcs /\ from \notin UsePcs /\ to \notin UsePcs
      /\ to \notin DrainedPcs /\ to \notin SwapPcs /\ to # "fencing"
      /\ to \notin PresentPcs \cup {"using"} /\ to \notin {"acquire", "leave"}
      /\ to # "commit"
  BY DEF ChangePcs, GatedPcs, BlockedPcs, UsePcs, DrainedPcs, QuietPcs,
         SwapPcs, PresentPcs
<1>4. CountersOrdered'
  BY <1>2, CountersKept DEF GateInv
<1>5. ChangeShape'
  <2>1. /\ to \in ChangePcs => reg'[t].chain \in Chains
        /\ to \in ChangePcs \ {"commit", "end"} => reg'[t].id = NoId
    BY <1>2, <1>3 DEF GateInv, ChangeShape
  <2> QED
    BY <2>1, ShapeKept DEF GateInv
<1>6. GateOwned'
  BY <1>3, GateKept DEF GateInv
<1>7. UsersCounted' /\ Users' = Users
  BY <1>3, UsersStay DEF GateInv
<1>8. Quieted'
  BY <1>2, <1>3, <1>7, QuietKept DEF GateInv
<1>9. Fenced'
  BY <1>2, <1>3, FenceKept DEF GateInv
<1>10. RegistryInv'
  <2>1. /\ \A i \in 1..Len(arenaPresent') : IdSound(arenaPresent'[i])
        /\ \A i \in 1..Len(committed') : IdSound(committed'[i])
    BY <1>2 DEF RegistryInv, IdsSound
  <2>2. enc'.pc = "encoding" => enc'.ptr \in live \cup {None}
    BY DEF RegistryInv, PointersLive, EncodeKeepsPresenter
  <2>3. \A s \in Threads : s # t => Stays(s) /\ reg'[s] = reg[s]
    BY DEF Moves, RegsKept
  <2>4. pc'[t] = to /\ IdSound(reg'[t].id)
    BY DEF Moves, RegistryInv, IdsSound
  <2> QED
    BY <1>3, <2>1, <2>2, <2>3, <2>4, ApartStep
<1> QED
  BY <1>1, <1>4, <1>5, <1>6, <1>7, <1>8, <1>9, <1>10 DEF GateInv

\* abortCpuReadyArenaBatch and abortCpuReadyArenaSource.
LEMMA AbortArenaStep ==
  ASSUME WsiInv, NEW t \in Threads, NEW f \in BOOLEAN, AbortArena(t, f)
  PROVE  WsiInv'
<1> USE DEF WsiInv
<1>1. /\ pc[t] = "idle" /\ arena' = Nobody /\ arenaPresent' = <<>>
      /\ UNCHANGED <<gate, users, arenaFailed, registry, binding, queue, enc, reg,
                     bounds>>
      /\ \/ /\ stop' = TRUE /\ admissionStopped' = TRUE
            /\ pc' = WakeWrite(WakeWsi(pc))
         \/ pc' = WakeWrite(pc) /\ UNCHANGED <<stop, admissionStopped>>
  BY DEF AbortArena, StopQueue
<1>2. Moves(t, "idle", "idle")
  BY <1>1, IdleMoves
<1>3. RegsKept(t) /\ reg'[t] = reg[t]
  BY <1>1, RegSame
<1> QED
  BY <1>1, <1>2, <1>3, ArenaDropped

-----------------------------------------------------------------------------
(* The steps of a replacement or a teardown. *)

\* A replacement or a teardown begins.
LEMMA ChangeBeginStep ==
  ASSUME WsiInv, NEW o \in Owners, NEW c \in Chains,
         NEW kind \in {"replace", "close"}, ChangeBegin(o, c, kind)
  PROVE  WsiInv'
<1> USE DEF WsiInv
<1>1. o \in Threads
  BY DEF Threads
<1>2. /\ pc[o] = "idle" /\ changes' = changes + 1
      /\ reg' = [reg EXCEPT ![o].chain = c, ![o].kind = kind, ![o].id = NoId]
      /\ pc' = Goto(o, "begin") \/ pc' = Goto(o, "gateWait")
      /\ UNCHANGED <<gateVars, arenaVars, registry, binding, queue, enc, presents>>
  BY DEF ChangeBegin
<1>3. PICK to \in {"begin", "gateWait"} : pc' = Goto(o, to)
  BY <1>2
<1>4. /\ Calm("idle", to) /\ to \in Pcs /\ to \notin PresentPcs \cup {"using"}
      /\ to \notin {"acquire", "leave"} /\ to # "commit"
  BY DEF Calm, ChangePcs, GatedPcs, BlockedPcs, UsePcs, DrainedPcs, QuietPcs,
         SwapPcs, Pcs, PresentPcs
<1>5. Moves(o, "idle", to)
  BY <1>1, <1>2, <1>3, <1>4, GotoMoves
<1>6. RegsKept(o) /\ reg'[o].chain = c /\ reg'[o].id = NoId
  <2> DEFINE r == [reg[o] EXCEPT !.chain = c, !.kind = kind, !.id = NoId]
  <2>1. reg[o] \in Regs /\ reg \in [Threads -> Regs]
    BY <1>1 DEF TypeOK
  <2>2. r \in Regs /\ r.chain = c /\ r.id = NoId
    BY <2>1, NoIdFacts DEF Regs
  <2>3. reg' = [reg EXCEPT ![o] = r]
    BY <1>1, <1>2, <2>1
  <2> HIDE DEF r
  <2> QED
    BY <1>1, <2>2, <2>3, RegSet
<1>7. TypeOK'
  <2>1. changes' \in Nat
    BY <1>2 DEF TypeOK
  <2> QED
    BY <1>1, <1>2, <1>5, <1>6, <2>1, TypeKept DEF gateVars, TypeOK
<1>8. GateInv'
  BY <1>1, <1>2, <1>4, <1>5, <1>6, CalmStep DEF gateVars, arenaVars, queue
<1>9. RegistryInv'
  BY <1>1, <1>2, <1>4, <1>5, <1>6, NoIdFacts, ThreadApart DEF arenaVars, queue
<1> QED
  BY <1>7, <1>8, <1>9

\* Arming the gate: the owner moves behind it and finds no use drained yet.
LEMMA Arming ==
  ASSUME WsiInv, NEW o \in Threads, NEW from, NEW to \in Pcs,
         pc[o] = from, pc' = Goto(o, to), ~gate, gate' = TRUE,
         UNCHANGED <<users, admissionStopped, stop, arenaVars, registry, binding,
                     queue, enc, reg, bounds>>,
         \/ from = "begin" /\ to = "drain" /\ arena = Nobody
         \/ from = "gateWait" /\ to = "arenaWait"
  PROVE  WsiInv'
<1> USE DEF WsiInv
<1>1. Moves(o, from, to)
  BY GotoMoves
<1>2. RegsKept(o) /\ reg'[o] = reg[o]
  BY RegSame
<1>3. TypeOK'
  BY <1>1, <1>2, TypeKept DEF bounds, TypeOK
<1>4. /\ from \in ChangePcs \ {"commit", "end"} /\ from \notin UsePcs
      /\ to \notin UsePcs /\ to \notin DrainedPcs /\ to \notin SwapPcs
      /\ to # "fencing" /\ to # "commit"
      /\ to \notin PresentPcs \cup {"using"} /\ to \notin {"acquire", "leave"}
      /\ to \in QuietPcs => arena = Nobody
  BY DEF ChangePcs, GatedPcs, UsePcs, DrainedPcs, QuietPcs, SwapPcs, PresentPcs
<1>5. UNCHANGED <<users, stop, arena, arenaPresent, committed, encoded, completed,
                  enc>>
  BY DEF arenaVars, queue
<1>6. CountersOrdered'
  BY <1>5, CountersKept DEF GateInv
<1>7. ChangeShape'
  <2>1. reg'[o].chain \in Chains /\ reg'[o].id = NoId
    BY <1>2, <1>4 DEF GateInv, ChangeShape
  <2> QED
    BY <1>1, <1>2, <2>1, ShapeKept DEF GateInv
<1>8. GateOwned'
  BY <1>1, GateArmed DEF GateInv
<1>9. UsersCounted' /\ Users' = Users
  BY <1>1, <1>4, <1>5, UsersStay DEF GateInv
<1>10. Quieted'
  BY <1>1, <1>4, <1>5, <1>9, QuietKept DEF GateInv
<1>11. Fenced'
  BY <1>1, <1>2, <1>4, <1>5, FenceKept DEF GateInv
<1>12. RegistryInv'
  BY <1>1, <1>2, <1>4, <1>5, ThreadQuiet
<1> QED
  BY <1>3, <1>6, <1>7, <1>8, <1>9, <1>10, <1>11, <1>12 DEF GateInv

\* beginWsiQuiescence gives up or arms the gate with no arena active.
LEMMA BeginQuiescenceStep ==
  ASSUME WsiInv, NEW o \in Threads, BeginQuiescence(o)
  PROVE  WsiInv'
<1> USE DEF WsiInv
<1>1. /\ pc[o] = "begin"
      /\ UNCHANGED <<users, admissionStopped, stop, arenaVars, registry, binding,
                     queue, enc, bounds>>
  BY DEF BeginQuiescence
<1>2. CASE pc' = Goto(o, "idle") /\ GiveUp(o) /\ UNCHANGED gate
  <2>1. Moves(o, "begin", "idle")
    BY <1>1, <1>2, IdleFacts, GotoMoves
  <2>2. RegsKept(o) /\ reg'[o].id = reg[o].id
    <3> DEFINE r == [reg[o] EXCEPT !.chain = None, !.kind = "none"]
    <3>1. reg[o] \in Regs /\ reg \in [Threads -> Regs]
      BY DEF TypeOK
    <3>2. r \in Regs /\ r.id = reg[o].id
      BY <3>1 DEF Regs
    <3>3. reg' = [reg EXCEPT ![o] = r]
      BY <1>2, <3>1 DEF GiveUp
    <3> HIDE DEF r
    <3> QED
      BY <3>2, <3>3, RegSet
  <2>3. TypeOK'
    BY <1>1, <1>2, <2>1, <2>2, TypeKept DEF bounds, TypeOK
  <2>4. Calm("begin", "idle")
    BY IdleFacts DEF Calm, UsePcs
  <2>5. GateInv'
    BY <1>1, <1>2, <2>1, <2>2, <2>4, IdleFacts, CalmStep DEF arenaVars, queue
  <2>6. IdSound(reg'[o].id)
    BY <2>2 DEF RegistryInv, IdsSound
  <2>7. RegistryInv'
    BY <1>1, <2>1, <2>2, <2>6, IdleFacts, ThreadApart DEF arenaVars, queue
  <2> QED
    BY <2>3, <2>5, <2>7
<1>3. CASE /\ arena = Nobody /\ ~gate /\ gate' = TRUE /\ pc' = Goto(o, "drain")
           /\ UNCHANGED reg
  BY <1>1, <1>3, Arming DEF Pcs, ChangePcs, GatedPcs
<1> QED
  BY <1>2, <1>3 DEF BeginQuiescence

\* beginFinalWsiQuiescence tests the gate and arms it.
LEMMA BeginFinalStep ==
  ASSUME WsiInv, NEW o \in Threads, BeginFinal(o)
  PROVE  WsiInv'
<1> USE DEF WsiInv
<1>1. /\ pc[o] = "gateWait"
      /\ UNCHANGED <<users, admissionStopped, stop, arenaVars, registry, binding,
                     queue, enc, reg, bounds>>
  BY DEF BeginFinal
<1>2. CASE gate /\ pc' = Goto(o, "gateChecked") /\ UNCHANGED gate
  <2>1. /\ Calm("gateWait", "gateChecked") /\ "gateChecked" \in Pcs
        /\ "gateWait" \in ChangePcs \ {"commit", "end"}
        /\ "gateChecked" \notin PresentPcs \cup {"using"}
    BY <1>2 DEF Calm, ChangePcs, GatedPcs, BlockedPcs, UsePcs, DrainedPcs,
                QuietPcs, SwapPcs, Pcs, PresentPcs
  <2> QED
    BY <1>1, <1>2, <2>1, PlaceOnly DEF gateVars
<1>3. CASE ~gate /\ gate' = TRUE /\ pc' = Goto(o, "arenaWait")
  BY <1>1, <1>3, Arming DEF Pcs, ChangePcs, GatedPcs
<1> QED
  BY <1>2, <1>3 DEF BeginFinal

\* The owner of the next quiescence sleeps with the gate still armed.
LEMMA FinalSleepStep ==
  ASSUME WsiInv, NEW o \in Threads, FinalSleep(o)
  PROVE  WsiInv'
<1>1. /\ pc[o] = "gateChecked" /\ pc' = Goto(o, "gateAsleep")
      /\ UNCHANGED <<gateVars, arenaVars, registry, binding, queue, enc, reg,
                     bounds>>
  BY DEF FinalSleep
<1>2. gate
  BY <1>1 DEF WsiInv, GateInv, GateOwned, BlockedPcs
<1>3. /\ Calm("gateChecked", "gateAsleep") /\ "gateAsleep" \in Pcs
      /\ "gateChecked" \in ChangePcs \ {"commit", "end"}
      /\ "gateAsleep" \notin PresentPcs \cup {"using"}
  BY <1>2 DEF Calm, ChangePcs, GatedPcs, BlockedPcs, UsePcs, DrainedPcs,
              QuietPcs, SwapPcs, Pcs, PresentPcs
<1> QED
  BY <1>1, <1>3, PlaceOnly

\* A teardown aborts the arena of its own thread.
LEMMA AbortOwnArenaStep ==
  ASSUME WsiInv, NEW o \in Threads, NEW f \in BOOLEAN, AbortOwnArena(o, f)
  PROVE  WsiInv'
<1> USE DEF WsiInv
<1>1. /\ pc[o] = "arenaWait" /\ arena' = Nobody /\ arenaPresent' = <<>>
      /\ UNCHANGED <<gate, users, arenaFailed, registry, binding, queue, enc, reg,
                     bounds>>
      /\ \/ /\ stop' = TRUE /\ admissionStopped' = TRUE
            /\ pc' = WakeWrite(WakeWsi(Goto(o, "drain")))
         \/ /\ pc' = WakeWrite(Goto(o, "drain"))
            /\ UNCHANGED <<stop, admissionStopped>>
  BY DEF AbortOwnArena, StopQueue
<1>2. Moves(o, "arenaWait", "drain")
  BY <1>1, WokenMoves DEF Pcs, ChangePcs, GatedPcs
<1>3. RegsKept(o) /\ reg'[o] = reg[o]
  BY <1>1, RegSame
<1> QED
  BY <1>1, <1>2, <1>3, ArenaDropped

\* A step of the owner behind the gate, which touches nothing but its own
\* place and the sequence it waits for.
LEMMA OwnerStep ==
  ASSUME WsiInv, NEW o \in Threads, NEW from, NEW to \in Pcs,
         pc[o] = from, pc' = Goto(o, to), RegsKept(o),
         reg'[o].chain = reg[o].chain, reg'[o].id = reg[o].id,
         UNCHANGED <<gateVars, arenaVars, registry, binding, queue, enc, bounds>>,
         from \in GatedPcs \ {"commit", "end"}, to \in GatedPcs \ {"commit"},
         to \in DrainedPcs => from \in DrainedPcs \/ Users = {},
         to \in QuietPcs => from \in QuietPcs \/ arena = Nobody \/ stop,
         to = "fencing" => reg'[o].seq = Len(committed),
         to \in SwapPcs => /\ encoded = Len(committed)
                           /\ stop \/ completed = Len(committed)
  PROVE  WsiInv'
<1> USE DEF WsiInv
<1>1. Moves(o, from, to)
  BY GotoMoves
<1>2. TypeOK'
  BY <1>1, TypeKept DEF gateVars, bounds, TypeOK
<1>3. UNCHANGED <<gate, users, stop, arena, arenaPresent, committed, encoded,
                  completed, enc>>
  BY DEF gateVars, arenaVars, queue
<1>4. /\ from \in ChangePcs \ {"commit", "end"} /\ from \notin UsePcs
      /\ to \notin UsePcs /\ to \notin BlockedPcs /\ to # "commit"
      /\ to \notin PresentPcs \cup {"using"} /\ to \notin {"acquire", "leave"}
  BY DEF ChangePcs, GatedPcs, UsePcs, PresentPcs, BlockedPcs
<1>5. CountersOrdered'
  BY <1>3, CountersKept DEF GateInv
<1>6. ChangeShape'
  <2>1. reg'[o].chain \in Chains /\ reg'[o].id = NoId
    BY <1>4 DEF GateInv, ChangeShape
  <2> QED
    BY <1>1, <2>1, ShapeKept DEF GateInv
<1>7. GateOwned'
  BY <1>1, <1>3, <1>4, GateKept DEF GateInv
<1>8. UsersCounted' /\ Users' = Users
  BY <1>1, <1>3, <1>4, UsersStay DEF GateInv
<1>9. Quieted'
  BY <1>1, <1>3, <1>8, QuietKept DEF GateInv
<1>10. Fenced'
  BY <1>1, <1>3, FenceKept DEF GateInv
<1>11. IdSound(reg'[o].id)
  BY DEF RegistryInv, IdsSound
<1>12. RegistryInv'
  BY <1>1, <1>3, <1>4, <1>11, ThreadApart
<1> QED
  BY <1>2, <1>5, <1>6, <1>7, <1>8, <1>9, <1>10, <1>12 DEF GateInv

\* A teardown has waited for the arena of another thread, or for a stop.
LEMMA AwaitArenaStep ==
  ASSUME WsiInv, NEW o \in Threads, AwaitArena(o)
  PROVE  WsiInv'
<1> USE DEF WsiInv
<1>1. /\ pc[o] = "arenaWait" /\ pc' = Goto(o, "drain")
      /\ arena = Nobody \/ stop
      /\ UNCHANGED <<gateVars, arenaVars, registry, binding, queue, enc, reg,
                     bounds>>
  BY DEF AwaitArena
<1>2. RegsKept(o) /\ reg'[o] = reg[o]
  BY <1>1, RegSame
<1>3. /\ "drain" \in Pcs /\ "arenaWait" \in GatedPcs \ {"commit", "end"}
      /\ "drain" \in GatedPcs \ {"commit"} /\ "drain" \notin DrainedPcs
      /\ "drain" \notin SwapPcs
  BY DEF Pcs, ChangePcs, GatedPcs, DrainedPcs, SwapPcs
<1> QED
  BY <1>1, <1>2, <1>3, OwnerStep

\* The owner finds no use inside, or is about to sleep.
LEMMA AwaitUsersStep ==
  ASSUME WsiInv, NEW o \in Threads, AwaitUsers(o)
  PROVE  WsiInv'
<1> USE DEF WsiInv
<1>1. /\ pc[o] = "drain"
      /\ pc' = Goto(o, IF users = 0 THEN "fence" ELSE "drainChecked")
      /\ UNCHANGED <<gateVars, arenaVars, registry, binding, queue, enc, reg,
                     bounds>>
  BY DEF AwaitUsers
<1>2. RegsKept(o) /\ reg'[o] = reg[o]
  BY <1>1, RegSame
<1>3. /\ "fence" \in Pcs /\ "drainChecked" \in Pcs
      /\ "drain" \in GatedPcs \ {"commit", "end"} /\ "drain" \in QuietPcs
      /\ "drainChecked" \in GatedPcs \ {"commit"} /\ "drainChecked" \notin DrainedPcs
      /\ "fence" \in GatedPcs \ {"commit"} /\ "drainChecked" \notin SwapPcs
      /\ "fence" \notin SwapPcs
  BY DEF Pcs, ChangePcs, GatedPcs, DrainedPcs, QuietPcs, SwapPcs
<1>4. CASE users = 0
  <2>1. Users = {} /\ pc' = Goto(o, "fence")
    BY <1>1, <1>4, NoUsers DEF GateInv
  <2> QED
    BY <1>1, <1>2, <1>3, <2>1, OwnerStep
<1>5. CASE users # 0
  <2>1. pc' = Goto(o, "drainChecked")
    BY <1>1, <1>5
  <2> QED
    BY <1>1, <1>2, <1>3, <2>1, OwnerStep
<1> QED
  BY <1>4, <1>5

\* The owner sleeps until the uses drain.
LEMMA DrainSleepStep ==
  ASSUME WsiInv, NEW o \in Threads, DrainSleep(o)
  PROVE  WsiInv'
<1> USE DEF WsiInv
<1>1. /\ pc[o] = "drainChecked" /\ pc' = Goto(o, "drainAsleep")
      /\ UNCHANGED <<gateVars, arenaVars, registry, binding, queue, enc, reg,
                     bounds>>
  BY DEF DrainSleep
<1>2. RegsKept(o) /\ reg'[o] = reg[o]
  BY <1>1, RegSame
<1>3. /\ "drainAsleep" \in Pcs /\ "drainChecked" \in GatedPcs \ {"commit", "end"}
      /\ "drainAsleep" \in GatedPcs \ {"commit"} /\ "drainAsleep" \notin DrainedPcs
      /\ "drainChecked" \in QuietPcs /\ "drainAsleep" \notin SwapPcs
  BY DEF Pcs, ChangePcs, GatedPcs, DrainedPcs, QuietPcs, SwapPcs
<1> QED
  BY <1>1, <1>2, <1>3, OwnerStep

\* flushAndWait fixes the sequence it waits for.
LEMMA FenceStep ==
  ASSUME WsiInv, NEW o \in Threads, Fence(o)
  PROVE  WsiInv'
<1> USE DEF WsiInv
<1>1. /\ pc[o] = "fence" /\ pc' = Goto(o, "fencing")
      /\ reg' = [reg EXCEPT ![o].seq = Len(committed)]
      /\ UNCHANGED <<gateVars, arenaVars, registry, binding, queue, enc, bounds>>
  BY DEF Fence
<1>2. /\ RegsKept(o) /\ reg'[o].seq = Len(committed)
      /\ reg'[o].chain = reg[o].chain /\ reg'[o].id = reg[o].id
  <2> DEFINE q == Len(committed)
             r == [reg[o] EXCEPT !.seq = q]
  <2>1. reg[o] \in Regs /\ reg \in [Threads -> Regs] /\ q \in Nat
    BY DEF TypeOK
  <2>2. reg' = [reg EXCEPT ![o] = r]
    BY <1>1, <2>1
  <2> HIDE DEF q
  <2>3. r \in Regs /\ r.seq = q /\ r.chain = reg[o].chain /\ r.id = reg[o].id
    BY <2>1 DEF Regs
  <2>4. RegsKept(o) /\ reg'[o] = r
    <3> HIDE DEF r
    <3> QED
      BY <2>2, <2>3, RegSet
  <2> QED
    BY <2>3, <2>4 DEF q
<1>3. /\ "fencing" \in Pcs /\ "fence" \in GatedPcs \ {"commit", "end"}
      /\ "fencing" \in GatedPcs \ {"commit"} /\ "fence" \in DrainedPcs
      /\ "fence" \in QuietPcs /\ "fencing" \notin SwapPcs
  BY DEF Pcs, ChangePcs, GatedPcs, DrainedPcs, QuietPcs, SwapPcs
<1> QED
  BY <1>1, <1>2, <1>3, OwnerStep

\* Past the fence the encoder has nothing left to resolve.
LEMMA FenceDoneStep ==
  ASSUME WsiInv, NEW o \in Threads, FenceDone(o)
  PROVE  WsiInv'
<1> USE DEF WsiInv
<1>1. /\ pc[o] = "fencing"
      /\ UNCHANGED <<gateVars, arenaVars, registry, binding, queue, enc, reg,
                     bounds>>
  BY DEF FenceDone
<1>2. RegsKept(o) /\ reg'[o] = reg[o]
  BY <1>1, RegSame
<1>3. /\ "swap" \in Pcs /\ "end" \in Pcs
      /\ "fencing" \in GatedPcs \ {"commit", "end"}
      /\ "swap" \in GatedPcs \ {"commit"} /\ "end" \in GatedPcs \ {"commit"}
      /\ "fencing" \in DrainedPcs /\ "fencing" \in QuietPcs /\ "end" \notin SwapPcs
  BY DEF Pcs, ChangePcs, GatedPcs, DrainedPcs, QuietPcs, SwapPcs
<1>4. CASE ~stop /\ completed >= reg[o].seq /\ pc' = Goto(o, "swap")
  <2>1. encoded = Len(committed) /\ completed = Len(committed)
    <3>1. /\ reg[o].seq = Len(committed) /\ completed <= encoded
          /\ encoded <= Len(committed)
      BY <1>1 DEF GateInv, Fenced, CountersOrdered
    <3>2. completed \in Nat /\ encoded \in Nat /\ Len(committed) \in Nat
      BY DEF TypeOK
    <3> QED
      BY <1>4, <3>1, <3>2
  <2> QED
    BY <1>1, <1>2, <1>3, <1>4, <2>1, OwnerStep
<1>5. CASE pc' = Goto(o, "end")
  BY <1>1, <1>2, <1>3, <1>5, OwnerStep
<1>6. CASE stop /\ encoded = Len(committed) /\ pc' = Goto(o, "swap")
  BY <1>1, <1>2, <1>3, <1>6, OwnerStep
<1> QED
  BY <1>4, <1>5, <1>6 DEF FenceDone

\* A candidate that fails changes nothing.
LEMMA CandidateFailsStep ==
  ASSUME WsiInv, NEW o \in Threads, CandidateFails(o)
  PROVE  WsiInv'
<1> USE DEF WsiInv
<1>1. /\ pc[o] = "swap" /\ pc' = Goto(o, "end")
      /\ UNCHANGED <<gateVars, arenaVars, registry, binding, queue, enc, reg,
                     bounds>>
  BY DEF CandidateFails
<1>2. RegsKept(o) /\ reg'[o] = reg[o]
  BY <1>1, RegSame
<1>3. /\ "end" \in Pcs /\ "swap" \in GatedPcs \ {"commit", "end"}
      /\ "end" \in GatedPcs \ {"commit"} /\ "swap" \in DrainedPcs
      /\ "swap" \in QuietPcs /\ "end" \notin SwapPcs
  BY DEF Pcs, ChangePcs, GatedPcs, DrainedPcs, QuietPcs, SwapPcs
<1> QED
  BY <1>1, <1>2, <1>3, OwnerStep

\* endWsiQuiescence opens the gate and leaves no sleeper behind.
LEMMA EndQuiescenceStep ==
  ASSUME WsiInv, NEW o \in Threads, EndQuiescence(o)
  PROVE  WsiInv'
<1> USE DEF WsiInv
<1> DEFINE p == Goto(o, "idle")
<1>1. /\ pc[o] = "end" /\ WsiMutexFree /\ gate' = FALSE
      /\ pc' = WakeWrite(WakeWsi(p))
      /\ UNCHANGED <<users, admissionStopped, stop, arenaVars, registry, binding,
                     queue, enc, bounds>>
  BY DEF EndQuiescence
<1>2. Moves(o, "end", "idle")
  BY <1>1, IdleFacts, WokenMoves
<1>3. RegsKept(o) /\ reg'[o].id = NoId
  <2> DEFINE r == [chain |-> None, id |-> NoId, ptr |-> None, seq |-> 0,
                   kind |-> "none"]
  <2>1. r \in Regs /\ r.id = NoId
    BY NoIdFacts DEF Regs, None
  <2>2. reg' = [reg EXCEPT ![o] = r]
    BY DEF EndQuiescence
  <2> HIDE DEF r
  <2> QED
    BY <2>1, <2>2, RegSet
<1>4. UNCHANGED <<users, stop, arena, arenaPresent, committed, encoded, completed,
                  enc>>
  BY <1>1 DEF arenaVars, queue
<1>5. TypeOK'
  BY <1>1, <1>2, <1>3, TypeKept DEF bounds, TypeOK
<1>6. \A s \in Threads : pc'[s] \notin GatedPcs
  <2>1. \A s \in Threads : s # o => pc[s] \notin GatedPcs
    BY <1>1 DEF GateInv, GateOwned, GatedPcs
  <2> QED
    BY <1>2, <2>1, IdleFacts DEF Moves, Stays
<1>7. \A s \in Threads : pc'[s] \notin BlockedPcs
  <2>1. p \in [Threads -> Pcs]
        /\ \A s \in Threads : p[s] \notin {"enterChecked", "gateChecked"}
    BY <1>1, IdleFacts DEF Goto, TypeOK, Pcs, WsiMutexFree
  <2> HIDE DEF p
  <2>2. /\ WakeWsi(p) \in [Threads -> Pcs]
        /\ \A s \in Threads : WakeWsi(p)[s] \notin {"enterAsleep", "gateAsleep"}
    BY <2>1, WakeWsiAlike
  <2>3. \A s \in Threads : pc'[s] \notin {"enterAsleep", "gateAsleep"}
    BY <1>1, <2>2, WakeWriteAlike
  <2>4. \A s \in Threads : Alike(p[s], pc'[s])
    BY <1>1, <2>1, WokenAlike
  <2>5. \A s \in Threads : pc'[s] \notin {"enterChecked", "gateChecked"}
    BY <2>1, <2>4 DEF Alike
  <2> QED
    BY <2>3, <2>5 DEF BlockedPcs
<1>8. GateInv'
  <2>1. CountersOrdered'
    BY <1>4, CountersKept DEF GateInv
  <2>2. ChangeShape'
    BY <1>2, <1>3, IdleFacts, ShapeKept DEF GateInv
  <2>3. GateOwned'
    BY <1>6, <1>7 DEF GateOwned
  <2>4. UsersCounted'
    BY <1>2, <1>4, IdleFacts, UsersStay DEF GateInv, UsePcs
  <2>5. Quieted' /\ Fenced'
    BY <1>6, NobodyGated
  <2> QED
    BY <2>1, <2>2, <2>3, <2>4, <2>5 DEF GateInv
<1>9. RegistryInv'
  BY <1>1, <1>2, <1>3, <1>4, IdleFacts, NoIdFacts, ThreadApart
<1> QED
  BY <1>5, <1>8, <1>9

-----------------------------------------------------------------------------
(* The presenter registry. *)

\* The table after a step that rewrote or appended the slot i.
Rewrote(i) ==
  /\ slots \in Seq(Slots) /\ slots' \in Seq(Slots)
  /\ Len(slots) <= Len(slots') /\ i \in 1..Len(slots')
  /\ \A j \in 1..Len(slots') : j # i => j \in 1..Len(slots) /\ slots'[j] = slots[j]
  /\ \A j \in 1..Len(slots) : j # i => slots'[j] = slots[j]

\* The fields of a slot.
LEMMA EntryTypes ==
  ASSUME TypeOK, NEW i \in 1..Len(slots)
  PROVE  /\ slots[i] \in Slots /\ slots[i].presenter \in Nat
         /\ slots[i].generation \in Nat
<1>1. slots \in Seq(Slots)
  BY DEF TypeOK, Slots
<1>2. slots[i] \in Slots
  BY <1>1
<1> QED
  BY <1>2 DEF Slots

\* registerPresenter puts p into an empty slot, or into a new one, and the id
\* it returns has that slot's generation.
LEMMA Registered ==
  ASSUME TypeOK, RegistrySound, NEW p \in Nat, RegisterPresenter(p)
  PROVE  LET i == FreshSlot IN
         /\ Rewrote(i) /\ slots'[i].presenter = p
         /\ i \in 1..Len(slots) =>
              /\ slots[i].presenter = None
              /\ slots'[i].generation = slots[i].generation
         /\ CandidateId \in PresentIds /\ CandidateId.slot = i
         /\ CandidateId.generation = slots'[i].generation
         /\ CandidateId.obj = objects + 1
         /\ free' \in Seq(Nat)
         /\ \A k \in 1..Len(free') : /\ free'[k] \in 1..Len(slots) /\ free'[k] # i
                                     /\ slots[free'[k]].presenter = None
         /\ \A k, l \in 1..Len(free') : free'[k] = free'[l] => k = l
<1> DEFINE i == FreshSlot
           g == IF i \in DOMAIN slots THEN slots[i].generation ELSE 0
           e == [presenter |-> p, generation |-> g]
<1>1. /\ slots \in Seq(Slots) /\ free \in Seq(Nat) /\ objects \in Nat
      /\ DOMAIN slots = 1..Len(slots) /\ Len(slots) \in Nat /\ Len(free) \in Nat
  BY DEF TypeOK, Slots
<1>2. /\ slots' = IF i \in DOMAIN slots THEN [slots EXCEPT ![i] = e]
                                        ELSE Append(slots, e)
      /\ free' = IF free # <<>> THEN Tail(free) ELSE free
  BY DEF RegisterPresenter
<1>3. CandidateId = [slot |-> i, obj |-> objects + 1, generation |-> g]
  BY DEF CandidateId
<1>4. CASE free # <<>>
  <2>1. /\ i \in 1..Len(slots) /\ slots[i].presenter = None /\ i = free[1]
    <3>1. i = free[1] /\ 1 \in 1..Len(free)
      BY <1>1, <1>4 DEF FreshSlot
    <3> QED
      BY <3>1 DEF RegistrySound
  <2>2. g = slots[i].generation /\ g \in Nat /\ slots' = [slots EXCEPT ![i] = e]
    BY <1>1, <1>2, <2>1, EntryTypes
  <2> HIDE DEF i, g
  <2>3. e \in Slots /\ e.presenter = p /\ e.generation = g
    BY <2>2 DEF Slots
  <2> HIDE DEF e
  <2>4. /\ slots' \in Seq(Slots) /\ Len(slots') = Len(slots) /\ slots'[i] = e
        /\ \A j \in 1..Len(slots) : j # i => slots'[j] = slots[j]
    BY <1>1, <2>1, <2>2, <2>3
  <2>5. Rewrote(i)
    BY <1>1, <2>1, <2>4 DEF Rewrote
  <2>6. /\ free' \in Seq(Nat) /\ Len(free') = Len(free) - 1
        /\ \A k \in 1..Len(free') : free'[k] = free[k + 1]
    BY <1>1, <1>2, <1>4
  <2>7. \A k \in 1..Len(free') : k + 1 \in 1..Len(free)
    BY <1>1, <2>6
  <2>8. ASSUME NEW k \in 1..Len(free')
        PROVE  /\ free'[k] \in 1..Len(slots) /\ free'[k] # i
               /\ slots[free'[k]].presenter = None
    <3>1. k + 1 \in 1..Len(free) /\ free'[k] = free[k + 1] /\ 1 \in 1..Len(free)
          /\ k + 1 # 1
      BY <1>1, <2>6, <2>7
    <3> QED
      BY <2>1, <3>1 DEF RegistrySound
  <2>9. ASSUME NEW k \in 1..Len(free'), NEW l \in 1..Len(free'),
               free'[k] = free'[l]
        PROVE  k = l
    <3>1. /\ k + 1 \in 1..Len(free) /\ l + 1 \in 1..Len(free)
          /\ free[k + 1] = free[l + 1]
      BY <2>6, <2>7, <2>9
    <3>2. k + 1 = l + 1
      BY <3>1 DEF RegistrySound
    <3> QED
      BY <3>2
  <2>10. /\ CandidateId \in PresentIds /\ CandidateId.slot = i
         /\ CandidateId.generation = g /\ CandidateId.obj = objects + 1
    BY <1>1, <1>3, <2>1, <2>2 DEF PresentIds
  <2> QED
    BY <2>1, <2>2, <2>3, <2>4, <2>5, <2>6, <2>8, <2>9, <2>10 DEF i
<1>5. CASE free = <<>>
  <2>1. i = Len(slots) + 1 /\ i \notin 1..Len(slots) /\ i \in Nat
    BY <1>1, <1>5 DEF FreshSlot
  <2>2. g = 0 /\ slots' = Append(slots, e) /\ free' = <<>>
    BY <1>1, <1>2, <1>5, <2>1
  <2> HIDE DEF i, g
  <2>3. e \in Slots /\ e.presenter = p /\ e.generation = g
    BY <2>2 DEF Slots
  <2> HIDE DEF e
  <2>4. /\ slots' \in Seq(Slots) /\ Len(slots') = Len(slots) + 1 /\ slots'[i] = e
        /\ \A j \in 1..Len(slots) : slots'[j] = slots[j]
    BY <1>1, <2>1, <2>2, <2>3, AppendProperties
  <2>5. Rewrote(i)
    BY <1>1, <2>1, <2>4 DEF Rewrote
  <2>6. /\ CandidateId \in PresentIds /\ CandidateId.slot = i
        /\ CandidateId.generation = g /\ CandidateId.obj = objects + 1
    BY <1>1, <1>3, <2>1, <2>2 DEF PresentIds
  <2>7. free' \in Seq(Nat) /\ Len(free') = 0
    BY <2>2
  <2> QED
    BY <2>1, <2>2, <2>3, <2>4, <2>5, <2>6, <2>7 DEF i
<1> QED
  BY <1>4, <1>5

\* Registering a candidate disturbs no id that is in use.
LEMMA CandidateRegisteredStep ==
  ASSUME WsiInv, NEW o \in Threads, CandidateRegistered(o)
  PROVE  WsiInv'
<1> USE DEF WsiInv
<1> DEFINE i == FreshSlot
           new == objects + 1
<1>1. /\ pc[o] = "swap" /\ pc' = Goto(o, "commit") /\ RegisterPresenter(new)
      /\ objects' = new /\ live' = live \cup {new}
      /\ reg' = [reg EXCEPT ![o].id = CandidateId]
      /\ UNCHANGED <<gateVars, arenaVars, binding, queue, enc, bounds>>
  BY DEF CandidateRegistered
<1>2. new \in Nat /\ new \notin live /\ new # None /\ live \subseteq 1..objects
      /\ objects \in Nat /\ live \in SUBSET Nat
  BY DEF TypeOK, RegistryInv, RegistrySound, None
<1>id. PICK id \in PresentIds : id = CandidateId
  BY <1>1, <1>2, Registered DEF RegistryInv
<1>3. /\ Rewrote(i) /\ slots'[i].presenter = new
      /\ i \in 1..Len(slots) => /\ slots[i].presenter = None
                                /\ slots'[i].generation = slots[i].generation
      /\ id \in PresentIds /\ id.slot = i
      /\ id.generation = slots'[i].generation /\ id.obj = new
      /\ free' \in Seq(Nat)
      /\ \A k \in 1..Len(free') : /\ free'[k] \in 1..Len(slots) /\ free'[k] # i
                                  /\ slots[free'[k]].presenter = None
      /\ \A k, l \in 1..Len(free') : free'[k] = free'[l] => k = l
  BY <1>id, <1>1, <1>2, Registered DEF RegistryInv
<1> HIDE DEF i, new
<1>4. "commit" \in Pcs /\ Calm("swap", "commit") /\ "swap" \in ChangePcs
      /\ "commit" \notin PresentPcs \cup {"using"}
      /\ "swap" \in GatedPcs
  BY DEF Calm, ChangePcs, GatedPcs, BlockedPcs, UsePcs, DrainedPcs, QuietPcs,
         SwapPcs, Pcs, PresentPcs
<1>5. Moves(o, "swap", "commit")
  BY <1>1, <1>4, GotoMoves
<1>6. RegsKept(o) /\ reg'[o].id = id /\ reg'[o].chain = reg[o].chain
  <2> DEFINE r == [reg[o] EXCEPT !.id = id]
  <2>1. reg[o] \in Regs /\ reg \in [Threads -> Regs]
    BY DEF TypeOK
  <2>2. r \in Regs /\ r.id = id /\ r.chain = reg[o].chain
    BY <1>3, <2>1 DEF Regs
  <2>3. reg' = [reg EXCEPT ![o] = r]
    BY <1>id, <1>1, <2>1
  <2> HIDE DEF r
  <2> QED
    BY <2>2, <2>3, RegSet
<1>7. TypeOK'
  <2>1. slots' \in Seq([presenter : Nat, generation : Nat])
    BY <1>3 DEF Rewrote, Slots
  <2>2. pc' \in [Threads -> Pcs] /\ reg' \in [Threads -> Regs]
    BY <1>5, <1>6 DEF Moves, RegsKept
  <2>3. live' \in SUBSET Nat /\ objects' \in Nat
    BY <1>1, <1>2
  <2> QED
    BY <1>1, <1>3, <2>1, <2>2, <2>3
       DEF TypeOK, Pcs, gateVars, arenaVars, queue, bounds
<1>8. GateInv'
  <2>1. reg'[o].chain \in Chains
    BY <1>1, <1>4, <1>6 DEF GateInv, ChangeShape
  <2> QED
    BY <1>1, <1>4, <1>5, <1>6, <2>1, CalmStep DEF gateVars, arenaVars, queue
<1>9. ASSUME NEW x \in PresentIds, IdSound(x) PROVE IdSound(x)'
  <2>1. CASE x = NoId
    BY <2>1 DEF IdSound
  <2>2. CASE x # NoId
    <3>1. /\ x.slot \in 1..Len(slots) /\ x.obj \in 1..objects
          /\ x.generation <= slots[x.slot].generation
          /\ x.generation = slots[x.slot].generation
               => slots[x.slot].presenter = x.obj
      BY <1>9, <2>2 DEF IdSound
    <3>2. x.slot \in 1..Len(slots') /\ x.obj \in 1..objects' /\ x.obj # None
      BY <1>1, <1>2, <1>3, <3>1 DEF Rewrote, new, None
    <3>3. CASE x.slot # i
      <4>1. slots'[x.slot] = slots[x.slot]
        BY <1>3, <3>1, <3>3 DEF Rewrote
      <4> QED
        BY <3>1, <3>2, <4>1 DEF IdSound
    <3>4. CASE x.slot = i
      <4>1. slots'[x.slot].generation = slots[x.slot].generation
            /\ slots[x.slot].presenter = None
        BY <1>3, <3>1, <3>4
      <4>2. x.generation # slots[x.slot].generation
        BY <3>1, <3>2, <4>1
      <4> QED
        BY <3>1, <3>2, <4>1, <4>2 DEF IdSound
    <3> QED
      BY <3>3, <3>4
  <2> QED
    BY <2>1, <2>2
<1>10. ASSUME NEW x \in PresentIds, Resolves(x) PROVE Resolves(x)' /\ x.slot # i
  <2>1. /\ x.slot \in 1..Len(slots) /\ slots[x.slot].generation = x.generation
        /\ slots[x.slot].presenter = x.obj /\ x.obj \in live
    BY <1>10 DEF Resolves
  <2>2. x.obj # None
    BY <1>2, <2>1 DEF None
  <2>3. x.slot # i
    BY <1>3, <2>1, <2>2
  <2>4. x.slot \in 1..Len(slots') /\ slots'[x.slot] = slots[x.slot]
    BY <1>3, <2>1, <2>3 DEF Rewrote
  <2> QED
    BY <1>1, <2>1, <2>3, <2>4 DEF Resolves
<1>11. Resolves(id)' /\ IdSound(id)'
  <2>1. id.slot \in 1..Len(slots') /\ id.obj \in live' /\ id.obj \in 1..objects'
    BY <1>1, <1>2, <1>3 DEF Rewrote, new
  <2>2. slots'[id.slot].generation = id.generation
        /\ slots'[id.slot].presenter = id.obj /\ id.generation \in Nat
    BY <1>3 DEF PresentIds
  <2> QED
    BY <2>1, <2>2 DEF Resolves, IdSound
<1>12. PointersLive'
  <2>1. ASSUME NEW s \in Threads
        PROVE  /\ pc'[s] \in PresentPcs \cup {"using"} => reg'[s].ptr = None
               /\ pc'[s] \in {"acquire", "leave"}
                    => reg'[s].ptr \in live' \cup {None}
    <3>1. CASE s = o
      BY <1>4, <1>5, <3>1 DEF Moves
    <3>2. CASE s # o
      <4>1. Stays(s) /\ reg'[s] = reg[s]
        BY <1>5, <1>6, <3>2 DEF Moves, RegsKept
      <4> QED
        BY <1>1, <4>1 DEF Stays, RegistryInv, PointersLive, UseKeepsPresenter
    <3> QED
      BY <3>1, <3>2
  <2>2. enc'.pc = "encoding" => enc'.ptr \in live' \cup {None}
    BY <1>1 DEF RegistryInv, PointersLive, EncodeKeepsPresenter
  <2> QED
    BY <2>1, <2>2 DEF PointersLive, UseKeepsPresenter, EncodeKeepsPresenter
<1>13. RegistrySound'
  <2>1. live' \subseteq 1..objects'
    BY <1>1, <1>2 DEF new
  <2>2. ASSUME NEW j \in 1..Len(slots')
        PROVE  slots'[j].presenter \in live' \cup {None}
    <3>1. CASE j = i
      BY <1>1, <1>3, <3>1
    <3>2. CASE j # i
      BY <1>1, <1>3, <3>2 DEF Rewrote, RegistryInv, RegistrySound
    <3> QED
      BY <3>1, <3>2
  <2>3. ASSUME NEW j \in 1..Len(slots'), NEW k \in 1..Len(slots'),
               slots'[j].presenter = slots'[k].presenter,
               slots'[j].presenter # None
        PROVE  j = k
    <3>1. \A m \in 1..Len(slots') : m # i =>
            /\ m \in 1..Len(slots) /\ slots'[m] = slots[m]
            /\ slots'[m].presenter \in live \cup {None}
      BY <1>3 DEF Rewrote, RegistryInv, RegistrySound
    <3>2. \A m \in 1..Len(slots') : m # i => slots'[m].presenter # new
      BY <1>2, <3>1
    <3>3. CASE j = i \/ k = i
      BY <1>3, <2>3, <3>2, <3>3
    <3>4. CASE j # i /\ k # i
      BY <2>3, <3>1, <3>4 DEF RegistryInv, RegistrySound
    <3> QED
      BY <3>3, <3>4
  <2>4. ASSUME NEW k \in 1..Len(free')
        PROVE  free'[k] \in 1..Len(slots') /\ slots'[free'[k]].presenter = None
    <3>1. /\ free'[k] \in 1..Len(slots) /\ free'[k] # i
          /\ slots[free'[k]].presenter = None
      BY <1>3
    <3>2. free'[k] \in 1..Len(slots') /\ slots'[free'[k]] = slots[free'[k]]
      BY <1>3, <3>1 DEF Rewrote
    <3> QED
      BY <3>1, <3>2
  <2> QED
    BY <1>3, <2>1, <2>2, <2>3, <2>4 DEF RegistrySound
<1>14. IdsSound'
  <2>1. UNCHANGED <<binding, committed, arenaPresent>>
    BY <1>1 DEF arenaVars, queue
  <2>2. ASSUME NEW s \in Threads PROVE IdSound(reg[s].id)'
    <3>1. CASE s = o
      BY <1>6, <1>11, <3>1
    <3>2. CASE s # o
      <4>1. reg'[s].id = reg[s].id
        BY <1>6, <3>2 DEF RegsKept
      <4>2. reg'[s].id \in PresentIds /\ IdSound(reg'[s].id)
        BY <4>1 DEF TypeOK, Regs, RegistryInv, IdsSound
      <4> QED
        BY <1>9, <4>2
    <3> QED
      BY <3>1, <3>2
  <2>3. ASSUME NEW c \in Chains PROVE IdSound(binding[c])'
    <3>1. binding'[c] \in PresentIds /\ IdSound(binding'[c])
      BY <2>1 DEF TypeOK, RegistryInv, IdsSound
    <3> QED
      BY <1>9, <3>1
  <2>4. ASSUME NEW k \in 1..Len(committed') PROVE IdSound(committed[k])'
    <3>1. committed'[k] \in PresentIds /\ IdSound(committed'[k])
      BY <2>1 DEF TypeOK, RegistryInv, IdsSound
    <3> QED
      BY <1>9, <3>1
  <2>5. ASSUME NEW k \in 1..Len(arenaPresent') PROVE IdSound(arenaPresent[k])'
    <3>1. arenaPresent'[k] \in PresentIds /\ IdSound(arenaPresent'[k])
      BY <2>1 DEF TypeOK, RegistryInv, IdsSound
    <3> QED
      BY <1>9, <3>1
  <2> QED
    BY <2>2, <2>3, <2>4, <2>5 DEF IdsSound
<1>15. BindingsOwn'
  <2>1. binding' = binding /\ \A c \in Chains : binding[c] \in PresentIds
    BY <1>1 DEF TypeOK
  <2>2. ASSUME NEW c \in Chains, binding'[c] # NoId
        PROVE  Resolves(binding[c])' /\ binding'[c].slot # i
    <3>1. binding'[c] \in PresentIds /\ Resolves(binding'[c])
      BY <2>1, <2>2 DEF RegistryInv, BindingsOwn
    <3> QED
      BY <1>10, <3>1
  <2>3. ASSUME NEW c \in Chains, NEW d \in Chains,
               binding'[c] # NoId, binding'[c].slot = binding'[d].slot
        PROVE  c = d
    BY <2>1, <2>3 DEF RegistryInv, BindingsOwn
  <2>4. ASSUME NEW s \in Threads, pc'[s] = "commit"
        PROVE  /\ Resolves(reg[s].id)'
               /\ \A c \in Chains : binding'[c].slot # reg'[s].id.slot
    <3>1. s = o
      <4>1. ASSUME s # o PROVE FALSE
        <5>1. pc[s] \in GatedPcs
          BY <1>5, <2>4, <4>1 DEF Moves, Stays, GatedPcs
        <5> QED
          BY <1>1, <1>4, <4>1, <5>1 DEF GateInv, GateOwned
      <4> QED
        BY <4>1
    <3>2. \A c \in Chains : binding'[c].slot # i
      <4>1. i # 0
        BY <1>3 DEF Rewrote
      <4> QED
        BY <2>2, <4>1, NoIdFacts
    <3> QED
      BY <1>3, <1>6, <1>11, <3>1, <3>2
  <2> QED
    BY <2>2, <2>3, <2>4 DEF BindingsOwn
<1> QED
  BY <1>7, <1>8, <1>12, <1>13, <1>14, <1>15 DEF RegistryInv

\* unregisterPresenter of an id in force empties its slot, with a generation
\* that no id has, and puts it on the free stack.
LEMMA Unregistered ==
  ASSUME TypeOK, RegistrySound, NEW id \in PresentIds, Resolves(id),
         UnregisterPresenter(id)
  PROVE  /\ Rewrote(id.slot) /\ Len(slots') = Len(slots)
         /\ slots'[id.slot].presenter = None
         /\ slots'[id.slot].generation = slots[id.slot].generation + 1
         /\ free' \in Seq(Nat)
         /\ \A k \in 1..Len(free') :
              \/ free'[k] = id.slot
              \/ free'[k] \in 1..Len(slots) /\ slots[free'[k]].presenter = None
         /\ \A k, l \in 1..Len(free') : free'[k] = free'[l] => k = l
<1> DEFINE i == id.slot
           g == id.generation + 1
           e == [presenter |-> None, generation |-> g]
<1>1. /\ slots \in Seq(Slots) /\ free \in Seq(Nat) /\ DOMAIN slots = 1..Len(slots)
      /\ Len(slots) \in Nat /\ Len(free) \in Nat
      /\ live \subseteq 1..objects /\ objects \in Nat
  BY DEF TypeOK, Slots, RegistrySound
<1>2. /\ i \in 1..Len(slots) /\ slots[i].generation = id.generation
      /\ slots[i].presenter = id.obj /\ id.obj \in live /\ id.obj # None
      /\ i \in Nat /\ g \in Nat
  BY <1>1 DEF Resolves, PresentIds, None
<1>3. slots' = [slots EXCEPT ![i] = e] /\ free' = <<i>> \o free
  BY <1>1, <1>2 DEF UnregisterPresenter
<1>4. g = slots[i].generation + 1
  BY <1>2
<1> HIDE DEF i, g
<1>5. e \in Slots /\ e.presenter = None /\ e.generation = g
  BY <1>2 DEF Slots, None
<1> HIDE DEF e
<1>6. /\ slots' \in Seq(Slots) /\ Len(slots') = Len(slots) /\ slots'[i] = e
      /\ \A j \in 1..Len(slots) : j # i => slots'[j] = slots[j]
  BY <1>1, <1>2, <1>3, <1>5
<1>7. Rewrote(i)
  BY <1>1, <1>2, <1>6 DEF Rewrote
<1>8. /\ free' \in Seq(Nat) /\ Len(free') = Len(free) + 1
      /\ \A k \in 1..Len(free') : free'[k] = IF k = 1 THEN i ELSE free[k - 1]
  BY <1>1, <1>2, <1>3
<1>9. ASSUME NEW k \in 1..Len(free'), k # 1
      PROVE  /\ k - 1 \in 1..Len(free) /\ free'[k] = free[k - 1]
             /\ free'[k] \in 1..Len(slots) /\ slots[free'[k]].presenter = None
             /\ free'[k] # i
  <2>1. k - 1 \in 1..Len(free) /\ free'[k] = free[k - 1]
    BY <1>1, <1>8, <1>9
  <2>2. free[k - 1] \in 1..Len(slots) /\ slots[free[k - 1]].presenter = None
    BY <2>1 DEF RegistrySound
  <2> QED
    BY <1>2, <2>1, <2>2
<1>10. ASSUME NEW k \in 1..Len(free'), NEW l \in 1..Len(free'), free'[k] = free'[l]
       PROVE  k = l
  <2>1. CASE k = 1 \/ l = 1
    BY <1>8, <1>9, <1>10, <2>1
  <2>2. CASE k # 1 /\ l # 1
    <3>1. /\ k - 1 \in 1..Len(free) /\ l - 1 \in 1..Len(free)
          /\ free[k - 1] = free[l - 1]
      BY <1>9, <1>10, <2>2
    <3>2. k - 1 = l - 1
      BY <3>1 DEF RegistrySound
    <3> QED
      BY <3>2
  <2> QED
    BY <2>1, <2>2
<1> QED
  BY <1>4, <1>5, <1>6, <1>7, <1>8, <1>9, <1>10 DEF i

\* What unregistering the old id of a chain and destroying its Presenter does
\* to the registry: sound ids stay sound, and an id in force of another slot
\* stays in force.
LEMMA OldDestroyed ==
  ASSUME TypeOK, RegistrySound, NEW old \in PresentIds,
         old = NoId \/ Resolves(old),
         UnregisterPresenter(old), live' = live \ {old.obj}, objects' = objects
  PROVE  /\ RegistrySound'
         /\ slots' \in Seq(Slots) /\ free' \in Seq(Nat)
         /\ \A x \in PresentIds : IdSound(x) => IdSound(x)'
         /\ \A x \in PresentIds : Resolves(x) /\ x.slot # old.slot => Resolves(x)'
<1>1. CASE old = NoId
  <2>1. old.slot = 0 /\ old.obj = None
    BY <1>1 DEF NoId
  <2>2. None \notin live
    BY DEF RegistrySound, None
  <2>3. DOMAIN slots = 1..Len(slots)
    BY DEF TypeOK
  <2>4. UNCHANGED registry
    BY <2>1, <2>2, <2>3 DEF UnregisterPresenter, registry
  <2>5. slots' \in Seq(Slots) /\ free' \in Seq(Nat)
    BY <2>4 DEF TypeOK, registry, Slots
  <2> QED
    BY <2>4, <2>5, RegistrySame
<1>2. CASE old # NoId
  <2> DEFINE i == old.slot
  <2>1. Resolves(old)
    BY <1>2
  <2>2. /\ i \in 1..Len(slots) /\ slots[i].presenter = old.obj /\ old.obj \in live
        /\ live \subseteq 1..objects /\ objects \in Nat /\ old.obj # None
    BY <2>1 DEF Resolves, RegistrySound, TypeOK, None
  <2>3. /\ Rewrote(i) /\ Len(slots') = Len(slots)
        /\ slots'[i].presenter = None
        /\ slots'[i].generation = slots[i].generation + 1
        /\ free' \in Seq(Nat)
        /\ \A k \in 1..Len(free') :
             \/ free'[k] = i
             \/ free'[k] \in 1..Len(slots) /\ slots[free'[k]].presenter = None
        /\ \A k, l \in 1..Len(free') : free'[k] = free'[l] => k = l
    BY <2>1, Unregistered
  <2>4. slots[i].generation \in Nat
    BY <2>2, EntryTypes
  <2> HIDE DEF i
  <2>5. \A j \in 1..Len(slots) : j # i =>
          /\ slots'[j] = slots[j]
          /\ slots[j].presenter # old.obj /\ slots[j].presenter \in live \cup {None}
    BY <2>2, <2>3 DEF Rewrote, RegistrySound
  <2>6. RegistrySound'
    <3>1. live' \subseteq 1..objects'
      BY <2>2
    <3>2. ASSUME NEW j \in 1..Len(slots')
          PROVE  slots'[j].presenter \in live' \cup {None}
      BY <2>3, <2>5
    <3>3. ASSUME NEW j \in 1..Len(slots'), NEW k \in 1..Len(slots'),
                 slots'[j].presenter = slots'[k].presenter,
                 slots'[j].presenter # None
          PROVE  j = k
      <4>1. j # i /\ k # i /\ j \in 1..Len(slots) /\ k \in 1..Len(slots)
        BY <2>3, <3>3
      <4> QED
        BY <2>5, <3>3, <4>1 DEF RegistrySound
    <3>4. ASSUME NEW k \in 1..Len(free')
          PROVE  free'[k] \in 1..Len(slots') /\ slots'[free'[k]].presenter = None
      <4>1. CASE free'[k] = i
        BY <2>2, <2>3, <4>1
      <4>2. CASE free'[k] # i
        BY <2>3, <2>5, <4>2
      <4> QED
        BY <4>1, <4>2
    <3> QED
      BY <2>3, <3>1, <3>2, <3>3, <3>4 DEF RegistrySound
  <2>7. ASSUME NEW x \in PresentIds, IdSound(x) PROVE IdSound(x)'
    <3>1. CASE x = NoId
      BY <3>1 DEF IdSound
    <3>2. CASE x # NoId
      <4>1. /\ x.slot \in 1..Len(slots') /\ x.obj \in 1..objects'
            /\ x.generation <= slots[x.slot].generation
            /\ x.generation = slots[x.slot].generation
                 => slots[x.slot].presenter = x.obj
            /\ x.generation \in Nat
        BY <2>3, <2>7, <3>2 DEF IdSound, PresentIds
      <4>2. CASE x.slot = i
        <5>1. /\ x.generation <= slots'[x.slot].generation
              /\ x.generation # slots'[x.slot].generation
          BY <2>3, <2>4, <4>1, <4>2
        <5> QED
          BY <4>1, <5>1 DEF IdSound
      <4>3. CASE x.slot # i
        <5>1. slots'[x.slot] = slots[x.slot]
          BY <2>3, <2>5, <4>1, <4>3
        <5> QED
          BY <4>1, <5>1 DEF IdSound
      <4> QED
        BY <4>2, <4>3
    <3> QED
      BY <3>1, <3>2
  <2>8. ASSUME NEW x \in PresentIds, Resolves(x), x.slot # i PROVE Resolves(x)'
    <3>1. /\ x.slot \in 1..Len(slots) /\ slots[x.slot].generation = x.generation
          /\ slots[x.slot].presenter = x.obj /\ x.obj \in live
      BY <2>8 DEF Resolves
    <3>2. slots'[x.slot] = slots[x.slot] /\ x.obj # old.obj
      BY <2>5, <2>8, <3>1
    <3> QED
      BY <2>3, <3>1, <3>2 DEF Resolves
  <2>9. slots' \in Seq(Slots)
    BY <2>3 DEF Rewrote
  <2> QED
    BY <2>3, <2>6, <2>7, <2>8, <2>9 DEF i
<1> QED
  BY <1>1, <1>2

\* Destroying the old Presenter leaves no pointer and no id behind.
LEMMA CommitChangeStep ==
  ASSUME WsiInv, NEW o \in Threads, CommitChange(o)
  PROVE  WsiInv'
<1> USE DEF WsiInv
<1>1. /\ pc[o] = "commit" \/ pc[o] = "swap"
      /\ pc' = Goto(o, "end")
      /\ binding' = [binding EXCEPT ![reg[o].chain] = reg[o].id]
      /\ UnregisterPresenter(binding[reg[o].chain])
      /\ live' = live \ {binding[reg[o].chain].obj}
      /\ UNCHANGED <<gateVars, arenaVars, objects, queue, enc, reg, bounds>>
  BY DEF CommitChange
<1>2. PICK from \in SwapPcs : pc[o] = from
  BY <1>1 DEF SwapPcs
<1>3. PICK ch \in Chains : ch = reg[o].chain
  BY <1>2 DEF GateInv, ChangeShape, SwapPcs, ChangePcs, GatedPcs
<1>4. PICK old \in PresentIds : old = binding[ch]
  BY DEF TypeOK
<1>5. PICK new \in PresentIds : new = reg[o].id
  BY DEF TypeOK, Regs
<1>6. /\ old = NoId \/ Resolves(old)
      /\ IdSound(new)
      /\ new = NoId \/ /\ from = "commit" /\ Resolves(new)
                       /\ \A c \in Chains : binding[c].slot # new.slot
  BY <1>2, <1>4, <1>5
     DEF RegistryInv, IdsSound, BindingsOwn, GateInv, ChangeShape, SwapPcs,
         ChangePcs, GatedPcs
<1>7. /\ RegistrySound'
      /\ slots' \in Seq(Slots) /\ free' \in Seq(Nat)
      /\ \A x \in PresentIds : IdSound(x) => IdSound(x)'
      /\ \A x \in PresentIds : Resolves(x) /\ x.slot # old.slot => Resolves(x)'
  BY <1>1, <1>3, <1>4, <1>6, OldDestroyed DEF RegistryInv
<1>8. /\ binding \in [Chains -> PresentIds]
      /\ binding' = [binding EXCEPT ![ch] = new]
      /\ binding'[ch] = new
      /\ \A c \in Chains : c # ch => binding'[c] = binding[c]
  BY <1>1, <1>3, <1>5 DEF TypeOK
<1>9. "end" \in Pcs /\ Calm(from, "end") /\ from \in ChangePcs
      /\ from \in GatedPcs /\ from \in DrainedPcs
      /\ "end" \notin PresentPcs \cup {"using"}
  BY <1>2 DEF Calm, ChangePcs, GatedPcs, BlockedPcs, UsePcs, DrainedPcs,
              QuietPcs, SwapPcs, Pcs, PresentPcs
<1>10. Moves(o, from, "end")
  BY <1>1, <1>2, <1>9, GotoMoves
<1>11. RegsKept(o) /\ reg' = reg
  BY <1>1, RegSame
<1>12. TypeOK'
  <2>1. slots' \in Seq([presenter : Nat, generation : Nat])
    BY <1>7 DEF Slots
  <2>2. pc' \in [Threads -> Pcs] /\ reg' \in [Threads -> Regs]
    BY <1>10, <1>11 DEF Moves, RegsKept
  <2>3. live' \in SUBSET Nat /\ objects' \in Nat
    BY <1>1 DEF TypeOK
  <2>4. binding' \in [Chains -> PresentIds]
    BY <1>8
  <2> QED
    BY <1>1, <1>7, <2>1, <2>2, <2>3, <2>4
       DEF TypeOK, Pcs, gateVars, arenaVars, queue, bounds
<1>13. GateInv'
  <2>1. reg'[o].chain \in Chains
    BY <1>3, <1>11
  <2> QED
    BY <1>1, <1>9, <1>10, <1>11, <2>1, CalmStep DEF gateVars, arenaVars, queue
<1>14. PointersLive'
  <2>1. Users = {} /\ encoded = Len(committed)
    BY <1>2, <1>9 DEF GateInv, Quieted, Fenced
  <2>2. ASSUME NEW s \in Threads
        PROVE  /\ pc'[s] \in PresentPcs \cup {"using"} => reg'[s].ptr = None
               /\ pc'[s] \notin {"acquire", "leave"}
    <3>1. CASE s = o
      BY <1>9, <1>10, <3>1 DEF Moves
    <3>2. CASE s # o
      <4>1. Stays(s) /\ reg'[s] = reg[s]
        BY <1>10, <1>11, <3>2 DEF Moves
      <4>2. pc[s] \notin UsePcs
        BY <2>1 DEF Users
      <4> QED
        BY <4>1, <4>2 DEF Stays, RegistryInv, PointersLive, UsePcs
    <3> QED
      BY <3>1, <3>2
  <2>3. enc'.pc # "encoding"
    <3>1. encoded \in Nat
      BY DEF TypeOK
    <3> QED
      BY <1>1, <2>1, <3>1 DEF GateInv, CountersOrdered
  <2> QED
    BY <2>2, <2>3 DEF PointersLive, UseKeepsPresenter, EncodeKeepsPresenter
<1>15. IdsSound'
  <2>1. UNCHANGED <<committed, arenaPresent>>
    BY <1>1 DEF arenaVars, queue
  <2>2. ASSUME NEW s \in Threads PROVE IdSound(reg[s].id)'
    <3>1. reg'[s].id \in PresentIds /\ IdSound(reg'[s].id)
      BY <1>11 DEF TypeOK, Regs, RegistryInv, IdsSound
    <3> QED
      BY <1>7, <3>1
  <2>3. ASSUME NEW c \in Chains PROVE IdSound(binding[c])'
    <3>1. binding'[c] \in PresentIds /\ IdSound(binding'[c])
      BY <1>6, <1>8 DEF RegistryInv, IdsSound
    <3> QED
      BY <1>7, <3>1
  <2>4. ASSUME NEW k \in 1..Len(committed') PROVE IdSound(committed[k])'
    <3>1. committed'[k] \in PresentIds /\ IdSound(committed'[k])
      BY <2>1 DEF TypeOK, RegistryInv, IdsSound
    <3> QED
      BY <1>7, <3>1
  <2>5. ASSUME NEW k \in 1..Len(arenaPresent') PROVE IdSound(arenaPresent[k])'
    <3>1. arenaPresent'[k] \in PresentIds /\ IdSound(arenaPresent'[k])
      BY <2>1 DEF TypeOK, RegistryInv, IdsSound
    <3> QED
      BY <1>7, <3>1
  <2> QED
    BY <2>2, <2>3, <2>4, <2>5 DEF IdsSound
<1>16. BindingsOwn'
  <2>1. \A c \in Chains : binding[c] # NoId => binding[c].slot # 0
    BY DEF RegistryInv, BindingsOwn, Resolves
  <2>2. ASSUME NEW c \in Chains, binding'[c] # NoId PROVE Resolves(binding[c])'
    <3>1. CASE c = ch
      <4>1. new # NoId /\ binding'[c] = new
        BY <1>8, <2>2, <3>1
      <4>2. Resolves(new) /\ new.slot # old.slot
        BY <1>4, <1>6, <4>1
      <4> QED
        BY <1>7, <4>1, <4>2
    <3>2. CASE c # ch
      <4>1. binding'[c] = binding[c] /\ binding[c] # NoId /\ binding[c] \in PresentIds
        BY <1>8, <2>2, <3>2
      <4>2. Resolves(binding'[c]) /\ binding'[c].slot # old.slot
        BY <1>4, <3>2, <4>1 DEF RegistryInv, BindingsOwn
      <4> QED
        BY <1>7, <4>1, <4>2
    <3> QED
      BY <3>1, <3>2
  <2>3. ASSUME NEW c \in Chains, NEW d \in Chains,
               binding'[c] # NoId, binding'[c].slot = binding'[d].slot, c # d
        PROVE  FALSE
    <3>1. CASE c # ch /\ d # ch
      BY <1>8, <2>3, <3>1 DEF RegistryInv, BindingsOwn
    <3>2. CASE c = ch
      BY <1>6, <1>8, <2>3, <3>2
    <3>3. CASE d = ch
      BY <1>6, <1>8, <2>1, <2>3, <3>3, NoIdFacts
    <3> QED
      BY <3>1, <3>2, <3>3
  <2>4. ASSUME NEW s \in Threads PROVE pc'[s] # "commit"
    <3>1. CASE s = o
      BY <1>10, <3>1 DEF Moves
    <3>2. CASE s # o
      <4>1. pc[s] \notin GatedPcs
        BY <1>2, <1>9, <3>2 DEF GateInv, GateOwned
      <4> QED
        BY <1>10, <3>2, <4>1 DEF Moves, Stays, GatedPcs
    <3> QED
      BY <3>1, <3>2
  <2> QED
    BY <2>2, <2>3, <2>4 DEF BindingsOwn
<1> QED
  BY <1>7, <1>12, <1>13, <1>14, <1>15, <1>16 DEF RegistryInv

-----------------------------------------------------------------------------
(* The queue behind the gate. *)

\* A step of the queue: no thread takes it, and it neither publishes nor
\* goes past what was published.
LEMMA QueueMoves ==
  ASSUME WsiInv, Rests, TypeOK', CountersOrdered',
         UNCHANGED <<gate, users, arena, arenaPresent, registry, binding, reg,
                     committed>>,
         stop => stop',
         encoded = Len(committed) => encoded' = encoded,
         completed = Len(committed) => completed' = completed,
         enc'.pc = "encoding" => enc'.ptr \in live \cup {None}
  PROVE  WsiInv'
<1> USE DEF WsiInv
<1>1. ChangeShape'
  BY DEF GateInv, ChangeShape, Rests, Stays
<1>2. GateOwned'
  BY DEF GateInv, GateOwned, Rests, Stays
<1>3. UsersCounted' /\ Users' = Users
  BY UsersKept DEF GateInv, Rests, Stays
<1>4. Quieted'
  BY <1>3 DEF GateInv, Quieted, Rests, Stays
<1>5. Fenced'
  <2>1. ASSUME NEW s \in Threads
        PROVE  pc'[s] = "fencing" => reg'[s].seq = Len(committed')
    BY DEF GateInv, Fenced, Rests, Stays
  <2>2. ASSUME NEW s \in Threads, pc'[s] \in SwapPcs
        PROVE  encoded' = Len(committed') /\ (stop' \/ completed' = Len(committed'))
    BY <2>2 DEF GateInv, Fenced, Rests, Stays
  <2> QED
    BY <2>1, <2>2 DEF Fenced
<1>6. RegistryInv'
  <2>1. Nobody \notin Threads
    BY WsiAssumption DEF Threads
  <2>2. \A s \in Threads : s # Nobody => Stays(s) /\ reg'[s] = reg[s]
    BY DEF Rests
  <2>3. /\ \A i \in 1..Len(committed') : IdSound(committed'[i])
        /\ \A i \in 1..Len(arenaPresent') : IdSound(arenaPresent'[i])
    BY DEF RegistryInv, IdsSound
  <2> QED
    BY <2>1, <2>2, <2>3, ApartStep
<1> QED
  BY <1>1, <1>2, <1>3, <1>4, <1>5, <1>6 DEF GateInv

\* Places and registers keep their types when no thread moves.
LEMMA RestTypes ==
  ASSUME TypeOK, Rests, UNCHANGED reg
  PROVE  pc' \in [Threads -> Pcs] /\ reg' \in [Threads -> Regs]
BY DEF Rests, TypeOK

\* The encoder resolves the id of the next Present.
LEMMA EncodePresentStep ==
  ASSUME WsiInv, EncodePresent
  PROVE  WsiInv'
<1> USE DEF WsiInv
<1>1. /\ encoded < Len(committed)
      /\ enc' = [pc |-> "encoding", ptr |-> Lookup(committed[encoded + 1])]
      /\ UNCHANGED <<gateVars, arenaVars, registry, binding, queue, pc, reg, bounds>>
  BY DEF EncodePresent
<1>2. Rests
  BY <1>1, WokenRests
<1>3. committed[encoded + 1] \in PresentIds
  BY <1>1 DEF TypeOK
<1>4. Lookup(committed[encoded + 1]) \in Nat
      /\ Lookup(committed[encoded + 1]) \in live \cup {None}
  BY <1>3, LookupType, LookupLive DEF RegistryInv
<1>5. /\ enc' \in [pc : {"idle", "encoding", "callbacks"}, ptr : Nat]
      /\ enc'.ptr \in live \cup {None}
  BY <1>1, <1>4
<1>6. TypeOK'
  BY <1>1, <1>2, <1>5, RestTypes, TypeStep
     DEF TypeOK, gateVars, arenaVars, queue, bounds
<1>7. CountersOrdered'
  BY <1>1 DEF GateInv, CountersOrdered, queue
<1> QED
  BY <1>1, <1>2, <1>5, <1>6, <1>7, QueueMoves DEF gateVars, arenaVars, queue

\* The encoder submits what it encoded.
LEMMA EncodeSubmitStep ==
  ASSUME WsiInv, EncodeSubmit
  PROVE  WsiInv'
<1> USE DEF WsiInv
<1>1. /\ enc.pc = "encoding" /\ encoded' = encoded + 1
      /\ enc' = [enc EXCEPT !.pc = "callbacks"] \/ enc' = [pc |-> "idle", ptr |-> None]
      /\ UNCHANGED <<gateVars, arenaVars, registry, binding, committed, completed,
                     pc, reg, bounds>>
  BY DEF EncodeSubmit
<1>2. Rests
  BY <1>1, WokenRests
<1>3. /\ enc' \in [pc : {"idle", "encoding", "callbacks"}, ptr : Nat]
      /\ enc'.pc # "encoding"
  <2>1. CASE enc' = [enc EXCEPT !.pc = "callbacks"]
    BY <2>1 DEF TypeOK
  <2>2. CASE enc' = [pc |-> "idle", ptr |-> None]
    BY <2>2 DEF None
  <2> QED
    BY <1>1, <2>1, <2>2
<1>4. encoded < Len(committed) /\ encoded \in Nat /\ completed \in Nat
      /\ completed <= encoded /\ Len(committed) \in Nat
  BY <1>1 DEF GateInv, CountersOrdered, TypeOK
<1>5. TypeOK'
  <2>1. encoded' \in Nat
    BY <1>1, <1>4
  <2> QED
    BY <1>1, <1>2, <1>3, <2>1, RestTypes, TypeStep
       DEF TypeOK, gateVars, arenaVars, bounds
<1>6. CountersOrdered'
  BY <1>1, <1>3, <1>4 DEF CountersOrdered
<1> QED
  BY <1>1, <1>2, <1>3, <1>4, <1>5, <1>6, QueueMoves DEF gateVars, arenaVars

\* The callbacks of a submission run.
LEMMA RunPostCommitCallbacksStep ==
  ASSUME WsiInv, RunPostCommitCallbacks
  PROVE  WsiInv'
<1> USE DEF WsiInv
<1>1. /\ enc' = [pc |-> "idle", ptr |-> None]
      /\ UNCHANGED <<gateVars, arenaVars, registry, binding, queue, pc, reg, bounds>>
  BY DEF RunPostCommitCallbacks
<1>2. Rests
  BY <1>1, WokenRests
<1>3. /\ enc' \in [pc : {"idle", "encoding", "callbacks"}, ptr : Nat]
      /\ enc'.pc # "encoding"
  BY <1>1 DEF None
<1>4. TypeOK'
  BY <1>1, <1>2, <1>3, RestTypes, TypeStep
     DEF TypeOK, gateVars, arenaVars, queue, bounds
<1>5. CountersOrdered'
  BY <1>1, <1>3 DEF GateInv, CountersOrdered, queue
<1> QED
  BY <1>1, <1>2, <1>3, <1>4, <1>5, QueueMoves DEF gateVars, arenaVars, queue

\* A submission completes.
LEMMA CompleteOldestStep ==
  ASSUME WsiInv, CompleteOldest
  PROVE  WsiInv'
<1> USE DEF WsiInv
<1>1. /\ completed < encoded /\ completed' = completed + 1 /\ pc' = WakeWrite(pc)
      /\ UNCHANGED <<gateVars, arenaVars, registry, binding, committed, encoded,
                     enc, reg, bounds>>
  BY DEF CompleteOldest
<1>2. Rests
  BY <1>1, WokenRests
<1>3. /\ encoded \in Nat /\ completed \in Nat /\ encoded <= Len(committed)
      /\ Len(committed) \in Nat
      /\ enc.pc = "encoding" => encoded < Len(committed)
  BY DEF GateInv, CountersOrdered, TypeOK
<1>4. TypeOK'
  <2>1. completed' \in Nat
    BY <1>1, <1>3
  <2> QED
    BY <1>1, <1>2, <2>1, RestTypes, TypeStep DEF TypeOK, gateVars, arenaVars, bounds
<1>5. CountersOrdered'
  BY <1>1, <1>3 DEF CountersOrdered
<1>6. completed # Len(committed)
  BY <1>1, <1>3
<1>7. enc'.pc = "encoding" => enc'.ptr \in live \cup {None}
  BY <1>1 DEF RegistryInv, PointersLive, EncodeKeepsPresenter
<1> QED
  BY <1>1, <1>2, <1>4, <1>5, <1>6, <1>7, QueueMoves DEF gateVars, arenaVars

\* The queue stops.
LEMMA RequestStopStep ==
  ASSUME WsiInv, RequestStop
  PROVE  WsiInv'
<1> USE DEF WsiInv
<1>1. /\ stop' = TRUE /\ admissionStopped' = TRUE /\ pc' = WakeWrite(WakeWsi(pc))
      /\ UNCHANGED <<gate, users, arenaVars, registry, binding, queue, enc, reg,
                     bounds>>
  BY DEF RequestStop, StopQueue
<1>2. Rests
  BY <1>1, WokenRests
<1>3. TypeOK'
  BY <1>1, <1>2, RestTypes, TypeStep DEF TypeOK, arenaVars, queue, bounds
<1>4. CountersOrdered'
  BY <1>1 DEF GateInv, CountersOrdered, queue
<1>5. enc'.pc = "encoding" => enc'.ptr \in live \cup {None}
  BY <1>1 DEF RegistryInv, PointersLive, EncodeKeepsPresenter
<1> QED
  BY <1>1, <1>2, <1>3, <1>4, <1>5, QueueMoves DEF arenaVars, queue

\* A stuttering step preserves the invariant.
LEMMA StutterStep ==
  ASSUME WsiInv, UNCHANGED vars
  PROVE  WsiInv'
<1> USE DEF WsiInv, vars
<1>1. Rests
  BY WokenRests
<1>2. TypeOK'
  BY DEF TypeOK, gateVars, arenaVars, registry, queue, bounds
<1>3. CountersOrdered'
  BY DEF GateInv, CountersOrdered, queue
<1>4. enc'.pc = "encoding" => enc'.ptr \in live \cup {None}
  BY DEF RegistryInv, PointersLive, EncodeKeepsPresenter
<1> QED
  BY <1>1, <1>2, <1>3, <1>4, QueueMoves DEF gateVars, arenaVars, queue

-----------------------------------------------------------------------------
(* The theorems. *)

\* The initial states satisfy the inductive invariant.
LEMMA InitWsi == Init => WsiInv
<1> DEFINE n == Cardinality(Chains)
<1>1. n \in Nat
  BY WsiAssumption, FS_CardinalityType
<1> SUFFICES ASSUME Init PROVE WsiInv
  OBVIOUS
<1>2. PICK f \in [Chains -> 1..n] :
        /\ \A c, d \in Chains : f[c] = f[d] => c = d
        /\ binding = [c \in Chains |->
                        [slot |-> f[c], generation |-> 0, obj |-> f[c]]]
  BY DEF Init
<1>3. /\ slots = [i \in 1..n |-> [presenter |-> i, generation |-> 0]]
      /\ free = <<>> /\ live = 1..n /\ objects = n
      /\ committed = <<>> /\ arenaPresent = <<>>
  BY DEF Init
<1> HIDE DEF n
<1>4. slots \in Seq(Slots) /\ Len(slots) = n
  <2>1. \A i \in 1..n : [presenter |-> i, generation |-> 0] \in Slots
    BY DEF Slots
  <2> QED
    BY <1>1, <1>3, <2>1
<1>5. \A i \in 1..n : slots[i].presenter = i /\ slots[i].generation = 0
  BY <1>3
<1>6. \A c \in Chains : /\ binding[c].slot = f[c] /\ binding[c].generation = 0
                        /\ binding[c].obj = f[c] /\ binding[c] \in PresentIds
                        /\ f[c] \in 1..n
  BY <1>1, <1>2 DEF PresentIds
<1>7. \A t \in Threads : /\ pc[t] = "idle" /\ reg[t].id = NoId
                         /\ reg[t].ptr = None
  BY DEF Init
<1>8. TypeOK
  <2>1. slots \in Seq([presenter : Nat, generation : Nat])
    BY <1>4 DEF Slots
  <2>2. binding \in [Chains -> PresentIds]
    BY <1>2, <1>6
  <2>3. reg \in [Threads -> Regs]
    <3>1. [chain |-> None, id |-> NoId, ptr |-> None, seq |-> 0, kind |-> "none"]
            \in Regs
      BY NoIdFacts DEF Regs, None
    <3> QED
      BY <3>1 DEF Init
  <2>4. pc \in [Threads -> Pcs]
    BY IdleFacts DEF Init
  <2>5. /\ live \in SUBSET Nat /\ objects \in Nat /\ free \in Seq(Nat)
        /\ committed \in Seq(PresentIds) /\ arenaPresent \in Seq(PresentIds)
    BY <1>1, <1>3
  <2>6. enc \in [pc : {"idle", "encoding", "callbacks"}, ptr : Nat]
    BY DEF Init, None
  <2> QED
    BY <2>1, <2>2, <2>3, <2>4, <2>5, <2>6 DEF TypeOK, Init, Pcs
<1>9. GateInv
  <2>1. Users = {}
    BY <1>7, IdleFacts DEF Users
  <2>2. UsersCounted
    BY <2>1, FS_EmptySet DEF UsersCounted, Init
  <2>3. ChangeShape /\ GateOwned
    BY <1>7, IdleFacts DEF ChangeShape, GateOwned
  <2>4. Quieted /\ Fenced
    BY <1>7, IdleFacts DEF Quieted, Fenced
  <2>5. CountersOrdered
    BY DEF Init, CountersOrdered
  <2> QED
    BY <2>2, <2>3, <2>4, <2>5 DEF GateInv
<1>10. PointersLive
  BY <1>7, IdleFacts
     DEF PointersLive, UseKeepsPresenter, EncodeKeepsPresenter, Init
<1>11. RegistrySound
  BY <1>1, <1>3, <1>4, <1>5 DEF RegistrySound
<1>12. IdsSound
  <2>1. \A t \in Threads : IdSound(reg[t].id)
    BY <1>7, NoIdFacts
  <2>2. ASSUME NEW c \in Chains PROVE IdSound(binding[c])
    <3>1. /\ binding[c].slot \in 1..Len(slots) /\ binding[c].obj \in 1..objects
          /\ slots[binding[c].slot].presenter = binding[c].obj
      BY <1>3, <1>4, <1>5, <1>6
    <3>2. binding[c].generation <= slots[binding[c].slot].generation
      BY <1>5, <1>6
    <3> QED
      BY <3>1, <3>2 DEF IdSound
  <2>3. Len(committed) = 0 /\ Len(arenaPresent) = 0
    BY <1>3
  <2> QED
    BY <2>1, <2>2, <2>3 DEF IdsSound
<1>13. BindingsOwn
  <2>1. ASSUME NEW c \in Chains PROVE Resolves(binding[c])
    BY <1>3, <1>4, <1>5, <1>6 DEF Resolves
  <2>2. \A c, d \in Chains : binding[c].slot = binding[d].slot => c = d
    BY <1>2, <1>6
  <2> QED
    BY <1>7, <2>1, <2>2 DEF BindingsOwn
<1> QED
  BY <1>8, <1>9, <1>10, <1>11, <1>12, <1>13 DEF WsiInv, RegistryInv

\* The steps of submitPresent together.
LEMMA PresentSteps ==
  ASSUME WsiInv, NEW t \in Threads, PresentStep(t)
  PROVE  WsiInv'
BY WaitEnterStep, EnterSleepStep, ResolvePresentStep, PublishPresentStep,
   LeavePresentStep DEF PresentStep

\* The steps of an arena together.
LEMMA ArenaSteps ==
  ASSUME WsiInv, NEW t \in Threads, ArenaStep(t)
  PROVE  WsiInv'
BY AwaitAdmissionStep, AdmissionSleepStep, PublishArenaStep, AbortArenaStep
   DEF ArenaStep

\* The steps of a replacement or a teardown together.
LEMMA ChangeSteps ==
  ASSUME WsiInv, NEW o \in Threads, ChangeStep(o)
  PROVE  WsiInv'
BY BeginQuiescenceStep, BeginFinalStep, FinalSleepStep, AbortOwnArenaStep,
   AwaitArenaStep, AwaitUsersStep, DrainSleepStep, FenceStep, FenceDoneStep,
   CandidateFailsStep, CandidateRegisteredStep, CommitChangeStep,
   EndQuiescenceStep DEF ChangeStep

\* Every step preserves the inductive invariant.
LEMMA NextWsi == WsiInv /\ [Next]_vars => WsiInv'
<1> SUFFICES ASSUME WsiInv, [Next]_vars PROVE WsiInv'
  OBVIOUS
<1>1. ASSUME NEW t \in Threads, NEW c \in Chains, PresentBegin(t, c) PROVE WsiInv'
  BY <1>1, PresentBeginStep
<1>2. ASSUME NEW t \in Threads, PresentStep(t) \/ BeginArena(t) \/ ArenaStep(t)
      PROVE  WsiInv'
  BY <1>2, PresentSteps, BeginArenaStep, ArenaSteps
<1>3. ASSUME NEW o \in Owners, NEW c \in Chains, NEW k \in {"replace", "close"},
             ChangeBegin(o, c, k)
      PROVE  WsiInv'
  BY <1>3, ChangeBeginStep
<1>4. ASSUME NEW o \in Owners, ChangeStep(o) PROVE WsiInv'
  BY <1>4, ChangeSteps DEF Threads
<1>5. CASE QueueStep
  BY <1>5, EncodePresentStep, EncodeSubmitStep, RunPostCommitCallbacksStep,
     CompleteOldestStep DEF QueueStep
<1>6. CASE RequestStop
  BY <1>6, RequestStopStep
<1>7. CASE UNCHANGED vars
  BY <1>7, StutterStep
<1> QED
  BY <1>1, <1>2, <1>3, <1>4, <1>5, <1>6, <1>7 DEF Next

\* The inductive invariant holds throughout.
LEMMA WsiInvariant == Spec => []WsiInv
BY InitWsi, NextWsi, PTL DEF Spec

\* The quiescence protects the Presenter: the registry is only touched with
\* the gate armed by one owner, no use inside and everything published
\* completed (or the queue stopped), and so neither a Present inside its use
\* nor the encoder ever holds a destroyed Presenter.
THEOREM QuiescenceCorrect == Spec => []QuiescenceProtects
<1>1. WsiInv => QuiescenceProtects
  <2> SUFFICES ASSUME WsiInv PROVE QuiescenceProtects
    OBVIOUS
  <2>1. ASSUME NEW o \in Threads, pc[o] \in {"swap", "commit"}
        PROVE  /\ gate /\ users = 0
               /\ \A p \in Threads : p # o => pc[p] \notin GatedPcs
               /\ stop \/ (arena = Nobody /\ completed = Len(committed))
    <3>1. /\ pc[o] \in GatedPcs /\ pc[o] \in DrainedPcs /\ pc[o] \in QuietPcs
          /\ pc[o] \in SwapPcs
      BY <2>1 DEF GatedPcs, DrainedPcs, QuietPcs, SwapPcs
    <3>2. gate /\ \A p \in Threads : p # o => pc[p] \notin GatedPcs
      BY <3>1 DEF WsiInv, GateInv, GateOwned
    <3>3. users = 0
      BY <3>1, NoUsers DEF WsiInv, GateInv, Quieted
    <3>4. stop \/ (arena = Nobody /\ completed = Len(committed))
      BY <3>1 DEF WsiInv, GateInv, Quieted, Fenced
    <3> QED
      BY <3>2, <3>3, <3>4
  <2>2. UseKeepsPresenter /\ EncodeKeepsPresenter
    BY DEF WsiInv, RegistryInv, PointersLive
  <2> QED
    BY <2>1, <2>2 DEF QuiescenceProtects, SwapIsQuiescent
<1> QED
  BY <1>1, WsiInvariant, PTL

\* An id never resolves to a Presenter it was not issued for, however often
\* its slot was reused (lookupPresenter, registerPresenter and
\* unregisterPresenter), and the id of a swap chain always resolves.
THEOREM RegistryCorrect == Spec => []RegistryCoherent
<1>1. WsiInv => RegistryCoherent
  <2> SUFFICES ASSUME WsiInv PROVE RegistryCoherent
    OBVIOUS
  <2>1. DOMAIN slots = 1..Len(slots) /\ DOMAIN arenaPresent = 1..Len(arenaPresent)
        /\ encoded \in Nat /\ Len(committed) \in Nat
    BY DEF WsiInv, TypeOK
  <2>2. ASSUME NEW id, IdSound(id) PROVE Lookup(id) \in {None, id.obj}
    BY <2>1, <2>2, NoIdFacts DEF IdSound, Lookup
  <2>3. ASSUME NEW id \in HeldIds PROVE IdSound(id)
    <3>1. CASE \E t \in Threads : id = reg[t].id
      BY <3>1 DEF WsiInv, RegistryInv, IdsSound
    <3>2. CASE \E c \in Chains : id = binding[c]
      BY <3>2 DEF WsiInv, RegistryInv, IdsSound
    <3>3. CASE \E i \in (encoded + 1)..Len(committed) : id = committed[i]
      <4>1. \A i \in (encoded + 1)..Len(committed) : i \in 1..Len(committed)
        BY <2>1
      <4> QED
        BY <3>3, <4>1 DEF WsiInv, RegistryInv, IdsSound
    <3>4. CASE \E i \in 1..Len(arenaPresent) : id = arenaPresent[i]
      BY <3>4 DEF WsiInv, RegistryInv, IdsSound
    <3> QED
      BY <2>1, <2>3, <3>1, <3>2, <3>3, <3>4 DEF HeldIds
  <2>4. StaleIdResolvesNull
    BY <2>2, <2>3 DEF StaleIdResolvesNull
  <2>5. BindingResolves
    BY <2>1 DEF WsiInv, RegistryInv, BindingsOwn, Resolves, BindingResolves, Lookup
  <2> QED
    BY <2>4, <2>5 DEF RegistryCoherent, WsiInv
<1> QED
  BY <1>1, WsiInvariant, PTL

\* No Present and no owner sleeps at an open gate: endWsiQuiescence waits for
\* whoever has tested the gate and not yet gone to sleep, and wakes the rest.
THEOREM SleepersCorrect == Spec => []GateSleepersWoken
<1>1. WsiInv => GateSleepersWoken
  BY DEF WsiInv, GateInv, GateOwned, BlockedPcs, GateSleepersWoken
<1> QED
  BY <1>1, WsiInvariant, PTL
=============================================================================

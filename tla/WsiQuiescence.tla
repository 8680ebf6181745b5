---------------------------- MODULE WsiQuiescence ----------------------------
(***************************************************************************)
(* The window-system gate of CommandQueue.  A Present enters a use of the  *)
(* current Presenter (waitEnterWsiPresentUse), resolves its PresentId in   *)
(* the presenter registry, publishes and leaves.  A swap chain that        *)
(* replaces or tears down its Presenter arms the gate, waits for the uses  *)
(* to drain, fences the queue, swaps the registry entry, destroys the old  *)
(* Presenter and opens the gate again.  CPU-ready arenas are kept out by   *)
(* the same gate, and their admission waiters sleep on writeCv_.           *)
(*                                                                         *)
(* A condition-variable wait is two steps, the evaluation of the predicate *)
(* with the mutex held ("...Checked") and going to sleep, because some     *)
(* notifiers here do not take the waiter's mutex.  A step that takes the   *)
(* mutex is guarded by WsiMutexFree or QueueMutexFree; all other critical  *)
(* sections are single actions.                                            *)
(***************************************************************************)
EXTENDS Naturals, Sequences, FiniteSets

CONSTANTS
  Apps,         \* threads that call submitPresent outside an arena
  Builders,     \* threads that build CPU-ready arenas
  Owners,       \* threads that replace or tear down a swap chain's Presenter
  Chains,       \* swap chains
  MaxPresents,  \* bound: Presents that are started
  MaxChanges,   \* bound: replacements and teardowns that are started
  MayStop,      \* may the queue stop on its own
  Latency,      \* presentBoundaryLatency of every Present
  Nobody        \* no thread

ASSUME WsiAssumption ==
  /\ MaxPresents \in Nat /\ MaxChanges \in Nat /\ Latency \in Nat \ {0}
  /\ MayStop \in BOOLEAN
  /\ IsFiniteSet(Chains)
  /\ Nobody \notin Apps \cup Builders \cup Owners

Threads == Apps \cup Builders \cup Owners

\* No object.
None == 0

VARIABLES
  gate,              \* wsiQuiescenceActive_
  users,             \* wsiPresentUsers_
  admissionStopped,  \* wsiAdmissionStopped_
  stop,              \* stop_
  arena,             \* owner of the active arena build, or Nobody
  arenaPresent,      \* the Presents appended to that build, at most one
  arenaFailed,       \* ArenaBuildContext::failed and arenaBuildPoisoned_
  slots,             \* presenterSlots_: sequence of [presenter, generation]
  free,              \* the stack of free slots behind presenterFreeHead_
  binding,           \* SwapChain::presentId_
  live,              \* Presenter objects that have not been destroyed
  objects,           \* Presenter objects constructed so far
  committed,         \* ids of the Presents published to the queue, in order
  encoded,           \* how many of them the encoder has submitted
  completed,         \* completedSeqId
  enc,               \* the encode thread: [pc, ptr]
  pc,                \* where each thread is
  reg,               \* per thread: chain, id, ptr, seq, kind of change
  presents, changes  \* how many were started (bounds)

queue == <<committed, encoded, completed>>
registry == <<slots, free, live, objects>>
arenaVars == <<arena, arenaPresent, arenaFailed>>
gateVars == <<gate, users, admissionStopped, stop>>
bounds == <<presents, changes>>
vars == <<gateVars, arenaVars, registry, binding, queue, enc, pc, reg, bounds>>

-----------------------------------------------------------------------------
(* The presenter registry. *)

\* PresentId: slot and generation; obj is a ghost, the Presenter it names.
NoId == [slot |-> 0, generation |-> 0, obj |-> None]
PresentIds == [slot : Nat, generation : Nat, obj : Nat]

\* lookupPresenter: null for a zero, unknown or stale id.
Lookup(id) ==
  IF id.slot \in DOMAIN slots /\ slots[id.slot].generation = id.generation
    THEN slots[id.slot].presenter
    ELSE None

\* registerPresenter: pop the free stack, or grow the table.
FreshSlot == IF free # <<>> THEN Head(free) ELSE Len(slots) + 1

RegisterPresenter(p) ==
  LET i == FreshSlot
      g == IF i \in DOMAIN slots THEN slots[i].generation ELSE 0
      s == [presenter |-> p, generation |-> g]
  IN /\ slots' = IF i \in DOMAIN slots THEN [slots EXCEPT ![i] = s]
                                       ELSE Append(slots, s)
     /\ free' = IF free # <<>> THEN Tail(free) ELSE free

CandidateId ==
  LET i == FreshSlot
  IN [slot |-> i, obj |-> objects + 1,
      generation |-> IF i \in DOMAIN slots THEN slots[i].generation ELSE 0]

\* Mutant of UnregisterPresenter.
UnregisterNoBump(id) ==
  IF id.slot \in DOMAIN slots /\ slots[id.slot].generation = id.generation
    THEN /\ slots' = [slots EXCEPT ![id.slot] =
                        [presenter |-> None, generation |-> id.generation]]
         /\ free' = <<id.slot>> \o free
    ELSE UNCHANGED <<slots, free>>

\* unregisterPresenter: nothing for a stale id; otherwise the generation is
\* bumped so that every id in flight resolves to null from now on.
UnregisterPresenter(id) ==
  IF id.slot \in DOMAIN slots /\ slots[id.slot].generation = id.generation
    THEN /\ slots' = [slots EXCEPT ![id.slot] =
                        [presenter |-> None, generation |-> id.generation + 1]]
         /\ free' = <<id.slot>> \o free
    ELSE UNCHANGED <<slots, free>>

-----------------------------------------------------------------------------
(* The two mutexes and the two condition variables. *)

WsiMutexFree ==
  \A t \in Threads : pc[t] \notin {"enterChecked", "drainChecked", "gateChecked"}

QueueMutexFree == \A t \in Threads : pc[t] # "admitChecked"

\* notify_all on wsiQuiescenceCv_: every sleeper evaluates its predicate again.
WakeWsi(p) ==
  [t \in Threads |-> CASE p[t] = "enterAsleep" -> "enter"
                       [] p[t] = "drainAsleep" -> "drain"
                       [] p[t] = "gateAsleep" -> "gateWait"
                       [] OTHER -> p[t]]

\* notify_all on writeCv_, as far as arena admission is concerned.  The other
\* writeCv_ waits of this module have notifiers that hold mutex_ and are
\* plain guards.
WakeWrite(p) ==
  [t \in Threads |-> IF p[t] = "admitAsleep" THEN "admit" ELSE p[t]]

Goto(t, to) == [pc EXCEPT ![t] = to]

\* requestSchedulingStopLocked: with mutex_ held, without the WSI mutex.
StopQueue(p) ==
  /\ stop' = TRUE
  /\ admissionStopped' = TRUE
  /\ pc' = WakeWrite(WakeWsi(p))

ChainBusy(c) ==
  \E o \in Owners : reg[o].chain = c /\ reg[o].kind # "none"

-----------------------------------------------------------------------------
Init ==
  /\ gate = FALSE /\ users = 0 /\ admissionStopped = FALSE /\ stop = FALSE
  /\ arena = Nobody /\ arenaPresent = <<>> /\ arenaFailed = FALSE
  /\ \E f \in [Chains -> 1..Cardinality(Chains)] :
       /\ \A c, d \in Chains : f[c] = f[d] => c = d
       /\ binding = [c \in Chains |->
                      [slot |-> f[c], generation |-> 0, obj |-> f[c]]]
  /\ slots = [i \in 1..Cardinality(Chains) |->
               [presenter |-> i, generation |-> 0]]
  /\ free = <<>>
  /\ live = 1..Cardinality(Chains)
  /\ objects = Cardinality(Chains)
  /\ committed = <<>> /\ encoded = 0 /\ completed = 0
  /\ enc = [pc |-> "idle", ptr |-> None]
  /\ pc = [t \in Threads |-> "idle"]
  /\ reg = [t \in Threads |-> [chain |-> None, id |-> NoId, ptr |-> None,
                               seq |-> 0, kind |-> "none"]]
  /\ presents = 0 /\ changes = 0

-----------------------------------------------------------------------------
(* submitPresent. *)

\* SwapChain::Present snapshots presentId_ under the chain's own mutex and
\* calls submitPresent.
PresentBegin(t, c) ==
  /\ pc[t] = "idle" /\ presents < MaxPresents
  /\ t \in Apps \/ (t \in Builders /\ arena = t /\ arenaPresent = <<>>)
  /\ ~ChainBusy(c)
  /\ presents' = presents + 1
  /\ reg' = [reg EXCEPT ![t].id = binding[c], ![t].ptr = None, ![t].seq = 0]
  /\ pc' = Goto(t, "enter")
  /\ UNCHANGED <<gateVars, arenaVars, registry, binding, queue, enc, changes>>

\* waitEnterWsiPresentUse up to the wait: rejected after a stop, admitted
\* when the gate is open, about to sleep otherwise.
WaitEnter(t) ==
  /\ pc[t] = "enter" /\ WsiMutexFree
  /\ \/ admissionStopped /\ pc' = Goto(t, "idle") /\ UNCHANGED users
     \/ ~admissionStopped /\ gate /\ pc' = Goto(t, "enterChecked")
        /\ UNCHANGED users
     \/ ~admissionStopped /\ ~gate /\ pc' = Goto(t, "using")
        /\ users' = users + 1
  /\ UNCHANGED <<gate, admissionStopped, stop, arenaVars, registry, binding,
                 queue, enc, reg, bounds>>

EnterSleep(t) ==
  /\ pc[t] = "enterChecked"
  /\ pc' = Goto(t, "enterAsleep")
  /\ UNCHANGED <<gateVars, arenaVars, registry, binding, queue, enc, reg, bounds>>

\* A Present of another thread, or of a failed build, fails and poisons the
\* active arena; otherwise
\* the Presenter is resolved once and used (acquire) without a lock.
ResolvePresent(t) ==
  /\ pc[t] = "using"
  /\ IF arena # Nobody /\ (arena # t \/ arenaFailed)
       THEN /\ arenaFailed' = TRUE
            /\ pc' = Goto(t, "leave")
            /\ UNCHANGED <<arena, arenaPresent, reg>>
       ELSE /\ reg' = [reg EXCEPT ![t].ptr = Lookup(reg[t].id)]
            /\ pc' = Goto(t, "acquire")
            /\ UNCHANGED arenaVars
  /\ UNCHANGED <<gateVars, registry, binding, queue, enc, bounds>>

\* appendActiveArenaPresent inside an arena, presentAndCommit outside: a
\* stopped queue publishes nothing.
PublishPresent(t) ==
  /\ pc[t] = "acquire" /\ QueueMutexFree
  /\ pc' = Goto(t, "leave")
  /\ IF arena = t
       THEN /\ arenaPresent' = <<reg[t].id>>
            /\ UNCHANGED <<committed, reg, arena, arenaFailed>>
       ELSE /\ IF stop
                 THEN UNCHANGED committed /\ reg' = [reg EXCEPT ![t].ptr = None]
                 ELSE /\ committed' = Append(committed, reg[t].id)
                      /\ reg' = [reg EXCEPT ![t].seq = Len(committed) + 1,
                                            ![t].ptr = None]
            /\ UNCHANGED arenaVars
  /\ UNCHANGED <<gateVars, registry, binding, encoded, completed, enc, bounds>>

\* presentBoundary and leaveWsiPresentUse: the use ends after the boundary
\* wait, and the notification takes no mutex.
LeavePresent(t) ==
  /\ pc[t] = "leave"
  /\ stop \/ reg[t].seq <= completed + Latency
  /\ users' = users - 1
  /\ pc' = IF users = 1 THEN WakeWsi(Goto(t, "idle")) ELSE Goto(t, "idle")
  /\ reg' = [reg EXCEPT ![t].id = NoId, ![t].ptr = None, ![t].seq = 0]
  /\ UNCHANGED <<gate, admissionStopped, stop, arenaVars, registry, binding,
                 queue, enc, bounds>>

-----------------------------------------------------------------------------
(* CPU-ready arenas. *)

\* beginCpuReadyArenaSource(s): refused while the gate or another build is
\* active; the caller then waits for admission.
BeginArena(t) ==
  /\ t \in Builders /\ pc[t] = "idle" /\ arena # t
  /\ QueueMutexFree /\ ~stop /\ ~arenaFailed /\ presents < MaxPresents
  /\ IF gate \/ arena # Nobody
       THEN pc' = Goto(t, "admit") /\ UNCHANGED arena
       ELSE arena' = t /\ UNCHANGED pc
  /\ UNCHANGED <<gateVars, arenaPresent, arenaFailed, registry, binding, queue,
                 enc, reg, bounds>>

\* waitForCpuReadyArenaAdmission: one round of its loop, with mutex_ held.
AwaitAdmission(t) ==
  /\ pc[t] = "admit" /\ QueueMutexFree
  /\ pc' = Goto(t, IF ~stop /\ ~arenaFailed /\ (gate \/ arena # Nobody)
                     THEN "admitChecked" ELSE "idle")
  /\ UNCHANGED <<gateVars, arenaVars, registry, binding, queue, enc, reg, bounds>>

AdmissionSleep(t) ==
  /\ pc[t] = "admitChecked"
  /\ pc' = Goto(t, "admitAsleep")
  /\ UNCHANGED <<gateVars, arenaVars, registry, binding, queue, enc, reg, bounds>>

\* publishCpuReadyArenaBatch.
PublishArena(t) ==
  /\ arena = t /\ pc[t] = "idle" /\ ~arenaFailed /\ ~stop /\ QueueMutexFree
  /\ committed' = committed \o arenaPresent
  /\ arena' = Nobody /\ arenaPresent' = <<>>
  /\ pc' = WakeWrite(pc)
  /\ UNCHANGED <<gateVars, arenaFailed, registry, binding, encoded, completed,
                 enc, reg, bounds>>

\* abortCpuReadyArenaBatch rolls back and goes on; abortCpuReadyArenaSource
\* (a single source, or a failed or stopped build) stops the queue.
AbortArena(t, failStop) ==
  /\ arena = t /\ pc[t] = "idle" /\ QueueMutexFree
  /\ arenaFailed \/ stop => failStop
  /\ arena' = Nobody /\ arenaPresent' = <<>>
  /\ \/ failStop /\ StopQueue(pc)
     \/ ~failStop /\ pc' = WakeWrite(pc) /\ UNCHANGED <<stop, admissionStopped>>
  /\ UNCHANGED <<gate, users, arenaFailed, registry, binding, queue, enc, reg,
                 bounds>>

-----------------------------------------------------------------------------
(* Replacement and teardown of a Presenter. *)

\* adoptWsiSurface, installPresentOutput and restoreWindowPresenter replace;
\* teardownWsiSurface closes.  Each holds the chain's mutex to its end.
ChangeBegin(o, c, kind) ==
  /\ o \in Owners /\ pc[o] = "idle" /\ reg[o].kind = "none"
  /\ changes < MaxChanges /\ ~ChainBusy(c)
  /\ kind = "close" => binding[c] # NoId
  /\ changes' = changes + 1
  /\ reg' = [reg EXCEPT ![o].chain = c, ![o].kind = kind, ![o].id = NoId]
  /\ pc' = Goto(o, IF kind = "replace" THEN "begin" ELSE "gateWait")
  /\ UNCHANGED <<gateVars, arenaVars, registry, binding, queue, enc, presents>>

\* The return of adoptWsiSurface or teardownWsiSurface without a change.
GiveUp(o) ==
  /\ reg' = [reg EXCEPT ![o].chain = None, ![o].kind = "none"]

\* beginWsiQuiescence up to the drain: ActiveArena, QueueStopped and
\* AlreadyActive give up, otherwise the gate is armed under both mutexes.
BeginQuiescence(o) ==
  /\ pc[o] = "begin" /\ QueueMutexFree /\ WsiMutexFree
  /\ \/ /\ arena # Nobody \/ stop \/ gate
        /\ pc' = Goto(o, "idle") /\ GiveUp(o) /\ UNCHANGED gate
     \/ /\ arena = Nobody /\ ~stop /\ ~gate
        /\ gate' = TRUE /\ pc' = Goto(o, "drain") /\ UNCHANGED reg
  /\ UNCHANGED <<users, admissionStopped, stop, arenaVars, registry, binding,
                 queue, enc, bounds>>

\* beginFinalWsiQuiescence: waits out another quiescence, then arms the gate.
BeginFinal(o) ==
  /\ pc[o] = "gateWait" /\ QueueMutexFree /\ WsiMutexFree
  /\ \/ gate /\ pc' = Goto(o, "gateChecked") /\ UNCHANGED gate
     \/ ~gate /\ gate' = TRUE /\ pc' = Goto(o, "arenaWait")
  /\ UNCHANGED <<users, admissionStopped, stop, arenaVars, registry, binding,
                 queue, enc, reg, bounds>>

FinalSleep(o) ==
  /\ pc[o] = "gateChecked"
  /\ pc' = Goto(o, "gateAsleep")
  /\ UNCHANGED <<gateVars, arenaVars, registry, binding, queue, enc, reg, bounds>>

\* beginFinalWsiQuiescence aborts an arena of its own thread ...
AbortOwnArena(o, failStop) ==
  /\ pc[o] = "arenaWait" /\ arena = o /\ QueueMutexFree
  /\ arenaFailed \/ stop => failStop
  /\ arena' = Nobody /\ arenaPresent' = <<>>
  /\ \/ failStop /\ StopQueue(Goto(o, "drain"))
     \/ ~failStop /\ pc' = WakeWrite(Goto(o, "drain"))
        /\ UNCHANGED <<stop, admissionStopped>>
  /\ UNCHANGED <<gate, users, arenaFailed, registry, binding, queue, enc, reg,
                 bounds>>

\* ... and waits for one of another thread, or for a stop.
AwaitArena(o) ==
  /\ pc[o] = "arenaWait" /\ QueueMutexFree
  /\ arena = Nobody \/ (stop /\ arena # o)
  /\ pc' = Goto(o, "drain")
  /\ UNCHANGED <<gateVars, arenaVars, registry, binding, queue, enc, reg, bounds>>

\* The wait for wsiPresentUsers_ to reach zero.
AwaitUsers(o) ==
  /\ pc[o] = "drain" /\ WsiMutexFree
  /\ pc' = Goto(o, IF users = 0 THEN "fence" ELSE "drainChecked")
  /\ UNCHANGED <<gateVars, arenaVars, registry, binding, queue, enc, reg, bounds>>

DrainSleep(o) ==
  /\ pc[o] = "drainChecked"
  /\ pc' = Goto(o, "drainAsleep")
  /\ UNCHANGED <<gateVars, arenaVars, registry, binding, queue, enc, reg, bounds>>

\* flushAndWait fixes the last published sequence and waits for it.  A
\* stopped queue ends a replacement; a teardown joins the workers instead.
Fence(o) ==
  /\ pc[o] = "fence" /\ QueueMutexFree
  /\ reg' = [reg EXCEPT ![o].seq = Len(committed)]
  /\ pc' = Goto(o, "fencing")
  /\ UNCHANGED <<gateVars, arenaVars, registry, binding, queue, enc, bounds>>

\* Mutant of FenceDone.
FenceSkipped(o) ==
  /\ pc[o] = "fencing" /\ QueueMutexFree
  /\ pc' = Goto(o, "swap")
  /\ UNCHANGED <<gateVars, arenaVars, registry, binding, queue, enc, reg, bounds>>

FenceDone(o) ==
  /\ pc[o] = "fencing" /\ QueueMutexFree
  /\ \/ ~stop /\ completed >= reg[o].seq /\ pc' = Goto(o, "swap")
     \/ stop /\ reg[o].kind = "replace" /\ pc' = Goto(o, "end")
     \/ stop /\ reg[o].kind = "close" /\ enc.pc = "idle"
        /\ encoded = Len(committed) /\ pc' = Goto(o, "swap")
  /\ UNCHANGED <<gateVars, arenaVars, registry, binding, queue, enc, reg, bounds>>

\* The candidate Presenter cannot be built or registered: the old one stays.
CandidateFails(o) ==
  /\ pc[o] = "swap" /\ reg[o].kind = "replace"
  /\ pc' = Goto(o, "end")
  /\ UNCHANGED <<gateVars, arenaVars, registry, binding, queue, enc, reg, bounds>>

\* registerPresenter for the candidate, while the old id is still valid.
CandidateRegistered(o) ==
  /\ pc[o] = "swap" /\ reg[o].kind = "replace"
  /\ RegisterPresenter(objects + 1)
  /\ objects' = objects + 1 /\ live' = live \cup {objects + 1}
  /\ reg' = [reg EXCEPT ![o].id = CandidateId]
  /\ pc' = Goto(o, "commit")
  /\ UNCHANGED <<gateVars, arenaVars, binding, queue, enc, bounds>>

\* unregisterPresenter of the old id, destruction of the old Presenter, and
\* the new binding (none after a teardown).
CommitChange(o) ==
  /\ \/ pc[o] = "commit"
     \/ pc[o] = "swap" /\ reg[o].kind = "close"
  /\ LET old == binding[reg[o].chain]
     IN UnregisterPresenter(old) /\ live' = live \ {old.obj}
  /\ binding' = [binding EXCEPT ![reg[o].chain] = reg[o].id]
  /\ pc' = Goto(o, "end")
  /\ UNCHANGED <<gateVars, arenaVars, objects, queue, enc, reg, bounds>>

\* Mutant of EndQuiescence.
EndQuiescenceSilent(o) ==
  /\ pc[o] = "end" /\ WsiMutexFree
  /\ gate' = FALSE
  /\ pc' = WakeWrite(Goto(o, "idle"))
  /\ reg' = [reg EXCEPT ![o] = [chain |-> None, id |-> NoId, ptr |-> None,
                                seq |-> 0, kind |-> "none"]]
  /\ UNCHANGED <<users, admissionStopped, stop, arenaVars, registry, binding,
                 queue, enc, bounds>>

\* endWsiQuiescence: the gate opens under the WSI mutex only.
EndQuiescence(o) ==
  /\ pc[o] = "end" /\ WsiMutexFree
  /\ gate' = FALSE
  /\ pc' = WakeWrite(WakeWsi(Goto(o, "idle")))
  /\ reg' = [reg EXCEPT ![o] = [chain |-> None, id |-> NoId, ptr |-> None,
                                seq |-> 0, kind |-> "none"]]
  /\ UNCHANGED <<users, admissionStopped, stop, arenaVars, registry, binding,
                 queue, enc, bounds>>

-----------------------------------------------------------------------------
(* The queue behind the gate: encode thread, GPU and finish thread, stop. *)

\* The encoder resolves the PresentId of the next Present and uses the
\* Presenter without a lock.
EncodePresent ==
  /\ enc.pc = "idle" /\ encoded < Len(committed)
  /\ enc' = [pc |-> "encoding", ptr |-> Lookup(committed[encoded + 1])]
  /\ UNCHANGED <<gateVars, arenaVars, registry, binding, queue, pc, reg, bounds>>

\* enqueueSubmission under mutex_; the post-commit callback of an encoded
\* Present keeps the raw Presenter pointer.
EncodeSubmit ==
  /\ enc.pc = "encoding" /\ QueueMutexFree
  /\ encoded' = encoded + 1
  /\ \/ enc.ptr # None /\ enc' = [enc EXCEPT !.pc = "callbacks"]
     \/ enc' = [pc |-> "idle", ptr |-> None]
  /\ UNCHANGED <<gateVars, arenaVars, registry, binding, committed, completed,
                 pc, reg, bounds>>

\* The callbacks run after mutex_ is dropped.
RunPostCommitCallbacks ==
  /\ enc.pc = "callbacks"
  /\ enc' = [pc |-> "idle", ptr |-> None]
  /\ UNCHANGED <<gateVars, arenaVars, registry, binding, queue, pc, reg, bounds>>

\* The GPU completes the oldest submission and the finish thread settles it.
CompleteOldest ==
  /\ completed < encoded /\ QueueMutexFree
  /\ completed' = completed + 1
  /\ pc' = WakeWrite(pc)
  /\ UNCHANGED <<gateVars, arenaVars, registry, binding, committed, encoded, enc,
                 reg, bounds>>

RequestStop ==
  /\ MayStop /\ ~stop /\ QueueMutexFree
  /\ StopQueue(pc)
  /\ UNCHANGED <<gate, users, arenaVars, registry, binding, queue, enc, reg,
                 bounds>>

-----------------------------------------------------------------------------
PresentStep(t) ==
  \/ WaitEnter(t) \/ EnterSleep(t) \/ ResolvePresent(t)
  \/ PublishPresent(t) \/ LeavePresent(t)

ArenaStep(t) ==
  \/ AwaitAdmission(t) \/ AdmissionSleep(t) \/ PublishArena(t)
  \/ \E f \in BOOLEAN : AbortArena(t, f)

ChangeStep(o) ==
  \/ BeginQuiescence(o) \/ BeginFinal(o) \/ FinalSleep(o)
  \/ (\E f \in BOOLEAN : AbortOwnArena(o, f)) \/ AwaitArena(o)
  \/ AwaitUsers(o) \/ DrainSleep(o) \/ Fence(o) \/ FenceDone(o)
  \/ CandidateFails(o) \/ CandidateRegistered(o) \/ CommitChange(o)
  \/ EndQuiescence(o)

QueueStep ==
  EncodePresent \/ EncodeSubmit \/ RunPostCommitCallbacks \/ CompleteOldest

Next ==
  \/ \E t \in Threads : \/ \E c \in Chains : PresentBegin(t, c)
                        \/ PresentStep(t) \/ BeginArena(t) \/ ArenaStep(t)
  \/ \E o \in Owners : \/ \E c \in Chains, k \in {"replace", "close"} :
                            ChangeBegin(o, c, k)
                       \/ ChangeStep(o)
  \/ QueueStep
  \/ RequestStop

\* Every thread that can move moves: the workers are threads of the queue,
\* the clients are inside a call.  Starting a Present, an arena or a change
\* is up to the application, and so is a stop.
Fairness ==
  /\ \A t \in Threads : WF_vars(PresentStep(t)) /\ WF_vars(ArenaStep(t))
                         /\ WF_vars(ChangeStep(t))
  /\ WF_vars(EncodePresent) /\ WF_vars(EncodeSubmit)
  /\ WF_vars(RunPostCommitCallbacks) /\ WF_vars(CompleteOldest)

Spec == Init /\ [][Next]_vars
FairSpec == Spec /\ Fairness

-----------------------------------------------------------------------------
(* Properties. *)

PresentPcs == {"enter", "enterChecked", "enterAsleep"}
UsePcs == {"using", "acquire", "leave"}
AdmitPcs == {"admit", "admitChecked", "admitAsleep"}
GatedPcs == {"arenaWait", "drain", "drainChecked", "drainAsleep", "fence",
             "fencing", "swap", "commit", "end"}
ChangePcs == {"begin", "gateWait", "gateChecked", "gateAsleep"} \cup GatedPcs
Regs == [chain : Chains \cup {None}, id : PresentIds, ptr : Nat, seq : Nat,
         kind : {"none", "replace", "close"}]

\* Every variable has its type and the counters of the queue are ordered.
TypeOK ==
  /\ gate \in BOOLEAN /\ users \in Nat
  /\ admissionStopped \in BOOLEAN /\ stop \in BOOLEAN
  /\ arena \in Threads \cup {Nobody} /\ arenaPresent \in Seq(PresentIds)
  /\ arenaFailed \in BOOLEAN
  /\ slots \in Seq([presenter : Nat, generation : Nat])
  /\ free \in Seq(Nat)
  /\ binding \in [Chains -> PresentIds]
  /\ live \in SUBSET Nat /\ objects \in Nat
  /\ committed \in Seq(PresentIds)
  /\ encoded \in Nat /\ completed \in Nat
  /\ enc \in [pc : {"idle", "encoding", "callbacks"}, ptr : Nat]
  /\ pc \in [Threads -> {"idle"} \cup PresentPcs \cup UsePcs \cup AdmitPcs
                          \cup ChangePcs]
  /\ reg \in [Threads -> Regs]
  /\ presents \in Nat /\ changes \in Nat

\* A Present that resolved its Presenter inside its use (submitPresent,
\* between waitEnterWsiPresentUse and leaveWsiPresentUse) never holds a
\* Presenter that a concurrent replacement or teardown has destroyed.
UseKeepsPresenter ==
  \A t \in Threads :
    pc[t] \in {"acquire", "leave"} => reg[t].ptr \in live \cup {None}

\* The encoder never encodes with a destroyed Presenter: the fence of the
\* quiescence covers every Present that could still resolve the old id.
EncodeKeepsPresenter ==
  enc.pc = "encoding" => enc.ptr \in live \cup {None}

\* While a registry entry is swapped the gate is armed by exactly that owner
\* and no use is inside; unless the queue stopped, no arena is being built and
\* every published Present has completed (beginWsiQuiescence's Complete).
SwapIsQuiescent ==
  \A o \in Threads : pc[o] \in {"swap", "commit"} =>
    /\ gate /\ users = 0
    /\ \A p \in Threads : p # o => pc[p] \notin GatedPcs
    /\ stop \/ (arena = Nobody /\ completed = Len(committed))

\* What a quiescence is for: nothing uses or encodes with a destroyed Presenter,
\* because the registry is only touched when the queue is quiet.
QuiescenceProtects ==
  SwapIsQuiescent /\ UseKeepsPresenter /\ EncodeKeepsPresenter

\* An id resolves to the Presenter it was issued for or to nothing, whatever
\* happened to its slot since (lookupPresenter against slot reuse).
HeldIds ==
  {reg[t].id : t \in Threads} \cup {binding[c] : c \in Chains}
    \cup {committed[i] : i \in (encoded + 1)..Len(committed)}
    \cup {arenaPresent[i] : i \in DOMAIN arenaPresent}
StaleIdResolvesNull ==
  \A id \in HeldIds : Lookup(id) \in {None, id.obj}

\* The id a swap chain is bound to always resolves to a live Presenter, also
\* after a failed candidate: a failed replacement leaves the old one usable.
BindingResolves ==
  \A c \in Chains : binding[c] # NoId =>
    Lookup(binding[c]) = binding[c].obj /\ binding[c].obj \in live

\* The registry of Presenters and the ids that name its slots agree.
RegistryCoherent == TypeOK /\ StaleIdResolvesNull /\ BindingResolves

\* Nobody sleeps at an open gate: a Present held back by a quiescence, or the
\* owner of the next quiescence, sleeps only while the gate is armed, although
\* both tested it before they went to sleep (endWsiQuiescence opens the gate
\* with the WSI mutex held and notifies).
GateSleepersWoken ==
  \A t \in Threads : pc[t] \in {"enterAsleep", "gateAsleep"} => gate

-----------------------------------------------------------------------------
(* What the documentation claims and the code does not do. *)

\* A quiescence that armed the gate ends: the uses in flight retire and the
\* fence follows.
QuiescenceEnds ==
  \A o \in Owners : pc[o] \in GatedPcs ~> pc[o] \notin GatedPcs

\* An arena-admission waiter is notified when the gate opens.
AdmissionResumes ==
  \A t \in Builders :
    (pc[t] \in AdmitPcs /\ ~gate /\ arena = Nobody)
      ~> (pc[t] \notin AdmitPcs \/ gate \/ arena # Nobody)

\* No post-commit callback runs on a destroyed Presenter.
CallbackKeepsPresenter ==
  enc.pc = "callbacks" => enc.ptr \in live

\* A Present that was admitted on a bound swap chain reaches the Presenter
\* its chain is bound to: the gate does not drop it.
AdmittedPresentResolves ==
  \A t \in Threads :
    pc[t] = "acquire" /\ (\A c \in Chains : binding[c] # NoId)
      => reg[t].ptr # None
==============================================================================

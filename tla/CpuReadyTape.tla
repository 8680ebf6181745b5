---------------------------- MODULE CpuReadyTape ----------------------------
(***************************************************************************)
(* The CPU-ready tape of dxmt9 (dxmt9_cpu_ready_tape.hpp): a ring of       *)
(* source slots, a circular page allocator whose runs never wrap, a FIFO   *)
(* of published ("ready") sources with one tentative prefix, and an        *)
(* admission latch with high/low water hysteresis.  The producer reserves  *)
(* and publishes sources, the encode thread represents them, the           *)
(* completion watcher completes them and the finish thread reclaims them.  *)
(*                                                                         *)
(* The tape has no lock of its own: every caller holds the queue's         *)
(* scheduling mutex.  One action below is what one caller does to the tape *)
(* in one hold of that mutex; where a caller drops the mutex in the middle *)
(* (it destroys payload owners outside it) there are two actions.          *)
(*                                                                         *)
(* Abstractions.  Raw, source and sequence ordinals advance together and   *)
(* are checked together: the model keeps the sequence number.  Payload     *)
(* bytes, segments, semantic summaries and producer identities are data no *)
(* property here tells apart.  Compatibility payload blocks are            *)
(* interchangeable: the model keeps their count.  64-bit generations do    *)
(* not wrap.                                                               *)
(***************************************************************************)
EXTENDS Integers, Sequences, FiniteSets

CONSTANTS
  SourceSlotCount,            \* entries of the source ring
  PageCount,                  \* pages of the arena
  MaxPagesPerSource,
  ReadyFifoCount,
  CompatibilityPayloadCount,
  HighWaterSources, LowWaterSources,
  HighWaterPages, LowWaterPages,
  HighWaterReady, LowWaterReady,
  MaxArenaBatchSources,       \* kMaxArenaBatchSources
  MaxAllocation,              \* bound: reservations in one behaviour
  MaxSeqId                    \* bound: sequence numbers in one behaviour

\* The conditions under which CpuReadyTapeConfig::create builds a tape.
ASSUME ConfigValid ==
  /\ SourceSlotCount \in Nat \ {0}
  /\ PageCount \in Nat \ {0}
  /\ MaxPagesPerSource \in 1..HighWaterPages
  /\ ReadyFifoCount \in 1..SourceSlotCount
  /\ CompatibilityPayloadCount \in Nat \ {0}
  /\ HighWaterSources \in 1..SourceSlotCount
  /\ LowWaterSources \in 0..(HighWaterSources - 1)
  /\ HighWaterPages \in 1..PageCount
  /\ LowWaterPages \in 0..(HighWaterPages - 1)
  /\ HighWaterReady \in 1..ReadyFifoCount
  /\ LowWaterReady \in 0..(HighWaterReady - 1)
  /\ MaxArenaBatchSources \in Nat \ {0}
  /\ MaxAllocation \in Nat
  /\ MaxSeqId \in Nat

VARIABLES
  entries,                    \* entries_: the source ring
  pages,                      \* pages_: 0 when free, else the run's generation
  sourceHead, sourceTail,     \* sourceHead_, sourceTail_
  residentCount,              \* residentCount_
  pageTail,                   \* pageTail_
  occupiedPages,              \* occupiedPages_, wrap padding included
  compatibilityResident,      \* compatibilityResident_
  compatibilityWritingCount,  \* compatibilityWritingCount_
  strictWritingActive,        \* strictWritingActive_
  ready,                      \* readyFifo_: slots in publication order
  tentative,                  \* tentativeReadyPrefix_
  reservations,               \* readyPublicationReservations_
  seqIdHighWater,             \* seqIdHighWater_
  allocations,                \* nextPageAllocationGeneration_
  closed,                     \* closedPressureDimensions_
  stopped,                    \* stopped_
  batch                       \* the ArenaBatchReservation the builder holds

ringVars  == <<entries, pages, sourceHead, sourceTail, residentCount,
               pageTail, occupiedPages, allocations>>
laneVars  == <<compatibilityResident, compatibilityWritingCount,
               strictWritingActive>>
readyVars == <<ready, tentative, reservations>>
tapeVars  == <<ringVars, laneVars, readyVars, seqIdHighWater, closed,
               stopped, batch>>

Slots == 0..(SourceSlotCount - 1)
Pages == 0..(PageCount - 1)
Kinds == {"Legacy", "Arena"}
States == {"Free", "Writing", "Ready", "TentativeRepresented", "Represented",
           "Submitted", "Completed", "Reclaiming"}
Dimensions == {"sources", "compatibility", "pages", "ready"}

NoStorage == [firstPage |-> 0, pageCount |-> 0, generation |-> 0]
NoGroup   == [tail |-> 0, count |-> 0, index |-> 0]

\* A value-initialised Entry that keeps only its slot generation.
FreeEntry(generation) ==
  [state |-> "Free", generation |-> generation, kind |-> "Legacy",
   storage |-> NoStorage, padding |-> 0, seqId |-> 0, group |-> NoGroup,
   reserved |-> FALSE, detach |-> "None", settled |-> FALSE]

\* No arena batch is being built.
NoBatch ==
  [first |-> 0, count |-> 0, failStop |-> FALSE, seqIdHighWater |-> 0,
   sourceTail |-> 0, pageTail |-> 0, residentCount |-> 0,
   occupiedPages |-> 0, readyCount |-> 0, reservations |-> 0]

Init ==
  /\ entries = [s \in Slots |-> FreeEntry(1)]
  /\ pages = [p \in Pages |-> 0]
  /\ sourceHead = 0 /\ sourceTail = 0 /\ residentCount = 0
  /\ pageTail = 0 /\ occupiedPages = 0 /\ allocations = 0
  /\ compatibilityResident = 0 /\ compatibilityWritingCount = 0
  /\ strictWritingActive = FALSE
  /\ ready = <<>> /\ tentative = <<>> /\ reservations = 0
  /\ seqIdHighWater = 0
  /\ closed = {} /\ stopped = FALSE
  /\ batch = NoBatch

-----------------------------------------------------------------------------
(* The page allocator. *)

\* Mutant of SlotAfter: the ring index is not wrapped.
SlotAfterUnwrapped(s, k) == s + k

\* The slot k places after slot s, k at most the size of the ring.
SlotAfter(s, k) ==
  IF s + k >= SourceSlotCount THEN s + k - SourceSlotCount ELSE s + k
PreviousSlot(s) == IF s = 0 THEN SourceSlotCount - 1 ELSE s - 1

\* Distance of slot s behind slot t, going forward around the ring.
Distance(t, s) == IF s >= t THEN s - t ELSE s + SourceSlotCount - t

\* Pages skipped so that a run of n pages starting at tail does not wrap.
WrapPadding(tail, n) == IF tail + n > PageCount THEN PageCount - tail ELSE 0
FirstPage(tail, n) == IF WrapPadding(tail, n) # 0 THEN 0 ELSE tail
TailAfter(tail, n) ==
  IF FirstPage(tail, n) + n = PageCount THEN 0 ELSE FirstPage(tail, n) + n

\* The pages a run of n pages takes when it is placed at tail.
RunPages(tail, n) ==
  tail..(tail + WrapPadding(tail, n) - 1)
    \cup FirstPage(tail, n)..(FirstPage(tail, n) + n - 1)

\* The pages an entry holds, its wrap padding included.
EntryPages(e) ==
  (PageCount - e.padding)..(PageCount - 1)
    \cup e.storage.firstPage..(e.storage.firstPage + e.storage.pageCount - 1)

-----------------------------------------------------------------------------
(* Admission: the pressure dimensions and their latch. *)

\* Mutant of CountPressure: the ready high water is overrun by one.
CountPressureLate(kind, resident, compatible, outstanding) ==
  {d \in Dimensions :
     \/ d = "sources" /\ resident >= HighWaterSources
     \/ d = "compatibility" /\ kind = "Legacy"
          /\ compatible >= CompatibilityPayloadCount
     \/ d = "ready" /\ outstanding > HighWaterReady}

CountPressure(kind, resident, compatible, outstanding) ==
  {d \in Dimensions :
     \/ d = "sources" /\ resident >= HighWaterSources
     \/ d = "compatibility" /\ kind = "Legacy"
          /\ compatible >= CompatibilityPayloadCount
     \/ d = "ready" /\ outstanding >= HighWaterReady}

\* The dimensions that refuse a request for n pages.
PressureDimensions(n, kind) ==
  CountPressure(kind, residentCount, compatibilityResident, reservations)
    \cup {d \in {"pages"} :
            occupiedPages + WrapPadding(pageTail, n) + n > HighWaterPages}

\* The dimensions a reservation has just filled.
ReachedDimensions(kind, resident, compatible, outstanding, occupied) ==
  CountPressure(kind, resident, compatible, outstanding)
    \cup {d \in {"pages"} : occupied >= HighWaterPages}

\* Mutant of StillClosed: a release never reopens the ready dimension.
StillClosedReady(resident, compatible, outstanding, occupied) ==
  IF stopped THEN closed
  ELSE closed \ {d \in Dimensions :
         \/ d = "sources" /\ resident <= LowWaterSources
         \/ d = "compatibility" /\ compatible < CompatibilityPayloadCount
         \/ d = "pages" /\ occupied <= LowWaterPages}

\* What refreshAdmissionAfterRelease leaves latched.
StillClosed(resident, compatible, outstanding, occupied) ==
  IF stopped THEN closed
  ELSE closed \ {d \in Dimensions :
         \/ d = "sources" /\ resident <= LowWaterSources
         \/ d = "compatibility" /\ compatible < CompatibilityPayloadCount
         \/ d = "pages" /\ occupied <= LowWaterPages
         \/ d = "ready" /\ outstanding <= LowWaterReady}

\* An Arena source needs no compatibility payload.
ActivePressure(kind) ==
  IF kind = "Arena" THEN closed \ {"compatibility"} ELSE closed

\* The allocator would accept a run of n pages: slot and pages are free.
StorageFree(n) ==
  /\ entries[sourceTail].state = "Free"
  /\ \A p \in RunPages(pageTail, n) : pages[p] = 0

InspectReserve(n, kind) ==
  IF stopped THEN "Stopped"
  ELSE IF ActivePressure(kind) # {} \/ PressureDimensions(n, kind) # {}
       THEN "TemporaryPressure"
  ELSE IF ~ StorageFree(n) THEN "Corrupt"
  ELSE "Ready"

-----------------------------------------------------------------------------
(* Reservation. *)

\* stopAdmission: nothing is admitted any more; what is resident may drain.
StopAdmission ==
  /\ ~ stopped
  /\ stopped' = TRUE
  /\ UNCHANGED <<ringVars, laneVars, readyVars, seqIdHighWater, closed, batch>>

\* probeReserve / probeArenaReserve: a refused probe latches the dimensions
\* that refused it, a disagreement in the allocator stops admission.
ProbeReserve(n, kind) ==
  /\ InspectReserve(n, kind) \in {"TemporaryPressure", "Corrupt"}
  /\ closed' = IF InspectReserve(n, kind) = "TemporaryPressure"
               THEN closed \cup PressureDimensions(n, kind) ELSE closed
  /\ stopped' = (stopped \/ InspectReserve(n, kind) = "Corrupt")
  /\ UNCHANGED <<ringVars, laneVars, readyVars, seqIdHighWater, batch>>

\* The entry of the j-th of k sources, placed at the page tail: an Arena source
\* takes its identity here, a Legacy one when it is published.
NewEntry(kind, s, k, j, n, tail, seqId) ==
  [state |-> "Writing", generation |-> entries[s].generation, kind |-> kind,
   storage |-> [firstPage |-> FirstPage(tail, n), pageCount |-> n,
                generation |-> allocations + j],
   padding |-> WrapPadding(tail, n),
   seqId |-> IF kind = "Arena" THEN seqId + j - 1 ELSE 0,
   group |-> IF kind = "Arena"
             THEN [tail |-> seqId + k - 1, count |-> k, index |-> j - 1]
             ELSE NoGroup,
   reserved |-> TRUE, detach |-> "None", settled |-> FALSE]

\* pageTail_ and occupiedPages_ after each of the sources of page counts ns.
PageTails(ns, tails) ==
  /\ tails[0] = pageTail
  /\ \A j \in 1..Len(ns) : tails[j] = TailAfter(tails[j - 1], ns[j])
PagesOccupied(ns, tails, occupied) ==
  /\ occupied[0] = occupiedPages
  /\ \A j \in 1..Len(ns) :
       occupied[j] = occupied[j - 1] + WrapPadding(tails[j - 1], ns[j]) + ns[j]

\* reserveStorageImpl, once for every source.
PlaceSources(kind, ns, seqId, tails, occupied) ==
  LET k == Len(ns)
      compatible == IF kind = "Legacy" THEN k ELSE 0
      runs(p) == {j \in 1..k : p \in RunPages(tails[j - 1], ns[j])}
  IN
  /\ allocations' = allocations + k
  /\ allocations' <= MaxAllocation
  /\ entries' = [s \in Slots |->
       LET j == Distance(sourceTail, s) + 1
       IN IF j <= k THEN NewEntry(kind, s, k, j, ns[j], tails[j - 1], seqId)
          ELSE entries[s]]
  /\ pages' = [p \in Pages |->
       IF runs(p) # {} THEN allocations + (CHOOSE j \in runs(p) : TRUE)
       ELSE pages[p]]
  /\ pageTail' = tails[k]
  /\ occupiedPages' = occupied[k]
  /\ sourceTail' = SlotAfter(sourceTail, k)
  /\ residentCount' = residentCount + k
  /\ reservations' = reservations + k
  /\ compatibilityResident' = compatibilityResident + compatible
  /\ compatibilityWritingCount' = compatibilityWritingCount + compatible
  /\ closed' = closed \cup
       ReachedDimensions(kind, residentCount + k,
         compatibilityResident + compatible, reservations + k, occupied[k])
  /\ UNCHANGED <<sourceHead, ready, tentative, stopped>>

ReserveStorage(kind, ns, seqId) ==
  \E tails \in [0..Len(ns) -> Pages] :
    /\ PageTails(ns, tails)
    /\ \E occupied \in [0..Len(ns) -> 0..HighWaterPages] :
         /\ PagesOccupied(ns, tails, occupied)
         /\ PlaceSources(kind, ns, seqId, tails, occupied)

\* reserve(pageCount): a compatibility source.
ReserveLegacy(n) ==
  /\ ~ strictWritingActive
  /\ InspectReserve(n, "Legacy") = "Ready"
  /\ ReserveStorage("Legacy", <<n>>, 0)
  /\ UNCHANGED <<strictWritingActive, seqIdHighWater, batch>>

\* Mutant of StrictAdmissionOpen: the last identity may be taken again.
StrictAdmissionReopens(seqId) ==
  /\ compatibilityWritingCount = 0
  /\ ~ strictWritingActive
  /\ seqId >= seqIdHighWater

\* A strict admission may not overlap an open compatibility source, another
\* strict admission, or an identity already consumed.
StrictAdmissionOpen(seqId) ==
  /\ compatibilityWritingCount = 0
  /\ ~ strictWritingActive
  /\ seqId > seqIdHighWater

\* reserve(layout, identity): one Arena source.
ReserveArena(n, seqId) ==
  /\ StrictAdmissionOpen(seqId)
  /\ InspectReserve(n, "Arena") = "Ready"
  /\ ReserveStorage("Arena", <<n>>, seqId)
  /\ strictWritingActive' = TRUE
  /\ seqIdHighWater' = seqId
  /\ UNCHANGED batch

\* reserveArenaBatch: every source of one raw event, or none.
ReserveArenaBatch(ns, seqId) ==
  LET k == Len(ns)
  IN /\ StrictAdmissionOpen(seqId)
     /\ ~ stopped
     /\ ActivePressure("Arena") = {}
     /\ k <= HighWaterSources /\ residentCount <= HighWaterSources - k
     /\ k <= HighWaterReady /\ reservations <= HighWaterReady - k
     /\ \A s \in Slots : Distance(sourceTail, s) < k => entries[s].state = "Free"
     /\ ReserveStorage("Arena", ns, seqId)
     /\ \A p \in Pages : pages'[p] # pages[p] => pages[p] = 0
     /\ strictWritingActive' = TRUE
     /\ seqIdHighWater' = seqId + k - 1
     /\ batch' = [first |-> sourceTail, count |-> k, failStop |-> FALSE,
                  seqIdHighWater |-> seqIdHighWater,
                  sourceTail |-> sourceTail, pageTail |-> pageTail,
                  residentCount |-> residentCount,
                  occupiedPages |-> occupiedPages,
                  readyCount |-> Len(ready), reservations |-> reservations]

-----------------------------------------------------------------------------
(* Publication. *)

\* sealAndPublish of a compatibility source, which takes its identity now.
SealLegacy(s, seqId) ==
  /\ entries[s].state = "Writing" /\ entries[s].kind = "Legacy"
  /\ entries[s].reserved
  /\ seqId > seqIdHighWater
  /\ Len(ready) < ReadyFifoCount
  /\ entries' = [entries EXCEPT ![s].state = "Ready", ![s].seqId = seqId]
  /\ ready' = Append(ready, s)
  /\ compatibilityWritingCount' = compatibilityWritingCount - 1
  /\ seqIdHighWater' = seqId
  /\ UNCHANGED <<pages, sourceHead, sourceTail, residentCount, pageTail,
                 occupiedPages, allocations, compatibilityResident,
                 strictWritingActive, tentative, reservations, closed,
                 stopped, batch>>

\* The slots of the batch under construction, and their order.
BatchSlots == {s \in Slots : Distance(batch.first, s) < batch.count}
BatchSequence == [j \in 1..batch.count |-> SlotAfter(batch.first, j - 1)]

\* Sources S become Ready and are appended to the FIFO in the given order.
PublishStrict(S, order) ==
  /\ strictWritingActive
  /\ \A s \in S : /\ entries[s].state = "Writing" /\ entries[s].kind = "Arena"
                  /\ entries[s].reserved
  /\ Len(ready) + Len(order) <= ReadyFifoCount
  /\ entries' = [s \in Slots |->
       IF s \in S THEN [entries[s] EXCEPT !.state = "Ready"] ELSE entries[s]]
  /\ ready' = ready \o order
  /\ strictWritingActive' = FALSE
  /\ batch' = NoBatch
  /\ UNCHANGED <<pages, sourceHead, sourceTail, residentCount, pageTail,
                 occupiedPages, allocations, compatibilityResident,
                 compatibilityWritingCount, tentative, reservations,
                 seqIdHighWater, closed, stopped>>

\* sealAndPublish of one strict Arena source.
SealArena(s) == batch.count = 0 /\ PublishStrict({s}, <<s>>)

\* sealAndPublishArenaBatch: every source of the event becomes Ready at once.
SealArenaBatch == batch.count > 0 /\ PublishStrict(BatchSlots, BatchSequence)

-----------------------------------------------------------------------------
(* Release of storage, and the aborts of sources never published. *)

\* Sources S leave the ring; the tail positions are what the caller says
\* unless the tape is now empty, when normalizeEmptyAllocator rewinds it.
Release(S, head, tail, newPageTail, occupied) ==
  LET empty == residentCount = Cardinality(S)
  IN /\ entries' = [s \in Slots |->
          IF s \in S THEN FreeEntry(entries[s].generation + 1) ELSE entries[s]]
     /\ pages' = [p \in Pages |->
          IF \E s \in S : p \in EntryPages(entries[s]) THEN 0 ELSE pages[p]]
     /\ sourceHead' = IF empty THEN 0 ELSE head
     /\ sourceTail' = IF empty THEN 0 ELSE tail
     /\ pageTail' = IF empty THEN 0 ELSE newPageTail
     /\ residentCount' = residentCount - Cardinality(S)
     /\ occupiedPages' = occupied
     /\ UNCHANGED allocations

\* Mutant of Footprint: the wrap padding is not given back.
FootprintUnpadded(s) == entries[s].storage.pageCount

Footprint(s) == entries[s].padding + entries[s].storage.pageCount

\* rollbackNewest, once for each of the k newest sources: the page tail moves
\* back to where it was before the oldest of them, o, was placed.
RollbackNewest(o, k) ==
  \E occupied \in [0..k -> 0..PageCount] :
    /\ occupied[0] = occupiedPages
    /\ \A j \in 1..k :
         occupied[j] = occupied[j - 1] - Footprint(SlotAfter(o, k - j))
    /\ Release({s \in Slots : Distance(o, s) < k}, sourceHead, o,
         (entries[o].storage.firstPage + PageCount - entries[o].padding)
            % PageCount, occupied[k])

\* abort: the writing compatibility source turned out to be empty.
AbortLegacy(s) ==
  /\ entries[s].state = "Writing" /\ entries[s].kind = "Legacy"
  /\ entries[s].reserved
  /\ s = PreviousSlot(sourceTail)
  /\ reservations' = reservations - 1
  /\ compatibilityResident' = compatibilityResident - 1
  /\ compatibilityWritingCount' = compatibilityWritingCount - 1
  /\ RollbackNewest(s, 1)
  /\ closed' = StillClosed(residentCount', compatibilityResident',
                           reservations', occupiedPages')
  /\ UNCHANGED <<strictWritingActive, ready, tentative, seqIdHighWater,
                 stopped, batch>>

\* beginArenaAbort for every source of S: owners are detached under the lock.
DetachForAbort(S) ==
  /\ \A s \in S : /\ entries[s].state = "Writing" /\ entries[s].kind = "Arena"
                  /\ entries[s].reserved /\ entries[s].detach = "None"
  /\ entries' = [s \in Slots |->
       IF s \in S
       THEN [entries[s] EXCEPT !.state = "Reclaiming", !.detach = "Abort"]
       ELSE entries[s]]
  /\ reservations' = reservations - Cardinality(S)
  /\ UNCHANGED <<pages, sourceHead, sourceTail, residentCount, pageTail,
                 occupiedPages, allocations, laneVars, ready, tentative,
                 seqIdHighWater, closed>>

\* finishArenaAbort for the k newest sources, o the oldest of them: the owners
\* have been destroyed outside the lock.
FinishAbort(o, k) ==
  /\ SlotAfter(o, k) = sourceTail
  /\ \A s \in Slots : Distance(o, s) < k =>
       entries[s].state = "Reclaiming" /\ entries[s].detach = "Abort"
  /\ RollbackNewest(o, k)
  /\ strictWritingActive' = FALSE
  /\ closed' = StillClosed(residentCount', compatibilityResident, reservations,
                           occupiedPages')
  /\ UNCHANGED <<compatibilityResident, compatibilityWritingCount, ready,
                 tentative, reservations>>

\* abortCpuReadyArenaSource: the abort of a single source stops the tape.
AbortArenaDetach(s) ==
  /\ batch.count = 0
  /\ s = PreviousSlot(sourceTail)
  /\ DetachForAbort({s})
  /\ stopped' = TRUE
  /\ UNCHANGED batch
AbortArenaFinish(s) ==
  /\ batch.count = 0
  /\ FinishAbort(s, 1)
  /\ UNCHANGED <<seqIdHighWater, stopped, batch>>

\* abortCpuReadyArenaBatch, first hold: detach, newest source first.
AbortBatchDetach(failStop) ==
  /\ batch.count > 0
  /\ DetachForAbort(BatchSlots)
  /\ stopped' = (stopped \/ failStop)
  /\ batch' = [batch EXCEPT !.failStop = failStop]

\* restoreArenaBatchHighWaters accepts only a tape that is, after the
\* rollback, where it was when the batch was reserved.
TapeAsBeforeBatch ==
  /\ sourceTail' = batch.sourceTail
  /\ pageTail' = batch.pageTail
  /\ residentCount' = batch.residentCount
  /\ occupiedPages' = batch.occupiedPages
  /\ Len(ready) = batch.readyCount
  /\ reservations = batch.reservations

\* abortCpuReadyArenaBatch, second hold: roll the batch back and return its
\* identities; if the tape has moved meanwhile, stop it instead.
AbortBatchFinish ==
  /\ batch.count > 0
  /\ FinishAbort(batch.first, batch.count)
  /\ \/ /\ ~ batch.failStop /\ TapeAsBeforeBatch
        /\ seqIdHighWater' = batch.seqIdHighWater
        /\ UNCHANGED stopped
     \/ /\ ~ batch.failStop /\ ~ TapeAsBeforeBatch
        /\ stopped' = TRUE
        /\ UNCHANGED seqIdHighWater
     \/ /\ batch.failStop
        /\ UNCHANGED <<seqIdHighWater, stopped>>
  /\ batch' = NoBatch

-----------------------------------------------------------------------------
(* Representation: the encode thread takes a prefix of the ready FIFO. *)

SetStates(S, state) ==
  entries' = [s \in Slots |->
    IF s \in S THEN [entries[s] EXCEPT !.state = state] ELSE entries[s]]

Members(seq) == {seq[i] : i \in DOMAIN seq}

entriesOnly == <<pages, sourceHead, sourceTail, residentCount, pageTail,
                 occupiedPages, allocations, laneVars, seqIdHighWater, batch>>

\* reserveReadyPrefixForRepresentation: at most one prefix is tentative.
ReserveReadyPrefix(k) ==
  /\ k \in 1..Len(ready)
  /\ tentative = <<>>
  /\ \A i \in 1..k : entries[ready[i]].state = "Ready" /\ entries[ready[i]].reserved
  /\ SetStates({ready[i] : i \in 1..k}, "TentativeRepresented")
  /\ tentative' = SubSeq(ready, 1, k)
  /\ ready' = SubSeq(ready, k + 1, Len(ready))
  /\ UNCHANGED <<entriesOnly, reservations, closed, stopped>>

TentativeValid ==
  /\ tentative # <<>>
  /\ \A i \in DOMAIN tentative :
       /\ entries[tentative[i]].state = "TentativeRepresented"
       /\ entries[tentative[i]].reserved

\* commitReservedReadyPrefix: the publication credits are returned.
CommitReadyPrefix ==
  /\ TentativeValid
  /\ entries' = [s \in Slots |->
       IF s \in Members(tentative)
       THEN [entries[s] EXCEPT !.state = "Represented", !.reserved = FALSE]
       ELSE entries[s]]
  /\ reservations' = reservations - Len(tentative)
  /\ tentative' = <<>>
  /\ closed' = StillClosed(residentCount, compatibilityResident, reservations',
                           occupiedPages)
  /\ UNCHANGED <<entriesOnly, ready, stopped>>

\* Mutant of RestoreReadyPrefix: the prefix is put back behind the younger
\* publications.
RestoreAtTail ==
  /\ TentativeValid
  /\ Len(ready) + Len(tentative) <= ReadyFifoCount
  /\ SetStates(Members(tentative), "Ready")
  /\ ready' = ready \o tentative
  /\ tentative' = <<>>
  /\ UNCHANGED <<entriesOnly, reservations, closed, stopped>>

\* restoreReservedReadyPrefix: back in front of every younger publication.
RestoreReadyPrefix ==
  /\ TentativeValid
  /\ Len(ready) + Len(tentative) <= ReadyFifoCount
  /\ SetStates(Members(tentative), "Ready")
  /\ ready' = tentative \o ready
  /\ tentative' = <<>>
  /\ UNCHANGED <<entriesOnly, reservations, closed, stopped>>

-----------------------------------------------------------------------------
(* Submission, completion and reclaim. *)

\* transitionAll: all the sources of one command buffer, or none.
TransitionAll(S, before, after) ==
  /\ S # {}
  /\ \A s \in S : entries[s].state = before
  /\ SetStates(S, after)
  /\ UNCHANGED <<entriesOnly, readyVars, closed, stopped>>
SubmitSources(S) == TransitionAll(S, "Represented", "Submitted")
CompleteAll(S) == TransitionAll(S, "Submitted", "Completed")

\* completeInline: the encode thread completes a source that produced no
\* command buffer.
CompleteInline(s) == TransitionAll({s}, "Represented", "Completed")

\* The resident sources of s's group: a reclaimed member has left the ring.
GroupMembers(s) ==
  {m \in Slots : /\ entries[m].group.tail = entries[s].group.tail
                 /\ entries[m].group.count = entries[s].group.count}

\* groupCompletionStatus: only a prefix of the group may be missing.
GroupCompletionStatus(s) ==
  LET count == entries[s].group.count
      present == {entries[m].group.index : m \in GroupMembers(s)}
  IN IF count <= 1 THEN "Complete"
     ELSE IF \/ Cardinality(present) # Cardinality(GroupMembers(s))
             \/ \E m \in GroupMembers(s) : entries[m].state \in {"Free", "Writing"}
             \/ \E i \in present : \E j \in i..(count - 1) : j \notin present
          THEN "Invalid"
     ELSE IF \A m \in GroupMembers(s) :
               entries[m].state \in {"Completed", "Reclaiming"}
          THEN "Complete" ELSE "Pending"

\* takeCompletedArenaGroupSettlement: the tail of a completed group reports it.
TakeGroupSettlement(s) ==
  /\ entries[s].state = "Completed" /\ entries[s].kind = "Arena"
  /\ entries[s].seqId = entries[s].group.tail
  /\ ~ entries[s].settled
  /\ GroupCompletionStatus(s) = "Complete"
  /\ entries' = [entries EXCEPT ![s].settled = TRUE]
  /\ UNCHANGED <<entriesOnly, readyVars, closed, stopped>>

\* Mutant of Reclaimable: a member does not wait for its group.
ReclaimableAlone(s) ==
  /\ entries[s].state = "Completed"
  /\ ~ entries[s].reserved /\ entries[s].detach = "None"

\* reclaimStatus(s) is Ready.
Reclaimable(s) ==
  /\ entries[s].state = "Completed"
  /\ ~ entries[s].reserved /\ entries[s].detach = "None"
  /\ entries[s].kind = "Arena" => GroupCompletionStatus(s) = "Complete"

\* An owner leaves the entry, to be destroyed outside the lock.
BeginRelease(s) ==
  /\ entries' = [entries EXCEPT
       ![s].state = "Reclaiming",
       ![s].detach = IF entries[s].kind = "Arena" THEN "Reclaim" ELSE "None"]
  /\ UNCHANGED <<entriesOnly, readyVars, closed, stopped>>

\* beginReclaim and, for an Arena source, detachReclaimingArenaOwner.
BeginReclaim(s) ==
  /\ s = sourceHead
  /\ Reclaimable(s)
  /\ BeginRelease(s)

\* beginPostEncodeLegacyRetire / beginPostEncodeArenaRetire: the oldest source
\* gives its storage back once encoded, unless it belongs to a group.
BeginPostEncodeRetire(s) ==
  /\ s = sourceHead
  /\ entries[s].state = "Represented"
  /\ entries[s].group.count <= 1
  /\ ~ entries[s].reserved /\ entries[s].detach = "None"
  /\ BeginRelease(s)

\* finishReclaim / finishArenaReclaim: releaseOldest.
FinishReclaim(s) ==
  /\ s = sourceHead
  /\ entries[s].state = "Reclaiming"
  /\ entries[s].detach = IF entries[s].kind = "Arena" THEN "Reclaim" ELSE "None"
  /\ compatibilityResident' =
       compatibilityResident - (IF entries[s].kind = "Legacy" THEN 1 ELSE 0)
  /\ Release({s}, SlotAfter(s, 1), sourceTail, pageTail,
             occupiedPages - Footprint(s))
  /\ closed' = StillClosed(residentCount', compatibilityResident', reservations,
                           occupiedPages')
  /\ UNCHANGED <<compatibilityWritingCount, strictWritingActive, readyVars,
                 seqIdHighWater, stopped, batch>>

-----------------------------------------------------------------------------
SeqIds == 1..MaxSeqId
PageRuns == 1..MaxPagesPerSource

Produce ==
  \/ \E n \in PageRuns :
       \/ ReserveLegacy(n)
       \/ \E kind \in Kinds : ProbeReserve(n, kind)
       \/ \E q \in SeqIds : ReserveArena(n, q)
  \/ \E k \in 1..MaxArenaBatchSources : \E ns \in [1..k -> PageRuns] :
       \E q \in 1..(MaxSeqId + 1 - k) : ReserveArenaBatch(ns, q)
  \/ \E s \in Slots :
       \/ \E q \in SeqIds : SealLegacy(s, q)
       \/ SealArena(s) \/ AbortLegacy(s)
       \/ AbortArenaDetach(s) \/ AbortArenaFinish(s)
  \/ SealArenaBatch
  \/ \E failStop \in BOOLEAN : AbortBatchDetach(failStop)
  \/ AbortBatchFinish

Encode ==
  \/ \E k \in 1..ReadyFifoCount : ReserveReadyPrefix(k)
  \/ CommitReadyPrefix
  \/ RestoreReadyPrefix
  \/ \E S \in SUBSET Slots : SubmitSources(S)
  \/ \E s \in Slots : BeginPostEncodeRetire(s) \/ CompleteInline(s)

Finish ==
  \/ \E S \in SUBSET Slots : CompleteAll(S)
  \/ \E s \in Slots : TakeGroupSettlement(s) \/ BeginReclaim(s) \/ FinishReclaim(s)

Next == Produce \/ Encode \/ Finish \/ StopAdmission

Spec == Init /\ [][Next]_tapeVars

-----------------------------------------------------------------------------
(* Properties. *)

EntryType ==
  [state : States, generation : Nat, kind : Kinds,
   storage : [firstPage : Pages, pageCount : 0..MaxPagesPerSource,
              generation : Nat],
   padding : 0..PageCount, seqId : Nat,
   group : [tail : Nat, count : Nat, index : Nat],
   reserved : BOOLEAN, detach : {"None", "Abort", "Reclaim"},
   settled : BOOLEAN]

BatchType ==
  [first : Slots, count : 0..SourceSlotCount, failStop : BOOLEAN, seqIdHighWater : Nat,
   sourceTail : Slots, pageTail : Pages, residentCount : Int,
   occupiedPages : Int, readyCount : Nat, reservations : Int]

\* Type invariant of the tape.
TypeOK ==
  /\ entries \in [Slots -> EntryType]
  /\ pages \in [Pages -> Nat]
  /\ sourceHead \in Slots /\ sourceTail \in Slots
  /\ pageTail \in Pages
  /\ residentCount \in Int /\ occupiedPages \in Int /\ reservations \in Int
  /\ compatibilityResident \in Int /\ compatibilityWritingCount \in Int
  /\ strictWritingActive \in BOOLEAN /\ stopped \in BOOLEAN
  /\ ready \in Seq(Slots) /\ tentative \in Seq(Slots)
  /\ seqIdHighWater \in Nat /\ allocations \in Nat
  /\ closed \subseteq Dimensions
  /\ batch \in BatchType

Resident == {s \in Slots : entries[s].state # "Free"}
\* The allocator never disagrees with its own accounting: a request the
\* capacity checks admit finds its slot and its pages free, so inspectReserve
\* never reports Corrupt and admission is never stopped for that reason.
AllocatorNeverCorrupt ==
  \A n \in PageRuns, kind \in Kinds : InspectReserve(n, kind) # "Corrupt"

\* Page ownership is exact: the pages of resident sources (wrap padding
\* included) are marked with their run, no page has two owners, every other
\* page is free, and the counters agree with the ring, so the allocator never
\* finds itself corrupt.  A stale storage reference therefore cannot validate
\* against another source's pages.
PagesExact ==
  /\ AllocatorNeverCorrupt
  /\ \A s \in Resident : \A p \in EntryPages(entries[s]) :
       pages[p] = entries[s].storage.generation
  /\ \A s, t \in Resident : s # t =>
       EntryPages(entries[s]) \cap EntryPages(entries[t]) = {}
  /\ \A p \in Pages : pages[p] # 0 =>
       \E s \in Resident : p \in EntryPages(entries[s])
  /\ occupiedPages = Cardinality({p \in Pages : pages[p] # 0})
  /\ residentCount = Cardinality(Resident)
  /\ compatibilityResident =
       Cardinality({s \in Resident : entries[s].kind = "Legacy"})

\* The sources that hold a publication credit.
Credited == {s \in Slots : entries[s].reserved /\ entries[s].detach # "Abort"}

\* A reserved source can always be published and a tentative prefix can always
\* be restored: the credits cover every source that is being written, queued
\* or tentative, and never exceed the ready high water, so sealAndPublish
\* never meets ReadyQueueFull and restoreReservedReadyPrefix never overflows.
PublicationNeverRefused ==
  /\ reservations = Cardinality(Credited)
  /\ Len(ready) + Len(tentative)
       + Cardinality({s \in Credited : entries[s].state = "Writing"}) = reservations
  /\ reservations <= HighWaterReady

\* Sources leave the ready FIFO in sequence order: a tentative prefix stays in
\* front of the younger publications, also after it was restored, and every
\* source that has already been represented is older than all of them.
PublicationOrder ==
  LET queue == tentative \o ready
  IN /\ \A i, j \in DOMAIN queue :
          i < j => entries[queue[i]].seqId < entries[queue[j]].seqId
     /\ \A i \in DOMAIN queue : \A s \in Resident :
          entries[s].state \in {"Represented", "Submitted", "Completed"} =>
            entries[s].seqId < entries[queue[i]].seqId

\* No two resident sources share a sequence number and none is above the high
\* water, even after an aborted batch has returned its numbers for reuse.
IdentityUnique ==
  /\ \A s \in Resident : entries[s].seqId <= seqIdHighWater
  /\ \A s, t \in Resident :
       s # t /\ entries[s].seqId # 0 => entries[s].seqId # entries[t].seqId

\* While a strict admission is open it is alone: no compatibility source can
\* publish and take a number inside its range, so everything resident outside
\* the batch is older than it, and a rolled-back batch can return its numbers.
LegacyWriters ==
  {s \in Slots : entries[s].state = "Writing" /\ entries[s].kind = "Legacy"}
StrictAdmissionAlone ==
  /\ compatibilityWritingCount = Cardinality(LegacyWriters)
  /\ strictWritingActive => LegacyWriters = {}
  /\ batch.count > 0 =>
       /\ strictWritingActive
       /\ \A s \in Resident \ BatchSlots : entries[s].seqId <= batch.seqIdHighWater

\* A source of a group gives its storage back only when the whole group is
\* complete: once one member has left the ring no other still waits.
GroupLeavesTogether ==
  \A s \in Resident :
    entries[s].group.count > Cardinality(GroupMembers(s)) =>
      \A m \in GroupMembers(s) : entries[m].state \in {"Completed", "Reclaiming"}

\* An empty tape that is not stopped admits: no pressure dimension is left
\* latched when there is nothing left whose release could reopen it.
EmptyTapeAdmits == residentCount = 0 /\ ~ stopped => closed = {}
=============================================================================

------------------------ MODULE CpuReadyTapeProofs ------------------------
(***************************************************************************)
(* Proofs about CpuReadyTape, for every configuration that                 *)
(* CpuReadyTapeConfig::create accepts: the identities, the queues and the  *)
(* groups, then the storage, whose pages are owned exactly, whose counters *)
(* agree with the ring, and which admits when it is empty.                 *)
(*                                                                         *)
(* The argument about the storage is geometric.  The resident sources are  *)
(* one arc of the source ring, and their runs, wrap padding included,      *)
(* follow each other on one arc of the page ring.  A reservation extends   *)
(* both arcs at the tail, a rollback takes the newest sources off the      *)
(* tail, a reclaim takes the oldest off the head.  Where an induction      *)
(* along the arc would be used, the proofs look at the least place where   *)
(* the claim fails.                                                        *)
(***************************************************************************)
EXTENDS CpuReadyTape, FiniteSetTheorems, WellFoundedInduction, TLAPS

-----------------------------------------------------------------------------
(* Facts about the ring and the page arithmetic. *)

\* Ring indices stay inside the ring.
LEMMA SlotAfterType ==
  ASSUME NEW s \in Slots, NEW k \in 0..SourceSlotCount
  PROVE  SlotAfter(s, k) \in Slots
BY ConfigValid DEF SlotAfter, Slots

\* Every set of slots is finite, so its cardinality is a number.
LEMMA SlotSets ==
  ASSUME NEW S \in SUBSET Slots
  PROVE  IsFiniteSet(S) /\ Cardinality(S) \in Nat
<1>1. IsFiniteSet(Slots)
  BY ConfigValid, FS_Interval DEF Slots
<1>2. IsFiniteSet(S)
  BY <1>1, FS_Subset
<1> QED
  BY <1>2, FS_CardinalityType

\* A run is placed inside the arena, and its padding is at most the arena.
LEMMA PlacementType ==
  ASSUME NEW t \in Pages, NEW n \in PageRuns
  PROVE  /\ FirstPage(t, n) \in Pages
         /\ WrapPadding(t, n) \in 0..PageCount
BY ConfigValid DEF FirstPage, WrapPadding, Pages, PageRuns

\* A page sequence of a batch is a sequence.
LEMMA RunsAreSequences ==
  ASSUME NEW k \in Nat, NEW ns \in [1..k -> PageRuns]
  PROVE  ns \in Seq(PageRuns) /\ Len(ns) = k
OBVIOUS

\* The rollback of the page tail stays inside the arena.
LEMMA RollbackTailType ==
  ASSUME NEW f \in Pages, NEW d \in 0..PageCount
  PROVE  (f + PageCount - d) % PageCount \in Pages
<1>1. f + PageCount - d \in Int /\ PageCount \in Int /\ PageCount > 0
  BY ConfigValid DEF Pages
<1> QED
  BY <1>1, ConfigValid DEF Pages

-----------------------------------------------------------------------------
(* Type correctness.  One lemma per shared step, then one case per action. *)

\* reserveStorageImpl: what a reservation writes has its type.
LEMMA ReserveStorageType ==
  ASSUME TypeOK, NEW kind \in Kinds, NEW ns \in Seq(PageRuns),
         Len(ns) \in 1..SourceSlotCount, NEW q \in Nat,
         ReserveStorage(kind, ns, q)
  PROVE  /\ entries' \in [Slots -> EntryType]
         /\ pages' \in [Pages -> Nat]
         /\ pageTail' \in Pages /\ sourceTail' \in Slots
         /\ occupiedPages' \in Int /\ residentCount' \in Int
         /\ reservations' \in Int /\ allocations' \in Nat
         /\ compatibilityResident' \in Int
         /\ compatibilityWritingCount' \in Int
         /\ closed' \subseteq Dimensions
         /\ UNCHANGED <<sourceHead, ready, tentative, stopped>>
<1> DEFINE k == Len(ns)
<1>1. PICK tails \in [0..k -> Pages], occupied \in [0..k -> 0..HighWaterPages] :
        PlaceSources(kind, ns, q, tails, occupied)
  BY DEF ReserveStorage
<1>2. k \in Nat /\ k \in 1..SourceSlotCount /\ q \in Nat /\ allocations \in Nat
  BY DEF TypeOK
<1>3. ASSUME NEW s \in Slots
      PROVE  Distance(sourceTail, s) \in Nat
  BY ConfigValid DEF TypeOK, Distance, Slots
<1>4. ASSUME NEW s \in Slots, Distance(sourceTail, s) + 1 <= k
      PROVE  entries'[s] \in EntryType
  <2> DEFINE j == Distance(sourceTail, s) + 1
  <2>1. j \in 1..k
    BY <1>2, <1>3, <1>4
  <2>2. entries'[s] = NewEntry(kind, s, k, j, ns[j], tails[j - 1], q)
    BY <1>1, <1>4 DEF PlaceSources
  <2> HIDE DEF j
  <2>3. tails[j - 1] \in Pages /\ ns[j] \in PageRuns
    BY <1>2, <2>1
  <2>4. /\ FirstPage(tails[j - 1], ns[j]) \in Pages
        /\ WrapPadding(tails[j - 1], ns[j]) \in 0..PageCount
    BY <2>3, PlacementType
  <2>5. ns[j] \in 0..MaxPagesPerSource
    BY <2>3, ConfigValid DEF PageRuns
  <2>6. entries[s].generation \in Nat
    BY DEF TypeOK, EntryType
  <2> QED
    BY <1>2, <2>1, <2>2, <2>4, <2>5, <2>6
    DEF NewEntry, EntryType, NoGroup, States, Kinds
<1>5. entries' \in [Slots -> EntryType]
  BY <1>1, <1>3, <1>4 DEF PlaceSources, TypeOK
<1>6. pages' \in [Pages -> Nat]
  <2> DEFINE runs(p) == {j \in 1..k : p \in RunPages(tails[j - 1], ns[j])}
             run(p) == CHOOSE j \in runs(p) : TRUE
  <2>1. ASSUME NEW p \in Pages, runs(p) # {}
        PROVE  allocations + run(p) \in Nat
    <3> HIDE DEF runs
    <3>1. run(p) \in runs(p)
      BY <2>1
    <3>2. run(p) \in 1..k
      BY <3>1 DEF runs
    <3> QED
      BY <1>2, <3>2
  <2>2. pages' = [p \in Pages |->
          IF runs(p) # {} THEN allocations + run(p) ELSE pages[p]]
    BY <1>1 DEF PlaceSources
  <2> HIDE DEF runs, run
  <2> QED
    BY <2>1, <2>2 DEF TypeOK
<1>7. pageTail' \in Pages /\ occupiedPages' \in Int
  BY <1>1, <1>2, ConfigValid DEF PlaceSources
<1>8. sourceTail' \in Slots
  BY <1>1, <1>2, SlotAfterType, ConfigValid DEF PlaceSources, TypeOK
<1>9. /\ residentCount' \in Int /\ reservations' \in Int
      /\ allocations' \in Nat /\ compatibilityResident' \in Int
      /\ compatibilityWritingCount' \in Int
      /\ UNCHANGED <<sourceHead, ready, tentative, stopped>>
  BY <1>1, <1>2 DEF PlaceSources, TypeOK
<1>10. closed' \subseteq Dimensions
  BY <1>1 DEF PlaceSources, TypeOK, ReachedDimensions, CountPressure, Dimensions
<1> QED
  BY <1>5, <1>6, <1>7, <1>8, <1>9, <1>10
\* A freed entry has its type.
LEMMA FreeEntryType ==
  ASSUME NEW g \in Nat
  PROVE  FreeEntry(g) \in EntryType
BY ConfigValid DEF FreeEntry, EntryType, NoStorage, NoGroup, States, Kinds, Pages

\* releaseOldest / rollbackNewest: what a release writes has its type.
LEMMA ReleaseType ==
  ASSUME TypeOK, NEW S \in SUBSET Slots, NEW h \in Slots, NEW t \in Slots,
         NEW pt \in Pages, NEW o \in Int, Release(S, h, t, pt, o)
  PROVE  /\ entries' \in [Slots -> EntryType]
         /\ pages' \in [Pages -> Nat]
         /\ sourceHead' \in Slots /\ sourceTail' \in Slots
         /\ pageTail' \in Pages
         /\ residentCount' \in Int /\ occupiedPages' \in Int
         /\ allocations' \in Nat
<1>1. Cardinality(S) \in Nat
  BY SlotSets
<1>2. ASSUME NEW s \in Slots
      PROVE  entries'[s] \in EntryType
  <2>1. entries[s] \in EntryType
    BY DEF TypeOK
  <2>2. entries[s].generation + 1 \in Nat
    BY <2>1 DEF EntryType
  <2>3. FreeEntry(entries[s].generation + 1) \in EntryType
    BY <2>2, FreeEntryType
  <2> QED
    BY <2>1, <2>3 DEF Release
<1>3. entries' \in [Slots -> EntryType]
  BY <1>2 DEF Release
<1>4. pages' \in [Pages -> Nat]
  BY DEF Release, TypeOK
<1>5. 0 \in Slots /\ 0 \in Pages
  BY ConfigValid DEF Slots, Pages
<1> QED
  BY <1>1, <1>3, <1>4, <1>5 DEF Release, TypeOK

\* rollbackNewest of the k newest sources is a release of slots of the ring.
LEMMA RollbackType ==
  ASSUME TypeOK, NEW o \in Slots, NEW k \in 1..SourceSlotCount,
         RollbackNewest(o, k)
  PROVE  /\ entries' \in [Slots -> EntryType]
         /\ pages' \in [Pages -> Nat]
         /\ sourceHead' \in Slots /\ sourceTail' \in Slots
         /\ pageTail' \in Pages
         /\ residentCount' \in Int /\ occupiedPages' \in Int
         /\ allocations' \in Nat
<1> DEFINE S == {s \in Slots : Distance(o, s) < k}
           pt == (entries[o].storage.firstPage + PageCount - entries[o].padding)
                   % PageCount
<1>1. PICK occupied \in [0..k -> 0..PageCount] : Release(S, sourceHead, o, pt, occupied[k])
  BY DEF RollbackNewest
<1>2. entries[o].storage.firstPage \in Pages /\ entries[o].padding \in 0..PageCount
  BY DEF TypeOK, EntryType
<1>3. pt \in Pages
  BY <1>2, RollbackTailType
<1>4. occupied[k] \in Int /\ sourceHead \in Slots /\ S \in SUBSET Slots
  BY ConfigValid DEF TypeOK
<1> HIDE DEF S, pt
<1> QED
  BY <1>1, <1>3, <1>4, ReleaseType

\* Admission is only ever reopened by a release.
LEMMA StillClosedType ==
  ASSUME TypeOK, NEW a, NEW b, NEW c, NEW d
  PROVE  StillClosed(a, b, c, d) \subseteq Dimensions
BY DEF TypeOK, StillClosed
\* Assigning a field of an entry keeps its type.
LEMMA EntryUpdate ==
  ASSUME NEW e \in EntryType, NEW state \in States, NEW q \in Nat,
         NEW d \in {"None", "Abort", "Reclaim"}, NEW b \in BOOLEAN
  PROVE  /\ [e EXCEPT !.state = state] \in EntryType
         /\ [e EXCEPT !.seqId = q] \in EntryType
         /\ [e EXCEPT !.detach = d] \in EntryType
         /\ [e EXCEPT !.reserved = b] \in EntryType
         /\ [e EXCEPT !.settled = b] \in EntryType
BY DEF EntryType

\* The same, for one entry of the ring at a time.
LEMMA EntriesUpdate ==
  ASSUME TypeOK, NEW s \in Slots
  PROVE  /\ entries[s] \in EntryType
         /\ \A state \in States : [entries[s] EXCEPT !.state = state] \in EntryType
         /\ \A state \in States, q \in Nat :
              [entries[s] EXCEPT !.state = state, !.seqId = q] \in EntryType
         /\ \A state \in States, d \in {"None", "Abort", "Reclaim"} :
              [entries[s] EXCEPT !.state = state, !.detach = d] \in EntryType
         /\ \A state \in States, b \in BOOLEAN :
              [entries[s] EXCEPT !.state = state, !.reserved = b] \in EntryType
         /\ \A b \in BOOLEAN : [entries[s] EXCEPT !.settled = b] \in EntryType
<1>1. entries[s] \in EntryType
  BY DEF TypeOK
<1>2. 0 \in Nat /\ "None" \in {"None", "Abort", "Reclaim"} /\ TRUE \in BOOLEAN
      /\ "Free" \in States
  BY DEF States
<1> QED
  BY <1>1, <1>2, EntryUpdate

\* What such an assignment leaves in the entry.
LEMMA EntryFields ==
  ASSUME NEW e \in EntryType, NEW state, NEW x
  PROVE  /\ [e EXCEPT !.state = state, !.detach = x].state = state
         /\ [e EXCEPT !.state = state, !.detach = x].seqId = e.seqId
         /\ [e EXCEPT !.state = state, !.reserved = x].state = state
         /\ [e EXCEPT !.state = state, !.reserved = x].seqId = e.seqId
BY DEF EntryType

\* Assigning one state to a set of entries keeps their type.
LEMMA SetStatesType ==
  ASSUME TypeOK, NEW S \in SUBSET Slots, NEW state \in States,
         SetStates(S, state)
  PROVE  entries' \in [Slots -> EntryType]
BY EntriesUpdate DEF SetStates

\* Every step of the tape preserves its type invariant: one case per action.
LEMMA TypeStep == TypeOK /\ [Next]_tapeVars => TypeOK'
<1> SUFFICES ASSUME TypeOK, [Next]_tapeVars PROVE TypeOK'
  OBVIOUS
<1>1. ASSUME NEW n \in PageRuns, ReserveLegacy(n)
      PROVE  TypeOK'
  <2>1. "Legacy" \in Kinds /\ <<n>> \in Seq(PageRuns) /\ Len(<<n>>) = 1
    BY DEF Kinds
  <2>2. Len(<<n>>) \in 1..SourceSlotCount /\ 0 \in Nat
    BY <2>1, ConfigValid
  <2> QED
    BY <1>1, <2>1, <2>2, ReserveStorageType DEF ReserveLegacy, TypeOK
<1>2. ASSUME NEW n \in PageRuns, NEW kind \in Kinds, ProbeReserve(n, kind)
      PROVE  TypeOK'
  BY <1>2 DEF ProbeReserve, TypeOK, PressureDimensions, CountPressure,
     Dimensions, ringVars, laneVars, readyVars
<1>3. ASSUME NEW n \in PageRuns, NEW q \in SeqIds, ReserveArena(n, q)
      PROVE  TypeOK'
  <2>1. "Arena" \in Kinds /\ <<n>> \in Seq(PageRuns) /\ Len(<<n>>) = 1
    BY DEF Kinds
  <2>2. Len(<<n>>) \in 1..SourceSlotCount /\ q \in Nat
    BY <2>1, ConfigValid DEF SeqIds
  <2> QED
    BY <1>3, <2>1, <2>2, ReserveStorageType DEF ReserveArena, TypeOK
<1>4. ASSUME NEW k \in 1..MaxArenaBatchSources, NEW ns \in [1..k -> PageRuns],
             NEW q \in 1..(MaxSeqId + 1 - k), ReserveArenaBatch(ns, q)
      PROVE  TypeOK'
  <2>1. k \in Nat /\ q \in Nat /\ "Arena" \in Kinds
    BY ConfigValid DEF Kinds
  <2>2. ns \in Seq(PageRuns) /\ Len(ns) = k
    BY <2>1, RunsAreSequences
  <2>3. Len(ns) \in 1..SourceSlotCount
    BY <1>4, <2>1, <2>2, ConfigValid DEF ReserveArenaBatch
  <2>4. batch' \in BatchType
    BY <1>4, <2>1, <2>2, <2>3 DEF ReserveArenaBatch, BatchType, TypeOK
  <2>5. seqIdHighWater' \in Nat /\ strictWritingActive' \in BOOLEAN
    BY <1>4, <2>1, <2>2 DEF ReserveArenaBatch
  <2>6. ReserveStorage("Arena", ns, q)
    BY <1>4 DEF ReserveArenaBatch
  <2> QED
    BY <2>1, <2>2, <2>3, <2>4, <2>5, <2>6, ReserveStorageType DEF TypeOK
<1>5. ASSUME NEW s \in Slots, NEW q \in SeqIds, SealLegacy(s, q)
      PROVE  TypeOK'
  <2>1. q \in Nat
    BY ConfigValid DEF SeqIds
  <2>2. entries' \in [Slots -> EntryType]
    BY <1>5, <2>1, EntriesUpdate DEF SealLegacy, TypeOK, States
  <2>3. ready' \in Seq(Slots)
    BY <1>5 DEF SealLegacy, TypeOK
  <2> QED
    BY <1>5, <2>1, <2>2, <2>3 DEF SealLegacy, TypeOK
<1>6. ASSUME NEW S \in SUBSET Slots, NEW order \in Seq(Slots),
             PublishStrict(S, order)
      PROVE  TypeOK'
  <2>1. entries' \in [Slots -> EntryType]
    BY <1>6, EntriesUpdate DEF PublishStrict, States
  <2>2. ready' \in Seq(Slots)
    BY <1>6 DEF PublishStrict, TypeOK
  <2>3. NoBatch \in BatchType
    BY ConfigValid DEF NoBatch, BatchType, Slots, Pages
  <2> QED
    BY <1>6, <2>1, <2>2, <2>3 DEF PublishStrict, TypeOK
<1>7. ASSUME NEW s \in Slots, SealArena(s)
      PROVE  TypeOK'
  <2>1. {s} \in SUBSET Slots /\ <<s>> \in Seq(Slots)
    OBVIOUS
  <2> QED
    BY <1>6, <1>7, <2>1 DEF SealArena
<1>8. ASSUME SealArenaBatch
      PROVE  TypeOK'
  <2>1. batch.first \in Slots /\ batch.count \in 0..SourceSlotCount
    BY DEF TypeOK, BatchType
  <2>2. \A j \in 1..batch.count : SlotAfter(batch.first, j - 1) \in Slots
    BY <2>1, SlotAfterType, ConfigValid
  <2>3. BatchSequence \in Seq(Slots)
    BY <2>1, <2>2, ConfigValid DEF BatchSequence
  <2>4. BatchSlots \in SUBSET Slots
    BY DEF BatchSlots
  <2> QED
    BY <1>6, <1>8, <2>3, <2>4 DEF SealArenaBatch
<1>9. ASSUME NEW s \in Slots, AbortLegacy(s)
      PROVE  TypeOK'
  <2>1. 1 \in 1..SourceSlotCount /\ RollbackNewest(s, 1)
    BY <1>9, ConfigValid DEF AbortLegacy
  <2>2. closed' \subseteq Dimensions
    BY <1>9, StillClosedType DEF AbortLegacy
  <2> QED
    BY <1>9, <2>1, <2>2, RollbackType DEF AbortLegacy, TypeOK
<1>10. ASSUME NEW S \in SUBSET Slots, DetachForAbort(S),
              stopped' \in BOOLEAN, batch' \in BatchType
       PROVE  TypeOK'
  <2>1. Cardinality(S) \in Nat
    BY SlotSets
  <2>2. entries' \in [Slots -> EntryType]
    BY <1>10, EntriesUpdate DEF DetachForAbort, States
  <2>3. reservations' \in Int
    <3>1. reservations' = reservations - Cardinality(S)
      BY <1>10 DEF DetachForAbort
    <3>2. reservations \in Int
      BY DEF TypeOK
    <3> QED
      BY <2>1, <3>1, <3>2
  <2> QED
    BY <1>10, <2>2, <2>3 DEF DetachForAbort, TypeOK, laneVars
<1>11. ASSUME NEW o \in Slots, NEW k \in 1..SourceSlotCount, FinishAbort(o, k),
              stopped' \in BOOLEAN, batch' \in BatchType, seqIdHighWater' \in Nat
       PROVE  TypeOK'
  <2>1. RollbackNewest(o, k)
    BY <1>11 DEF FinishAbort
  <2>2. closed' \subseteq Dimensions
    BY <1>11, StillClosedType DEF FinishAbort
  <2> QED
    BY <1>11, <2>1, <2>2, RollbackType DEF FinishAbort, TypeOK
<1>12. ASSUME NEW s \in Slots, AbortArenaDetach(s)
       PROVE  TypeOK'
  BY <1>10, <1>12 DEF AbortArenaDetach, TypeOK
<1>13. ASSUME NEW s \in Slots, AbortArenaFinish(s)
       PROVE  TypeOK'
  BY <1>11, <1>13, ConfigValid DEF AbortArenaFinish, TypeOK
<1>14. ASSUME NEW failStop \in BOOLEAN, AbortBatchDetach(failStop)
       PROVE  TypeOK'
  <2>1. batch' \in BatchType
    BY <1>14 DEF AbortBatchDetach, TypeOK, BatchType
  <2>2. BatchSlots \in SUBSET Slots
    BY DEF BatchSlots
  <2> QED
    BY <1>10, <1>14, <2>1, <2>2 DEF AbortBatchDetach, TypeOK
<1>15. ASSUME AbortBatchFinish
       PROVE  TypeOK'
  <2>1. /\ batch.first \in Slots /\ batch.count \in 1..SourceSlotCount
        /\ batch.seqIdHighWater \in Nat
    BY <1>15 DEF AbortBatchFinish, TypeOK, BatchType
  <2>2. batch' \in BatchType
    BY <1>15, ConfigValid DEF AbortBatchFinish, NoBatch, BatchType, Slots, Pages
  <2>3. stopped' \in BOOLEAN /\ seqIdHighWater' \in Nat
    BY <1>15, <2>1 DEF AbortBatchFinish, TypeOK
  <2> QED
    BY <1>11, <1>15, <2>1, <2>2, <2>3 DEF AbortBatchFinish
<1>16. ASSUME NEW k \in 1..ReadyFifoCount, ReserveReadyPrefix(k)
       PROVE  TypeOK'
  <2>1. k \in 1..Len(ready) /\ Len(ready) \in Nat
    BY <1>16 DEF ReserveReadyPrefix, TypeOK
  <2>2. {ready[i] : i \in 1..k} \in SUBSET Slots
    BY <2>1 DEF TypeOK
  <2>3. entries' \in [Slots -> EntryType]
    BY <1>16, <2>2, SetStatesType DEF ReserveReadyPrefix, States
  <2>4. tentative' \in Seq(Slots) /\ ready' \in Seq(Slots)
    BY <1>16, <2>1 DEF ReserveReadyPrefix, TypeOK
  <2> QED
    BY <1>16, <2>3, <2>4 DEF ReserveReadyPrefix, TypeOK, entriesOnly, laneVars
<1>17. Members(tentative) \in SUBSET Slots
  BY DEF Members, TypeOK
<1>18. ASSUME CommitReadyPrefix
       PROVE  TypeOK'
  <2>1. entries' \in [Slots -> EntryType]
    BY <1>18, EntriesUpdate DEF CommitReadyPrefix, States
  <2>2. closed' \subseteq Dimensions
    BY <1>18, StillClosedType DEF CommitReadyPrefix
  <2>3. Len(tentative) \in Nat /\ <<>> \in Seq(Slots)
    BY DEF TypeOK
  <2>4. reservations' \in Int /\ tentative' \in Seq(Slots)
    <3>1. reservations' = reservations - Len(tentative) /\ tentative' = <<>>
      BY <1>18 DEF CommitReadyPrefix
    <3>2. reservations \in Int
      BY DEF TypeOK
    <3> QED
      BY <2>3, <3>1, <3>2
  <2> QED
    BY <1>18, <2>1, <2>2, <2>4 DEF CommitReadyPrefix, TypeOK, entriesOnly, laneVars
<1>19. ASSUME RestoreReadyPrefix
       PROVE  TypeOK'
  <2>1. entries' \in [Slots -> EntryType]
    BY <1>17, <1>19, SetStatesType DEF RestoreReadyPrefix, States
  <2>2. tentative' \in Seq(Slots) /\ ready' \in Seq(Slots)
    BY <1>19 DEF RestoreReadyPrefix, TypeOK
  <2> QED
    BY <1>19, <2>1, <2>2 DEF RestoreReadyPrefix, TypeOK, entriesOnly, laneVars
<1>20. ASSUME NEW S \in SUBSET Slots, NEW before \in States, NEW after \in States,
              TransitionAll(S, before, after)
       PROVE  TypeOK'
  <2>1. entries' \in [Slots -> EntryType]
    BY <1>20, SetStatesType DEF TransitionAll
  <2> QED
    BY <1>20, <2>1 DEF TransitionAll, TypeOK, entriesOnly, laneVars, readyVars
<1>21. ASSUME NEW S \in SUBSET Slots, SubmitSources(S) \/ CompleteAll(S)
       PROVE  TypeOK'
  BY <1>20, <1>21 DEF SubmitSources, CompleteAll, States
<1>22. ASSUME NEW s \in Slots, CompleteInline(s)
       PROVE  TypeOK'
  BY <1>20, <1>22 DEF CompleteInline, States
<1>23. ASSUME NEW s \in Slots, TakeGroupSettlement(s)
       PROVE  TypeOK'
  <2>1. entries' \in [Slots -> EntryType]
    BY <1>23, EntriesUpdate DEF TakeGroupSettlement, TypeOK
  <2> QED
    BY <1>23, <2>1
    DEF TakeGroupSettlement, TypeOK, entriesOnly, laneVars, readyVars
<1>24. ASSUME NEW s \in Slots, BeginPostEncodeRetire(s) \/ BeginReclaim(s)
       PROVE  TypeOK'
  <2>1. BeginRelease(s)
    BY <1>24 DEF BeginPostEncodeRetire, BeginReclaim
  <2>2. entries' \in [Slots -> EntryType]
    BY <2>1, EntriesUpdate DEF BeginRelease, TypeOK, States
  <2> QED
    BY <2>1, <2>2 DEF BeginRelease, TypeOK, entriesOnly, laneVars, readyVars
<1>25. ASSUME NEW s \in Slots, FinishReclaim(s)
       PROVE  TypeOK'
  <2>1. SlotAfter(s, 1) \in Slots
    BY SlotAfterType, ConfigValid
  <2>2. entries[s] \in EntryType
    BY DEF TypeOK
  <2>3. Footprint(s) \in Int
    BY <2>2, ConfigValid DEF Footprint, EntryType
  <2>4. occupiedPages - Footprint(s) \in Int
    BY <2>3 DEF TypeOK
  <2>5. {s} \in SUBSET Slots /\ sourceTail \in Slots /\ pageTail \in Pages
    BY DEF TypeOK
  <2>6. Release({s}, SlotAfter(s, 1), sourceTail, pageTail,
                occupiedPages - Footprint(s))
    BY <1>25 DEF FinishReclaim
  <2>7. compatibilityResident' \in Int
    BY <1>25 DEF FinishReclaim, TypeOK
  <2>8. closed' \subseteq Dimensions
    BY <1>25, StillClosedType DEF FinishReclaim
  <2>9. UNCHANGED <<compatibilityWritingCount, strictWritingActive, readyVars,
                    seqIdHighWater, stopped, batch>>
    BY <1>25 DEF FinishReclaim
  <2> HIDE DEF Release
  <2> QED
    BY <2>1, <2>4, <2>5, <2>6, <2>7, <2>8, <2>9, ReleaseType DEF TypeOK, readyVars
<1>26. CASE StopAdmission
  BY <1>26 DEF StopAdmission, TypeOK, ringVars, laneVars, readyVars
<1>27. CASE UNCHANGED tapeVars
  BY <1>27 DEF tapeVars, TypeOK, ringVars, laneVars, readyVars
<1> QED
  BY <1>1, <1>2, <1>3, <1>4, <1>5, <1>7, <1>8, <1>9, <1>12, <1>13, <1>14,
     <1>15, <1>16, <1>18, <1>19, <1>21, <1>22, <1>23, <1>24, <1>25, <1>26, <1>27
  DEF Next, Produce, Encode, Finish

\* The initial tape has its type.
LEMMA InitType == Init => TypeOK
<1> SUFFICES ASSUME Init PROVE TypeOK
  OBVIOUS
<1>1. entries \in [Slots -> EntryType]
  BY FreeEntryType DEF Init
<1>2. batch \in BatchType
  BY ConfigValid DEF Init, NoBatch, BatchType, Slots, Pages
<1>3. 0 \in Slots /\ 0 \in Pages
  BY ConfigValid DEF Slots, Pages
<1> QED
  BY <1>1, <1>2, <1>3 DEF Init, TypeOK

\* The tape's variables always have their types: in particular the ring
\* cursors and the page tail never leave the ring and the arena, whatever
\* sequence of reservations, aborts and reclaims moves them.
THEOREM TypeCorrect == Spec => []TypeOK
BY InitType, TypeStep, PTL DEF Spec
-----------------------------------------------------------------------------
(* Sequence numbers are unique.  IdentityUnique is not inductive: rolling a  *)
(* batch back lowers the high water, which is safe only because everything   *)
(* outside the batch is older than it; and that holds only because no        *)
(* compatibility source can publish while the batch is open.  The            *)
(* strengthening is StrictAdmissionAlone.                                    *)

IdentityInv == TypeOK /\ IdentityUnique /\ StrictAdmissionAlone

\* Distances around the ring tell slots apart.
LEMMA DistanceInjective ==
  ASSUME NEW t \in Slots, NEW r \in Slots, NEW s \in Slots,
         Distance(t, r) = Distance(t, s)
  PROVE  r = s
BY ConfigValid DEF Distance, Slots

\* The slots less than one place ahead of a slot are the slot itself.
LEMMA DistanceOne ==
  ASSUME NEW t \in Slots, NEW s \in Slots
  PROVE  Distance(t, s) < 1 <=> s = t
BY ConfigValid DEF Distance, Slots

\* A step that gives no source a number, opens and closes no compatibility
\* source and leaves the strict lane alone preserves the invariant, also when
\* sources leave the ring.
LEMMA QuietStep ==
  ASSUME IdentityInv, TypeOK',
         \A s \in Slots : entries'[s].state # "Free" =>
           entries[s].state # "Free" /\ entries'[s].seqId = entries[s].seqId,
         LegacyWriters' = LegacyWriters,
         UNCHANGED <<compatibilityWritingCount, strictWritingActive,
                     seqIdHighWater>>,
         batch'.count = batch.count, batch'.first = batch.first,
         batch'.seqIdHighWater = batch.seqIdHighWater
  PROVE  IdentityInv'
<1>1. IdentityUnique'
  BY DEF IdentityInv, IdentityUnique, Resident
<1>2. BatchSlots' = BatchSlots
  BY DEF BatchSlots
<1>3. StrictAdmissionAlone'
  BY <1>2 DEF IdentityInv, StrictAdmissionAlone, Resident
<1> QED
  BY <1>1, <1>3 DEF IdentityInv

\* A step that changes the state of entries that are neither free nor being
\* written, to such a state, is quiet.
LEMMA StateStep ==
  ASSUME IdentityInv, TypeOK',
         \A s \in Slots :
           \/ entries'[s] = entries[s]
           \/ /\ entries[s].state \notin {"Free", "Writing"}
              /\ entries'[s].state # "Writing"
              /\ entries'[s].seqId = entries[s].seqId,
         UNCHANGED <<compatibilityWritingCount, strictWritingActive,
                     seqIdHighWater, batch>>
  PROVE  IdentityInv'
<1>1. LegacyWriters' = LegacyWriters
  BY DEF LegacyWriters
<1>2. \A s \in Slots : entries'[s].state # "Free" =>
        entries[s].state # "Free" /\ entries'[s].seqId = entries[s].seqId
  OBVIOUS
<1> QED
  BY <1>1, <1>2, QuietStep

\* Assigning the state of entries leaves their numbers alone.
LEMMA SetStatesKeeps ==
  ASSUME TypeOK, NEW S, NEW state, SetStates(S, state)
  PROVE  \A s \in Slots :
           \/ s \notin S /\ entries'[s] = entries[s]
           \/ /\ s \in S /\ entries'[s].state = state
              /\ entries'[s].seqId = entries[s].seqId
BY DEF TypeOK, SetStates, EntryType
\* What a reservation does to the entries: the k slots from the tail on are
\* being written, an Arena batch with consecutive numbers from q on.
LEMMA ReserveEntries ==
  ASSUME TypeOK, NEW kind \in Kinds, NEW ns \in Seq(PageRuns), NEW q \in Nat,
         ReserveStorage(kind, ns, q), NEW s \in Slots
  PROVE  /\ Distance(sourceTail, s) \in Nat
         /\ Distance(sourceTail, s) < Len(ns) =>
              /\ entries'[s].state = "Writing" /\ entries'[s].kind = kind
              /\ kind = "Arena" => entries'[s].seqId = q + Distance(sourceTail, s)
              /\ kind = "Legacy" => entries'[s].seqId = 0
         /\ ~(Distance(sourceTail, s) < Len(ns)) => entries'[s] = entries[s]
<1> DEFINE d == Distance(sourceTail, s)
<1>1. d \in Nat
  BY ConfigValid DEF TypeOK, Distance, Slots
<1>2. PICK tails, occupied : PlaceSources(kind, ns, q, tails, occupied)
  BY DEF ReserveStorage
<1>3. Len(ns) \in Nat
  OBVIOUS
<1>4. CASE d < Len(ns)
  <2>1. d + 1 <= Len(ns)
    BY <1>1, <1>3, <1>4
  <2> DEFINE j == Distance(sourceTail, s) + 1
  <2>2. entries'[s] = NewEntry(kind, s, Len(ns), j, ns[j], tails[j - 1], q)
    BY <1>2, <2>1 DEF PlaceSources
  <2> HIDE DEF d
  <2>3. /\ entries'[s].state = "Writing" /\ entries'[s].kind = kind
        /\ kind = "Arena" => entries'[s].seqId = q + j - 1
        /\ kind = "Legacy" => entries'[s].seqId = 0
    BY <2>2 DEF NewEntry
  <2>4. q + j - 1 = q + d
    BY <1>1 DEF d
  <2> QED
    BY <1>1, <1>4, <2>3, <2>4 DEF d
<1>5. CASE ~(d < Len(ns))
  <2>1. ~(d + 1 <= Len(ns))
    BY <1>1, <1>3, <1>5
  <2>2. entries'[s] = entries[s]
    BY <1>2, <2>1 DEF PlaceSources
  <2> QED
    BY <1>1, <1>5, <2>2
<1> QED
  BY <1>4, <1>5

\* What a release does to the entries: the released ones are free.
LEMMA ReleaseEntries ==
  ASSUME TypeOK, NEW S, NEW h, NEW t, NEW pt, NEW o, Release(S, h, t, pt, o),
         NEW s \in Slots
  PROVE  /\ s \in S => entries'[s].state = "Free"
         /\ s \notin S => entries'[s] = entries[s]
BY DEF Release, FreeEntry

\* A rollback frees the k newest entries of the ring and leaves the others alone.
LEMMA RollbackEntries ==
  ASSUME TypeOK, NEW o, NEW k, RollbackNewest(o, k), NEW s \in Slots
  PROVE  /\ Distance(o, s) < k => entries'[s].state = "Free"
         /\ ~(Distance(o, s) < k) => entries'[s] = entries[s]
<1> DEFINE S == {r \in Slots : Distance(o, r) < k}
<1>1. PICK h, t, pt, oc : Release(S, h, t, pt, oc)
  BY DEF RollbackNewest
<1> HIDE DEF S
<1>2. /\ s \in S => entries'[s].state = "Free"
      /\ s \notin S => entries'[s] = entries[s]
  BY <1>1, ReleaseEntries
<1> QED
  BY <1>2 DEF S

\* Sets of compatibility writers grow and shrink by one.
LEMMA WriterCount ==
  ASSUME TypeOK, StrictAdmissionAlone, NEW s \in Slots
  PROVE  /\ s \in LegacyWriters =>
              Cardinality(LegacyWriters \ {s}) = compatibilityWritingCount - 1
         /\ s \notin LegacyWriters =>
              Cardinality(LegacyWriters \cup {s}) = compatibilityWritingCount + 1
         /\ compatibilityWritingCount = 0 <=> LegacyWriters = {}
<1>1. LegacyWriters \in SUBSET Slots
  BY DEF LegacyWriters
<1>2. IsFiniteSet(LegacyWriters)
  BY <1>1, SlotSets
<1>3. compatibilityWritingCount = Cardinality(LegacyWriters)
  BY DEF StrictAdmissionAlone
<1> QED
  BY <1>2, <1>3, FS_AddElement, FS_RemoveElement, FS_EmptySet

\* A reservation that opens an Arena admission of numbers from q on.
LEMMA ReserveArenaStep ==
  ASSUME IdentityInv, TypeOK', NEW ns \in Seq(PageRuns), NEW q \in Nat,
         Len(ns) \in 1..SourceSlotCount, q > seqIdHighWater,
         compatibilityWritingCount = 0, ReserveStorage("Arena", ns, q),
         strictWritingActive' = TRUE, seqIdHighWater' = q + Len(ns) - 1,
         \/ batch.count = 0 /\ batch' = batch
         \/ /\ batch'.first = sourceTail /\ batch'.count = Len(ns)
            /\ batch'.seqIdHighWater = seqIdHighWater
  PROVE  IdentityInv'
<1> DEFINE k == Len(ns)
           New(s) == Distance(sourceTail, s) < k
<1>1. /\ k \in Nat /\ k > 0 /\ seqIdHighWater \in Nat /\ q \in Nat
      /\ seqIdHighWater' = q + k - 1 /\ sourceTail \in Slots
  <2>1. seqIdHighWater \in Nat /\ sourceTail \in Slots
    BY DEF IdentityInv, TypeOK
  <2>2. k \in Nat /\ k > 0
    BY ConfigValid
  <2> QED
    BY <2>1, <2>2
<1>2. ASSUME NEW s \in Slots
      PROVE  /\ Distance(sourceTail, s) \in Nat
             /\ New(s) => /\ entries'[s].state = "Writing"
                          /\ entries'[s].kind = "Arena"
                          /\ entries'[s].seqId = q + Distance(sourceTail, s)
             /\ ~ New(s) => entries'[s] = entries[s]
  BY ReserveEntries DEF IdentityInv, Kinds
<1>3. ASSUME NEW s \in Slots, ~ New(s), entries[s].state # "Free"
      PROVE  entries[s].seqId \in Nat /\ entries[s].seqId <= seqIdHighWater
  <2>1. entries[s] \in EntryType
    BY DEF IdentityInv, TypeOK
  <2> QED
    BY <1>3, <2>1 DEF IdentityInv, IdentityUnique, Resident, EntryType
<1> HIDE DEF k
<1>4. IdentityUnique'
  <2>1. ASSUME NEW s \in Resident'
        PROVE  entries'[s].seqId <= seqIdHighWater'
    <3>1. s \in Slots /\ entries'[s].state # "Free"
      BY DEF Resident
    <3>2. CASE New(s)
      BY <1>1, <1>2, <3>1, <3>2
    <3>3. CASE ~ New(s)
      BY <1>1, <1>2, <1>3, <3>1, <3>3
    <3> QED
      BY <3>2, <3>3
  <2>2. ASSUME NEW r \in Resident', NEW s \in Resident', r # s,
               entries'[r].seqId # 0
        PROVE  entries'[r].seqId # entries'[s].seqId
    <3>1. /\ r \in Slots /\ entries'[r].state # "Free"
          /\ s \in Slots /\ entries'[s].state # "Free"
      BY DEF Resident
    <3>2. CASE New(r) /\ New(s)
      BY <1>1, <1>2, <2>2, <3>1, <3>2, DistanceInjective
    <3>3. CASE New(r) /\ ~ New(s)
      BY <1>1, <1>2, <1>3, <3>1, <3>3
    <3>4. CASE ~ New(r) /\ New(s)
      BY <1>1, <1>2, <1>3, <3>1, <3>4
    <3>5. CASE ~ New(r) /\ ~ New(s)
      BY <1>2, <2>2, <3>1, <3>5 DEF IdentityInv, IdentityUnique, Resident
    <3> QED
      BY <3>2, <3>3, <3>4, <3>5
  <2> QED
    BY <2>1, <2>2 DEF IdentityUnique
<1>5. LegacyWriters' = {}
  <2>1. LegacyWriters = {}
    BY <1>1, WriterCount DEF IdentityInv
  <2> QED
    BY <1>2, <2>1 DEF LegacyWriters
<1>6. compatibilityWritingCount' = 0
  BY DEF IdentityInv, TypeOK, ReserveStorage, PlaceSources
<1>7. batch'.count > 0 =>
        \A s \in (Resident \ BatchSlots)' :
          entries'[s].seqId <= batch'.seqIdHighWater
  <2> SUFFICES ASSUME batch'.count > 0, NEW s \in Slots,
                      entries'[s].state # "Free", s \notin BatchSlots'
               PROVE  entries'[s].seqId <= batch'.seqIdHighWater
    BY DEF Resident
  <2>1. batch.count \in Nat
    BY DEF IdentityInv, TypeOK, BatchType
  <2>2. /\ batch'.first = sourceTail /\ batch'.count = k
        /\ batch'.seqIdHighWater = seqIdHighWater
    BY <2>1 DEF k
  <2>3. ~ New(s)
    BY <2>2 DEF BatchSlots
  <2> QED
    BY <1>2, <1>3, <2>2, <2>3
<1>8. StrictAdmissionAlone'
  BY <1>5, <1>6, <1>7, FS_EmptySet DEF StrictAdmissionAlone
<1> QED
  BY <1>4, <1>8 DEF IdentityInv
\* The sources of S stop being written, or leave the ring; nothing else moves.
\* The strict lane closes, and the batch with it.
LEMMA CloseStrict ==
  ASSUME IdentityInv, TypeOK',
         \A s \in Slots : entries'[s].state # "Free" =>
           /\ entries[s].state # "Free" /\ entries'[s].seqId = entries[s].seqId
           /\ entries[s].seqId <= seqIdHighWater',
         LegacyWriters' = LegacyWriters, UNCHANGED compatibilityWritingCount,
         strictWritingActive' = FALSE, batch'.count = 0
  PROVE  IdentityInv'
<1>1. IdentityUnique'
  BY DEF IdentityInv, IdentityUnique, Resident
<1>2. StrictAdmissionAlone'
  BY DEF IdentityInv, StrictAdmissionAlone
<1> QED
  BY <1>1, <1>2 DEF IdentityInv

\* Every step preserves the invariant: one case per action.
LEMMA IdentityStep == IdentityInv /\ [Next]_tapeVars => IdentityInv'
<1> SUFFICES ASSUME IdentityInv, [Next]_tapeVars PROVE IdentityInv'
  OBVIOUS
<1>0. TypeOK /\ TypeOK'
  BY TypeStep DEF IdentityInv
<1> DEFINE Kept(s) == entries'[s].state # "Free" =>
             entries[s].state # "Free" /\ entries'[s].seqId = entries[s].seqId
<1>a. \A s \in Slots : entries[s].state # "Free" => entries[s].seqId <= seqIdHighWater
  BY DEF IdentityInv, IdentityUnique, Resident
<1>b. ~ strictWritingActive => batch.count = 0
  <2>1. batch.count \in 0..SourceSlotCount
    BY <1>0 DEF TypeOK, BatchType
  <2>2. batch.count \in Nat
    BY <2>1, ConfigValid
  <2> QED
    BY <2>2 DEF IdentityInv, StrictAdmissionAlone
<1>1. ASSUME NEW n \in PageRuns, ReserveLegacy(n)
      PROVE  IdentityInv'
  <2>1. /\ "Legacy" \in Kinds /\ <<n>> \in Seq(PageRuns) /\ Len(<<n>>) = 1
        /\ sourceTail \in Slots /\ 0 \in Nat
    BY <1>0 DEF Kinds, TypeOK
  <2>2. /\ ReserveStorage("Legacy", <<n>>, 0) /\ ~ strictWritingActive
        /\ UNCHANGED <<strictWritingActive, seqIdHighWater, batch>>
    BY <1>1 DEF ReserveLegacy
  <2>3. entries[sourceTail].state = "Free"
    BY <1>1 DEF ReserveLegacy, InspectReserve, StorageFree
  <2>4. \A s \in Slots :
          /\ s = sourceTail => /\ entries'[s].state = "Writing"
                               /\ entries'[s].kind = "Legacy"
                               /\ entries'[s].seqId = 0
          /\ s # sourceTail => entries'[s] = entries[s]
    <3> SUFFICES ASSUME NEW s \in Slots
                 PROVE  /\ s = sourceTail => /\ entries'[s].state = "Writing"
                                             /\ entries'[s].kind = "Legacy"
                                             /\ entries'[s].seqId = 0
                        /\ s # sourceTail => entries'[s] = entries[s]
      OBVIOUS
    <3>1. Distance(sourceTail, s) < 1 <=> s = sourceTail
      BY <2>1, DistanceOne
    <3>2. /\ Distance(sourceTail, s) < 1 =>
              /\ entries'[s].state = "Writing" /\ entries'[s].kind = "Legacy"
              /\ entries'[s].seqId = 0
          /\ ~(Distance(sourceTail, s) < 1) => entries'[s] = entries[s]
      <4> DEFINE ns == <<n>>
      <4>1. ns \in Seq(PageRuns) /\ Len(ns) = 1 /\ ReserveStorage("Legacy", ns, 0)
        BY <2>1, <2>2
      <4> HIDE DEF ns
      <4>2. /\ Distance(sourceTail, s) < Len(ns) =>
              /\ entries'[s].state = "Writing" /\ entries'[s].kind = "Legacy"
              /\ entries'[s].seqId = 0
            /\ ~(Distance(sourceTail, s) < Len(ns)) => entries'[s] = entries[s]
        BY <1>0, <4>1, ReserveEntries DEF Kinds
      <4> QED
        BY <4>1, <4>2
    <3> QED
      BY <3>1, <3>2
  <2>5. compatibilityWritingCount' = compatibilityWritingCount + 1
    BY <2>1, <2>2 DEF ReserveStorage, PlaceSources
  <2>6. LegacyWriters' = LegacyWriters \cup {sourceTail} /\ sourceTail \notin LegacyWriters
    BY <2>1, <2>3, <2>4 DEF LegacyWriters
  <2>7. compatibilityWritingCount' = Cardinality(LegacyWriters')
    BY <1>0, <2>1, <2>5, <2>6, WriterCount DEF IdentityInv
  <2>8. StrictAdmissionAlone'
    BY <1>b, <2>2, <2>7 DEF StrictAdmissionAlone
  <2>9. \A s \in Slots : entries'[s].state # "Free" =>
          s = sourceTail \/ (entries[s].state # "Free" /\ entries'[s] = entries[s])
    BY <2>4
  <2>10. seqIdHighWater \in Nat /\ seqIdHighWater' = seqIdHighWater
    BY <1>0, <2>2 DEF TypeOK
  <2>11. IdentityUnique'
    BY <2>4, <2>9, <2>10 DEF IdentityInv, IdentityUnique, Resident
  <2> QED
    BY <1>0, <2>8, <2>11 DEF IdentityInv
<1>2. ASSUME NEW n \in PageRuns, NEW kind \in Kinds, ProbeReserve(n, kind)
      PROVE  IdentityInv'
  BY <1>0, <1>2, StateStep DEF ProbeReserve, ringVars, laneVars
<1>3. ASSUME NEW n \in PageRuns, NEW q \in SeqIds, ReserveArena(n, q)
      PROVE  IdentityInv'
  <2>1. <<n>> \in Seq(PageRuns) /\ Len(<<n>>) = 1 /\ q \in Nat
    BY ConfigValid DEF SeqIds
  <2>2. Len(<<n>>) \in 1..SourceSlotCount /\ q = q + Len(<<n>>) - 1
    BY <2>1, ConfigValid
  <2>3. /\ q > seqIdHighWater /\ compatibilityWritingCount = 0
        /\ ~ strictWritingActive /\ ReserveStorage("Arena", <<n>>, q)
        /\ strictWritingActive' = TRUE /\ seqIdHighWater' = q /\ batch' = batch
    BY <1>3 DEF ReserveArena, StrictAdmissionOpen
  <2> QED
    BY <1>0, <1>b, <2>1, <2>2, <2>3, ReserveArenaStep
<1>4. ASSUME NEW k \in 1..MaxArenaBatchSources, NEW ns \in [1..k -> PageRuns],
             NEW q \in 1..(MaxSeqId + 1 - k), ReserveArenaBatch(ns, q)
      PROVE  IdentityInv'
  <2>1. k \in Nat /\ k > 0 /\ q \in Nat
    BY ConfigValid
  <2>2. ns \in Seq(PageRuns) /\ Len(ns) = k
    BY <2>1, RunsAreSequences
  <2>3. Len(ns) \in 1..SourceSlotCount
    BY <1>4, <2>1, <2>2, ConfigValid DEF ReserveArenaBatch
  <2>4. /\ q > seqIdHighWater /\ compatibilityWritingCount = 0
        /\ ReserveStorage("Arena", ns, q)
        /\ strictWritingActive' = TRUE /\ seqIdHighWater' = q + Len(ns) - 1
        /\ batch'.first = sourceTail /\ batch'.count = Len(ns)
        /\ batch'.seqIdHighWater = seqIdHighWater
    BY <1>4 DEF ReserveArenaBatch, StrictAdmissionOpen
  <2> QED
    BY <1>0, <2>1, <2>2, <2>3, <2>4, ReserveArenaStep
<1>5. ASSUME NEW s \in Slots, NEW q \in SeqIds, SealLegacy(s, q)
      PROVE  IdentityInv'
  <2>1. /\ s \in LegacyWriters /\ q > seqIdHighWater /\ seqIdHighWater' = q
        /\ UNCHANGED <<strictWritingActive, batch>>
        /\ compatibilityWritingCount' = compatibilityWritingCount - 1
    BY <1>5 DEF SealLegacy, LegacyWriters
  <2>2. \A r \in Slots :
          /\ r = s => entries'[r].state = "Ready" /\ entries'[r].seqId = q
          /\ r # s => entries'[r] = entries[r]
    BY <1>0, <1>5 DEF SealLegacy, TypeOK, EntryType
  <2>3. q \in Nat /\ seqIdHighWater \in Nat
    BY <1>0, ConfigValid DEF SeqIds, TypeOK
  <2>4. \A r \in Slots : entries[r].seqId \in Nat
    BY <1>0 DEF TypeOK, EntryType
  <2>5. ~ strictWritingActive /\ batch.count = 0
    BY <1>b, <2>1 DEF IdentityInv, StrictAdmissionAlone
  <2>6. LegacyWriters' = LegacyWriters \ {s}
    BY <2>2 DEF LegacyWriters
  <2>7. compatibilityWritingCount' = Cardinality(LegacyWriters')
    BY <1>0, <2>1, <2>6, WriterCount DEF IdentityInv
  <2>8. StrictAdmissionAlone'
    BY <2>1, <2>5, <2>7 DEF StrictAdmissionAlone
  <2>9. \A r \in Slots : r # s /\ entries'[r].state # "Free" =>
          /\ entries'[r] = entries[r] /\ r \in Resident
          /\ entries[r].seqId <= seqIdHighWater /\ entries[r].seqId < q
    BY <1>a, <2>1, <2>2, <2>3, <2>4 DEF Resident
  <2>10. IdentityUnique'
    <3>1. ASSUME NEW r \in Resident'
          PROVE  r \in Slots /\ entries'[r].seqId <= seqIdHighWater'
      BY <2>1, <2>2, <2>3, <2>4, <2>9 DEF Resident
    <3>2. ASSUME NEW r \in Resident', NEW u \in Resident', r # u,
                 entries'[r].seqId # 0
          PROVE  entries'[r].seqId # entries'[u].seqId
      <4>1. /\ r \in Slots /\ entries'[r].state # "Free"
            /\ u \in Slots /\ entries'[u].state # "Free"
        BY DEF Resident
      <4>2. CASE r = s \/ u = s
        BY <2>2, <2>3, <2>4, <2>9, <3>2, <4>1, <4>2
      <4>3. CASE r # s /\ u # s
        BY <2>9, <3>2, <4>1, <4>3 DEF IdentityInv, IdentityUnique
      <4> QED
        BY <4>2, <4>3
    <3> QED
      BY <3>1, <3>2 DEF IdentityUnique
  <2> QED
    BY <1>0, <2>8, <2>10 DEF IdentityInv
<1>6. ASSUME NEW S \in SUBSET Slots, NEW order, PublishStrict(S, order)
      PROVE  IdentityInv'
  <2>1. /\ UNCHANGED <<compatibilityWritingCount, seqIdHighWater>>
        /\ strictWritingActive' = FALSE /\ batch'.count = 0
    BY <1>6 DEF PublishStrict, NoBatch
  <2>2. \A s \in Slots :
          \/ s \notin S /\ entries'[s] = entries[s]
          \/ /\ entries[s].state = "Writing" /\ entries[s].kind = "Arena"
             /\ entries'[s].state = "Ready" /\ entries'[s].seqId = entries[s].seqId
    BY <1>0, <1>6 DEF PublishStrict, TypeOK, EntryType
  <2>3. LegacyWriters' = LegacyWriters
    BY <2>2 DEF LegacyWriters
  <2>4. \A s \in Slots : Kept(s)
    BY <2>2
  <2> QED
    BY <1>0, <1>a, <2>1, <2>3, <2>4, CloseStrict
<1>7. ASSUME NEW s \in Slots, SealArena(s)
      PROVE  IdentityInv'
  BY <1>6, <1>7, {s} \in SUBSET Slots DEF SealArena
<1>8. ASSUME SealArenaBatch
      PROVE  IdentityInv'
  BY <1>6, <1>8, BatchSlots \in SUBSET Slots DEF SealArenaBatch, BatchSlots
<1>9. ASSUME NEW s \in Slots, AbortLegacy(s)
      PROVE  IdentityInv'
  <2>1. /\ s \in LegacyWriters /\ RollbackNewest(s, 1)
        /\ UNCHANGED <<strictWritingActive, seqIdHighWater, batch>>
        /\ compatibilityWritingCount' = compatibilityWritingCount - 1
    BY <1>9 DEF AbortLegacy, LegacyWriters
  <2>2. \A r \in Slots : /\ r = s => entries'[r].state = "Free"
                         /\ r # s => entries'[r] = entries[r]
    BY <1>0, <2>1, RollbackEntries, DistanceOne
  <2>3. LegacyWriters' = LegacyWriters \ {s}
    BY <2>2 DEF LegacyWriters
  <2>4. compatibilityWritingCount' = Cardinality(LegacyWriters')
    BY <1>0, <2>1, <2>3, WriterCount DEF IdentityInv
  <2>5. ~ strictWritingActive /\ batch.count = 0
    BY <1>b, <2>1 DEF IdentityInv, StrictAdmissionAlone
  <2>6. StrictAdmissionAlone'
    BY <2>1, <2>4, <2>5 DEF StrictAdmissionAlone
  <2>7. IdentityUnique'
    BY <2>1, <2>2 DEF IdentityInv, IdentityUnique, Resident
  <2> QED
    BY <1>0, <2>6, <2>7 DEF IdentityInv
<1>10. ASSUME NEW S \in SUBSET Slots, DetachForAbort(S),
              batch'.count = batch.count, batch'.first = batch.first,
              batch'.seqIdHighWater = batch.seqIdHighWater
       PROVE  IdentityInv'
  <2>1. UNCHANGED <<compatibilityWritingCount, strictWritingActive, seqIdHighWater>>
    BY <1>10 DEF DetachForAbort, laneVars
  <2>2. \A s \in Slots :
          \/ s \notin S /\ entries'[s] = entries[s]
          \/ /\ entries[s].state = "Writing" /\ entries[s].kind = "Arena"
             /\ entries'[s].state = "Reclaiming" /\ entries'[s].seqId = entries[s].seqId
    <3> TAKE s \in Slots
    <3>1. entries[s] \in EntryType
      BY <1>0 DEF TypeOK
    <3>2. CASE s \notin S
      BY <1>10, <3>2 DEF DetachForAbort
    <3>3. CASE s \in S
      <4>1. /\ entries'[s] = [entries[s] EXCEPT !.state = "Reclaiming", !.detach = "Abort"]
            /\ entries[s].state = "Writing" /\ entries[s].kind = "Arena"
        BY <1>10, <3>3 DEF DetachForAbort
      <4> QED
        BY <3>1, <4>1, EntryFields
    <3> QED
      BY <3>2, <3>3
  <2>3. LegacyWriters' = LegacyWriters
    BY <2>2 DEF LegacyWriters
  <2>4. \A s \in Slots : Kept(s)
    BY <2>2
  <2> QED
    BY <1>0, <1>10, <2>1, <2>3, <2>4, QuietStep
<1>11. ASSUME NEW s \in Slots, AbortArenaDetach(s)
       PROVE  IdentityInv'
  BY <1>10, <1>11, {s} \in SUBSET Slots DEF AbortArenaDetach
<1>12. ASSUME NEW failStop \in BOOLEAN, AbortBatchDetach(failStop)
       PROVE  IdentityInv'
  <2>1. /\ batch'.count = batch.count /\ batch'.first = batch.first
        /\ batch'.seqIdHighWater = batch.seqIdHighWater
    BY <1>0, <1>12 DEF AbortBatchDetach, TypeOK, BatchType
  <2> QED
    BY <1>10, <1>12, <2>1, BatchSlots \in SUBSET Slots DEF AbortBatchDetach, BatchSlots
<1>13. ASSUME NEW o \in Slots, NEW k \in Nat, FinishAbort(o, k), batch'.count = 0,
              \A s \in Slots : entries[s].state # "Free" /\ ~(Distance(o, s) < k) =>
                entries[s].seqId <= seqIdHighWater'
       PROVE  IdentityInv'
  <2>1. /\ RollbackNewest(o, k) /\ strictWritingActive' = FALSE
        /\ UNCHANGED compatibilityWritingCount
        /\ \A s \in Slots : Distance(o, s) < k => entries[s].state = "Reclaiming"
    BY <1>13 DEF FinishAbort
  <2>2. \A s \in Slots : /\ Distance(o, s) < k => entries'[s].state = "Free"
                         /\ ~(Distance(o, s) < k) => entries'[s] = entries[s]
    BY <1>0, <2>1, RollbackEntries
  <2>3. LegacyWriters' = LegacyWriters
    BY <2>1, <2>2 DEF LegacyWriters
  <2>4. \A s \in Slots : entries'[s].state # "Free" =>
           /\ entries[s].state # "Free" /\ entries'[s].seqId = entries[s].seqId
           /\ entries[s].seqId <= seqIdHighWater'
    BY <1>13, <2>2
  <2> QED
    BY <1>0, <1>13, <2>1, <2>3, <2>4, CloseStrict
<1>14. ASSUME NEW s \in Slots, AbortArenaFinish(s)
       PROVE  IdentityInv'
  BY <1>a, <1>13, <1>14, 1 \in Nat DEF AbortArenaFinish
<1>15. ASSUME AbortBatchFinish
       PROVE  IdentityInv'
  <2>1. /\ FinishAbort(batch.first, batch.count) /\ batch.count > 0
        /\ seqIdHighWater' = seqIdHighWater \/ seqIdHighWater' = batch.seqIdHighWater
    BY <1>15 DEF AbortBatchFinish
  <2>2. batch.first \in Slots /\ batch.count \in Nat /\ batch'.count = 0
    BY <1>0, <1>15, ConfigValid DEF AbortBatchFinish, NoBatch, TypeOK, BatchType
  <2>3. \A s \in Slots :
          entries[s].state # "Free" /\ ~(Distance(batch.first, s) < batch.count) =>
            entries[s].seqId <= batch.seqIdHighWater
    BY <2>1 DEF IdentityInv, StrictAdmissionAlone, Resident, BatchSlots
  <2> QED
    BY <1>a, <1>13, <2>1, <2>2, <2>3
<1>16. ASSUME NEW k \in 1..ReadyFifoCount, ReserveReadyPrefix(k)
       PROVE  IdentityInv'
  <2> DEFINE S == {ready[i] : i \in 1..k}
  <2>1. \A s \in S : entries[s].state = "Ready"
    BY <1>16 DEF ReserveReadyPrefix
  <2>2. SetStates(S, "TentativeRepresented")
    BY <1>16 DEF ReserveReadyPrefix
  <2> HIDE DEF S
  <2> QED
    BY <1>0, <1>16, <2>1, <2>2, SetStatesKeeps, StateStep
    DEF ReserveReadyPrefix, entriesOnly, laneVars
<1>17. TentativeValid => \A s \in Members(tentative) :
         entries[s].state = "TentativeRepresented"
  BY DEF TentativeValid, Members
<1>18. ASSUME CommitReadyPrefix
       PROVE  IdentityInv'
  <2>1. \A s \in Slots :
          \/ entries'[s] = entries[s]
          \/ /\ entries[s].state = "TentativeRepresented"
             /\ entries'[s].state = "Represented" /\ entries'[s].seqId = entries[s].seqId
    <3> TAKE s \in Slots
    <3>1. entries[s] \in EntryType
      BY <1>0 DEF TypeOK
    <3>2. CASE s \notin Members(tentative)
      BY <1>18, <3>2 DEF CommitReadyPrefix
    <3>3. CASE s \in Members(tentative)
      <4>1. /\ entries'[s] = [entries[s] EXCEPT !.state = "Represented", !.reserved = FALSE]
            /\ entries[s].state = "TentativeRepresented"
        BY <1>17, <1>18, <3>3 DEF CommitReadyPrefix
      <4> QED
        BY <3>1, <4>1, EntryFields
    <3> QED
      BY <3>2, <3>3
  <2> QED
    BY <1>0, <1>18, <2>1, StateStep DEF CommitReadyPrefix, entriesOnly, laneVars
<1>19. ASSUME RestoreReadyPrefix
       PROVE  IdentityInv'
  <2>1. SetStates(Members(tentative), "Ready")
    BY <1>19 DEF RestoreReadyPrefix
  <2>2. \A s \in Members(tentative) : entries[s].state = "TentativeRepresented"
    BY <1>17, <1>19 DEF RestoreReadyPrefix
  <2> QED
    BY <1>0, <1>19, <2>1, <2>2, SetStatesKeeps, StateStep
    DEF RestoreReadyPrefix, entriesOnly, laneVars
<1>20. ASSUME NEW S \in SUBSET Slots,
              NEW before \in {"Represented", "Submitted"},
              NEW after \in {"Submitted", "Completed"},
              TransitionAll(S, before, after)
       PROVE  IdentityInv'
  BY <1>0, <1>20, SetStatesKeeps, StateStep DEF TransitionAll, entriesOnly, laneVars
<1>21. ASSUME NEW S \in SUBSET Slots, SubmitSources(S) \/ CompleteAll(S)
       PROVE  IdentityInv'
  BY <1>20, <1>21 DEF SubmitSources, CompleteAll
<1>22. ASSUME NEW s \in Slots, CompleteInline(s)
       PROVE  IdentityInv'
  BY <1>20, <1>22, {s} \in SUBSET Slots DEF CompleteInline
<1>23. ASSUME NEW s \in Slots, TakeGroupSettlement(s)
       PROVE  IdentityInv'
  <2>1. \A r \in Slots :
          \/ entries'[r] = entries[r]
          \/ /\ entries[r].state = "Completed"
             /\ entries'[r].state = "Completed" /\ entries'[r].seqId = entries[r].seqId
    BY <1>0, <1>23 DEF TakeGroupSettlement, TypeOK, EntryType
  <2> QED
    BY <1>0, <1>23, <2>1, StateStep DEF TakeGroupSettlement, entriesOnly, laneVars
<1>24. ASSUME NEW s \in Slots, BeginPostEncodeRetire(s) \/ BeginReclaim(s)
       PROVE  IdentityInv'
  <2>1. BeginRelease(s) /\ entries[s].state \in {"Represented", "Completed"}
    BY <1>24 DEF BeginPostEncodeRetire, BeginReclaim, Reclaimable
  <2>2. \A r \in Slots :
          \/ entries'[r] = entries[r]
          \/ /\ entries[r].state \notin {"Free", "Writing"}
             /\ entries'[r].state = "Reclaiming" /\ entries'[r].seqId = entries[r].seqId
    BY <1>0, <2>1 DEF BeginRelease, TypeOK, EntryType
  <2> QED
    BY <1>0, <2>1, <2>2, StateStep DEF BeginRelease, entriesOnly, laneVars
<1>25. ASSUME NEW s \in Slots, FinishReclaim(s)
       PROVE  IdentityInv'
  <2>1. entries[s].state = "Reclaiming"
    BY <1>25 DEF FinishReclaim
  <2>2. PICK h, t, pt, oc : Release({s}, h, t, pt, oc)
    BY <1>25 DEF FinishReclaim
  <2>3. \A r \in Slots : /\ r = s => entries'[r].state = "Free"
                         /\ r # s => entries'[r] = entries[r]
    BY <1>0, <2>2, ReleaseEntries
  <2>4. LegacyWriters' = LegacyWriters
    BY <2>1, <2>3 DEF LegacyWriters
  <2>5. \A r \in Slots : Kept(r)
    BY <2>3
  <2> QED
    BY <1>0, <1>25, <2>4, <2>5, QuietStep DEF FinishReclaim
<1>26. CASE StopAdmission
  BY <1>0, <1>26, StateStep DEF StopAdmission, ringVars, laneVars
<1>27. CASE UNCHANGED tapeVars
  BY <1>0, <1>27, StateStep DEF tapeVars, ringVars, laneVars
<1> QED
  BY <1>1, <1>2, <1>3, <1>4, <1>5, <1>7, <1>8, <1>9, <1>11, <1>12, <1>14,
     <1>15, <1>16, <1>18, <1>19, <1>21, <1>22, <1>23, <1>24, <1>25, <1>26, <1>27
  DEF Next, Produce, Encode, Finish

\* The tape starts empty, with every identity to come.
LEMMA IdentityInit == Init => IdentityInv
<1> SUFFICES ASSUME Init PROVE IdentityInv
  OBVIOUS
<1>1. Resident = {} /\ LegacyWriters = {}
  BY DEF Init, Resident, LegacyWriters, FreeEntry
<1>2. batch.count = 0
  BY DEF Init, NoBatch
<1>3. Init => TypeOK
  BY InitType
<1> QED
  BY <1>1, <1>2, <1>3, FS_EmptySet
  DEF Init, IdentityInv, IdentityUnique, StrictAdmissionAlone

\* No two resident sources ever share a sequence number, and a strict admission
\* is never overlapped, although aborted batches return their numbers.
THEOREM IdentityCorrect == Spec => [](IdentityUnique /\ StrictAdmissionAlone)
<1>1. IdentityInv => IdentityUnique /\ StrictAdmissionAlone
  BY DEF IdentityInv
<1> QED
  BY <1>1, IdentityInit, IdentityStep, PTL DEF Spec

-----------------------------------------------------------------------------
(* Publication: credits, the two queues and the strict lane.                 *)

\* One source is older than another.
Older(s, t) == entries[s].seqId < entries[t].seqId

\* A source holds a publication credit from its reservation to the commit of
\* its representation; an aborted one keeps the flag and not the credit.
CreditStates == {"Writing", "Ready", "TentativeRepresented"}
PastStates == {"Represented", "Submitted", "Completed"}
CreditsHeld ==
  \A s \in Slots :
    /\ entries[s].state \in CreditStates =>
         entries[s].reserved /\ entries[s].detach # "Abort"
    /\ entries[s].state \notin CreditStates =>
         ~ entries[s].reserved \/ entries[s].detach = "Abort"
    /\ entries[s].detach = "Abort" =>
         entries[s].state = "Reclaiming" /\ entries[s].kind = "Arena"

\* Each queue holds exactly the sources in its state.
Holds(seq, state) ==
  /\ \A i \in 1..Len(seq) : entries[seq[i]].state = state
  /\ \A s \in Slots : entries[s].state = state => \E i \in 1..Len(seq) : seq[i] = s

\* Each queue is in sequence order, the tentative prefix is in front, and what
\* was represented is older than both.
Sorted(seq) == \A i, j \in 1..Len(seq) : i < j => Older(seq[i], seq[j])
Behind(seq) ==
  \A s \in Slots : entries[s].state \in PastStates =>
    \A i \in 1..Len(seq) : Older(s, seq[i])
QueueOrdered ==
  /\ Sorted(tentative) /\ Sorted(ready)
  /\ \A i \in 1..Len(tentative) : \A j \in 1..Len(ready) : Older(tentative[i], ready[j])
  /\ Behind(tentative) /\ Behind(ready)

\* The sources of the open strict admission, written or being aborted.
OpenSources ==
  {s \in Slots : /\ entries[s].kind = "Arena"
                 /\ entries[s].state = "Writing" \/ entries[s].detach = "Abort"}

\* There is one strict admission at a time: a single source, or the batch, whose
\* numbers follow the ring and are above those of everything published.
StrictOpen ==
  /\ ~ strictWritingActive => OpenSources = {}
  /\ batch.count = 0 => \A s, t \in OpenSources : s = t
  /\ batch.count > 0 =>
       /\ OpenSources = BatchSlots
       /\ \A s, t \in BatchSlots :
            Distance(batch.first, s) < Distance(batch.first, t) => Older(s, t)
  /\ \A s \in OpenSources : \A r \in Slots :
       entries[r].state \in {"Ready", "TentativeRepresented"} \cup PastStates =>
         Older(r, s)

CreditsCounted == reservations = Cardinality(Credited) /\ reservations <= HighWaterReady

QueueInv ==
  /\ CreditsHeld /\ Holds(ready, "Ready") /\ Holds(tentative, "TentativeRepresented")
  /\ QueueOrdered /\ StrictOpen /\ CreditsCounted

-----------------------------------------------------------------------------
(* Groups. *)

\* The group an entry carries says where in the numbers of its raw event it is.
GroupSound ==
  \A s \in Slots :
    /\ entries[s].kind = "Legacy" => entries[s].group = NoGroup
    /\ entries[s].state = "Free" => entries[s].group = NoGroup
    /\ entries[s].group.count > 1 =>
         /\ entries[s].group.tail <= seqIdHighWater
         /\ batch.count > 0 =>
              (s \in BatchSlots <=> entries[s].group.tail > batch.seqIdHighWater)
         /\ batch.count = 0 => s \notin OpenSources

Leaving == {"Completed", "Reclaiming"}

GroupWhole ==
  \A s \in Slots :
    entries[s].group.count > 1 =>
      /\ \/ \A j \in 0..(entries[s].group.count - 1) :
              \E m \in GroupMembers(s) : entries[m].group.index = j
         \/ \A m \in GroupMembers(s) : entries[m].state \in Leaving
      /\ entries[s].state = "Reclaiming" /\ entries[s].detach = "Reclaim" =>
           \A m \in GroupMembers(s) : entries[m].state \in Leaving

GroupInv == GroupSound /\ GroupWhole

-----------------------------------------------------------------------------
(* Counting slots. *)

\* A sequence without repetition has as many members as its length.
LEMMA MembersCount ==
  ASSUME NEW seq \in Seq(Slots),
         \A i, j \in 1..Len(seq) : i < j => seq[i] # seq[j]
  PROVE  /\ Members(seq) \in SUBSET Slots
         /\ Cardinality(Members(seq)) = Len(seq)
<1> DEFINE n == Len(seq)
<1>1. n \in Nat /\ DOMAIN seq = 1..n /\ seq \in [1..n -> Slots]
  OBVIOUS
<1>2. Members(seq) \in SUBSET Slots
  BY <1>1 DEF Members
<1>3. seq \in Bijection(1..n, Members(seq))
  <2>1. seq \in [1..n -> Members(seq)]
    BY <1>1 DEF Members
  <2>2. \A i, j \in 1..n : seq[i] = seq[j] => i = j
    BY <1>1
  <2>3. \A s \in Members(seq) : \E i \in 1..n : seq[i] = s
    BY <1>1 DEF Members
  <2> QED
    BY <2>1, <2>2, <2>3 DEF Bijection, Injection, Surjection, IsInjective
<1>4. ExistsBijection(1..n, Members(seq))
  BY <1>3 DEF ExistsBijection
<1>5. IsFiniteSet(1..n) /\ Cardinality(1..n) = n
  BY <1>1, FS_Interval
<1> QED
  BY <1>2, <1>4, <1>5, FS_Bijection

\* Distances are numbers below the size of the ring.
LEMMA DistanceType ==
  ASSUME NEW t \in Slots, NEW s \in Slots
  PROVE  Distance(t, s) \in 0..(SourceSlotCount - 1) /\ Distance(t, s) \in Nat
BY ConfigValid DEF Distance, Slots

\* The slots from t on are reached one by one, and k of them are k.
LEMMA ArcCount ==
  ASSUME NEW t \in Slots, NEW k \in 0..SourceSlotCount
  PROVE  /\ \A j \in 1..k : /\ SlotAfter(t, j - 1) \in Slots
                            /\ Distance(t, SlotAfter(t, j - 1)) = j - 1
         /\ \A s \in Slots : Distance(t, s) \in Nat
                             /\ SlotAfter(t, Distance(t, s)) = s
         /\ Cardinality({s \in Slots : Distance(t, s) < k}) = k
<1> DEFINE seq == [j \in 1..k |-> SlotAfter(t, j - 1)]
           Arc == {s \in Slots : Distance(t, s) < k}
<1>1. k \in Nat /\ k <= SourceSlotCount
  BY ConfigValid
<1>2. \A j \in 1..k : /\ SlotAfter(t, j - 1) \in Slots
                      /\ Distance(t, SlotAfter(t, j - 1)) = j - 1
  BY <1>1, ConfigValid DEF SlotAfter, Distance, Slots
<1>3. \A s \in Slots : /\ Distance(t, s) \in Nat
                       /\ SlotAfter(t, Distance(t, s)) = s
  BY ConfigValid DEF SlotAfter, Distance, Slots
<1>4. seq \in Seq(Slots) /\ Len(seq) = k
  BY <1>1, <1>2
<1>5. \A j \in 1..k : seq[j] = SlotAfter(t, j - 1)
  OBVIOUS
<1>6. Members(seq) = Arc
  <2>1. ASSUME NEW s \in Arc PROVE s \in Members(seq)
    <3>1. s \in Slots /\ Distance(t, s) \in Nat /\ Distance(t, s) < k
      BY <1>3
    <3>2. Distance(t, s) + 1 \in 1..k /\ Distance(t, s) + 1 - 1 = Distance(t, s)
      BY <1>1, <3>1
    <3>3. seq[Distance(t, s) + 1] = s
      BY <1>3, <3>1, <3>2
    <3> QED
      BY <3>2, <3>3 DEF Members
  <2>2. ASSUME NEW s \in Members(seq) PROVE s \in Arc
    <3>1. PICK j \in 1..k : s = SlotAfter(t, j - 1)
      BY <1>4 DEF Members
    <3> QED
      BY <1>1, <1>2, <3>1
  <2> QED
    BY <2>1, <2>2
<1>7. \A i, j \in 1..k : i < j => SlotAfter(t, i - 1) # SlotAfter(t, j - 1)
  <2> SUFFICES ASSUME NEW i \in 1..k, NEW j \in 1..k, i < j,
                      SlotAfter(t, i - 1) = SlotAfter(t, j - 1)
               PROVE  FALSE
    OBVIOUS
  <2>1. i - 1 = j - 1
    BY <1>2
  <2> QED
    BY <1>1, <2>1
<1>8. \A i, j \in 1..Len(seq) : i < j => seq[i] # seq[j]
  BY <1>4, <1>5, <1>7
<1> HIDE DEF seq, Arc
<1>9. Cardinality(Arc) = k
  BY <1>4, <1>6, <1>8, MembersCount
<1> QED
  BY <1>2, <1>3, <1>9 DEF Arc

\* Credits are held by the sources in the three states.
LEMMA CreditSet ==
  ASSUME CreditsHeld
  PROVE  Credited = {s \in Slots : entries[s].state \in CreditStates}
BY DEF CreditsHeld, Credited

\* The same of the credits after a step.
LEMMA CreditSetNext ==
  ASSUME CreditsHeld'
  PROVE  Credited' = {s \in Slots : entries'[s].state \in CreditStates}
BY DEF CreditsHeld, Credited

-----------------------------------------------------------------------------
(* Steps of the invariant: one lemma per operation on the queues. *)

PublishedStates == {"Ready", "TentativeRepresented"} \cup PastStates

\* What the queues hold are slots in the queue's state.
LEMMA QueueMembers ==
  ASSUME TypeOK, QueueInv
  PROVE  /\ ready \in Seq(Slots) /\ tentative \in Seq(Slots)
         /\ \A i \in 1..Len(ready) : ready[i] \in Slots /\ entries[ready[i]].state = "Ready"
         /\ \A i \in 1..Len(tentative) :
              tentative[i] \in Slots /\ entries[tentative[i]].state = "TentativeRepresented"
<1>1. ready \in Seq(Slots) /\ tentative \in Seq(Slots)
  BY DEF TypeOK
<1>2. Holds(ready, "Ready") /\ Holds(tentative, "TentativeRepresented")
  BY DEF QueueInv
<1>3. \A i \in 1..Len(ready) : ready[i] \in Slots /\ entries[ready[i]].state = "Ready"
  BY <1>1, <1>2 DEF Holds
<1>4. \A i \in 1..Len(tentative) :
        tentative[i] \in Slots /\ entries[tentative[i]].state = "TentativeRepresented"
  BY <1>1, <1>2 DEF Holds
<1> QED
  BY <1>1, <1>3, <1>4

\* The strict lane is left alone: the sources of the open admission stay, with
\* their numbers, and nothing is published.
LEMMA OpenKept ==
  ASSUME StrictOpen, OpenSources' = OpenSources, UNCHANGED strictWritingActive,
         batch'.count = batch.count, batch'.first = batch.first,
         \A s \in OpenSources : entries'[s].seqId = entries[s].seqId,
         \A s \in Slots : entries'[s].state \in PublishedStates =>
           /\ entries[s].state \in PublishedStates
           /\ entries'[s].seqId = entries[s].seqId
  PROVE  StrictOpen'
<1>1. BatchSlots' = BatchSlots
  BY DEF BatchSlots
<1>2. batch.count > 0 => \A s \in BatchSlots : entries'[s].seqId = entries[s].seqId
  BY DEF StrictOpen
<1>a. (\A s \in OpenSources : \A r \in Slots :
         entries[r].state \in {"Ready", "TentativeRepresented"} \cup PastStates =>
           Older(r, s))'
  BY DEF StrictOpen, Older, PublishedStates
<1>b. (batch.count > 0 =>
         /\ OpenSources = BatchSlots
         /\ \A s, t \in BatchSlots :
              Distance(batch.first, s) < Distance(batch.first, t) => Older(s, t))'
  BY <1>1, <1>2 DEF StrictOpen, Older
<1>c. (batch.count = 0 => \A s, t \in OpenSources : s = t)'
  BY DEF StrictOpen
<1>d. (~ strictWritingActive => OpenSources = {})'
  BY DEF StrictOpen
<1> QED
  BY <1>a, <1>b, <1>c, <1>d DEF StrictOpen

\* The two queues and their sources are left alone: others past their
\* representation, or aborted, move on or leave the ring.
LEMMA QueuesKept ==
  ASSUME TypeOK, QueueInv, StrictOpen', UNCHANGED <<ready, tentative, reservations>>,
         \A s \in Slots :
           \/ entries'[s] = entries[s]
           \/ /\ entries[s].state \notin CreditStates
              /\ entries'[s].state \notin CreditStates
              /\ entries'[s].detach # "Abort" /\ ~ entries'[s].reserved
              /\ entries'[s].state \in PastStates =>
                   /\ entries[s].state \in PastStates
                   /\ entries'[s].seqId = entries[s].seqId
  PROVE  QueueInv'
<1> DEFINE Moved(s) ==
      /\ entries[s].state \notin CreditStates
      /\ entries'[s].state \notin CreditStates
      /\ entries'[s].detach # "Abort" /\ ~ entries'[s].reserved
      /\ entries'[s].state \in PastStates =>
           /\ entries[s].state \in PastStates
           /\ entries'[s].seqId = entries[s].seqId
<1>1. \A s \in Slots : entries'[s] = entries[s] \/ Moved(s)
  OBVIOUS
<1> HIDE DEF Moved
<1>q. /\ \A i \in 1..Len(ready) : ready[i] \in Slots /\ entries[ready[i]].state = "Ready"
      /\ \A i \in 1..Len(tentative) :
           tentative[i] \in Slots /\ entries[tentative[i]].state = "TentativeRepresented"
  BY QueueMembers
<1>r. /\ \A i \in 1..Len(ready) : entries'[ready[i]] = entries[ready[i]]
      /\ \A i \in 1..Len(tentative) : entries'[tentative[i]] = entries[tentative[i]]
  BY <1>1, <1>q DEF Moved, CreditStates
<1>2. CreditsHeld'
  BY <1>1 DEF QueueInv, CreditsHeld, Moved
<1>s. \A s \in Slots :
        entries'[s].state \in {"Ready", "TentativeRepresented"} => entries'[s] = entries[s]
  BY <1>1 DEF Moved, CreditStates
<1>3. Holds(ready, "Ready")' /\ Holds(tentative, "TentativeRepresented")'
  BY <1>q, <1>r, <1>s DEF QueueInv, Holds
<1>4. QueueOrdered'
  <2>1. (Sorted(ready) /\ Sorted(tentative))'
    BY <1>r DEF QueueInv, QueueOrdered, Sorted, Older
  <2>2. (\A i \in 1..Len(tentative) : \A j \in 1..Len(ready) : Older(tentative[i], ready[j]))'
    BY <1>r DEF QueueInv, QueueOrdered, Older
  <2>3. \A s \in Slots : entries'[s].state \in PastStates =>
          entries[s].state \in PastStates /\ entries'[s].seqId = entries[s].seqId
    BY <1>1 DEF Moved
  <2>4. (Behind(ready) /\ Behind(tentative))'
    BY <1>r, <2>3 DEF QueueInv, QueueOrdered, Behind, Older
  <2> QED
    BY <2>1, <2>2, <2>4 DEF QueueOrdered
<1>5. CreditsCounted'
  <2>1. Credited' = Credited
    BY <1>1, <1>2, CreditSet, CreditSetNext DEF QueueInv, Moved
  <2> QED
    BY <2>1 DEF QueueInv, CreditsCounted
<1> QED
  BY <1>2, <1>3, <1>4, <1>5 DEF QueueInv

\* Sources past their representation move on, retire or leave the ring.
LEMMA QueueQuiet ==
  ASSUME TypeOK, QueueInv,
         UNCHANGED <<ready, tentative, reservations, strictWritingActive>>,
         batch'.count = batch.count, batch'.first = batch.first,
         \A s \in Slots :
           \/ entries'[s] = entries[s]
           \/ /\ entries[s].state \notin CreditStates /\ entries[s].detach # "Abort"
              /\ entries'[s].state \notin CreditStates
              /\ entries'[s].detach # "Abort" /\ ~ entries'[s].reserved
              /\ entries'[s].state \in PastStates =>
                   /\ entries[s].state \in PastStates
                   /\ entries'[s].seqId = entries[s].seqId
  PROVE  QueueInv'
<1>1. OpenSources' = OpenSources
  BY DEF OpenSources, CreditStates
<1>2. \A s \in OpenSources : entries'[s].seqId = entries[s].seqId
  BY DEF OpenSources, CreditStates
<1>3. \A s \in Slots : entries'[s].state \in PublishedStates =>
        /\ entries[s].state \in PublishedStates
        /\ entries'[s].seqId = entries[s].seqId
  BY DEF PublishedStates, CreditStates
<1>4. StrictOpen'
  BY <1>1, <1>2, <1>3, OpenKept DEF QueueInv
<1> QED
  BY <1>4, QueuesKept

\* A reservation: the new sources are being written, with numbers above all, or
\* none yet; a strict admission opens with them and there was none.
LEMMA QueueReserve ==
  ASSUME TypeOK, TypeOK', IdentityInv, QueueInv,
         NEW k \in 1..SourceSlotCount, NEW kind \in Kinds, NEW q \in Nat,
         \A s \in Slots :
           /\ Distance(sourceTail, s) < k =>
                /\ entries[s].state = "Free"
                /\ entries'[s].state = "Writing" /\ entries'[s].kind = kind
                /\ entries'[s].reserved /\ entries'[s].detach = "None"
                /\ kind = "Arena" => entries'[s].seqId = q + Distance(sourceTail, s)
           /\ ~(Distance(sourceTail, s) < k) => entries'[s] = entries[s],
         UNCHANGED <<ready, tentative>>, reservations' = reservations + k,
         reservations + k <= HighWaterReady, ~ strictWritingActive,
         kind = "Arena" => q > seqIdHighWater /\ strictWritingActive',
         \/ batch.count = 0 /\ batch' = batch /\ (kind = "Arena" => k = 1)
         \/ batch'.first = sourceTail /\ batch'.count = k /\ kind = "Arena"
  PROVE  QueueInv'
<1> DEFINE New(s) == Distance(sourceTail, s) < k
<1>1. sourceTail \in Slots /\ k \in Nat /\ k > 0 /\ seqIdHighWater \in Nat
  BY ConfigValid DEF TypeOK
<1>2. \A s \in Slots :
           /\ New(s) =>
                /\ entries[s].state = "Free"
                /\ entries'[s].state = "Writing" /\ entries'[s].kind = kind
                /\ entries'[s].reserved /\ entries'[s].detach = "None"
                /\ kind = "Arena" => entries'[s].seqId = q + Distance(sourceTail, s)
           /\ ~New(s) => entries'[s] = entries[s]
  OBVIOUS
<1> HIDE DEF New
<1>q. /\ ready \in Seq(Slots) /\ tentative \in Seq(Slots)
      /\ \A i \in 1..Len(ready) : ready[i] \in Slots /\ entries[ready[i]].state = "Ready"
      /\ \A i \in 1..Len(tentative) :
           tentative[i] \in Slots /\ entries[tentative[i]].state = "TentativeRepresented"
  BY QueueMembers
<1>r. /\ \A i \in 1..Len(ready) : entries'[ready[i]] = entries[ready[i]]
      /\ \A i \in 1..Len(tentative) : entries'[tentative[i]] = entries[tentative[i]]
  BY <1>2, <1>q
<1>s. \A s \in Slots : entries'[s].state \notin {"Writing"} => entries'[s] = entries[s]
  BY <1>2
<1>3. CreditsHeld'
  BY <1>2 DEF QueueInv, CreditsHeld, CreditStates
<1>4. Holds(ready, "Ready")' /\ Holds(tentative, "TentativeRepresented")'
  BY <1>q, <1>r, <1>s DEF QueueInv, Holds
<1>5. QueueOrdered'
  <2>1. (Sorted(ready) /\ Sorted(tentative))'
    BY <1>r DEF QueueInv, QueueOrdered, Sorted, Older
  <2>2. (\A i \in 1..Len(tentative) : \A j \in 1..Len(ready) : Older(tentative[i], ready[j]))'
    BY <1>r DEF QueueInv, QueueOrdered, Older
  <2>4. (Behind(ready) /\ Behind(tentative))'
    BY <1>r, <1>s DEF QueueInv, QueueOrdered, Behind, Older, PastStates
  <2> QED
    BY <2>1, <2>2, <2>4 DEF QueueOrdered
<1>6. StrictOpen'
  <2>1. OpenSources = {}
    BY DEF QueueInv, StrictOpen
  <2>2. OpenSources' = IF kind = "Arena" THEN {s \in Slots : New(s)} ELSE {}
    BY <1>2, <2>1 DEF OpenSources, Kinds
  <2>3. CASE kind = "Legacy"
    <3>1. batch'.count = 0 /\ OpenSources' = {}
      BY <2>2, <2>3
    <3> QED
      BY <3>1 DEF StrictOpen
  <2>4. CASE kind = "Arena"
    <3>1. \A s \in OpenSources' :
            s \in Slots /\ New(s) /\ entries'[s].seqId = q + Distance(sourceTail, s)
      BY <1>2, <2>2, <2>4
    <3>2. \A s \in Slots : Distance(sourceTail, s) \in Nat
      BY <1>1, DistanceType
    <3>3. \A r \in Slots :
            entries'[r].state \in {"Ready", "TentativeRepresented"} \cup PastStates =>
              entries'[r].seqId \in Nat /\ entries'[r].seqId <= seqIdHighWater
      <4> TAKE r \in Slots
      <4> HAVE entries'[r].state \in {"Ready", "TentativeRepresented"} \cup PastStates
      <4>1. entries'[r] = entries[r] /\ entries[r].state # "Free"
        BY <1>s DEF PastStates
      <4>2. entries[r].seqId \in Nat
        BY DEF TypeOK, EntryType
      <4> QED
        BY <4>1, <4>2 DEF IdentityInv, IdentityUnique, Resident
    <3>a. (\A s \in OpenSources : \A r \in Slots :
             entries[r].state \in {"Ready", "TentativeRepresented"} \cup PastStates =>
               Older(r, s))'
      BY <1>1, <2>4, <3>1, <3>2, <3>3 DEF Older
    <3>b. ASSUME batch.count = 0, batch' = batch, k = 1
          PROVE  StrictOpen'
      <4>1. \A s \in OpenSources' : s = sourceTail
        BY <1>1, <3>1, <3>b, DistanceOne DEF New
      <4> QED
        BY <2>4, <3>a, <3>b, <4>1 DEF StrictOpen
    <3>c. ASSUME batch'.first = sourceTail, batch'.count = k
          PROVE  StrictOpen'
      <4>1. OpenSources' = BatchSlots'
        BY <2>2, <2>4, <3>c DEF BatchSlots, New
      <4>2. \A s, t \in OpenSources' :
              Distance(sourceTail, s) < Distance(sourceTail, t) =>
                entries'[s].seqId < entries'[t].seqId
        BY <3>1, <3>2
      <4> QED
        BY <1>1, <2>4, <3>a, <3>c, <4>1, <4>2 DEF StrictOpen, Older
    <3> QED
      BY <2>4, <3>b, <3>c
  <2> QED
    BY <2>3, <2>4 DEF Kinds
<1>7. CreditsCounted'
  <2>1. Credited' = Credited \cup {s \in Slots : New(s)}
    BY <1>2, <1>3, CreditSet, CreditSetNext DEF QueueInv, CreditStates
  <2>2. Credited \cap {s \in Slots : New(s)} = {}
    BY <1>2, CreditSet DEF QueueInv, CreditStates
  <2>3. Cardinality({s \in Slots : New(s)}) = k
    BY <1>1, ArcCount, k \in 0..SourceSlotCount DEF New
  <2>4. Credited \in SUBSET Slots
    BY DEF Credited
  <2>5. IsFiniteSet(Credited) /\ IsFiniteSet({s \in Slots : New(s)})
    BY <2>4, SlotSets, {s \in Slots : New(s)} \in SUBSET Slots
  <2>6. Cardinality(Credited') = Cardinality(Credited) + k
    <3> DEFINE N == {s \in Slots : New(s)}
    <3>1. IsFiniteSet(N) /\ Cardinality(N) = k /\ Credited \cap N = {}
      BY <2>2, <2>3, <2>5
    <3>2. Credited' = Credited \cup N
      BY <2>1
    <3>3. Cardinality(Credited) \in Nat /\ Cardinality({}) = 0
      BY <2>5, FS_CardinalityType, FS_EmptySet
    <3> HIDE DEF N
    <3>4. Cardinality(Credited \cup N) =
            Cardinality(Credited) + Cardinality(N) - Cardinality(Credited \cap N)
      BY <2>5, <3>1, FS_Union
    <3>5. Cardinality(Credited \cap N) = 0
      BY <3>1, <3>3
    <3>6. Cardinality(Credited') = Cardinality(Credited \cup N)
      BY <3>2
    <3> QED
      BY <1>1, <3>1, <3>3, <3>4, <3>5, <3>6
  <2>7. reservations = Cardinality(Credited)
    BY DEF QueueInv, CreditsCounted
  <2> QED
    BY <2>6, <2>7 DEF CreditsCounted
<1> QED
  BY <1>3, <1>4, <1>5, <1>6, <1>7 DEF QueueInv

\* Publication: the sources of a sequence become Ready at the end of the FIFO,
\* in the order of their numbers and above everything published; no strict
\* admission is left open.
LEMMA QueuePublish ==
  ASSUME TypeOK, QueueInv, NEW S \in SUBSET Slots, NEW order \in Seq(Slots),
         \A s : s \in S <=> \E i \in 1..Len(order) : order[i] = s,
         \A s \in Slots :
           /\ s \in S =>
                /\ entries[s].state = "Writing" /\ entries'[s].state = "Ready"
                /\ entries'[s].reserved = entries[s].reserved
                /\ entries'[s].detach = entries[s].detach
           /\ s \notin S => entries'[s] = entries[s],
         \A i, j \in 1..Len(order) : i < j =>
           entries'[order[i]].seqId < entries'[order[j]].seqId,
         \A s \in S : \A r \in Slots : entries[r].state \in PublishedStates =>
           entries[r].seqId < entries'[s].seqId,
         ready' = ready \o order, UNCHANGED <<tentative, reservations>>,
         OpenSources' = {}, batch'.count = 0
  PROVE  QueueInv'
<1>q. /\ ready \in Seq(Slots) /\ tentative \in Seq(Slots)
      /\ \A i \in 1..Len(ready) : ready[i] \in Slots /\ entries[ready[i]].state = "Ready"
      /\ \A i \in 1..Len(tentative) :
           tentative[i] \in Slots /\ entries[tentative[i]].state = "TentativeRepresented"
      /\ \A i \in 1..Len(order) : order[i] \in S
  BY QueueMembers
<1>r. /\ \A i \in 1..Len(ready) : entries'[ready[i]] = entries[ready[i]]
      /\ \A i \in 1..Len(tentative) : entries'[tentative[i]] = entries[tentative[i]]
  BY <1>q
<1>c. /\ Len(ready') = Len(ready) + Len(order)
      /\ \A i \in 1..Len(ready') : \/ i \in 1..Len(ready) /\ ready'[i] = ready[i]
                                   \/ /\ i - Len(ready) \in 1..Len(order)
                                      /\ ready'[i] = order[i - Len(ready)]
      /\ \A i \in 1..Len(ready) : i \in 1..Len(ready') /\ ready'[i] = ready[i]
      /\ \A i \in 1..Len(order) : /\ i + Len(ready) \in 1..Len(ready')
                                  /\ ready'[i + Len(ready)] = order[i]
  BY <1>q
<1>n. Len(ready) \in Nat /\ Len(order) \in Nat
  BY <1>q
<1>1. CreditsHeld'
  BY DEF QueueInv, CreditsHeld, CreditStates
<1>2. Holds(tentative, "TentativeRepresented")'
  <2>1. \A s \in Slots : entries'[s].state = "TentativeRepresented" => entries'[s] = entries[s]
    OBVIOUS
  <2>2. Holds(tentative, "TentativeRepresented")
    BY DEF QueueInv
  <2>3. tentative' = tentative
    OBVIOUS
  <2>4. \A i \in 1..Len(tentative') : entries'[tentative'[i]].state = "TentativeRepresented"
    BY <1>q, <1>r, <2>3
  <2>5. \A s \in Slots : entries'[s].state = "TentativeRepresented" =>
          \E i \in 1..Len(tentative') : tentative'[i] = s
    BY <2>1, <2>2, <2>3 DEF Holds
  <2> QED
    BY <2>4, <2>5 DEF Holds
<1>3. Holds(ready, "Ready")'
  <2>1. \A i \in 1..Len(ready') : entries'[ready'[i]].state = "Ready"
    BY <1>c, <1>q, <1>r
  <2>2. ASSUME NEW s \in Slots, entries'[s].state = "Ready"
        PROVE  \E i \in 1..Len(ready') : ready'[i] = s
    <3>1. CASE s \in S
      <4>1. PICK i \in 1..Len(order) : order[i] = s
        BY <3>1
      <4> QED
        BY <1>c, <4>1
    <3>2. CASE s \notin S
      <4>1. PICK i \in 1..Len(ready) : ready[i] = s
        BY <2>2, <3>2 DEF QueueInv, Holds
      <4> QED
        BY <1>c, <4>1
    <3> QED
      BY <3>1, <3>2
  <2> QED
    BY <2>1, <2>2 DEF Holds
<1>4. QueueOrdered'
  <2>1. Sorted(tentative)'
    BY <1>r DEF QueueInv, QueueOrdered, Sorted, Older
  <2>2. Sorted(ready)'
    <3> SUFFICES ASSUME NEW i \in 1..Len(ready'), NEW j \in 1..Len(ready'), i < j
                 PROVE  entries'[ready'[i]].seqId < entries'[ready'[j]].seqId
      BY DEF Sorted, Older
    <3>1. CASE i \in 1..Len(ready) /\ ready'[i] = ready[i]
               /\ j \in 1..Len(ready) /\ ready'[j] = ready[j]
      <4>1. entries[ready[i]].seqId < entries[ready[j]].seqId
        BY <3>1 DEF QueueInv, QueueOrdered, Sorted, Older
      <4> QED
        BY <1>r, <3>1, <4>1
    <3>2. CASE i \in 1..Len(ready) /\ ready'[i] = ready[i]
               /\ j - Len(ready) \in 1..Len(order) /\ ready'[j] = order[j - Len(ready)]
      <4>1. ready'[j] \in S
        BY <1>q, <3>2
      <4>2. /\ ready[i] \in Slots /\ entries[ready[i]].state \in PublishedStates
            /\ entries'[ready[i]] = entries[ready[i]]
        BY <1>q, <1>r, <3>2 DEF PublishedStates
      <4>3. entries[ready[i]].seqId < entries'[ready'[j]].seqId
        BY <4>1, <4>2
      <4> QED
        BY <3>2, <4>2, <4>3
    <3>3. CASE /\ i - Len(ready) \in 1..Len(order) /\ ready'[i] = order[i - Len(ready)]
               /\ j - Len(ready) \in 1..Len(order) /\ ready'[j] = order[j - Len(ready)]
      <4>1. i - Len(ready) < j - Len(ready)
        BY <1>n
      <4> QED
        BY <3>3, <4>1
    <3>4. CASE /\ i - Len(ready) \in 1..Len(order) /\ j \in 1..Len(ready)
      BY <1>n, <3>4
    <3> QED
      BY <1>c, <3>1, <3>2, <3>3, <3>4
  <2>3. (\A i \in 1..Len(tentative) : \A j \in 1..Len(ready) : Older(tentative[i], ready[j]))'
    <3> SUFFICES ASSUME NEW i \in 1..Len(tentative), NEW j \in 1..Len(ready')
                 PROVE  entries'[tentative[i]].seqId < entries'[ready'[j]].seqId
      BY DEF Older
    <3>1. CASE j \in 1..Len(ready) /\ ready'[j] = ready[j]
      BY <1>r, <3>1 DEF QueueInv, QueueOrdered, Older
    <3>2. CASE j - Len(ready) \in 1..Len(order) /\ ready'[j] = order[j - Len(ready)]
      <4>1. ready'[j] \in S
        BY <1>q, <3>2
      <4>2. /\ tentative[i] \in Slots /\ entries[tentative[i]].state \in PublishedStates
            /\ entries'[tentative[i]] = entries[tentative[i]]
        BY <1>q, <1>r DEF PublishedStates
      <4>3. entries[tentative[i]].seqId < entries'[ready'[j]].seqId
        BY <4>1, <4>2
      <4> QED
        BY <4>2, <4>3
    <3> QED
      BY <1>c, <3>1, <3>2
  <2>4. \A s \in Slots : entries'[s].state \in PastStates =>
          entries[s].state \in PastStates /\ entries'[s] = entries[s]
    BY DEF PastStates
  <2>5. Behind(tentative)'
    BY <1>r, <2>4 DEF QueueInv, QueueOrdered, Behind, Older
  <2>6. Behind(ready)'
    <3> SUFFICES ASSUME NEW s \in Slots, entries'[s].state \in PastStates,
                        NEW j \in 1..Len(ready')
                 PROVE  entries'[s].seqId < entries'[ready'[j]].seqId
      BY DEF Behind, Older
    <3>1. CASE j \in 1..Len(ready) /\ ready'[j] = ready[j]
      BY <1>r, <2>4, <3>1 DEF QueueInv, QueueOrdered, Behind, Older
    <3>2. CASE j - Len(ready) \in 1..Len(order) /\ ready'[j] = order[j - Len(ready)]
      <4>1. ready'[j] \in S
        BY <1>q, <3>2
      <4>2. entries[s].state \in PublishedStates /\ entries'[s] = entries[s]
        BY <2>4 DEF PublishedStates
      <4>3. entries[s].seqId < entries'[ready'[j]].seqId
        BY <4>1, <4>2
      <4> QED
        BY <4>2, <4>3
    <3> QED
      BY <1>c, <3>1, <3>2
  <2> QED
    BY <2>1, <2>2, <2>3, <2>5, <2>6 DEF QueueOrdered
<1>5. StrictOpen'
  BY DEF StrictOpen
<1>6. CreditsCounted'
  <2>1. Credited' = Credited
    BY <1>1, CreditSet, CreditSetNext DEF QueueInv, CreditStates
  <2> QED
    BY <2>1 DEF QueueInv, CreditsCounted
<1> QED
  BY <1>1, <1>2, <1>3, <1>4, <1>5, <1>6 DEF QueueInv

\* An abort: sources that were being written give their credits back.
LEMMA QueueAbort ==
  ASSUME TypeOK, QueueInv, StrictOpen', NEW S \in SUBSET Slots,
         \A s \in Slots :
           /\ s \in S =>
                /\ entries[s].state = "Writing"
                /\ entries'[s].state \in {"Free", "Reclaiming"}
                /\ \/ ~ entries'[s].reserved /\ entries'[s].detach # "Abort"
                   \/ /\ entries'[s].detach = "Abort" /\ entries'[s].kind = "Arena"
                      /\ entries'[s].state = "Reclaiming"
           /\ s \notin S => entries'[s] = entries[s],
         reservations' = reservations - Cardinality(S), UNCHANGED <<ready, tentative>>
  PROVE  QueueInv'
<1>q. /\ \A i \in 1..Len(ready) : ready[i] \in Slots /\ entries[ready[i]].state = "Ready"
      /\ \A i \in 1..Len(tentative) :
           tentative[i] \in Slots /\ entries[tentative[i]].state = "TentativeRepresented"
  BY QueueMembers
<1>r. /\ \A i \in 1..Len(ready) : entries'[ready[i]] = entries[ready[i]]
      /\ \A i \in 1..Len(tentative) : entries'[tentative[i]] = entries[tentative[i]]
  BY <1>q
<1>1. CreditsHeld'
  BY DEF QueueInv, CreditsHeld, CreditStates
<1>2. Holds(ready, "Ready")' /\ Holds(tentative, "TentativeRepresented")'
  BY <1>q, <1>r DEF QueueInv, Holds
<1>3. QueueOrdered'
  <2>1. (Sorted(ready) /\ Sorted(tentative))'
    BY <1>r DEF QueueInv, QueueOrdered, Sorted, Older
  <2>2. (\A i \in 1..Len(tentative) : \A j \in 1..Len(ready) : Older(tentative[i], ready[j]))'
    BY <1>r DEF QueueInv, QueueOrdered, Older
  <2>3. \A s \in Slots : entries'[s].state \in PastStates => entries'[s] = entries[s]
    BY DEF PastStates
  <2>4. (Behind(ready) /\ Behind(tentative))'
    BY <1>r, <2>3 DEF QueueInv, QueueOrdered, Behind, Older
  <2> QED
    BY <2>1, <2>2, <2>4 DEF QueueOrdered
<1>4. CreditsCounted'
  <2>1. Credited' = Credited \ S /\ Credited \cap S = S
    BY <1>1, CreditSet, CreditSetNext DEF QueueInv, CreditStates
  <2>2. /\ IsFiniteSet(Credited) /\ Cardinality(Credited) \in Nat
        /\ Cardinality(S) \in Nat
    BY SlotSets, Credited \in SUBSET Slots DEF Credited
  <2>3. Cardinality(Credited \ S) = Cardinality(Credited) - Cardinality(Credited \cap S)
    BY <2>2, FS_Difference
  <2>4. Cardinality(Credited') = Cardinality(Credited \ S)
        /\ Cardinality(Credited \cap S) = Cardinality(S)
    BY <2>1
  <2>5. reservations = Cardinality(Credited) /\ reservations <= HighWaterReady
    BY DEF QueueInv, CreditsCounted
  <2> QED
    BY <2>2, <2>3, <2>4, <2>5, ConfigValid DEF CreditsCounted
<1> QED
  BY <1>1, <1>2, <1>3, <1>4 DEF QueueInv

\* The encode thread takes, restores or commits a prefix: a step that changes
\* only the states of published sources keeps the strict lane.
LEMMA OpenPublished ==
  ASSUME StrictOpen, UNCHANGED strictWritingActive,
         batch'.count = batch.count, batch'.first = batch.first,
         \A s \in Slots :
           \/ entries'[s] = entries[s]
           \/ /\ entries[s].state \in {"Ready", "TentativeRepresented"}
              /\ entries'[s].state \in PublishedStates
              /\ entries'[s].detach = entries[s].detach
              /\ entries'[s].kind = entries[s].kind
              /\ entries'[s].seqId = entries[s].seqId
  PROVE  StrictOpen'
<1>1. OpenSources' = OpenSources
  BY DEF OpenSources, PublishedStates, PastStates
<1>2. \A s \in OpenSources : entries'[s].seqId = entries[s].seqId
  BY DEF OpenSources
<1>3. \A s \in Slots : entries'[s].state \in PublishedStates =>
        /\ entries[s].state \in PublishedStates
        /\ entries'[s].seqId = entries[s].seqId
  BY DEF PublishedStates
<1> QED
  BY <1>1, <1>2, <1>3, OpenKept

\* A prefix of the FIFO becomes tentative.
LEMMA QueueTake ==
  ASSUME TypeOK, QueueInv, StrictOpen', NEW k \in 1..Len(ready), tentative = <<>>,
         \A s \in Slots :
           \/ /\ \E i \in 1..k : ready[i] = s
              /\ entries'[s].state = "TentativeRepresented"
              /\ entries'[s].reserved = entries[s].reserved
              /\ entries'[s].detach = entries[s].detach
              /\ entries'[s].seqId = entries[s].seqId
           \/ (\A i \in 1..k : ready[i] # s) /\ entries'[s] = entries[s],
         tentative' = SubSeq(ready, 1, k), ready' = SubSeq(ready, k + 1, Len(ready)),
         reservations' = reservations
  PROVE  QueueInv'
<1>q. /\ ready \in Seq(Slots)
      /\ \A i \in 1..Len(ready) : ready[i] \in Slots /\ entries[ready[i]].state = "Ready"
  BY QueueMembers
<1>n. Len(ready) \in Nat /\ k \in Nat /\ k <= Len(ready) /\ 1 <= k
  BY <1>q
<1>t. /\ Len(tentative') = k /\ \A i \in 1..k : tentative'[i] = ready[i]
      /\ \A i \in 1..k : i \in 1..Len(ready)
  BY <1>q, <1>n
<1>r. /\ Len(ready') = Len(ready) - k
      /\ \A i \in 1..Len(ready') : i + k \in 1..Len(ready) /\ ready'[i] = ready[i + k]
  BY <1>q, <1>n
<1>s. \A s \in Slots : entries'[s].seqId = entries[s].seqId
  OBVIOUS
<1>d. \A i, j \in 1..Len(ready) : i # j => ready[i] # ready[j]
  <2>1. \A i, j \in 1..Len(ready) : i < j =>
          entries[ready[i]].seqId < entries[ready[j]].seqId
    BY DEF QueueInv, QueueOrdered, Sorted, Older
  <2>2. \A i \in 1..Len(ready) : entries[ready[i]].seqId \in Nat
    BY <1>q DEF TypeOK, EntryType
  <2> QED
    BY <1>n, <2>1, <2>2
<1>1. CreditsHeld'
  BY <1>q, <1>n DEF QueueInv, CreditsHeld, CreditStates
<1>2. Holds(tentative, "TentativeRepresented")'
  <2>1. \A i \in 1..k : entries'[ready[i]].state = "TentativeRepresented"
    BY <1>q, <1>t
  <2>2. \A s \in Slots : entries[s].state # "TentativeRepresented"
    BY DEF QueueInv, Holds
  <2>3. \A s \in Slots : entries'[s].state = "TentativeRepresented" =>
          \E i \in 1..k : ready[i] = s
    BY <2>2
  <2> QED
    BY <1>t, <2>1, <2>3 DEF Holds
<1>3. Holds(ready, "Ready")'
  <2>1. ASSUME NEW i \in 1..Len(ready') PROVE entries'[ready'[i]].state = "Ready"
    <3>1. i + k \in 1..Len(ready) /\ ready'[i] = ready[i + k]
      BY <1>r
    <3>2. \A j \in 1..k : j \in 1..Len(ready) /\ j # i + k
      BY <1>n, <1>r
    <3>3. \A j \in 1..k : ready[j] # ready[i + k]
      BY <1>d, <3>1, <3>2
    <3> QED
      BY <1>q, <3>1, <3>3
  <2>2. ASSUME NEW s \in Slots, entries'[s].state = "Ready"
        PROVE  \E i \in 1..Len(ready') : ready'[i] = s
    <3>1. (\A i \in 1..k : ready[i] # s) /\ entries[s].state = "Ready"
      BY <2>2
    <3>2. PICK j \in 1..Len(ready) : ready[j] = s
      BY <3>1 DEF QueueInv, Holds
    <3>3. j \notin 1..k
      BY <3>1, <3>2
    <3>4. j - k \in 1..Len(ready') /\ (j - k) + k = j
      BY <1>n, <1>r, <3>3
    <3>5. ready'[j - k] = s
      BY <1>r, <3>2, <3>4
    <3> QED
      BY <3>4, <3>5
  <2> QED
    BY <2>1, <2>2 DEF Holds
<1>4. QueueOrdered'
  <2>0. \A i, j \in 1..Len(ready) : i < j =>
          entries'[ready[i]].seqId < entries'[ready[j]].seqId
    BY <1>q, <1>s DEF QueueInv, QueueOrdered, Sorted, Older
  <2>1. Sorted(tentative)'
    BY <1>t, <2>0 DEF Sorted, Older
  <2>2. Sorted(ready)'
    <3> SUFFICES ASSUME NEW i \in 1..Len(ready'), NEW j \in 1..Len(ready'), i < j
                 PROVE  entries'[ready'[i]].seqId < entries'[ready'[j]].seqId
      BY DEF Sorted, Older
    <3>1. /\ i + k \in 1..Len(ready) /\ j + k \in 1..Len(ready)
          /\ ready'[i] = ready[i + k] /\ ready'[j] = ready[j + k]
      BY <1>r
    <3>2. i + k < j + k
      BY <1>n, <1>r
    <3>3. entries'[ready[i + k]].seqId < entries'[ready[j + k]].seqId
      BY <2>0, <3>1, <3>2
    <3> QED
      BY <3>1, <3>3
  <2>3. (\A i \in 1..Len(tentative) : \A j \in 1..Len(ready) : Older(tentative[i], ready[j]))'
    <3> SUFFICES ASSUME NEW i \in 1..k, NEW j \in 1..Len(ready')
                 PROVE  entries'[ready[i]].seqId < entries'[ready'[j]].seqId
      BY <1>t DEF Older
    <3>1. /\ i \in 1..Len(ready) /\ j + k \in 1..Len(ready)
          /\ ready'[j] = ready[j + k]
      BY <1>r, <1>t
    <3>2. i < j + k
      BY <1>n, <1>r
    <3>3. entries'[ready[i]].seqId < entries'[ready[j + k]].seqId
      BY <2>0, <3>1, <3>2
    <3> QED
      BY <3>1, <3>3
  <2>4. \A s \in Slots : entries'[s].state \in PastStates => entries[s].state \in PastStates
    BY DEF PastStates
  <2>5. \A s \in Slots : entries'[s].state \in PastStates =>
          \A i \in 1..Len(ready) : entries'[s].seqId < entries'[ready[i]].seqId
    BY <1>q, <1>s, <2>4 DEF QueueInv, QueueOrdered, Behind, Older
  <2>6. Behind(tentative)'
    BY <1>t, <2>5 DEF Behind, Older
  <2>7. Behind(ready)'
    BY <1>r, <2>5 DEF Behind, Older
  <2> QED
    BY <2>1, <2>2, <2>3, <2>6, <2>7 DEF QueueOrdered
<1>5. CreditsCounted'
  <2>0. \A s \in Slots : entries'[s] = entries[s] \/
          (entries[s].state = "Ready" /\ entries'[s].state = "TentativeRepresented")
    BY <1>q, <1>t
  <2>1. Credited' = Credited
    BY <1>1, <2>0, CreditSet, CreditSetNext DEF QueueInv, CreditStates
  <2> QED
    BY <2>1 DEF QueueInv, CreditsCounted
<1> QED
  BY <1>1, <1>2, <1>3, <1>4, <1>5 DEF QueueInv

\* The tentative prefix goes back in front of the FIFO.
LEMMA QueueRestore ==
  ASSUME TypeOK, QueueInv, StrictOpen',
         \A s \in Slots :
           \/ /\ \E i \in 1..Len(tentative) : tentative[i] = s
              /\ entries'[s].state = "Ready"
              /\ entries'[s].reserved = entries[s].reserved
              /\ entries'[s].detach = entries[s].detach
              /\ entries'[s].seqId = entries[s].seqId
           \/ (\A i \in 1..Len(tentative) : tentative[i] # s) /\ entries'[s] = entries[s],
         tentative' = <<>>, ready' = tentative \o ready, reservations' = reservations
  PROVE  QueueInv'
<1>q. /\ ready \in Seq(Slots) /\ tentative \in Seq(Slots)
      /\ \A i \in 1..Len(ready) : ready[i] \in Slots /\ entries[ready[i]].state = "Ready"
      /\ \A i \in 1..Len(tentative) :
           tentative[i] \in Slots /\ entries[tentative[i]].state = "TentativeRepresented"
  BY QueueMembers
<1> DEFINE n == Len(tentative)
<1>n. Len(ready) \in Nat /\ n \in Nat
  BY <1>q
<1>c. /\ Len(ready') = n + Len(ready)
      /\ \A i \in 1..Len(ready') : \/ i \in 1..n /\ ready'[i] = tentative[i]
                                   \/ i - n \in 1..Len(ready) /\ ready'[i] = ready[i - n]
      /\ \A i \in 1..n : i \in 1..Len(ready') /\ ready'[i] = tentative[i]
      /\ \A i \in 1..Len(ready) : /\ i + n \in 1..Len(ready')
                                  /\ ready'[i + n] = ready[i]
  BY <1>q
<1>s. \A s \in Slots : entries'[s].seqId = entries[s].seqId
  OBVIOUS
<1>e. \A s \in Slots :
        \/ entries'[s] = entries[s] /\ entries[s].state # "TentativeRepresented"
        \/ entries[s].state = "TentativeRepresented" /\ entries'[s].state = "Ready"
  BY <1>q DEF QueueInv, Holds
<1>1. CreditsHeld'
  BY <1>q DEF QueueInv, CreditsHeld, CreditStates
<1>2. Holds(tentative, "TentativeRepresented")'
  BY <1>e DEF Holds
<1>3. Holds(ready, "Ready")'
  <2>1. ASSUME NEW i \in 1..Len(ready') PROVE entries'[ready'[i]].state = "Ready"
    <3>1. CASE i \in 1..n /\ ready'[i] = tentative[i]
      BY <1>e, <1>q, <3>1
    <3>2. CASE i - n \in 1..Len(ready) /\ ready'[i] = ready[i - n]
      BY <1>e, <1>q, <3>2
    <3> QED
      BY <1>c, <3>1, <3>2
  <2>2. ASSUME NEW s \in Slots, entries'[s].state = "Ready"
        PROVE  \E i \in 1..Len(ready') : ready'[i] = s
    <3>1. CASE entries[s].state = "TentativeRepresented"
      <4>1. PICK i \in 1..n : tentative[i] = s
        BY <3>1 DEF QueueInv, Holds
      <4> QED
        BY <1>c, <4>1
    <3>2. CASE entries[s].state = "Ready"
      <4>1. PICK i \in 1..Len(ready) : ready[i] = s
        BY <3>2 DEF QueueInv, Holds
      <4> QED
        BY <1>c, <4>1
    <3> QED
      BY <1>e, <2>2, <3>1, <3>2
  <2> QED
    BY <2>1, <2>2 DEF Holds
<1>4. QueueOrdered'
  <2>0. QueueOrdered
    BY DEF QueueInv
  <2>1. Sorted(ready)'
    <3> SUFFICES ASSUME NEW i \in 1..Len(ready'), NEW j \in 1..Len(ready'), i < j
                 PROVE  entries'[ready'[i]].seqId < entries'[ready'[j]].seqId
      BY DEF Sorted, Older
    <3>1. CASE /\ i \in 1..n /\ ready'[i] = tentative[i]
               /\ j \in 1..n /\ ready'[j] = tentative[j]
      <4>1. entries[tentative[i]].seqId < entries[tentative[j]].seqId
        BY <2>0, <3>1 DEF QueueOrdered, Sorted, Older
      <4> QED
        BY <1>q, <1>s, <3>1, <4>1
    <3>2. CASE /\ i \in 1..n /\ ready'[i] = tentative[i]
               /\ j - n \in 1..Len(ready) /\ ready'[j] = ready[j - n]
      <4>1. entries[tentative[i]].seqId < entries[ready[j - n]].seqId
        BY <2>0, <3>2 DEF QueueOrdered, Older
      <4> QED
        BY <1>q, <1>s, <3>2, <4>1
    <3>3. CASE /\ i - n \in 1..Len(ready) /\ ready'[i] = ready[i - n]
               /\ j - n \in 1..Len(ready) /\ ready'[j] = ready[j - n]
      <4>0. i - n < j - n
        BY <1>n
      <4>1. entries[ready[i - n]].seqId < entries[ready[j - n]].seqId
        BY <2>0, <3>3, <4>0 DEF QueueOrdered, Sorted, Older
      <4> QED
        BY <1>q, <1>s, <3>3, <4>1
    <3>4. CASE i - n \in 1..Len(ready) /\ j \in 1..n
      BY <1>n, <3>4
    <3> QED
      BY <1>c, <3>1, <3>2, <3>3, <3>4
  <2>2. \A s \in Slots : entries'[s].state \in PastStates => entries[s].state \in PastStates
    BY <1>e DEF PastStates
  <2>3. Behind(ready)'
    <3> SUFFICES ASSUME NEW s \in Slots, entries'[s].state \in PastStates,
                        NEW j \in 1..Len(ready')
                 PROVE  entries'[s].seqId < entries'[ready'[j]].seqId
      BY DEF Behind, Older
    <3>1. CASE j \in 1..n /\ ready'[j] = tentative[j]
      <4>1. entries[s].seqId < entries[tentative[j]].seqId
        BY <2>0, <2>2, <3>1 DEF QueueOrdered, Behind, Older
      <4> QED
        BY <1>q, <1>s, <3>1, <4>1
    <3>2. CASE j - n \in 1..Len(ready) /\ ready'[j] = ready[j - n]
      <4>1. entries[s].seqId < entries[ready[j - n]].seqId
        BY <2>0, <2>2, <3>2 DEF QueueOrdered, Behind, Older
      <4> QED
        BY <1>q, <1>s, <3>2, <4>1
    <3> QED
      BY <1>c, <3>1, <3>2
  <2>4. Sorted(tentative)' /\ Behind(tentative)'
    BY DEF Sorted, Behind
  <2> QED
    BY <2>1, <2>3, <2>4 DEF QueueOrdered
<1>5. CreditsCounted'
  <2>1. Credited' = Credited
    BY <1>1, <1>e, CreditSet, CreditSetNext DEF QueueInv, CreditStates
  <2> QED
    BY <2>1 DEF QueueInv, CreditsCounted
<1> QED
  BY <1>1, <1>2, <1>3, <1>4, <1>5 DEF QueueInv

\* The tentative prefix is represented and its credits are returned.
LEMMA QueueCommit ==
  ASSUME TypeOK, QueueInv, StrictOpen',
         \A s \in Slots :
           \/ /\ s \in Members(tentative) /\ entries'[s].state = "Represented"
              /\ ~ entries'[s].reserved /\ entries'[s].detach = entries[s].detach
              /\ entries'[s].seqId = entries[s].seqId
           \/ s \notin Members(tentative) /\ entries'[s] = entries[s],
         tentative' = <<>>, ready' = ready,
         reservations' = reservations - Len(tentative)
  PROVE  QueueInv'
<1>q. /\ ready \in Seq(Slots) /\ tentative \in Seq(Slots)
      /\ \A i \in 1..Len(ready) : ready[i] \in Slots /\ entries[ready[i]].state = "Ready"
      /\ \A i \in 1..Len(tentative) :
           tentative[i] \in Slots /\ entries[tentative[i]].state = "TentativeRepresented"
  BY QueueMembers
<1>m. \A s \in Slots : s \in Members(tentative) <=> entries[s].state = "TentativeRepresented"
  <2>1. DOMAIN tentative = 1..Len(tentative)
    BY <1>q
  <2>2. Holds(tentative, "TentativeRepresented")
    BY DEF QueueInv
  <2> QED
    BY <2>1, <2>2 DEF Members, Holds
<1>s. \A s \in Slots : entries'[s].seqId = entries[s].seqId
  OBVIOUS
<1>e. \A s \in Slots :
        \/ entries'[s] = entries[s] /\ entries[s].state # "TentativeRepresented"
        \/ entries[s].state = "TentativeRepresented" /\ entries'[s].state = "Represented"
  BY <1>m
<1>1. CreditsHeld'
  BY <1>m DEF QueueInv, CreditsHeld, CreditStates
<1>2. Holds(tentative, "TentativeRepresented")'
  BY <1>e DEF Holds
<1>3. Holds(ready, "Ready")'
  <2>1. \A i \in 1..Len(ready) : entries'[ready[i]].state = "Ready"
    BY <1>e, <1>q
  <2> QED
    BY <1>e, <2>1 DEF QueueInv, Holds
<1>4. QueueOrdered'
  <2>0. QueueOrdered
    BY DEF QueueInv
  <2>1. Sorted(ready)'
    BY <1>q, <1>s, <2>0 DEF QueueOrdered, Sorted, Older
  <2>2. Behind(ready)'
    <3> SUFFICES ASSUME NEW s \in Slots, entries'[s].state \in PastStates,
                        NEW j \in 1..Len(ready)
                 PROVE  entries'[s].seqId < entries'[ready[j]].seqId
      BY DEF Behind, Older
    <3>1. CASE entries[s].state = "TentativeRepresented"
      <4>1. PICK i \in 1..Len(tentative) : tentative[i] = s
        BY <3>1 DEF QueueInv, Holds
      <4>2. entries[s].seqId < entries[ready[j]].seqId
        BY <2>0, <4>1 DEF QueueOrdered, Older
      <4> QED
        BY <1>q, <1>s, <4>2
    <3>2. CASE entries[s].state \in PastStates
      <4>1. entries[s].seqId < entries[ready[j]].seqId
        BY <2>0, <3>2 DEF QueueOrdered, Behind, Older
      <4> QED
        BY <1>q, <1>s, <4>1
    <3> QED
      BY <1>e, <3>1, <3>2
  <2>3. Sorted(tentative)' /\ Behind(tentative)'
    BY DEF Sorted, Behind
  <2> QED
    BY <2>1, <2>2, <2>3 DEF QueueOrdered
<1>5. CreditsCounted'
  <2>1. \A i, j \in 1..Len(tentative) : i < j => tentative[i] # tentative[j]
    <3>1. \A i, j \in 1..Len(tentative) : i < j =>
            entries[tentative[i]].seqId < entries[tentative[j]].seqId
      BY DEF QueueInv, QueueOrdered, Sorted, Older
    <3>2. \A i \in 1..Len(tentative) : entries[tentative[i]].seqId \in Nat
      BY <1>q DEF TypeOK, EntryType
    <3> QED
      BY <3>1, <3>2
  <2> DEFINE S == Members(tentative)
  <2>2. S \in SUBSET Slots /\ Cardinality(S) = Len(tentative)
    BY <1>q, <2>1, MembersCount
  <2>3. Credited' = Credited \ S /\ Credited \cap S = S
    <3>1. \A s \in S : s \in Slots
      BY <2>2
    <3> QED
      BY <1>1, <1>e, <1>m, <3>1, CreditSet, CreditSetNext DEF QueueInv, CreditStates
  <2> HIDE DEF S
  <2>4. /\ IsFiniteSet(Credited) /\ Cardinality(Credited) \in Nat
        /\ Cardinality(S) \in Nat
    BY <2>2, SlotSets, Credited \in SUBSET Slots DEF Credited
  <2>5. Cardinality(Credited \ S) = Cardinality(Credited) - Cardinality(Credited \cap S)
    BY <2>4, FS_Difference
  <2>6. Cardinality(Credited') = Cardinality(Credited \ S)
        /\ Cardinality(Credited \cap S) = Cardinality(S)
    BY <2>3
  <2>7. reservations = Cardinality(Credited) /\ reservations <= HighWaterReady
    BY DEF QueueInv, CreditsCounted
  <2> QED
    BY <2>2, <2>4, <2>5, <2>6, <2>7, ConfigValid DEF CreditsCounted
<1> QED
  BY <1>1, <1>2, <1>3, <1>4, <1>5 DEF QueueInv

\* A rollback frees entries: no credit and no abort is left in them.
LEMMA RollbackFree ==
  ASSUME TypeOK, NEW o, NEW k, RollbackNewest(o, k), NEW s \in Slots, Distance(o, s) < k
  PROVE  ~ entries'[s].reserved /\ entries'[s].detach # "Abort"
<1> DEFINE S == {r \in Slots : Distance(o, r) < k}
<1>1. PICK h, t, pt, oc : Release(S, h, t, pt, oc)
  BY DEF RollbackNewest
<1>2. s \in S
  OBVIOUS
<1> HIDE DEF S
<1>3. entries'[s] = FreeEntry(entries[s].generation + 1)
  BY <1>1, <1>2 DEF Release
<1> QED
  BY <1>3 DEF FreeEntry

\* A freed entry is a compatibility entry without a group.
LEMMA RollbackNoGroup ==
  ASSUME TypeOK, NEW o, NEW k, RollbackNewest(o, k), NEW s \in Slots, Distance(o, s) < k
  PROVE  entries'[s].group = NoGroup /\ entries'[s].kind = "Legacy"
<1> DEFINE S == {r \in Slots : Distance(o, r) < k}
<1>1. PICK h, t, pt, oc : Release(S, h, t, pt, oc)
  BY DEF RollbackNewest
<1>2. s \in S
  OBVIOUS
<1> HIDE DEF S
<1>3. entries'[s] = FreeEntry(entries[s].generation + 1)
  BY <1>1, <1>2 DEF Release
<1> QED
  BY <1>3 DEF FreeEntry

\* Assigning states leaves the other fields alone.
LEMMA SetStatesFields ==
  ASSUME TypeOK, NEW S, NEW state, SetStates(S, state), NEW s \in Slots
  PROVE  \/ /\ s \in S /\ entries'[s].state = state
            /\ entries'[s].reserved = entries[s].reserved
            /\ entries'[s].detach = entries[s].detach
            /\ entries'[s].kind = entries[s].kind
            /\ entries'[s].group = entries[s].group
            /\ entries'[s].seqId = entries[s].seqId
         \/ s \notin S /\ entries'[s] = entries[s]
BY DEF TypeOK, SetStates, EntryType

\* What a reservation gives a new source besides its number: a credit.
LEMMA ReserveCredits ==
  ASSUME TypeOK, NEW kind \in Kinds, NEW ns \in Seq(PageRuns), NEW q \in Nat,
         ReserveStorage(kind, ns, q), NEW s \in Slots,
         Distance(sourceTail, s) < Len(ns)
  PROVE  entries'[s].reserved /\ entries'[s].detach = "None"
<1>1. PICK tails, occupied : PlaceSources(kind, ns, q, tails, occupied)
  BY DEF ReserveStorage
<1>2. Distance(sourceTail, s) \in Nat /\ Len(ns) \in Nat
  BY DistanceType DEF TypeOK
<1>3. Distance(sourceTail, s) + 1 <= Len(ns)
  BY <1>2
<1> DEFINE j == Distance(sourceTail, s) + 1
<1>4. entries'[s] = NewEntry(kind, s, Len(ns), j, ns[j], tails[j - 1], q)
  BY <1>1, <1>3 DEF PlaceSources
<1> QED
  BY <1>4 DEF NewEntry

\* A reservation of a source or of a batch preserves the invariant.
LEMMA QueueReserveStep ==
  ASSUME TypeOK, TypeOK', IdentityInv, QueueInv,
         NEW ns \in Seq(PageRuns), Len(ns) \in 1..SourceSlotCount,
         NEW kind \in Kinds, NEW q \in Nat, ReserveStorage(kind, ns, q),
         \A s \in Slots : Distance(sourceTail, s) < Len(ns) => entries[s].state = "Free",
         reservations + Len(ns) <= HighWaterReady, ~ strictWritingActive,
         kind = "Arena" => q > seqIdHighWater /\ strictWritingActive',
         \/ batch.count = 0 /\ batch' = batch /\ (kind = "Arena" => Len(ns) = 1)
         \/ batch'.first = sourceTail /\ batch'.count = Len(ns) /\ kind = "Arena"
  PROVE  QueueInv'
<1> DEFINE k == Len(ns)
<1>1. k \in 1..SourceSlotCount
  OBVIOUS
<1>2. UNCHANGED <<ready, tentative>> /\ reservations' = reservations + k
  BY DEF ReserveStorage, PlaceSources
<1>3. ASSUME NEW s \in Slots
      PROVE  /\ Distance(sourceTail, s) < k =>
                /\ entries[s].state = "Free"
                /\ entries'[s].state = "Writing" /\ entries'[s].kind = kind
                /\ entries'[s].reserved /\ entries'[s].detach = "None"
                /\ kind = "Arena" => entries'[s].seqId = q + Distance(sourceTail, s)
             /\ ~(Distance(sourceTail, s) < k) => entries'[s] = entries[s]
  BY ReserveEntries, ReserveCredits
<1>4. /\ reservations + k <= HighWaterReady
      /\ \/ batch.count = 0 /\ batch' = batch /\ (kind = "Arena" => k = 1)
         \/ batch'.first = sourceTail /\ batch'.count = k /\ kind = "Arena"
  OBVIOUS
<1> HIDE DEF k
<1> QED
  BY <1>1, <1>2, <1>3, <1>4, QueueReserve

\* A single source finds its credit below the high water.
LEMMA CreditAvailable ==
  ASSUME TypeOK, NEW n \in PageRuns, NEW kind \in Kinds, InspectReserve(n, kind) = "Ready"
  PROVE  /\ reservations + 1 <= HighWaterReady
         /\ entries[sourceTail].state = "Free"
<1>1. PressureDimensions(n, kind) = {} /\ StorageFree(n)
  BY DEF InspectReserve
<1>2. "ready" \in Dimensions
  BY DEF Dimensions
<1>3. ~(reservations >= HighWaterReady)
  BY <1>1, <1>2 DEF PressureDimensions, CountPressure
<1>4. reservations \in Int /\ HighWaterReady \in Int
  BY ConfigValid DEF TypeOK
<1> QED
  BY <1>1, <1>3, <1>4 DEF StorageFree

\* Every step preserves the invariant of the queues: one case per action.
LEMMA QueueStep ==
  IdentityInv /\ QueueInv /\ [Next]_tapeVars => QueueInv'
<1> SUFFICES ASSUME IdentityInv, QueueInv, [Next]_tapeVars PROVE QueueInv'
  OBVIOUS
<1>0. TypeOK /\ TypeOK' /\ IdentityInv'
  BY TypeStep, IdentityStep DEF IdentityInv
<1>a. \A s \in Slots : /\ entries[s] \in EntryType /\ entries[s].seqId \in Nat
                       /\ entries[s].state # "Free" => entries[s].seqId <= seqIdHighWater
  BY <1>0 DEF TypeOK, EntryType, IdentityInv, IdentityUnique, Resident
<1>b. batch.count \in Nat /\ (~ strictWritingActive => batch.count = 0)
  <2>1. batch.count \in 0..SourceSlotCount
    BY <1>0 DEF TypeOK, BatchType
  <2>2. batch.count \in Nat
    BY <2>1, ConfigValid
  <2> QED
    BY <2>2 DEF IdentityInv, StrictAdmissionAlone
<1>c. StrictOpen /\ CreditsHeld
  BY DEF QueueInv
<1>1. ASSUME NEW n \in PageRuns, ReserveLegacy(n)
      PROVE  QueueInv'
  <2> DEFINE ns == <<n>>
  <2>1. /\ "Legacy" \in Kinds /\ ns \in Seq(PageRuns) /\ Len(ns) = 1
        /\ sourceTail \in Slots /\ 0 \in Nat /\ Len(ns) \in 1..SourceSlotCount
    BY <1>0, ConfigValid DEF Kinds, TypeOK
  <2>2. /\ ReserveStorage("Legacy", ns, 0) /\ ~ strictWritingActive
        /\ batch' = batch /\ InspectReserve(n, "Legacy") = "Ready"
    BY <1>1 DEF ReserveLegacy
  <2>3. reservations + Len(ns) <= HighWaterReady /\ entries[sourceTail].state = "Free"
    BY <1>0, <2>1, <2>2, CreditAvailable
  <2>4. \A s \in Slots : Distance(sourceTail, s) < Len(ns) => entries[s].state = "Free"
    BY <2>1, <2>3, DistanceOne
  <2> HIDE DEF ns
  <2> QED
    BY <1>0, <1>b, <2>1, <2>2, <2>3, <2>4, QueueReserveStep
<1>2. ASSUME NEW n \in PageRuns, NEW kind \in Kinds, ProbeReserve(n, kind)
      PROVE  QueueInv'
  BY <1>0, <1>2, QueueQuiet DEF ProbeReserve, ringVars, laneVars, readyVars
<1>3. ASSUME NEW n \in PageRuns, NEW q \in SeqIds, ReserveArena(n, q)
      PROVE  QueueInv'
  <2> DEFINE ns == <<n>>
  <2>1. /\ "Arena" \in Kinds /\ ns \in Seq(PageRuns) /\ Len(ns) = 1
        /\ sourceTail \in Slots /\ q \in Nat /\ Len(ns) \in 1..SourceSlotCount
    BY <1>0, ConfigValid DEF Kinds, TypeOK, SeqIds
  <2>2. /\ ReserveStorage("Arena", ns, q) /\ ~ strictWritingActive
        /\ q > seqIdHighWater /\ strictWritingActive'
        /\ batch' = batch /\ InspectReserve(n, "Arena") = "Ready"
    BY <1>3 DEF ReserveArena, StrictAdmissionOpen
  <2>3. reservations + Len(ns) <= HighWaterReady /\ entries[sourceTail].state = "Free"
    BY <1>0, <2>1, <2>2, CreditAvailable
  <2>4. \A s \in Slots : Distance(sourceTail, s) < Len(ns) => entries[s].state = "Free"
    BY <2>1, <2>3, DistanceOne
  <2> HIDE DEF ns
  <2> QED
    BY <1>0, <1>b, <2>1, <2>2, <2>3, <2>4, QueueReserveStep
<1>4. ASSUME NEW k \in 1..MaxArenaBatchSources, NEW ns \in [1..k -> PageRuns],
             NEW q \in 1..(MaxSeqId + 1 - k), ReserveArenaBatch(ns, q)
      PROVE  QueueInv'
  <2>1. k \in Nat /\ k > 0 /\ q \in Nat /\ "Arena" \in Kinds
    BY ConfigValid DEF Kinds
  <2>2. ns \in Seq(PageRuns) /\ Len(ns) = k
    BY <2>1, RunsAreSequences
  <2>3. Len(ns) \in 1..SourceSlotCount
    BY <1>4, <2>1, <2>2, ConfigValid DEF ReserveArenaBatch
  <2>4. /\ q > seqIdHighWater /\ ~ strictWritingActive /\ strictWritingActive'
        /\ ReserveStorage("Arena", ns, q)
        /\ batch'.first = sourceTail /\ batch'.count = Len(ns)
        /\ \A s \in Slots : Distance(sourceTail, s) < Len(ns) => entries[s].state = "Free"
        /\ reservations <= HighWaterReady - Len(ns)
    BY <1>4 DEF ReserveArenaBatch, StrictAdmissionOpen
  <2>5. reservations + Len(ns) <= HighWaterReady
    BY <1>0, <2>1, <2>2, <2>4, ConfigValid DEF TypeOK
  <2> QED
    BY <1>0, <2>1, <2>2, <2>3, <2>4, <2>5, QueueReserveStep
<1>5. ASSUME NEW s \in Slots, NEW q \in SeqIds, SealLegacy(s, q)
      PROVE  QueueInv'
  <2> DEFINE order == <<s>>
             S == {s}
  <2>1. /\ entries[s].state = "Writing" /\ s \in LegacyWriters /\ q > seqIdHighWater
        /\ UNCHANGED <<tentative, reservations, strictWritingActive, batch>>
        /\ ready' = Append(ready, s)
    BY <1>5 DEF SealLegacy, LegacyWriters
  <2>2. \A r \in Slots :
          /\ r \in S => /\ entries[r].state = "Writing" /\ entries'[r].state = "Ready"
                        /\ entries'[r].reserved = entries[r].reserved
                        /\ entries'[r].detach = entries[r].detach
                        /\ entries'[r].seqId = q
                        /\ entries'[r].kind = "Legacy" /\ entries[r].kind = "Legacy"
          /\ r \notin S => entries'[r] = entries[r]
    BY <1>0, <1>5, <2>1 DEF SealLegacy, TypeOK, EntryType
  <2>3. q \in Nat /\ seqIdHighWater \in Nat
    BY <1>0, ConfigValid DEF SeqIds, TypeOK
  <2>4. ~ strictWritingActive
    BY <2>1 DEF IdentityInv, StrictAdmissionAlone
  <2>5. OpenSources' = {} /\ batch'.count = 0
    <3>1. OpenSources = {}
      BY <1>c, <2>4 DEF StrictOpen
    <3>2. entries[s].detach # "Abort"
      BY <1>c, <2>1 DEF CreditsHeld, CreditStates
    <3> QED
      BY <1>b, <2>1, <2>2, <2>4, <3>1, <3>2 DEF OpenSources
  <2>6. \A r \in S : \A t \in Slots : entries[t].state \in PublishedStates =>
          entries[t].seqId < entries'[r].seqId
    BY <1>a, <2>1, <2>2, <2>3 DEF PublishedStates, PastStates
  <2>7. /\ S \in SUBSET Slots /\ order \in Seq(Slots) /\ Len(order) = 1
        /\ \A r : r \in S <=> \E i \in 1..Len(order) : order[i] = r
        /\ \A i, j \in 1..Len(order) : i < j =>
             entries'[order[i]].seqId < entries'[order[j]].seqId
    OBVIOUS
  <2>8. ready' = ready \o order
    BY <1>0, <2>1 DEF TypeOK
  <2>9. UNCHANGED <<tentative, reservations>>
    BY <2>1
  <2> HIDE DEF order, S
  <2> QED
    BY <1>0, <2>2, <2>5, <2>6, <2>7, <2>8, <2>9, QueuePublish
<1>6. ASSUME NEW S \in SUBSET Slots, NEW order \in Seq(Slots), PublishStrict(S, order),
             \A s : s \in S <=> \E i \in 1..Len(order) : order[i] = s,
             OpenSources \subseteq S,
             \A i, j \in 1..Len(order) : i < j => Older(order[i], order[j])
      PROVE  QueueInv'
  <2>1. /\ UNCHANGED <<tentative, reservations>>
        /\ batch'.count = 0 /\ ready' = ready \o order
    BY <1>6 DEF PublishStrict, NoBatch
  <2>2. \A s \in Slots :
          /\ s \in S => /\ entries[s].state = "Writing" /\ entries[s].kind = "Arena"
                        /\ entries'[s].state = "Ready"
                        /\ entries'[s].kind = entries[s].kind
                        /\ entries'[s].reserved = entries[s].reserved
                        /\ entries'[s].detach = entries[s].detach
                        /\ entries'[s].seqId = entries[s].seqId
          /\ s \notin S => entries'[s] = entries[s]
    BY <1>0, <1>6 DEF PublishStrict, TypeOK, EntryType
  <2>3. OpenSources' = {}
    <3>1. \A s \in S : entries'[s].detach # "Abort"
      BY <1>c, <2>2 DEF CreditsHeld, CreditStates
    <3> QED
      BY <1>6, <2>2, <3>1 DEF OpenSources
  <2>4. \A s \in S : s \in OpenSources
    BY <2>2 DEF OpenSources
  <2>5. \A s \in S : \A r \in Slots : entries[r].state \in PublishedStates =>
           entries[r].seqId < entries'[s].seqId
    BY <1>c, <2>2, <2>4 DEF StrictOpen, Older, PublishedStates
  <2>6. \A i, j \in 1..Len(order) : i < j =>
           entries'[order[i]].seqId < entries'[order[j]].seqId
    <3>1. \A i \in 1..Len(order) : order[i] \in S /\ order[i] \in Slots
      BY <1>6
    <3> QED
      BY <1>6, <2>2, <3>1 DEF Older
  <2> QED
    BY <1>0, <1>6, <2>1, <2>2, <2>3, <2>5, <2>6, QueuePublish
<1>7. ASSUME NEW s \in Slots, SealArena(s)
      PROVE  QueueInv'
  <2> DEFINE order == <<s>>
             S == {s}
  <2>1. batch.count = 0 /\ PublishStrict(S, order)
    BY <1>7 DEF SealArena
  <2>2. s \in OpenSources
    BY <2>1 DEF PublishStrict, OpenSources
  <2>3. OpenSources \subseteq S
    BY <1>c, <2>1, <2>2 DEF StrictOpen
  <2>4. /\ S \in SUBSET Slots /\ order \in Seq(Slots) /\ Len(order) = 1
        /\ \A r : r \in S <=> \E i \in 1..Len(order) : order[i] = r
        /\ \A i, j \in 1..Len(order) : i < j => Older(order[i], order[j])
    OBVIOUS
  <2> HIDE DEF order, S
  <2> QED
    BY <1>6, <2>1, <2>3, <2>4
<1>8. ASSUME SealArenaBatch
      PROVE  QueueInv'
  <2> DEFINE order == BatchSequence
             S == BatchSlots
  <2>1. batch.count > 0 /\ PublishStrict(S, order)
    BY <1>8 DEF SealArenaBatch
  <2>2. batch.first \in Slots /\ batch.count \in 0..SourceSlotCount
    BY <1>0 DEF TypeOK, BatchType
  <2>3. /\ \A j \in 1..batch.count :
             /\ SlotAfter(batch.first, j - 1) \in Slots
             /\ Distance(batch.first, SlotAfter(batch.first, j - 1)) = j - 1
        /\ \A s \in Slots : /\ Distance(batch.first, s) \in Nat
                            /\ SlotAfter(batch.first, Distance(batch.first, s)) = s
    BY <2>2, ArcCount
  <2>4. /\ order \in Seq(Slots) /\ Len(order) = batch.count
        /\ \A j \in 1..batch.count : order[j] = SlotAfter(batch.first, j - 1)
    BY <1>b, <2>3 DEF BatchSequence
  <2>5. \A j \in 1..batch.count : /\ order[j] \in S
                                  /\ Distance(batch.first, order[j]) = j - 1
    BY <1>b, <2>3, <2>4 DEF BatchSlots
  <2>6. \A s \in S : \E i \in 1..batch.count : order[i] = s
    <3> TAKE s \in S
    <3>1. s \in Slots /\ Distance(batch.first, s) < batch.count
      BY DEF BatchSlots
    <3>2. Distance(batch.first, s) + 1 \in 1..batch.count
          /\ Distance(batch.first, s) + 1 - 1 = Distance(batch.first, s)
      BY <1>b, <2>3, <3>1
    <3>3. order[Distance(batch.first, s) + 1] = s
      BY <2>3, <2>4, <3>1, <3>2
    <3> QED
      BY <3>2, <3>3
  <2>7. S \in SUBSET Slots /\ OpenSources \subseteq S
    BY <1>c, <2>1 DEF StrictOpen, BatchSlots
  <2>8. \A i, j \in 1..Len(order) : i < j => Older(order[i], order[j])
    <3> TAKE i, j \in 1..Len(order)
    <3> HAVE i < j
    <3>1. /\ order[i] \in S /\ Distance(batch.first, order[i]) = i - 1
          /\ order[j] \in S /\ Distance(batch.first, order[j]) = j - 1
      BY <2>4, <2>5
    <3>2. i - 1 < j - 1
      BY <1>b, <2>4
    <3>3. \A s, t \in BatchSlots :
            Distance(batch.first, s) < Distance(batch.first, t) => Older(s, t)
      BY <1>c, <2>1 DEF StrictOpen
    <3> QED
      BY <3>1, <3>2, <3>3
  <2>9. \A s : s \in S <=> \E i \in 1..Len(order) : order[i] = s
    BY <2>4, <2>5, <2>6
  <2> HIDE DEF order, S
  <2> QED
    BY <1>6, <2>1, <2>4, <2>7, <2>8, <2>9
<1>9. ASSUME NEW s \in Slots, AbortLegacy(s)
      PROVE  QueueInv'
  <2>1. /\ entries[s].state = "Writing" /\ entries[s].kind = "Legacy"
        /\ RollbackNewest(s, 1) /\ reservations' = reservations - 1
        /\ UNCHANGED <<strictWritingActive, ready, tentative, batch>>
    BY <1>9 DEF AbortLegacy
  <2>2. \A r \in Slots : /\ r = s => /\ entries'[r].state = "Free"
                                     /\ ~ entries'[r].reserved
                                     /\ entries'[r].detach # "Abort"
                         /\ r # s => entries'[r] = entries[r]
    BY <1>0, <2>1, RollbackFree, RollbackEntries, DistanceOne
  <2>3. StrictOpen'
    <3>1. entries[s].detach # "Abort"
      BY <1>c, <2>1 DEF CreditsHeld, CreditStates
    <3>2. OpenSources' = OpenSources
      BY <2>1, <2>2, <3>1 DEF OpenSources
    <3>3. \A r \in OpenSources : entries'[r].seqId = entries[r].seqId
      BY <2>1, <2>2, <3>1 DEF OpenSources
    <3>4. \A r \in Slots : entries'[r].state \in PublishedStates =>
            /\ entries[r].state \in PublishedStates
            /\ entries'[r].seqId = entries[r].seqId
      BY <2>2 DEF PublishedStates, PastStates
    <3> QED
      BY <1>c, <2>1, <3>2, <3>3, <3>4, OpenKept
  <2> DEFINE S == {s}
  <2>4. /\ S \in SUBSET Slots /\ Cardinality(S) = 1
        /\ \A r : r \in S <=> r = s
    BY FS_Singleton
  <2> HIDE DEF S
  <2> QED
    BY <1>0, <2>1, <2>2, <2>3, <2>4, QueueAbort
<1>10. ASSUME NEW S \in SUBSET Slots, DetachForAbort(S),
              batch'.count = batch.count, batch'.first = batch.first
       PROVE  QueueInv'
  <2>1. /\ UNCHANGED <<strictWritingActive, ready, tentative>>
        /\ reservations' = reservations - Cardinality(S)
    BY <1>10 DEF DetachForAbort, laneVars
  <2>2. \A s \in Slots :
          /\ s \in S => /\ entries[s].state = "Writing" /\ entries[s].kind = "Arena"
                        /\ entries'[s].state = "Reclaiming" /\ entries'[s].detach = "Abort"
                        /\ entries'[s].kind = "Arena"
                        /\ entries'[s].seqId = entries[s].seqId
          /\ s \notin S => entries'[s] = entries[s]
    <3> TAKE s \in Slots
    <3>1. CASE s \notin S
      BY <1>10, <3>1 DEF DetachForAbort
    <3>2. CASE s \in S
      <4>1. /\ entries'[s] = [entries[s] EXCEPT !.state = "Reclaiming", !.detach = "Abort"]
            /\ entries[s].state = "Writing" /\ entries[s].kind = "Arena"
        BY <1>10, <3>2 DEF DetachForAbort
      <4> QED
        BY <1>a, <3>2, <4>1 DEF EntryType
    <3> QED
      BY <3>1, <3>2
  <2>3. StrictOpen'
    <3>2. OpenSources' = OpenSources
      BY <2>2 DEF OpenSources
    <3>3. \A r \in OpenSources : entries'[r].seqId = entries[r].seqId
      BY <2>2 DEF OpenSources
    <3>4. \A r \in Slots : entries'[r].state \in PublishedStates =>
            /\ entries[r].state \in PublishedStates
            /\ entries'[r].seqId = entries[r].seqId
      BY <2>2 DEF PublishedStates, PastStates
    <3> QED
      BY <1>10, <1>c, <2>1, <3>2, <3>3, <3>4, OpenKept
  <2> QED
    BY <1>0, <2>1, <2>2, <2>3, QueueAbort
<1>11. ASSUME NEW s \in Slots, AbortArenaDetach(s)
       PROVE  QueueInv'
  BY <1>10, <1>11, {s} \in SUBSET Slots DEF AbortArenaDetach
<1>12. ASSUME NEW failStop \in BOOLEAN, AbortBatchDetach(failStop)
       PROVE  QueueInv'
  <2>1. /\ batch'.count = batch.count /\ batch'.first = batch.first
    BY <1>0, <1>12 DEF AbortBatchDetach, TypeOK, BatchType
  <2> QED
    BY <1>10, <1>12, <2>1, BatchSlots \in SUBSET Slots DEF AbortBatchDetach, BatchSlots
<1>13. ASSUME NEW o \in Slots, NEW k \in Nat, FinishAbort(o, k), batch'.count = 0,
              \A s \in OpenSources : Distance(o, s) < k
       PROVE  QueueInv'
  <2>1. /\ RollbackNewest(o, k)
        /\ UNCHANGED <<ready, tentative, reservations>>
        /\ \A s \in Slots : Distance(o, s) < k => entries[s].state = "Reclaiming"
    BY <1>13 DEF FinishAbort
  <2>2. \A s \in Slots : /\ Distance(o, s) < k => /\ entries'[s].state = "Free"
                                                  /\ ~ entries'[s].reserved
                                                  /\ entries'[s].detach # "Abort"
                         /\ ~(Distance(o, s) < k) => entries'[s] = entries[s]
    BY <1>0, <2>1, RollbackEntries, RollbackFree
  <2>3. OpenSources' = {}
    BY <1>13, <2>2 DEF OpenSources
  <2>4. StrictOpen'
    BY <1>13, <2>3 DEF StrictOpen
  <2> QED
    BY <1>0, <2>1, <2>2, <2>4, QueuesKept DEF CreditStates, PastStates
<1>14. ASSUME NEW s \in Slots, AbortArenaFinish(s)
       PROVE  QueueInv'
  <2>1. FinishAbort(s, 1) /\ batch.count = 0 /\ batch' = batch
    BY <1>14 DEF AbortArenaFinish
  <2>2. s \in OpenSources
    <3>1. Distance(s, s) < 1
      BY DistanceOne
    <3>2. entries[s].detach = "Abort"
      BY <2>1, <3>1 DEF FinishAbort
    <3> QED
      BY <1>c, <3>2 DEF OpenSources, CreditsHeld
  <2>3. \A r \in OpenSources : Distance(s, r) < 1
    <3>1. \A r \in OpenSources : r = s
      BY <1>c, <2>1, <2>2 DEF StrictOpen
    <3> QED
      BY <3>1, DistanceOne
  <2> QED
    BY <1>13, <2>1, <2>3, 1 \in Nat
<1>15. ASSUME AbortBatchFinish
       PROVE  QueueInv'
  <2>1. FinishAbort(batch.first, batch.count) /\ batch.count > 0
    BY <1>15 DEF AbortBatchFinish
  <2>2. batch.first \in Slots /\ batch'.count = 0
    BY <1>0, <1>15, ConfigValid DEF AbortBatchFinish, NoBatch, TypeOK, BatchType
  <2>3. \A s \in OpenSources : Distance(batch.first, s) < batch.count
    BY <1>c, <2>1 DEF StrictOpen, BatchSlots
  <2> QED
    BY <1>13, <1>b, <2>1, <2>2, <2>3
<1>16. ASSUME NEW k \in 1..ReadyFifoCount, ReserveReadyPrefix(k)
       PROVE  QueueInv'
  <2> DEFINE S == {ready[i] : i \in 1..k}
  <2>1. /\ k \in 1..Len(ready) /\ tentative = <<>> /\ SetStates(S, "TentativeRepresented")
        /\ tentative' = SubSeq(ready, 1, k) /\ ready' = SubSeq(ready, k + 1, Len(ready))
        /\ reservations' = reservations /\ UNCHANGED <<strictWritingActive, batch>>
        /\ \A i \in 1..k : entries[ready[i]].state = "Ready"
    BY <1>16 DEF ReserveReadyPrefix, entriesOnly, laneVars
  <2>2. \A s \in Slots :
           \/ /\ s \in S
              /\ entries'[s].state = "TentativeRepresented"
              /\ entries'[s].reserved = entries[s].reserved
              /\ entries'[s].detach = entries[s].detach
              /\ entries'[s].kind = entries[s].kind
              /\ entries'[s].seqId = entries[s].seqId
           \/ s \notin S /\ entries'[s] = entries[s]
    BY <1>0, <2>1, SetStatesFields
  <2>3. \A s \in S : (\E i \in 1..k : ready[i] = s) /\ entries[s].state = "Ready"
    BY <2>1
  <2>4. \A s \in Slots : s \notin S => \A i \in 1..k : ready[i] # s
    OBVIOUS
  <2> HIDE DEF S
  <2>5. StrictOpen'
    BY <1>c, <2>1, <2>2, <2>3, OpenPublished DEF PublishedStates
  <2> QED
    BY <1>0, <2>1, <2>2, <2>3, <2>4, <2>5, QueueTake
<1>17. ASSUME TentativeValid
       PROVE  /\ \A s \in Members(tentative) : /\ entries[s].state = "TentativeRepresented"
                                               /\ \E i \in 1..Len(tentative) : tentative[i] = s
              /\ \A i \in 1..Len(tentative) : tentative[i] \in Members(tentative)
  <2>1. DOMAIN tentative = 1..Len(tentative)
    BY <1>0 DEF TypeOK
  <2> QED
    BY <1>17, <2>1 DEF TentativeValid, Members
<1>18. ASSUME CommitReadyPrefix
       PROVE  QueueInv'
  <2>1. /\ TentativeValid /\ tentative' = <<>> /\ ready' = ready
        /\ reservations' = reservations - Len(tentative)
        /\ UNCHANGED <<strictWritingActive, batch>>
    BY <1>18 DEF CommitReadyPrefix, entriesOnly, laneVars
  <2>2. \A s \in Slots :
           \/ /\ s \in Members(tentative) /\ entries'[s].state = "Represented"
              /\ ~ entries'[s].reserved /\ entries'[s].detach = entries[s].detach
              /\ entries'[s].kind = entries[s].kind
              /\ entries'[s].seqId = entries[s].seqId
           \/ s \notin Members(tentative) /\ entries'[s] = entries[s]
    <3> TAKE s \in Slots
    <3>1. CASE s \notin Members(tentative)
      BY <1>18, <3>1 DEF CommitReadyPrefix
    <3>2. CASE s \in Members(tentative)
      <4>1. entries'[s] = [entries[s] EXCEPT !.state = "Represented", !.reserved = FALSE]
        BY <1>18, <3>2 DEF CommitReadyPrefix
      <4> QED
        BY <1>a, <3>2, <4>1 DEF EntryType
    <3> QED
      BY <3>1, <3>2
  <2>3. StrictOpen'
    BY <1>17, <1>c, <2>1, <2>2, OpenPublished DEF PublishedStates, PastStates
  <2> QED
    BY <1>0, <2>1, <2>2, <2>3, QueueCommit
<1>19. ASSUME RestoreReadyPrefix
       PROVE  QueueInv'
  <2>1. /\ TentativeValid /\ tentative' = <<>> /\ ready' = tentative \o ready
        /\ reservations' = reservations /\ SetStates(Members(tentative), "Ready")
        /\ UNCHANGED <<strictWritingActive, batch>>
    BY <1>19 DEF RestoreReadyPrefix, entriesOnly, laneVars
  <2>2. \A s \in Slots :
           \/ /\ s \in Members(tentative) /\ entries'[s].state = "Ready"
              /\ entries'[s].reserved = entries[s].reserved
              /\ entries'[s].detach = entries[s].detach
              /\ entries'[s].kind = entries[s].kind
              /\ entries'[s].seqId = entries[s].seqId
           \/ s \notin Members(tentative) /\ entries'[s] = entries[s]
    BY <1>0, <2>1, SetStatesFields
  <2>3. StrictOpen'
    BY <1>17, <1>c, <2>1, <2>2, OpenPublished DEF PublishedStates
  <2> QED
    BY <1>0, <1>17, <2>1, <2>2, <2>3, QueueRestore
<1>20. ASSUME NEW S \in SUBSET Slots,
              NEW before \in {"Represented", "Submitted"},
              NEW after \in {"Submitted", "Completed"},
              TransitionAll(S, before, after)
       PROVE  QueueInv'
  <2>1. /\ SetStates(S, after) /\ \A s \in S : entries[s].state = before
        /\ UNCHANGED <<ready, tentative, reservations, strictWritingActive, batch>>
    BY <1>20 DEF TransitionAll, entriesOnly, laneVars, readyVars
  <2>2. \A s \in Slots :
           \/ /\ s \in S /\ entries'[s].state = after
              /\ entries'[s].reserved = entries[s].reserved
              /\ entries'[s].detach = entries[s].detach
              /\ entries'[s].seqId = entries[s].seqId
           \/ s \notin S /\ entries'[s] = entries[s]
    BY <1>0, <2>1, SetStatesFields
  <2>3. \A s \in S : entries[s].detach # "Abort" /\ ~ entries[s].reserved
    BY <1>c, <2>1 DEF CreditsHeld, CreditStates
  <2> QED
    BY <1>0, <2>1, <2>2, <2>3, QueueQuiet DEF CreditStates, PastStates
<1>21. ASSUME NEW S \in SUBSET Slots, SubmitSources(S) \/ CompleteAll(S)
       PROVE  QueueInv'
  BY <1>20, <1>21 DEF SubmitSources, CompleteAll
<1>22. ASSUME NEW s \in Slots, CompleteInline(s)
       PROVE  QueueInv'
  BY <1>20, <1>22, {s} \in SUBSET Slots DEF CompleteInline
<1>23. ASSUME NEW s \in Slots, TakeGroupSettlement(s)
       PROVE  QueueInv'
  <2>1. /\ entries[s].state = "Completed" /\ entries' = [entries EXCEPT ![s].settled = TRUE]
        /\ UNCHANGED <<ready, tentative, reservations, strictWritingActive, batch>>
    BY <1>23 DEF TakeGroupSettlement, entriesOnly, laneVars, readyVars
  <2>2. \A r \in Slots :
          \/ entries'[r] = entries[r]
          \/ /\ entries[r].state = "Completed" /\ entries'[r].state = "Completed"
             /\ entries'[r].reserved = entries[r].reserved
             /\ entries'[r].detach = entries[r].detach
             /\ entries'[r].seqId = entries[r].seqId
    BY <1>0, <2>1 DEF TypeOK, EntryType
  <2>3. \A r \in Slots : entries[r].state = "Completed" =>
          entries[r].detach # "Abort" /\ ~ entries[r].reserved
    BY <1>c DEF CreditsHeld, CreditStates
  <2> QED
    BY <1>0, <2>1, <2>2, <2>3, QueueQuiet DEF CreditStates, PastStates
<1>24. ASSUME NEW s \in Slots, BeginPostEncodeRetire(s) \/ BeginReclaim(s)
       PROVE  QueueInv'
  <2>1. /\ BeginRelease(s) /\ entries[s].state \in {"Represented", "Completed"}
        /\ UNCHANGED <<ready, tentative, reservations, strictWritingActive, batch>>
        /\ ~ entries[s].reserved /\ entries[s].detach = "None"
    BY <1>24 DEF BeginPostEncodeRetire, BeginReclaim, Reclaimable, BeginRelease,
                 entriesOnly, laneVars, readyVars
  <2>2. \A r \in Slots :
          \/ entries'[r] = entries[r]
          \/ /\ r = s /\ entries'[r].state = "Reclaiming"
             /\ entries'[r].reserved = entries[r].reserved
             /\ entries'[r].detach # "Abort"
    <3> TAKE r \in Slots
    <3> DEFINE d == IF entries[s].kind = "Arena" THEN "Reclaim" ELSE "None"
    <3>1. d # "Abort" /\ d \in {"None", "Reclaim"}
      OBVIOUS
    <3>2. entries' = [entries EXCEPT ![s].state = "Reclaiming", ![s].detach = d]
      BY <2>1 DEF BeginRelease
    <3> HIDE DEF d
    <3>3. r # s => entries'[r] = entries[r]
      BY <1>0, <3>2 DEF TypeOK
    <3>4. entries'[s] = [entries[s] EXCEPT !.state = "Reclaiming", !.detach = d]
      BY <1>0, <3>2 DEF TypeOK
    <3>5. /\ entries'[s].state = "Reclaiming" /\ entries'[s].detach = d
          /\ entries'[s].reserved = entries[s].reserved
      BY <1>a, <3>4 DEF EntryType
    <3> QED
      BY <3>1, <3>3, <3>5
  <2> QED
    BY <1>0, <2>1, <2>2, QueueQuiet DEF CreditStates, PastStates
<1>25. ASSUME NEW s \in Slots, FinishReclaim(s)
       PROVE  QueueInv'
  <2>1. /\ entries[s].state = "Reclaiming" /\ entries[s].detach # "Abort"
        /\ UNCHANGED <<ready, tentative, reservations, strictWritingActive, batch>>
    BY <1>25 DEF FinishReclaim, readyVars
  <2>2. PICK h, t, pt, oc : Release({s}, h, t, pt, oc)
    BY <1>25 DEF FinishReclaim
  <2>3. \A r \in Slots : /\ r = s => /\ entries'[r].state = "Free"
                                     /\ ~ entries'[r].reserved
                                     /\ entries'[r].detach # "Abort"
                         /\ r # s => entries'[r] = entries[r]
    BY <1>0, <2>2 DEF Release, FreeEntry
  <2> QED
    BY <1>0, <2>1, <2>3, QueueQuiet DEF CreditStates, PastStates
<1>26. CASE StopAdmission
  BY <1>0, <1>26, QueueQuiet DEF StopAdmission, ringVars, laneVars, readyVars
<1>27. CASE UNCHANGED tapeVars
  BY <1>0, <1>27, QueueQuiet DEF tapeVars, ringVars, laneVars, readyVars
<1> QED
  BY <1>1, <1>2, <1>3, <1>4, <1>5, <1>7, <1>8, <1>9, <1>11, <1>12, <1>14,
     <1>15, <1>16, <1>18, <1>19, <1>21, <1>22, <1>23, <1>24, <1>25, <1>26, <1>27
  DEF Next, Produce, Encode, Finish

\* The invariant gives the two properties.
LEMMA QueueProperties ==
  ASSUME TypeOK, QueueInv
  PROVE  PublicationNeverRefused /\ PublicationOrder
<1>q. /\ ready \in Seq(Slots) /\ tentative \in Seq(Slots)
      /\ \A i \in 1..Len(ready) : ready[i] \in Slots /\ entries[ready[i]].state = "Ready"
      /\ \A i \in 1..Len(tentative) :
           tentative[i] \in Slots /\ entries[tentative[i]].state = "TentativeRepresented"
  BY QueueMembers
<1>o. /\ \A i, j \in 1..Len(ready) : i < j =>
           entries[ready[i]].seqId < entries[ready[j]].seqId
      /\ \A i, j \in 1..Len(tentative) : i < j =>
           entries[tentative[i]].seqId < entries[tentative[j]].seqId
  BY DEF QueueInv, QueueOrdered, Sorted, Older
<1>1. PublicationNeverRefused
  <2> DEFINE R == Members(ready)
             T == Members(tentative)
             W == {s \in Credited : entries[s].state = "Writing"}
  <2>1. /\ \A i \in 1..Len(ready) : entries[ready[i]].seqId \in Nat
        /\ \A i \in 1..Len(tentative) : entries[tentative[i]].seqId \in Nat
    BY <1>q DEF TypeOK, EntryType
  <2>2. /\ \A i, j \in 1..Len(ready) : i < j => ready[i] # ready[j]
        /\ \A i, j \in 1..Len(tentative) : i < j => tentative[i] # tentative[j]
    BY <1>o, <2>1
  <2>3. /\ R \in SUBSET Slots /\ Cardinality(R) = Len(ready)
        /\ T \in SUBSET Slots /\ Cardinality(T) = Len(tentative)
    BY <1>q, <2>2, MembersCount
  <2>4. /\ \A s \in Slots : s \in R <=> entries[s].state = "Ready"
        /\ \A s \in Slots : s \in T <=> entries[s].state = "TentativeRepresented"
    <3>1. DOMAIN ready = 1..Len(ready) /\ DOMAIN tentative = 1..Len(tentative)
      BY <1>q
    <3>2. Holds(ready, "Ready") /\ Holds(tentative, "TentativeRepresented")
      BY DEF QueueInv
    <3> QED
      BY <3>1, <3>2 DEF Members, Holds
  <2>5. Credited = {s \in Slots : entries[s].state \in CreditStates}
    BY CreditSet DEF QueueInv
  <2>6. W \in SUBSET Slots
    BY DEF Credited
  <2> HIDE DEF R, T
  <2>7. /\ Credited = (R \cup T) \cup W /\ R \cap T = {} /\ (R \cup T) \cap W = {}
    BY <2>3, <2>4, <2>5 DEF CreditStates
  <2>8. /\ IsFiniteSet(R) /\ IsFiniteSet(T) /\ IsFiniteSet(W)
        /\ Cardinality(R) \in Nat /\ Cardinality(T) \in Nat /\ Cardinality(W) \in Nat
    BY <2>3, <2>6, SlotSets
  <2> HIDE DEF W
  <2>9. Cardinality(R \cup T) = Cardinality(R) + Cardinality(T)
    <3>1. Cardinality(R \cap T) = 0
      BY <2>7, FS_EmptySet
    <3>2. Cardinality(R \cup T) =
            Cardinality(R) + Cardinality(T) - Cardinality(R \cap T)
      BY <2>8, FS_Union
    <3> QED
      BY <2>8, <3>1, <3>2
  <2>10. Cardinality(Credited) = Cardinality(R) + Cardinality(T) + Cardinality(W)
    <3>0. IsFiniteSet(R \cup T)
      BY <2>8, FS_Union
    <3>1. Cardinality((R \cup T) \cap W) = 0
      BY <2>7, FS_EmptySet
    <3>2. Cardinality((R \cup T) \cup W) =
            Cardinality(R \cup T) + Cardinality(W) - Cardinality((R \cup T) \cap W)
      BY <2>8, <3>0, FS_Union
    <3>3. Cardinality(Credited) = Cardinality((R \cup T) \cup W)
      BY <2>7
    <3> QED
      BY <2>8, <2>9, <3>1, <3>2, <3>3
  <2>11. reservations = Cardinality(Credited) /\ reservations <= HighWaterReady
    BY DEF QueueInv, CreditsCounted
  <2>12. Len(ready) + Len(tentative) + Cardinality(W) = reservations
    BY <2>3, <2>8, <2>10, <2>11
  <2> QED
    BY <2>11, <2>12 DEF PublicationNeverRefused, W
<1>2. PublicationOrder
  <2> DEFINE queue == tentative \o ready
             n == Len(tentative)
  <2>n. Len(ready) \in Nat /\ n \in Nat
    BY <1>q
  <2>c. /\ DOMAIN queue = 1..(n + Len(ready))
        /\ \A i \in 1..(n + Len(ready)) :
             \/ i \in 1..n /\ queue[i] = tentative[i]
             \/ i - n \in 1..Len(ready) /\ queue[i] = ready[i - n]
    BY <1>q
  <2>0. QueueOrdered
    BY DEF QueueInv
  <2>h. /\ \A i \in 1..n : \A j \in 1..Len(ready) :
             entries[tentative[i]].seqId < entries[ready[j]].seqId
        /\ \A s \in Slots : entries[s].state \in PastStates =>
             /\ \A i \in 1..n : entries[s].seqId < entries[tentative[i]].seqId
             /\ \A i \in 1..Len(ready) : entries[s].seqId < entries[ready[i]].seqId
    BY <2>0 DEF QueueOrdered, Older, Behind
  <2> HIDE DEF queue
  <2>1. ASSUME NEW i \in DOMAIN queue, NEW j \in DOMAIN queue, i < j
        PROVE  entries[queue[i]].seqId < entries[queue[j]].seqId
    <3>0. i \in 1..(n + Len(ready)) /\ j \in 1..(n + Len(ready))
      BY <2>c
    <3>1. CASE /\ i \in 1..n /\ queue[i] = tentative[i]
               /\ j \in 1..n /\ queue[j] = tentative[j]
      BY <1>o, <2>1, <3>1
    <3>2. CASE /\ i \in 1..n /\ queue[i] = tentative[i]
               /\ j - n \in 1..Len(ready) /\ queue[j] = ready[j - n]
      BY <2>h, <3>2
    <3>3. CASE /\ i - n \in 1..Len(ready) /\ queue[i] = ready[i - n]
               /\ j - n \in 1..Len(ready) /\ queue[j] = ready[j - n]
      <4>1. i - n < j - n
        BY <2>1, <2>n, <3>0
      <4> QED
        BY <1>o, <3>3, <4>1
    <3>4. CASE i - n \in 1..Len(ready) /\ j \in 1..n
      BY <2>1, <2>n, <3>0, <3>4
    <3> QED
      BY <2>c, <3>0, <3>1, <3>2, <3>3, <3>4
  <2>2. ASSUME NEW i \in DOMAIN queue, NEW s \in Resident,
               entries[s].state \in {"Represented", "Submitted", "Completed"}
        PROVE  entries[s].seqId < entries[queue[i]].seqId
    <3>1. s \in Slots /\ entries[s].state \in PastStates
      BY <2>2 DEF Resident, PastStates
    <3>2. i \in 1..(n + Len(ready))
      BY <2>c
    <3> QED
      BY <2>c, <2>h, <3>1, <3>2
  <2> QED
    BY <2>1, <2>2 DEF PublicationOrder, queue
<1> QED
  BY <1>1, <1>2

\* The tape starts with nothing reserved and nothing queued.
LEMMA QueueInit == Init => QueueInv
<1> SUFFICES ASSUME Init PROVE QueueInv
  OBVIOUS
<1>1. /\ \A s \in Slots : /\ entries[s].state = "Free" /\ ~ entries[s].reserved
                          /\ entries[s].detach = "None" /\ entries[s].kind = "Legacy"
      /\ ready = <<>> /\ tentative = <<>> /\ reservations = 0 /\ batch.count = 0
  BY DEF Init, FreeEntry, NoBatch
<1>2. CreditsHeld
  BY <1>1 DEF CreditsHeld, CreditStates
<1>3. Holds(ready, "Ready") /\ Holds(tentative, "TentativeRepresented") /\ QueueOrdered
  BY <1>1 DEF Holds, QueueOrdered, Sorted, Behind
<1>4. OpenSources = {} /\ StrictOpen
  BY <1>1 DEF OpenSources, StrictOpen
<1>5. Credited = {}
  BY <1>1 DEF Credited
<1>6. CreditsCounted
  BY <1>1, <1>5, FS_EmptySet, ConfigValid DEF CreditsCounted
<1> QED
  BY <1>2, <1>3, <1>4, <1>6 DEF QueueInv

\* Sealing never finds the FIFO full and a tentative prefix can always be
\* restored: a credit is taken at the reservation and kept to the commit.
THEOREM PublicationCorrect == Spec => []PublicationNeverRefused
<1>1. IdentityInv /\ QueueInv => PublicationNeverRefused
  BY QueueProperties DEF IdentityInv
<1> QED
  BY <1>1, IdentityInit, QueueInit, QueueStep, IdentityStep, PTL DEF Spec

\* Sources are represented in the order of their numbers, whichever prefixes
\* are taken, committed and restored in between.
THEOREM OrderCorrect == Spec => []PublicationOrder
<1>1. IdentityInv /\ QueueInv => PublicationOrder
  BY QueueProperties DEF IdentityInv
<1> QED
  BY <1>1, IdentityInit, QueueInit, QueueStep, IdentityStep, PTL DEF Spec

-----------------------------------------------------------------------------
(* Groups: the sources of one raw event leave the ring together.             *)

\* The groups a step leaves in the ring: states move on, nothing leaves.
LEMMA GroupQuiet ==
  ASSUME GroupInv, TypeOK,
         \A s \in Slots :
           /\ entries'[s].group = entries[s].group /\ entries'[s].kind = entries[s].kind
           /\ entries'[s].state = "Free" => entries[s].state = "Free"
           /\ entries[s].state \in Leaving => entries'[s].state \in Leaving
           /\ entries'[s].state = "Reclaiming" /\ entries'[s].detach = "Reclaim"
                /\ entries[s].group.count > 1 =>
                  \/ entries[s].state = "Reclaiming" /\ entries[s].detach = "Reclaim"
                  \/ \A m \in GroupMembers(s) : entries[m].state \in Leaving,
         seqIdHighWater' \in Nat, seqIdHighWater' >= seqIdHighWater,
         \/ /\ batch'.count = batch.count /\ batch'.first = batch.first
            /\ batch'.seqIdHighWater = batch.seqIdHighWater
            /\ OpenSources' = OpenSources
         \/ batch'.count = 0 /\ OpenSources' = {}
  PROVE  GroupInv'
<1>t. /\ \A s \in Slots : entries[s].group.tail \in Nat
      /\ seqIdHighWater \in Nat
  BY DEF TypeOK, EntryType
<1>1. GroupSound'
  <2> SUFFICES ASSUME NEW s \in Slots
               PROVE  /\ entries'[s].kind = "Legacy" => entries'[s].group = NoGroup
                      /\ entries'[s].state = "Free" => entries'[s].group = NoGroup
                      /\ entries'[s].group.count > 1 =>
                           /\ entries'[s].group.tail <= seqIdHighWater'
                           /\ batch'.count > 0 =>
                                (s \in BatchSlots' <=>
                                   entries'[s].group.tail > batch'.seqIdHighWater)
                           /\ batch'.count = 0 => s \notin OpenSources'
    BY DEF GroupSound
  <2>1. /\ entries[s].kind = "Legacy" => entries[s].group = NoGroup
        /\ entries[s].state = "Free" => entries[s].group = NoGroup
        /\ entries[s].group.count > 1 =>
             /\ entries[s].group.tail <= seqIdHighWater
             /\ batch.count > 0 =>
                  (s \in BatchSlots <=> entries[s].group.tail > batch.seqIdHighWater)
             /\ batch.count = 0 => s \notin OpenSources
    BY DEF GroupInv, GroupSound
  <2>2. entries[s].group.tail <= seqIdHighWater => entries[s].group.tail <= seqIdHighWater'
    BY <1>t
  <2>3. CASE /\ batch'.count = batch.count /\ batch'.first = batch.first
             /\ batch'.seqIdHighWater = batch.seqIdHighWater
             /\ OpenSources' = OpenSources
    <3>1. BatchSlots' = BatchSlots
      BY <2>3 DEF BatchSlots
    <3> QED
      BY <2>1, <2>2, <2>3, <3>1
  <2>4. CASE batch'.count = 0 /\ OpenSources' = {}
    BY <2>1, <2>2, <2>4
  <2> QED
    BY <2>3, <2>4
<1>2. \A s \in Slots : GroupMembers(s)' = GroupMembers(s)
  BY DEF GroupMembers
<1>3. \A s \in Slots : \A m \in GroupMembers(s) : m \in Slots
  BY DEF GroupMembers
<1>4. GroupWhole'
  <2> SUFFICES ASSUME NEW s \in Slots, entries'[s].group.count > 1
               PROVE  /\ \/ \A j \in 0..(entries'[s].group.count - 1) :
                              \E m \in GroupMembers(s)' : entries'[m].group.index = j
                         \/ \A m \in GroupMembers(s)' : entries'[m].state \in Leaving
                      /\ entries'[s].state = "Reclaiming" /\ entries'[s].detach = "Reclaim" =>
                           \A m \in GroupMembers(s)' : entries'[m].state \in Leaving
    BY DEF GroupWhole
  <2>1. entries[s].group.count > 1 /\ entries'[s].group = entries[s].group
    OBVIOUS
  <2>2. /\ \/ \A j \in 0..(entries[s].group.count - 1) :
                \E m \in GroupMembers(s) : entries[m].group.index = j
           \/ \A m \in GroupMembers(s) : entries[m].state \in Leaving
        /\ entries[s].state = "Reclaiming" /\ entries[s].detach = "Reclaim" =>
             \A m \in GroupMembers(s) : entries[m].state \in Leaving
    BY <2>1 DEF GroupInv, GroupWhole
  <2>3. (\A m \in GroupMembers(s) : entries[m].state \in Leaving)
          => (\A m \in GroupMembers(s)' : entries'[m].state \in Leaving)
    BY <1>2, <1>3
  <2>4. (\A j \in 0..(entries[s].group.count - 1) :
           \E m \in GroupMembers(s) : entries[m].group.index = j)
          => (\A j \in 0..(entries'[s].group.count - 1) :
                \E m \in GroupMembers(s)' : entries'[m].group.index = j)
    BY <1>2, <1>3, <2>1
  <2> QED
    BY <2>1, <2>2, <2>3, <2>4
<1> QED
  BY <1>1, <1>4 DEF GroupInv

\* Sources S leave the ring: each takes its whole group with it, or the group
\* waits for nothing any more.
LEMMA GroupRelease ==
  ASSUME GroupInv, GroupSound', NEW S \in SUBSET Slots,
         \A s \in Slots :
           /\ s \in S => entries'[s].group = NoGroup
           /\ s \notin S => entries'[s] = entries[s],
         \A s \in Slots \ S : \A r \in S :
           entries[s].group.count > 1 /\ r \in GroupMembers(s) =>
             \A m \in GroupMembers(s) : entries[m].state \in Leaving
  PROVE  GroupInv'
<1>1. \A s \in S : s \in Slots /\ entries'[s].group.count = 0
  BY DEF NoGroup
<1>2. GroupWhole'
  <2> SUFFICES ASSUME NEW s \in Slots, entries'[s].group.count > 1
               PROVE  /\ \/ \A j \in 0..(entries'[s].group.count - 1) :
                              \E m \in GroupMembers(s)' : entries'[m].group.index = j
                         \/ \A m \in GroupMembers(s)' : entries'[m].state \in Leaving
                      /\ entries'[s].state = "Reclaiming" /\ entries'[s].detach = "Reclaim" =>
                           \A m \in GroupMembers(s)' : entries'[m].state \in Leaving
    BY DEF GroupWhole
  <2>1. s \notin S /\ entries'[s] = entries[s]
    BY <1>1
  <2>2. GroupMembers(s)' = GroupMembers(s) \ S
    BY <1>1, <2>1 DEF GroupMembers
  <2>3. \A m \in GroupMembers(s)' : m \in GroupMembers(s) /\ entries'[m] = entries[m]
    BY <2>2 DEF GroupMembers
  <2>4. /\ \/ \A j \in 0..(entries[s].group.count - 1) :
                \E m \in GroupMembers(s) : entries[m].group.index = j
           \/ \A m \in GroupMembers(s) : entries[m].state \in Leaving
        /\ entries[s].state = "Reclaiming" /\ entries[s].detach = "Reclaim" =>
             \A m \in GroupMembers(s) : entries[m].state \in Leaving
    BY <2>1 DEF GroupInv, GroupWhole
  <2>5. CASE \A m \in GroupMembers(s) : entries[m].state \in Leaving
    BY <2>3, <2>5
  <2>6. CASE \A r \in S : r \notin GroupMembers(s)
    <3>1. GroupMembers(s)' = GroupMembers(s)
      BY <2>2, <2>6
    <3> QED
      BY <2>1, <2>3, <2>4, <3>1
  <2> QED
    BY <2>1, <2>5, <2>6
<1> QED
  BY <1>2 DEF GroupInv

\* A reservation brings a group of its own, complete, or none.
LEMMA GroupReserve ==
  ASSUME TypeOK, GroupInv, GroupSound',
         NEW k \in 1..SourceSlotCount, NEW g,
         \A s \in Slots :
           /\ Distance(sourceTail, s) < k =>
                /\ entries[s].state = "Free" /\ entries'[s].state = "Writing"
                /\ \/ entries'[s].group = NoGroup
                   \/ /\ entries'[s].group.count = k /\ entries'[s].group.tail = g
                      /\ entries'[s].group.index = Distance(sourceTail, s)
                      /\ g > seqIdHighWater
           /\ ~(Distance(sourceTail, s) < k) => entries'[s] = entries[s],
         \/ \A s \in Slots : Distance(sourceTail, s) < k => entries'[s].group = NoGroup
         \/ \A s \in Slots : Distance(sourceTail, s) < k => entries'[s].group # NoGroup,
         g \in Nat
  PROVE  GroupInv'
<1> DEFINE New(s) == Distance(sourceTail, s) < k
<1>1. \A s \in Slots :
           /\ New(s) =>
                /\ entries[s].state = "Free" /\ entries'[s].state = "Writing"
                /\ \/ entries'[s].group = NoGroup
                   \/ /\ entries'[s].group.count = k /\ entries'[s].group.tail = g
                      /\ entries'[s].group.index = Distance(sourceTail, s)
                      /\ g > seqIdHighWater
           /\ ~New(s) => entries'[s] = entries[s]
  OBVIOUS
<1>2. \/ \A s \in Slots : New(s) => entries'[s].group = NoGroup
      \/ \A s \in Slots : New(s) => entries'[s].group # NoGroup
  OBVIOUS
<1>3. sourceTail \in Slots /\ k \in Nat /\ k <= SourceSlotCount /\ k > 0
  BY ConfigValid DEF TypeOK
<1>4. /\ \A j \in 1..k : /\ SlotAfter(sourceTail, j - 1) \in Slots
                         /\ Distance(sourceTail, SlotAfter(sourceTail, j - 1)) = j - 1
      /\ \A s \in Slots : Distance(sourceTail, s) \in Nat
  BY <1>3, ArcCount, k \in 0..SourceSlotCount
<1>5. \A j \in 0..(k - 1) : \E s \in Slots : New(s) /\ Distance(sourceTail, s) = j
  <2> TAKE j \in 0..(k - 1)
  <2>1. j + 1 \in 1..k /\ (j + 1) - 1 = j
    BY <1>3
  <2> QED
    BY <1>3, <1>4, <2>1
<1>6. \A s \in Slots : New(s) => entries[s].group.count = 0
  BY <1>1 DEF GroupInv, GroupSound, NoGroup
<1> HIDE DEF New
<1>7. NoGroup.count = 0
  BY DEF NoGroup
<1>t. /\ \A s \in Slots : entries[s].group.tail \in Nat /\ entries[s].group.count \in Nat
      /\ seqIdHighWater \in Nat
  BY DEF TypeOK, EntryType
<1>8. GroupWhole'
  <2> SUFFICES ASSUME NEW s \in Slots, entries'[s].group.count > 1
               PROVE  /\ \/ \A j \in 0..(entries'[s].group.count - 1) :
                              \E m \in GroupMembers(s)' : entries'[m].group.index = j
                         \/ \A m \in GroupMembers(s)' : entries'[m].state \in Leaving
                      /\ entries'[s].state = "Reclaiming" /\ entries'[s].detach = "Reclaim" =>
                           \A m \in GroupMembers(s)' : entries'[m].state \in Leaving
    BY DEF GroupWhole
  <2>1. CASE New(s)
    <3>1. entries'[s].group.count = k /\ entries'[s].group.tail = g
      BY <1>1, <1>7, <2>1
    <3>2. \A m \in Slots : New(m) =>
            /\ entries'[m].group.count = k /\ entries'[m].group.tail = g
            /\ entries'[m].group.index = Distance(sourceTail, m)
      BY <1>1, <1>2, <1>7, <2>1
    <3>3. \A m \in Slots : New(m) => m \in GroupMembers(s)'
      BY <3>1, <3>2 DEF GroupMembers
    <3>4. \A j \in 0..(entries'[s].group.count - 1) :
            \E m \in GroupMembers(s)' : entries'[m].group.index = j
      <4> SUFFICES ASSUME NEW j \in 0..(k - 1)
                   PROVE  \E m \in GroupMembers(s)' : entries'[m].group.index = j
        BY <3>1
      <4>1. PICK m \in Slots : New(m) /\ Distance(sourceTail, m) = j
        BY <1>5
      <4> QED
        BY <3>2, <3>3, <4>1
    <3>5. entries'[s].state # "Reclaiming"
      BY <1>1, <2>1
    <3> QED
      BY <3>4, <3>5
  <2>2. CASE ~ New(s)
    <3>1. entries'[s] = entries[s]
      BY <1>1, <2>2
    <3>2. entries[s].group.tail <= seqIdHighWater
      BY <3>1 DEF GroupInv, GroupSound
    <3>3. \A m \in Slots : New(m) => m \notin GroupMembers(s) /\ m \notin GroupMembers(s)'
      <4> TAKE m \in Slots
      <4> HAVE New(m)
      <4>1. m \notin GroupMembers(s)
        BY <1>6, <3>1 DEF GroupMembers
      <4>2. CASE entries'[m].group = NoGroup
        BY <1>7, <3>1, <4>1, <4>2 DEF GroupMembers
      <4>3. CASE entries'[m].group.tail = g /\ g > seqIdHighWater
        <5>1. entries'[m].group.tail # entries'[s].group.tail
          BY <1>t, <3>1, <3>2, <4>3
        <5> QED
          BY <4>1, <5>1 DEF GroupMembers
      <4> QED
        BY <1>1, <4>2, <4>3
    <3>4. GroupMembers(s)' = GroupMembers(s)
      BY <1>1, <3>1, <3>3 DEF GroupMembers
    <3>5. \A m \in GroupMembers(s) : entries'[m] = entries[m]
      BY <1>1, <3>3 DEF GroupMembers
    <3>6. /\ \/ \A j \in 0..(entries[s].group.count - 1) :
                  \E m \in GroupMembers(s) : entries[m].group.index = j
             \/ \A m \in GroupMembers(s) : entries[m].state \in Leaving
          /\ entries[s].state = "Reclaiming" /\ entries[s].detach = "Reclaim" =>
               \A m \in GroupMembers(s) : entries[m].state \in Leaving
      BY <3>1 DEF GroupInv, GroupWhole
    <3> QED
      BY <3>1, <3>4, <3>5, <3>6
  <2> QED
    BY <2>1, <2>2
<1> QED
  BY <1>8 DEF GroupInv

\* The invariant gives the property: a group with a member missing has not all
\* of its indices in the ring, so all that is left of it is leaving.
LEMMA GroupProperty ==
  ASSUME TypeOK, GroupInv
  PROVE  GroupLeavesTogether
<1> SUFFICES ASSUME NEW s \in Resident,
                    entries[s].group.count > Cardinality(GroupMembers(s))
             PROVE  \A m \in GroupMembers(s) : entries[m].state \in {"Completed", "Reclaiming"}
  BY DEF GroupLeavesTogether
<1> DEFINE c == entries[s].group.count
           G == GroupMembers(s)
<1>1. s \in Slots /\ c \in Nat
  BY DEF Resident, TypeOK, EntryType
<1>2. G \in SUBSET Slots /\ s \in G
  BY <1>1 DEF GroupMembers
<1>3. IsFiniteSet(G) /\ Cardinality(G) \in Nat
  BY <1>2, SlotSets
<1>4. Cardinality(G) # 0
  BY <1>2, <1>3, FS_EmptySet
<1>5. c > 1
  BY <1>1, <1>3, <1>4
<1>6. CASE \A j \in 0..(c - 1) : \E m \in G : entries[m].group.index = j
  <2> DEFINE f == [j \in 0..(c - 1) |-> CHOOSE m \in G : entries[m].group.index = j]
  <2>1. \A j \in 0..(c - 1) : f[j] \in G /\ entries[f[j]].group.index = j
    BY <1>6
  <2>2. f \in [0..(c - 1) -> G]
    BY <2>1
  <2> HIDE DEF f
  <2>3. \A i, j \in 0..(c - 1) : f[i] = f[j] => i = j
    BY <2>1
  <2>4. f \in Injection(0..(c - 1), G)
    BY <2>2, <2>3 DEF Injection, IsInjective
  <2>5. Cardinality(0..(c - 1)) = c
    BY <1>1, <1>5, FS_Interval
  <2>6. Cardinality(0..(c - 1)) <= Cardinality(G)
    BY <1>3, <2>4, FS_Injection
  <2> QED
    BY <1>1, <1>3, <2>5, <2>6
<1>7. CASE \A m \in G : entries[m].state \in Leaving
  BY <1>7 DEF Leaving
<1> QED
  BY <1>1, <1>5, <1>6, <1>7 DEF GroupInv, GroupWhole

\* The group a reservation gives a new source.
LEMMA ReserveGroups ==
  ASSUME TypeOK, NEW kind \in Kinds, NEW ns \in Seq(PageRuns), NEW q \in Nat,
         ReserveStorage(kind, ns, q), NEW s \in Slots,
         Distance(sourceTail, s) < Len(ns)
  PROVE  /\ kind = "Legacy" => entries'[s].group = NoGroup
         /\ kind = "Arena" => /\ entries'[s].group.tail = q + Len(ns) - 1
                              /\ entries'[s].group.count = Len(ns)
                              /\ entries'[s].group.index = Distance(sourceTail, s)
<1>1. PICK tails, occupied : PlaceSources(kind, ns, q, tails, occupied)
  BY DEF ReserveStorage
<1>2. Distance(sourceTail, s) \in Nat /\ Len(ns) \in Nat
  BY DistanceType DEF TypeOK
<1>3. Distance(sourceTail, s) + 1 <= Len(ns)
  BY <1>2
<1> DEFINE j == Distance(sourceTail, s) + 1
<1>4. entries'[s] = NewEntry(kind, s, Len(ns), j, ns[j], tails[j - 1], q)
  BY <1>1, <1>3 DEF PlaceSources
<1>5. j - 1 = Distance(sourceTail, s)
  BY <1>2
<1> HIDE DEF j
<1>6. /\ kind = "Legacy" => entries'[s].group = NoGroup
      /\ kind = "Arena" => entries'[s].group =
           [tail |-> q + Len(ns) - 1, count |-> Len(ns), index |-> j - 1]
  BY <1>4 DEF NewEntry
<1> QED
  BY <1>5, <1>6

\* A reservation of a source or of a batch preserves the groups.
LEMMA GroupReserveStep ==
  ASSUME TypeOK, TypeOK', StrictOpen, StrictOpen', GroupInv,
         NEW ns \in Seq(PageRuns), Len(ns) \in 1..SourceSlotCount,
         NEW kind \in Kinds, NEW q \in Nat, ReserveStorage(kind, ns, q),
         \A s \in Slots : Distance(sourceTail, s) < Len(ns) => entries[s].state = "Free",
         kind = "Arena" => q > seqIdHighWater /\ seqIdHighWater' = q + Len(ns) - 1,
         kind = "Legacy" => seqIdHighWater' = seqIdHighWater,
         ~ strictWritingActive, batch.count = 0,
         \/ batch' = batch /\ (kind = "Arena" => Len(ns) = 1)
         \/ /\ batch'.first = sourceTail /\ batch'.count = Len(ns) /\ kind = "Arena"
            /\ batch'.seqIdHighWater = seqIdHighWater
  PROVE  GroupInv'
<1> DEFINE k == Len(ns)
           g == q + k - 1
           New(s) == Distance(sourceTail, s) < k
<1>a. k \in 1..SourceSlotCount
  OBVIOUS
<1> HIDE DEF k
<1>1. k \in 1..SourceSlotCount /\ k \in Nat /\ k >= 1 /\ g \in Nat /\ seqIdHighWater \in Nat
  BY <1>a, ConfigValid DEF TypeOK
<1> USE DEF k
<1>2. ASSUME NEW s \in Slots
      PROVE  /\ New(s) =>
                /\ entries[s].state = "Free" /\ entries'[s].state = "Writing"
                /\ entries'[s].kind = kind
                /\ kind = "Legacy" => entries'[s].group = NoGroup
                /\ kind = "Arena" => /\ entries'[s].group.tail = g
                                     /\ entries'[s].group.count = k
                                     /\ entries'[s].group.index = Distance(sourceTail, s)
             /\ ~New(s) => entries'[s] = entries[s]
  BY ReserveEntries, ReserveGroups
<1>3. kind = "Arena" => g > seqIdHighWater /\ seqIdHighWater' = g
  BY <1>1
<1>4. \/ batch' = batch /\ (kind = "Arena" => k = 1)
      \/ /\ batch'.first = sourceTail /\ batch'.count = k /\ kind = "Arena"
         /\ batch'.seqIdHighWater = seqIdHighWater
  OBVIOUS
<1>5. OpenSources = {} /\ kind \in {"Legacy", "Arena"}
  BY DEF StrictOpen, Kinds
<1>6. NoGroup.count = 0
  BY DEF NoGroup
<1>7. batch'.count = k => BatchSlots' = {s \in Slots : Distance(batch'.first, s) < k}
  BY DEF BatchSlots
<1> HIDE DEF k, g
<1>8. GroupSound'
  <2> SUFFICES ASSUME NEW s \in Slots
               PROVE  /\ entries'[s].kind = "Legacy" => entries'[s].group = NoGroup
                      /\ entries'[s].state = "Free" => entries'[s].group = NoGroup
                      /\ entries'[s].group.count > 1 =>
                           /\ entries'[s].group.tail <= seqIdHighWater'
                           /\ batch'.count > 0 =>
                                (s \in BatchSlots' <=>
                                   entries'[s].group.tail > batch'.seqIdHighWater)
                           /\ batch'.count = 0 => s \notin OpenSources'
    BY DEF GroupSound
  <2>1. CASE New(s)
    <3>1. CASE kind = "Legacy"
      BY <1>2, <1>6, <2>1, <3>1
    <3>2. CASE kind = "Arena"
      <4>1. /\ entries'[s].kind = "Arena" /\ entries'[s].state = "Writing"
            /\ entries'[s].group.tail = g /\ entries'[s].group.count = k
        BY <1>2, <2>1, <3>2
      <4>2. CASE batch' = batch /\ k = 1
        BY <4>1, <4>2
      <4>3. CASE /\ batch'.first = sourceTail /\ batch'.count = k
                 /\ batch'.seqIdHighWater = seqIdHighWater
        <5>1. s \in BatchSlots'
          BY <1>7, <2>1, <4>3
        <5> QED
          BY <1>1, <1>3, <3>2, <4>1, <4>3, <5>1
      <4> QED
        BY <1>4, <3>2, <4>2, <4>3
    <3> QED
      BY <1>5, <3>1, <3>2
  <2>2. CASE ~ New(s)
    <3>1. entries'[s] = entries[s]
      BY <1>2, <2>2
    <3>2. /\ entries[s].kind = "Legacy" => entries[s].group = NoGroup
          /\ entries[s].state = "Free" => entries[s].group = NoGroup
          /\ entries[s].group.count > 1 => entries[s].group.tail <= seqIdHighWater
      BY DEF GroupInv, GroupSound
    <3>3. entries[s].group.tail \in Nat
      BY DEF TypeOK, EntryType
    <3>4. entries[s].group.tail <= seqIdHighWater =>
            entries[s].group.tail <= seqIdHighWater'
      BY <1>1, <1>3, <1>5, <3>3
    <3>5. s \notin OpenSources'
      BY <1>5, <3>1 DEF OpenSources
    <3>6. CASE batch' = batch
      BY <3>1, <3>2, <3>4, <3>5, <3>6
    <3>7. CASE /\ batch'.first = sourceTail /\ batch'.count = k
               /\ batch'.seqIdHighWater = seqIdHighWater
      <4>1. s \notin BatchSlots'
        BY <1>7, <2>2, <3>7
      <4>2. entries[s].group.tail <= seqIdHighWater =>
              ~(entries[s].group.tail > batch'.seqIdHighWater)
        BY <1>1, <3>3, <3>7
      <4>3. k # 0
        BY <1>1
      <4> QED
        BY <3>1, <3>2, <3>4, <3>7, <4>1, <4>2, <4>3
    <3> QED
      BY <1>4, <3>6, <3>7
  <2> QED
    BY <2>1, <2>2
<1>9. \A s \in Slots :
           /\ New(s) =>
                /\ entries[s].state = "Free" /\ entries'[s].state = "Writing"
                /\ \/ entries'[s].group = NoGroup
                   \/ /\ entries'[s].group.count = k /\ entries'[s].group.tail = g
                      /\ entries'[s].group.index = Distance(sourceTail, s)
                      /\ g > seqIdHighWater
           /\ ~New(s) => entries'[s] = entries[s]
  BY <1>2, <1>3, <1>5
<1>10. \/ \A s \in Slots : New(s) => entries'[s].group = NoGroup
       \/ \A s \in Slots : New(s) => entries'[s].group # NoGroup
  <2>1. CASE kind = "Legacy"
    BY <1>2, <2>1
  <2>2. CASE kind = "Arena"
    <3>1. \A s \in Slots : New(s) => entries'[s].group.count = k
      BY <1>2, <2>2
    <3>2. k # 0
      BY <1>1
    <3> QED
      BY <1>6, <3>1, <3>2
  <2> QED
    BY <1>5, <2>1, <2>2
<1> QED
  BY <1>1, <1>8, <1>9, <1>10, GroupReserve

\* Every step preserves the groups: one case per action.
LEMMA GroupStep ==
  IdentityInv /\ QueueInv /\ GroupInv /\ [Next]_tapeVars => GroupInv'
<1> SUFFICES ASSUME IdentityInv, QueueInv, GroupInv, [Next]_tapeVars PROVE GroupInv'
  OBVIOUS
<1>0. TypeOK /\ TypeOK' /\ StrictOpen /\ StrictOpen' /\ CreditsHeld
  BY TypeStep, QueueStep DEF IdentityInv, QueueInv
<1>a. \A s \in Slots : entries[s] \in EntryType
  BY <1>0 DEF TypeOK
<1>b. batch.count \in Nat /\ (~ strictWritingActive => batch.count = 0)
  <2>1. batch.count \in 0..SourceSlotCount
    BY <1>0 DEF TypeOK, BatchType
  <2>2. batch.count \in Nat
    BY <2>1, ConfigValid
  <2> QED
    BY <2>2 DEF IdentityInv, StrictAdmissionAlone
<1>c. seqIdHighWater \in Nat /\ seqIdHighWater' \in Nat /\ seqIdHighWater >= seqIdHighWater
  BY <1>0 DEF TypeOK
<1> DEFINE Same(s) == /\ entries'[s].group = entries[s].group
                      /\ entries'[s].kind = entries[s].kind
\* States change, and no source becomes Reclaiming to leave the ring.
<1>s. ASSUME \A s \in Slots :
               \/ entries'[s] = entries[s]
               \/ /\ Same(s) /\ entries'[s].state # "Free"
                  /\ entries'[s].detach # "Reclaim"
                  /\ entries[s].state \in Leaving => entries'[s].state \in Leaving,
             seqIdHighWater' >= seqIdHighWater,
             \/ /\ batch'.count = batch.count /\ batch'.first = batch.first
                /\ batch'.seqIdHighWater = batch.seqIdHighWater
                /\ OpenSources' = OpenSources
             \/ batch'.count = 0 /\ OpenSources' = {}
      PROVE  GroupInv'
  <2>1. \A s \in Slots :
           /\ entries'[s].group = entries[s].group /\ entries'[s].kind = entries[s].kind
           /\ entries'[s].state = "Free" => entries[s].state = "Free"
           /\ entries[s].state \in Leaving => entries'[s].state \in Leaving
           /\ entries'[s].state = "Reclaiming" /\ entries'[s].detach = "Reclaim"
                /\ entries[s].group.count > 1 =>
                  \/ entries[s].state = "Reclaiming" /\ entries[s].detach = "Reclaim"
                  \/ \A m \in GroupMembers(s) : entries[m].state \in Leaving
    BY <1>s
  <2> QED
    BY <1>0, <1>c, <1>s, <2>1, GroupQuiet
<1>1. ASSUME NEW n \in PageRuns, ReserveLegacy(n)
      PROVE  GroupInv'
  <2> DEFINE ns == <<n>>
  <2>1. /\ "Legacy" \in Kinds /\ ns \in Seq(PageRuns) /\ Len(ns) = 1
        /\ sourceTail \in Slots /\ 0 \in Nat /\ Len(ns) \in 1..SourceSlotCount
    BY <1>0, ConfigValid DEF Kinds, TypeOK
  <2>2. /\ ReserveStorage("Legacy", ns, 0) /\ ~ strictWritingActive
        /\ batch' = batch /\ InspectReserve(n, "Legacy") = "Ready"
        /\ seqIdHighWater' = seqIdHighWater
    BY <1>1 DEF ReserveLegacy
  <2>3. entries[sourceTail].state = "Free"
    BY <1>0, <2>1, <2>2, CreditAvailable
  <2>4. \A s \in Slots : Distance(sourceTail, s) < Len(ns) => entries[s].state = "Free"
    BY <2>1, <2>3, DistanceOne
  <2> HIDE DEF ns
  <2> QED
    BY <1>0, <1>b, <2>1, <2>2, <2>4, GroupReserveStep
<1>2. ASSUME NEW n \in PageRuns, NEW kind \in Kinds, ProbeReserve(n, kind)
      PROVE  GroupInv'
  BY <1>c, <1>s, <1>2 DEF ProbeReserve, ringVars, laneVars, readyVars, OpenSources
<1>3. ASSUME NEW n \in PageRuns, NEW q \in SeqIds, ReserveArena(n, q)
      PROVE  GroupInv'
  <2> DEFINE ns == <<n>>
  <2>1. /\ "Arena" \in Kinds /\ ns \in Seq(PageRuns) /\ Len(ns) = 1
        /\ sourceTail \in Slots /\ q \in Nat /\ Len(ns) \in 1..SourceSlotCount
    BY <1>0, ConfigValid DEF Kinds, TypeOK, SeqIds
  <2>2. /\ ReserveStorage("Arena", ns, q) /\ ~ strictWritingActive
        /\ q > seqIdHighWater /\ seqIdHighWater' = q
        /\ batch' = batch /\ InspectReserve(n, "Arena") = "Ready"
    BY <1>3 DEF ReserveArena, StrictAdmissionOpen
  <2>3. entries[sourceTail].state = "Free"
    BY <1>0, <2>1, <2>2, CreditAvailable
  <2>4. \A s \in Slots : Distance(sourceTail, s) < Len(ns) => entries[s].state = "Free"
    BY <2>1, <2>3, DistanceOne
  <2>5. q + Len(ns) - 1 = q
    BY <2>1
  <2> HIDE DEF ns
  <2> QED
    BY <1>0, <1>b, <2>1, <2>2, <2>4, <2>5, GroupReserveStep
<1>4. ASSUME NEW k \in 1..MaxArenaBatchSources, NEW ns \in [1..k -> PageRuns],
             NEW q \in 1..(MaxSeqId + 1 - k), ReserveArenaBatch(ns, q)
      PROVE  GroupInv'
  <2>1. k \in Nat /\ k > 0 /\ q \in Nat /\ "Arena" \in Kinds
    BY ConfigValid DEF Kinds
  <2>2. ns \in Seq(PageRuns) /\ Len(ns) = k
    BY <2>1, RunsAreSequences
  <2>3. Len(ns) \in 1..SourceSlotCount
    BY <1>4, <2>1, <2>2, ConfigValid DEF ReserveArenaBatch
  <2>4. /\ q > seqIdHighWater /\ ~ strictWritingActive
        /\ seqIdHighWater' = q + Len(ns) - 1
        /\ ReserveStorage("Arena", ns, q)
        /\ batch'.first = sourceTail /\ batch'.count = Len(ns)
        /\ batch'.seqIdHighWater = seqIdHighWater
        /\ \A s \in Slots : Distance(sourceTail, s) < Len(ns) => entries[s].state = "Free"
    BY <1>4 DEF ReserveArenaBatch, StrictAdmissionOpen
  <2> QED
    BY <1>0, <1>b, <2>1, <2>2, <2>3, <2>4, GroupReserveStep
<1>5. ASSUME NEW s \in Slots, NEW q \in SeqIds, SealLegacy(s, q)
      PROVE  GroupInv'
  <2>1. /\ entries[s].state = "Writing" /\ entries[s].kind = "Legacy"
        /\ q > seqIdHighWater /\ seqIdHighWater' = q /\ batch' = batch
    BY <1>5 DEF SealLegacy
  <2>2. \A r \in Slots :
          /\ r = s => /\ Same(r) /\ entries'[r].state = "Ready"
                      /\ entries'[r].detach = entries[r].detach
          /\ r # s => entries'[r] = entries[r]
    BY <1>0, <1>5 DEF SealLegacy, TypeOK, EntryType
  <2>3. q \in Nat
    BY ConfigValid DEF SeqIds
  <2>4. seqIdHighWater' >= seqIdHighWater
    BY <1>c, <2>1, <2>3
  <2>5. entries[s].detach # "Abort"
    BY <1>0, <2>1 DEF CreditsHeld, CreditStates
  <2>6. OpenSources' = OpenSources
    BY <2>1, <2>2, <2>5 DEF OpenSources
  <2>7. \A r \in Slots :
           /\ entries'[r].group = entries[r].group /\ entries'[r].kind = entries[r].kind
           /\ entries'[r].state = "Free" => entries[r].state = "Free"
           /\ entries[r].state \in Leaving => entries'[r].state \in Leaving
           /\ entries'[r].state = "Reclaiming" /\ entries'[r].detach = "Reclaim"
                /\ entries[r].group.count > 1 =>
                  \/ entries[r].state = "Reclaiming" /\ entries[r].detach = "Reclaim"
                  \/ \A m \in GroupMembers(r) : entries[m].state \in Leaving
    BY <2>1, <2>2 DEF Leaving
  <2> QED
    BY <1>0, <1>c, <2>1, <2>4, <2>6, <2>7, GroupQuiet
<1>6. ASSUME NEW S \in SUBSET Slots, NEW order, PublishStrict(S, order),
             OpenSources \subseteq S
      PROVE  GroupInv'
  <2>1. /\ seqIdHighWater' = seqIdHighWater /\ batch'.count = 0
    BY <1>6 DEF PublishStrict, NoBatch
  <2>2. \A s \in Slots :
          /\ s \in S => /\ entries[s].state = "Writing" /\ entries[s].kind = "Arena"
                        /\ entries'[s].state = "Ready" /\ Same(s)
                        /\ entries'[s].detach = entries[s].detach
          /\ s \notin S => entries'[s] = entries[s]
    BY <1>0, <1>6 DEF PublishStrict, TypeOK, EntryType
  <2>3. OpenSources' = {}
    <3>1. \A s \in S : entries'[s].detach # "Abort"
      BY <1>0, <2>2 DEF CreditsHeld, CreditStates
    <3> QED
      BY <1>6, <2>2, <3>1 DEF OpenSources
  <2>7. \A r \in Slots :
           /\ entries'[r].group = entries[r].group /\ entries'[r].kind = entries[r].kind
           /\ entries'[r].state = "Free" => entries[r].state = "Free"
           /\ entries[r].state \in Leaving => entries'[r].state \in Leaving
           /\ entries'[r].state = "Reclaiming" /\ entries'[r].detach = "Reclaim"
                /\ entries[r].group.count > 1 =>
                  \/ entries[r].state = "Reclaiming" /\ entries[r].detach = "Reclaim"
                  \/ \A m \in GroupMembers(r) : entries[m].state \in Leaving
    BY <2>2 DEF Leaving
  <2> QED
    BY <1>0, <1>c, <2>1, <2>3, <2>7, GroupQuiet
<1>7. ASSUME NEW s \in Slots, SealArena(s)
      PROVE  GroupInv'
  <2>1. batch.count = 0 /\ PublishStrict({s}, <<s>>)
    BY <1>7 DEF SealArena
  <2>2. s \in OpenSources
    BY <2>1 DEF PublishStrict, OpenSources
  <2>3. OpenSources \subseteq {s}
    BY <1>0, <2>1, <2>2 DEF StrictOpen
  <2> QED
    BY <1>6, <2>1, <2>3, {s} \in SUBSET Slots
<1>8. ASSUME SealArenaBatch
      PROVE  GroupInv'
  <2>1. batch.count > 0 /\ PublishStrict(BatchSlots, BatchSequence)
    BY <1>8 DEF SealArenaBatch
  <2>2. OpenSources \subseteq BatchSlots
    BY <1>0, <2>1 DEF StrictOpen
  <2> QED
    BY <1>6, <2>1, <2>2, BatchSlots \in SUBSET Slots DEF BatchSlots
<1>9. ASSUME NEW s \in Slots, AbortLegacy(s)
      PROVE  GroupInv'
  <2>1. /\ entries[s].state = "Writing" /\ entries[s].kind = "Legacy"
        /\ RollbackNewest(s, 1) /\ UNCHANGED <<seqIdHighWater, batch>>
    BY <1>9 DEF AbortLegacy
  <2>2. \A r \in Slots : /\ r = s => /\ entries'[r].group = NoGroup
                                     /\ entries'[r].state = "Free"
                                     /\ entries'[r].kind = "Legacy"
                                     /\ entries'[r].detach # "Abort"
                         /\ r # s => entries'[r] = entries[r]
    BY <1>0, <2>1, RollbackFree, RollbackNoGroup, RollbackEntries, DistanceOne
  <2>3. entries[s].group = NoGroup /\ NoGroup.count = 0
    BY <2>1 DEF GroupInv, GroupSound, NoGroup
  <2>4. OpenSources' = OpenSources /\ BatchSlots' = BatchSlots
    <3>1. entries[s].detach # "Abort"
      BY <1>0, <2>1 DEF CreditsHeld, CreditStates
    <3> QED
      BY <2>1, <2>2, <3>1 DEF OpenSources, BatchSlots
  <2>5. GroupSound'
    BY <2>1, <2>2, <2>3, <2>4 DEF GroupInv, GroupSound
  <2>6. \A r \in Slots \ {s} : \A t \in {s} :
           entries[r].group.count > 1 /\ t \in GroupMembers(r) =>
             \A m \in GroupMembers(r) : entries[m].state \in Leaving
    BY <2>3 DEF GroupMembers
  <2> QED
    BY <2>2, <2>5, <2>6, {s} \in SUBSET Slots, GroupRelease
<1>10. ASSUME NEW S \in SUBSET Slots, DetachForAbort(S),
              batch'.count = batch.count, batch'.first = batch.first,
              batch'.seqIdHighWater = batch.seqIdHighWater
       PROVE  GroupInv'
  <2>1. seqIdHighWater' = seqIdHighWater
    BY <1>10 DEF DetachForAbort
  <2>2. \A s \in Slots :
          /\ s \in S => /\ entries[s].state = "Writing" /\ entries[s].kind = "Arena"
                        /\ entries'[s].state = "Reclaiming" /\ entries'[s].detach = "Abort"
                        /\ Same(s)
          /\ s \notin S => entries'[s] = entries[s]
    <3> TAKE s \in Slots
    <3>1. CASE s \notin S
      BY <1>10, <3>1 DEF DetachForAbort
    <3>2. CASE s \in S
      <4>1. /\ entries'[s] = [entries[s] EXCEPT !.state = "Reclaiming", !.detach = "Abort"]
            /\ entries[s].state = "Writing" /\ entries[s].kind = "Arena"
        BY <1>10, <3>2 DEF DetachForAbort
      <4> QED
        BY <1>a, <3>2, <4>1 DEF EntryType
    <3> QED
      BY <3>1, <3>2
  <2>3. OpenSources' = OpenSources
    BY <2>2 DEF OpenSources
  <2>4. \A s \in Slots :
          \/ entries'[s] = entries[s]
          \/ /\ Same(s) /\ entries'[s].state # "Free" /\ entries'[s].detach # "Reclaim"
             /\ entries[s].state \in Leaving => entries'[s].state \in Leaving
    BY <2>2 DEF Leaving
  <2> QED
    BY <1>c, <1>s, <1>10, <2>1, <2>3, <2>4
<1>11. ASSUME NEW s \in Slots, AbortArenaDetach(s)
       PROVE  GroupInv'
  BY <1>10, <1>11, {s} \in SUBSET Slots DEF AbortArenaDetach
<1>12. ASSUME NEW failStop \in BOOLEAN, AbortBatchDetach(failStop)
       PROVE  GroupInv'
  <2>1. /\ batch'.count = batch.count /\ batch'.first = batch.first
        /\ batch'.seqIdHighWater = batch.seqIdHighWater
    BY <1>0, <1>12 DEF AbortBatchDetach, TypeOK, BatchType
  <2> QED
    BY <1>10, <1>12, <2>1, BatchSlots \in SUBSET Slots DEF AbortBatchDetach, BatchSlots
<1>13. ASSUME NEW o \in Slots, NEW k \in Nat, FinishAbort(o, k), batch'.count = 0,
              \A s \in OpenSources : Distance(o, s) < k,
              \A s \in Slots : entries[s].group.count > 1 /\ ~(Distance(o, s) < k) =>
                /\ entries[s].group.tail <= seqIdHighWater'
                /\ \A r \in Slots : Distance(o, r) < k => r \notin GroupMembers(s)
       PROVE  GroupInv'
  <2> DEFINE S == {s \in Slots : Distance(o, s) < k}
  <2>1. RollbackNewest(o, k)
    BY <1>13 DEF FinishAbort
  <2>2. \A s \in Slots : /\ s \in S => /\ entries'[s].group = NoGroup
                                       /\ entries'[s].detach # "Abort"
                                       /\ entries'[s].state = "Free"
                         /\ s \notin S => entries'[s] = entries[s]
    BY <1>0, <2>1, RollbackEntries, RollbackFree, RollbackNoGroup
  <2>3. OpenSources' = {}
    BY <1>13, <2>2 DEF OpenSources
  <2>4. /\ \A s \in Slots \ S : entries[s].group.count > 1 =>
             /\ entries[s].group.tail <= seqIdHighWater'
             /\ \A r \in S : r \notin GroupMembers(s)
        /\ S \in SUBSET Slots
    BY <1>13
  <2> HIDE DEF S
  <2>5. GroupSound'
    <3>1. \A s \in Slots : /\ entries[s].kind = "Legacy" => entries[s].group = NoGroup
                           /\ entries[s].state = "Free" => entries[s].group = NoGroup
      BY DEF GroupInv, GroupSound
    <3>2. NoGroup.count = 0
      BY DEF NoGroup
    <3> QED
      BY <1>13, <2>2, <2>3, <2>4, <3>1, <3>2 DEF GroupSound
  <2> QED
    BY <2>2, <2>4, <2>5, GroupRelease
<1>14. ASSUME NEW s \in Slots, AbortArenaFinish(s)
       PROVE  GroupInv'
  <2>1. FinishAbort(s, 1) /\ batch.count = 0 /\ batch' = batch
        /\ seqIdHighWater' = seqIdHighWater
    BY <1>14 DEF AbortArenaFinish
  <2>2. s \in OpenSources
    <3>1. Distance(s, s) < 1
      BY DistanceOne
    <3>2. entries[s].detach = "Abort"
      BY <2>1, <3>1 DEF FinishAbort
    <3> QED
      BY <1>0, <3>2 DEF OpenSources, CreditsHeld
  <2>3. \A r \in OpenSources : Distance(s, r) < 1
    <3>1. \A r \in OpenSources : r = s
      BY <1>0, <2>1, <2>2 DEF StrictOpen
    <3> QED
      BY <3>1, DistanceOne
  <2>4. ~(entries[s].group.count > 1)
    BY <2>1, <2>2 DEF GroupInv, GroupSound
  <2>5. \A r \in Slots : entries[r].group.count > 1 =>
          entries[r].group.tail <= seqIdHighWater' /\ s \notin GroupMembers(r)
    BY <2>1, <2>4 DEF GroupInv, GroupSound, GroupMembers
  <2>6. \A r \in Slots : Distance(s, r) < 1 => r = s
    BY DistanceOne
  <2> QED
    BY <1>13, <2>1, <2>3, <2>5, <2>6, 1 \in Nat
<1>15. ASSUME AbortBatchFinish
       PROVE  GroupInv'
  <2>1. /\ FinishAbort(batch.first, batch.count) /\ batch.count > 0
        /\ seqIdHighWater' = seqIdHighWater \/ seqIdHighWater' = batch.seqIdHighWater
    BY <1>15 DEF AbortBatchFinish
  <2>2. batch.first \in Slots /\ batch'.count = 0 /\ batch.seqIdHighWater \in Nat
    BY <1>0, <1>15, ConfigValid DEF AbortBatchFinish, NoBatch, TypeOK, BatchType
  <2>3. \A s \in OpenSources : Distance(batch.first, s) < batch.count
    BY <1>0, <2>1 DEF StrictOpen, BatchSlots
  <2>4. \A s \in Slots : s \in BatchSlots <=> Distance(batch.first, s) < batch.count
    BY DEF BatchSlots
  <2>5. \A s \in Slots : entries[s].group.count > 1 =>
          /\ entries[s].group.tail \in Nat
          /\ entries[s].group.tail <= seqIdHighWater
          /\ s \in BatchSlots <=> entries[s].group.tail > batch.seqIdHighWater
    BY <1>a, <2>1 DEF GroupInv, GroupSound, EntryType
  <2>6. \A s \in Slots : entries[s].group.count > 1 /\ s \notin BatchSlots =>
          /\ entries[s].group.tail <= seqIdHighWater'
          /\ \A r \in BatchSlots : r \notin GroupMembers(s)
    <3> TAKE s \in Slots
    <3> HAVE entries[s].group.count > 1 /\ s \notin BatchSlots
    <3>1. entries[s].group.tail <= batch.seqIdHighWater
      BY <2>2, <2>5
    <3>2. ASSUME NEW r \in BatchSlots, r \in GroupMembers(s) PROVE FALSE
      <4>1. /\ r \in Slots /\ entries[r].group.tail = entries[s].group.tail
            /\ entries[r].group.count = entries[s].group.count
        BY <3>2 DEF GroupMembers
      <4> QED
        BY <2>2, <2>5, <3>1, <4>1
    <3> QED
      BY <2>1, <2>5, <3>1, <3>2
  <2> QED
    BY <1>13, <1>b, <2>1, <2>2, <2>3, <2>4, <2>6
<1>16. ASSUME NEW S, NEW state \in {"TentativeRepresented", "Ready"},
              SetStates(S, state), \A s \in Slots : s \in S => entries[s].state \in
                {"Ready", "TentativeRepresented"},
              UNCHANGED <<batch, seqIdHighWater>>
       PROVE  GroupInv'
  <2>1. \A s \in Slots :
           \/ /\ s \in S /\ entries'[s].state = state
              /\ entries'[s].detach = entries[s].detach /\ Same(s)
           \/ s \notin S /\ entries'[s] = entries[s]
    BY <1>0, <1>16, SetStatesFields
  <2>2. OpenSources' = OpenSources
    BY <1>16, <2>1 DEF OpenSources
  <2>3. \A r \in Slots :
           /\ entries'[r].group = entries[r].group /\ entries'[r].kind = entries[r].kind
           /\ entries'[r].state = "Free" => entries[r].state = "Free"
           /\ entries[r].state \in Leaving => entries'[r].state \in Leaving
           /\ entries'[r].state = "Reclaiming" /\ entries'[r].detach = "Reclaim"
                /\ entries[r].group.count > 1 =>
                  \/ entries[r].state = "Reclaiming" /\ entries[r].detach = "Reclaim"
                  \/ \A m \in GroupMembers(r) : entries[m].state \in Leaving
    BY <1>16, <2>1 DEF Leaving
  <2> QED
    BY <1>0, <1>c, <1>16, <2>2, <2>3, GroupQuiet
<1>17. ASSUME NEW k \in 1..ReadyFifoCount, ReserveReadyPrefix(k)
       PROVE  GroupInv'
  <2> DEFINE S == {ready[i] : i \in 1..k}
  <2>1. /\ SetStates(S, "TentativeRepresented") /\ UNCHANGED <<batch, seqIdHighWater>>
        /\ \A s \in S : entries[s].state = "Ready"
    BY <1>17 DEF ReserveReadyPrefix, entriesOnly
  <2> HIDE DEF S
  <2> QED
    BY <1>16, <2>1
<1>18. TentativeValid => \A s \in Members(tentative) :
         entries[s].state = "TentativeRepresented"
  BY DEF TentativeValid, Members
<1>19. ASSUME RestoreReadyPrefix
       PROVE  GroupInv'
  <2>1. /\ SetStates(Members(tentative), "Ready") /\ UNCHANGED <<batch, seqIdHighWater>>
        /\ \A s \in Members(tentative) : entries[s].state = "TentativeRepresented"
    BY <1>18, <1>19 DEF RestoreReadyPrefix, entriesOnly
  <2> QED
    BY <1>16, <2>1
<1>20. ASSUME CommitReadyPrefix
       PROVE  GroupInv'
  <2>1. UNCHANGED <<batch, seqIdHighWater>> /\ TentativeValid
    BY <1>20 DEF CommitReadyPrefix, entriesOnly
  <2>2. \A s \in Slots :
           \/ /\ s \in Members(tentative) /\ entries'[s].state = "Represented"
              /\ entries'[s].detach = entries[s].detach /\ Same(s)
           \/ s \notin Members(tentative) /\ entries'[s] = entries[s]
    <3> TAKE s \in Slots
    <3>1. CASE s \notin Members(tentative)
      BY <1>20, <3>1 DEF CommitReadyPrefix
    <3>2. CASE s \in Members(tentative)
      <4>1. entries'[s] = [entries[s] EXCEPT !.state = "Represented", !.reserved = FALSE]
        BY <1>20, <3>2 DEF CommitReadyPrefix
      <4> QED
        BY <1>a, <3>2, <4>1 DEF EntryType
    <3> QED
      BY <3>1, <3>2
  <2>3. OpenSources' = OpenSources
    BY <1>18, <2>1, <2>2 DEF OpenSources
  <2>4. \A r \in Slots :
           /\ entries'[r].group = entries[r].group /\ entries'[r].kind = entries[r].kind
           /\ entries'[r].state = "Free" => entries[r].state = "Free"
           /\ entries[r].state \in Leaving => entries'[r].state \in Leaving
           /\ entries'[r].state = "Reclaiming" /\ entries'[r].detach = "Reclaim"
                /\ entries[r].group.count > 1 =>
                  \/ entries[r].state = "Reclaiming" /\ entries[r].detach = "Reclaim"
                  \/ \A m \in GroupMembers(r) : entries[m].state \in Leaving
    BY <1>18, <2>1, <2>2 DEF Leaving
  <2> QED
    BY <1>0, <1>c, <2>1, <2>3, <2>4, GroupQuiet
<1>21. ASSUME NEW S \in SUBSET Slots,
              NEW before \in {"Represented", "Submitted"},
              NEW after \in {"Submitted", "Completed"},
              TransitionAll(S, before, after)
       PROVE  GroupInv'
  <2>1. /\ SetStates(S, after) /\ \A s \in S : entries[s].state = before
        /\ UNCHANGED <<batch, seqIdHighWater>>
    BY <1>21 DEF TransitionAll, entriesOnly
  <2>2. \A s \in Slots :
           \/ /\ s \in S /\ entries'[s].state = after
              /\ entries'[s].detach = entries[s].detach /\ Same(s)
           \/ s \notin S /\ entries'[s] = entries[s]
    BY <1>0, <2>1, SetStatesFields
  <2>3. OpenSources' = OpenSources
    BY <2>1, <2>2 DEF OpenSources
  <2>4. \A r \in Slots :
           /\ entries'[r].group = entries[r].group /\ entries'[r].kind = entries[r].kind
           /\ entries'[r].state = "Free" => entries[r].state = "Free"
           /\ entries[r].state \in Leaving => entries'[r].state \in Leaving
           /\ entries'[r].state = "Reclaiming" /\ entries'[r].detach = "Reclaim"
                /\ entries[r].group.count > 1 =>
                  \/ entries[r].state = "Reclaiming" /\ entries[r].detach = "Reclaim"
                  \/ \A m \in GroupMembers(r) : entries[m].state \in Leaving
    BY <2>1, <2>2 DEF Leaving
  <2> QED
    BY <1>0, <1>c, <2>1, <2>3, <2>4, GroupQuiet
<1>22. ASSUME NEW S \in SUBSET Slots, SubmitSources(S) \/ CompleteAll(S)
       PROVE  GroupInv'
  BY <1>21, <1>22 DEF SubmitSources, CompleteAll
<1>23. ASSUME NEW s \in Slots, CompleteInline(s)
       PROVE  GroupInv'
  BY <1>21, <1>23, {s} \in SUBSET Slots DEF CompleteInline
<1>24. ASSUME NEW s \in Slots, TakeGroupSettlement(s)
       PROVE  GroupInv'
  <2>1. /\ entries' = [entries EXCEPT ![s].settled = TRUE]
        /\ UNCHANGED <<batch, seqIdHighWater>>
    BY <1>24 DEF TakeGroupSettlement, entriesOnly
  <2>a. \A r \in Slots : r # s => entries'[r] = entries[r]
    BY <1>0, <2>1 DEF TypeOK
  <2>b. entries'[s] = [entries[s] EXCEPT !.settled = TRUE]
    BY <1>0, <2>1 DEF TypeOK
  <2>c. /\ entries'[s].state = entries[s].state /\ Same(s)
        /\ entries'[s].detach = entries[s].detach
    BY <1>a, <2>b DEF EntryType
  <2>2. \A r \in Slots :
          /\ entries'[r].state = entries[r].state /\ Same(r)
          /\ entries'[r].detach = entries[r].detach
    BY <2>a, <2>c
  <2>3. OpenSources' = OpenSources
    BY <2>2 DEF OpenSources
  <2> QED
    BY <1>0, <1>c, <2>1, <2>2, <2>3, GroupQuiet
<1>25. ASSUME NEW s \in Slots, BeginPostEncodeRetire(s) \/ BeginReclaim(s)
       PROVE  GroupInv'
  <2>1. /\ BeginRelease(s) /\ entries[s].state \in {"Represented", "Completed"}
        /\ UNCHANGED <<batch, seqIdHighWater>> /\ entries[s].detach = "None"
    BY <1>25 DEF BeginPostEncodeRetire, BeginReclaim, Reclaimable, BeginRelease,
                 entriesOnly
  <2> DEFINE d == IF entries[s].kind = "Arena" THEN "Reclaim" ELSE "None"
  <2>2. d # "Abort"
    OBVIOUS
  <2>3. entries' = [entries EXCEPT ![s].state = "Reclaiming", ![s].detach = d]
    BY <2>1 DEF BeginRelease
  <2> HIDE DEF d
  <2>4. \A r \in Slots : r # s => entries'[r] = entries[r]
    BY <1>0, <2>3 DEF TypeOK
  <2>5. entries'[s] = [entries[s] EXCEPT !.state = "Reclaiming", !.detach = d]
    BY <1>0, <2>3 DEF TypeOK
  <2>6. /\ entries'[s].state = "Reclaiming" /\ entries'[s].detach = d /\ Same(s)
    BY <1>a, <2>5 DEF EntryType
  <2>7. OpenSources' = OpenSources
    BY <2>1, <2>2, <2>4, <2>6 DEF OpenSources
  <2>8. entries[s].group.count > 1 => \A m \in GroupMembers(s) : entries[m].state \in Leaving
    <3> HAVE entries[s].group.count > 1
    <3>1. entries[s].group.count \in Nat
      BY <1>a DEF EntryType
    <3>2. BeginReclaim(s)
      BY <1>25, <3>1 DEF BeginPostEncodeRetire
    <3>3. entries[s].kind = "Arena"
      <4>1. entries[s].kind # "Legacy"
        BY DEF GroupInv, GroupSound, NoGroup
      <4> QED
        BY <1>a, <4>1 DEF EntryType, Kinds
    <3>4. GroupCompletionStatus(s) = "Complete"
      BY <3>2, <3>3 DEF BeginReclaim, Reclaimable
    <3>5. ~(entries[s].group.count <= 1)
      BY <3>1
    <3> QED
      BY <3>4, <3>5 DEF GroupCompletionStatus, Leaving
  <2>9. \A r \in Slots :
           /\ entries'[r].group = entries[r].group /\ entries'[r].kind = entries[r].kind
           /\ entries'[r].state = "Free" => entries[r].state = "Free"
           /\ entries[r].state \in Leaving => entries'[r].state \in Leaving
           /\ entries'[r].state = "Reclaiming" /\ entries'[r].detach = "Reclaim"
                /\ entries[r].group.count > 1 =>
                  \/ entries[r].state = "Reclaiming" /\ entries[r].detach = "Reclaim"
                  \/ \A m \in GroupMembers(r) : entries[m].state \in Leaving
    BY <2>4, <2>6, <2>8 DEF Leaving
  <2> QED
    BY <1>0, <1>c, <2>1, <2>7, <2>9, GroupQuiet
<1>26. ASSUME NEW s \in Slots, FinishReclaim(s)
       PROVE  GroupInv'
  <2>1. /\ entries[s].state = "Reclaiming" /\ UNCHANGED <<batch, seqIdHighWater>>
        /\ entries[s].detach = IF entries[s].kind = "Arena" THEN "Reclaim" ELSE "None"
    BY <1>26 DEF FinishReclaim
  <2>2. PICK h, tl, pt, oc : Release({s}, h, tl, pt, oc)
    BY <1>26 DEF FinishReclaim
  <2>3. \A r \in Slots : /\ r = s => /\ entries'[r].state = "Free"
                                     /\ entries'[r].group = NoGroup
                                     /\ entries'[r].detach # "Abort"
                         /\ r # s => entries'[r] = entries[r]
    BY <1>0, <2>2 DEF Release, FreeEntry
  <2>4. OpenSources' = OpenSources /\ BatchSlots' = BatchSlots
    BY <2>1, <2>3 DEF OpenSources, BatchSlots
  <2>5. GroupSound'
    <3>1. NoGroup.count = 0
      BY DEF NoGroup
    <3> QED
      BY <2>1, <2>3, <2>4, <3>1 DEF GroupInv, GroupSound
  <2>6. entries[s].group.count > 1 => \A m \in GroupMembers(s) : entries[m].state \in Leaving
    <3> HAVE entries[s].group.count > 1
    <3>1. entries[s].kind # "Legacy"
      BY DEF GroupInv, GroupSound, NoGroup
    <3>2. entries[s].kind = "Arena"
      BY <1>a, <3>1 DEF EntryType, Kinds
    <3> QED
      BY <2>1, <3>2 DEF GroupInv, GroupWhole
  <2>7. \A r \in Slots \ {s} : \A t \in {s} :
           entries[r].group.count > 1 /\ t \in GroupMembers(r) =>
             \A m \in GroupMembers(r) : entries[m].state \in Leaving
    <3> SUFFICES ASSUME NEW r \in Slots, entries[r].group.count > 1, s \in GroupMembers(r)
                 PROVE  \A m \in GroupMembers(r) : entries[m].state \in Leaving
      OBVIOUS
    <3>1. GroupMembers(r) = GroupMembers(s) /\ entries[s].group.count > 1
      BY DEF GroupMembers
    <3> QED
      BY <2>6, <3>1
  <2> QED
    BY <2>3, <2>5, <2>7, {s} \in SUBSET Slots, GroupRelease
<1>27. CASE StopAdmission
  BY <1>c, <1>s, <1>27 DEF StopAdmission, ringVars, laneVars, readyVars, OpenSources
<1>28. CASE UNCHANGED tapeVars
  BY <1>c, <1>s, <1>28 DEF tapeVars, ringVars, laneVars, readyVars, OpenSources
<1> QED
  BY <1>1, <1>2, <1>3, <1>4, <1>5, <1>7, <1>8, <1>9, <1>11, <1>12, <1>14,
     <1>15, <1>17, <1>19, <1>20, <1>22, <1>23, <1>24, <1>25, <1>26, <1>27, <1>28
  DEF Next, Produce, Encode, Finish

\* A source of a group gives its storage back only when the whole group is
\* complete, for every size of groups and every order of completions.
THEOREM GroupsCorrect == Spec => []GroupLeavesTogether
<1>1. Init => GroupInv
  <2> SUFFICES ASSUME Init PROVE GroupInv
    OBVIOUS
  <2>1. \A s \in Slots : entries[s].group = NoGroup
    BY DEF Init, FreeEntry
  <2>2. NoGroup.count = 0
    BY DEF NoGroup
  <2> QED
    BY <2>1, <2>2 DEF GroupInv, GroupSound, GroupWhole
<1>2. IdentityInv /\ GroupInv => GroupLeavesTogether
  BY GroupProperty DEF IdentityInv
<1> QED
  BY <1>1, <1>2, IdentityInit, QueueInit, QueueStep, GroupStep, IdentityStep, PTL DEF Spec

-----------------------------------------------------------------------------
(* The two arcs.  The resident sources are one arc of the source ring, from  *)
(* the head, and their runs, paddings included, lie one behind the other on  *)
(* one arc of the page ring.                                                 *)

\* The page x places after page b, x at most the size of the arena, and the
\* distance of page p behind page b.
PageAfter(b, x) == IF b + x >= PageCount THEN b + x - PageCount ELSE b + x
PageDistance(b, p) == IF p >= b THEN p - b ELSE p + PageCount - b

\* The first page of an entry, its padding included: rollbackNewest moves the
\* page tail back to it.
Start(e) == (e.storage.firstPage + PageCount - e.padding) % PageCount

\* A run does not wrap, and only a run at the start of the arena is padded.
Shaped(e) ==
  /\ e.storage.pageCount >= 1
  /\ e.padding = 0 => e.storage.firstPage + e.storage.pageCount <= PageCount
  /\ e.padding > 0 => /\ e.storage.firstPage = 0
                      /\ e.padding + e.storage.pageCount <= PageCount

SlotArc ==
  /\ residentCount \in 0..SourceSlotCount
  /\ sourceTail = SlotAfter(sourceHead, residentCount)
  /\ \A s \in Slots :
       entries[s].state # "Free" <=> Distance(sourceHead, s) < residentCount

\* The arc of pages starts at base, and off says how far behind it each
\* resident source starts, by its place in the arc of slots.
Chain(base, off) ==
  /\ off[0] = 0 /\ off[residentCount] = occupiedPages
  /\ pageTail = PageAfter(base, occupiedPages)
  /\ \A i, j \in 0..residentCount : i < j => off[i] < off[j]
  /\ \A s \in Slots : Distance(sourceHead, s) < residentCount =>
       /\ Start(entries[s]) = PageAfter(base, off[Distance(sourceHead, s)])
       /\ off[Distance(sourceHead, s) + 1] =
            off[Distance(sourceHead, s)] + Footprint(s)
  /\ \A p \in Pages : pages[p] # 0 <=> PageDistance(base, p) < occupiedPages
PageArc ==
  \E base \in Pages : \E off \in [0..residentCount -> 0..HighWaterPages] :
    Chain(base, off)

\* Every page of a source carries the source's allocation, and no other does.
Marked ==
  /\ \A s \in Resident :
       /\ Shaped(entries[s]) /\ entries[s].storage.generation \in 1..allocations
       /\ \A p \in EntryPages(entries[s]) : pages[p] = entries[s].storage.generation
  /\ \A s, t \in Resident :
       s # t => entries[s].storage.generation # entries[t].storage.generation
  /\ \A p \in Pages : pages[p] # 0 => \E s \in Resident : p \in EntryPages(entries[s])

LegacyResident == {s \in Resident : entries[s].kind = "Legacy"}
LegacyCounted == compatibilityResident = Cardinality(LegacyResident)

\* normalizeEmptyAllocator: an empty arena is rewound.
Rewound == residentCount = 0 => pageTail = 0

ArcInv == SlotArc /\ PageArc /\ Marked /\ LegacyCounted /\ Rewound

-----------------------------------------------------------------------------
(* Arithmetic of the page ring. *)

\* A nonempty set of numbers has a least one.
LEMMA LeastNumber ==
  ASSUME NEW T \in SUBSET Nat, T # {}
  PROVE  \E x \in T : \A y \in T : x <= y
<1>1. PICK x \in T : \A y \in T : ~ (<<y, x>> \in OpToRel(<, Nat))
  BY NatLessThanWellFounded, WFMin
<1>2. \A y \in T : ~ (y < x)
  BY <1>1 DEF OpToRel
<1> QED
  BY <1>2

\* A function that grows at each step grows.
LEMMA Grows ==
  ASSUME NEW k \in Nat, NEW f \in [0..k -> Nat],
         \A j \in 1..k : f[j - 1] < f[j]
  PROVE  \A i, j \in 0..k : i < j => f[i] < f[j]
<1> SUFFICES ASSUME NEW i \in 0..k
             PROVE  \A j \in 0..k : i < j => f[i] < f[j]
  OBVIOUS
<1> DEFINE T == {j \in 0..k : i < j /\ ~(f[i] < f[j])}
<1> SUFFICES ASSUME T # {} PROVE FALSE
  OBVIOUS
<1>1. T \in SUBSET Nat
  OBVIOUS
<1> HIDE DEF T
<1>2. PICK j \in T : \A y \in T : j <= y
  BY <1>1, LeastNumber
<1>3. j \in 0..k /\ i < j /\ ~(f[i] < f[j])
  BY DEF T
<1>4. j \in 1..k /\ j - 1 \in 0..k /\ i <= j - 1
  BY <1>3
<1>5. j - 1 \notin T
  BY <1>1, <1>2, <1>3
<1>6. i = j - 1 \/ f[i] < f[j - 1]
  BY <1>4, <1>5 DEF T
<1>7. f[i] \in Nat /\ f[j] \in Nat /\ f[j - 1] \in Nat
  BY <1>3, <1>4
<1>8. f[j - 1] < f[j]
  BY <1>4
<1>9. CASE i = j - 1
  BY <1>3, <1>8, <1>9
<1>10. CASE f[i] < f[j - 1]
  BY <1>3, <1>7, <1>8, <1>10
<1> QED
  BY <1>6, <1>9, <1>10

\* A number between the ends of such a function is in one of its steps.
LEMMA InOneStep ==
  ASSUME NEW k \in Nat, NEW f \in [0..k -> Nat],
         NEW x \in Nat, f[0] <= x, x < f[k]
  PROVE  \E j \in 1..k : f[j - 1] <= x /\ x < f[j]
<1> DEFINE T == {j \in 0..k : x < f[j]}
<1>1. T \in SUBSET Nat /\ k \in T
  OBVIOUS
<1>2. PICK j \in T : \A y \in T : j <= y
  BY <1>1, LeastNumber
<1>3. f[0] \in Nat
  OBVIOUS
<1>4. j \in 0..k /\ x < f[j] /\ j # 0
  BY <1>3
<1>5. j \in 1..k /\ j - 1 \in 0..k /\ j - 1 \notin T
  BY <1>2, <1>4
<1>6. f[j - 1] \in Nat /\ ~(x < f[j - 1])
  BY <1>5
<1> QED
  BY <1>4, <1>5, <1>6

\* Pages and distances on the page ring.
LEMMA PageRing ==
  ASSUME NEW b \in Pages, NEW x \in 0..PageCount, NEW p \in Pages
  PROVE  /\ PageAfter(b, x) \in Pages
         /\ PageDistance(b, p) \in 0..(PageCount - 1)
         /\ PageAfter(b, 0) = b
         /\ \A y \in 0..PageCount : x + y <= PageCount =>
              PageAfter(PageAfter(b, x), y) = PageAfter(b, x + y)
         /\ \A y \in 0..PageCount : x + y <= PageCount =>
              (PageDistance(PageAfter(b, x), p) < y <=>
                 x <= PageDistance(b, p) /\ PageDistance(b, p) < x + y)
BY ConfigValid DEF PageAfter, PageDistance, Pages

\* A base that moves past the first x pages of an arc.
LEMMA PageRebase ==
  ASSUME NEW b \in Pages, NEW x \in 0..PageCount, NEW y \in x..PageCount
  PROVE  /\ PageAfter(PageAfter(b, x), y - x) = PageAfter(b, y)
         /\ \A p \in Pages :
              PageDistance(PageAfter(b, x), p) < y - x <=>
                x <= PageDistance(b, p) /\ PageDistance(b, p) < y
BY ConfigValid DEF PageAfter, PageDistance, Pages

\* An entry's pages are an arc from its first page.
LEMMA EntryArc ==
  ASSUME NEW e \in EntryType, Shaped(e)
  PROVE  /\ Start(e) \in Pages
         /\ e.padding + e.storage.pageCount \in 1..PageCount
         /\ EntryPages(e) =
              {p \in Pages : PageDistance(Start(e), p) < e.padding + e.storage.pageCount}
<1> DEFINE f == e.storage.firstPage
           n == e.storage.pageCount
           d == e.padding
<1>1. f \in Pages /\ n \in 0..MaxPagesPerSource /\ d \in 0..PageCount
  BY DEF EntryType
<1>2. /\ n >= 1 /\ (d = 0 => f + n <= PageCount)
      /\ d > 0 => f = 0 /\ d + n <= PageCount
  BY DEF Shaped
<1>3. Start(e) = (f + PageCount - d) % PageCount
  BY DEF Start
<1>4. EntryPages(e) = (PageCount - d)..(PageCount - 1) \cup f..(f + n - 1)
  BY DEF EntryPages
<1> HIDE DEF f, n, d
<1>5. Start(e) = IF d = 0 THEN f ELSE PageCount - d
  <2>1. CASE d = 0
    <3>1. (f + PageCount) % PageCount = f
      BY <1>1, ConfigValid DEF Pages
    <3> QED
      BY <1>1, <1>3, <2>1, <3>1, ConfigValid DEF Pages
  <2>2. CASE d # 0
    <3>1. d \in 1..(PageCount - 1) /\ f = 0
      BY <1>1, <1>2, <2>2, ConfigValid
    <3>2. (PageCount - d) % PageCount = PageCount - d
      BY <3>1, ConfigValid
    <3> QED
      BY <1>3, <2>2, <3>1, <3>2, ConfigValid
  <2> QED
    BY <2>1, <2>2
<1>6. Start(e) \in Pages /\ d + n \in 1..PageCount
  BY <1>1, <1>2, <1>5, ConfigValid DEF Pages
<1>7. EntryPages(e) = {p \in Pages : PageDistance(Start(e), p) < d + n}
  <2>1. CASE d = 0
    BY <1>1, <1>2, <1>4, <1>5, <2>1, ConfigValid DEF PageDistance, Pages
  <2>2. CASE d # 0
    BY <1>1, <1>2, <1>4, <1>5, <2>2, ConfigValid DEF PageDistance, Pages
  <2> QED
    BY <2>1, <2>2
<1> QED
  BY <1>6, <1>7 DEF d, n

\* A run of n pages placed at page t, its padding included, is an arc from t,
\* and the tail moves behind it.
LEMMA RunArc ==
  ASSUME NEW t \in Pages, NEW n \in PageRuns, WrapPadding(t, n) + n <= PageCount
  PROVE  /\ WrapPadding(t, n) + n \in 1..PageCount
         /\ TailAfter(t, n) = PageAfter(t, WrapPadding(t, n) + n)
         /\ RunPages(t, n) = {p \in Pages : PageDistance(t, p) < WrapPadding(t, n) + n}
<1>1. t \in Int /\ n \in Int /\ n >= 1 /\ t >= 0 /\ t < PageCount /\ n <= PageCount
      /\ PageCount \in Int
  BY ConfigValid DEF Pages, PageRuns
<1>2. CASE t + n > PageCount
  <2>1. WrapPadding(t, n) = PageCount - t /\ FirstPage(t, n) = 0
    BY <1>1, <1>2 DEF WrapPadding, FirstPage
  <2> QED
    BY <1>1, <1>2, <2>1 DEF TailAfter, PageAfter, RunPages, PageDistance, Pages
<1>3. CASE t + n <= PageCount
  <2>1. WrapPadding(t, n) = 0 /\ FirstPage(t, n) = t
    BY <1>1, <1>3 DEF WrapPadding, FirstPage
  <2> QED
    BY <1>1, <1>3, <2>1 DEF TailAfter, PageAfter, RunPages, PageDistance, Pages
<1> QED
  BY <1>1, <1>2, <1>3

\* An arc of m pages has m pages.
LEMMA PageArcCount ==
  ASSUME NEW b \in Pages, NEW m \in 0..PageCount
  PROVE  Cardinality({p \in Pages : PageDistance(b, p) < m}) = m
<1> DEFINE A == {p \in Pages : PageDistance(b, p) < m}
           g == [i \in 1..m |-> PageAfter(b, i - 1)]
<1>1. \A i \in 1..m : /\ PageAfter(b, i - 1) \in Pages
                      /\ PageDistance(b, PageAfter(b, i - 1)) = i - 1
  BY ConfigValid DEF PageAfter, PageDistance, Pages
<1>2. g \in [1..m -> A]
  BY <1>1, ConfigValid
<1>3. \A i, j \in 1..m : g[i] = g[j] => i = j
  BY <1>1
<1>4. \A p \in A : PageDistance(b, p) + 1 \in 1..m /\ PageAfter(b, PageDistance(b, p)) = p
  BY ConfigValid DEF PageAfter, PageDistance, Pages
<1>5. \A p \in A : \E i \in 1..m : g[i] = p
  <2> TAKE p \in A
  <2>1. (PageDistance(b, p) + 1) - 1 = PageDistance(b, p)
    BY ConfigValid DEF PageDistance, Pages
  <2>2. g[PageDistance(b, p) + 1] = p
    BY <1>4, <2>1
  <2> QED
    BY <1>4, <2>2
<1> HIDE DEF A, g
<1>6. g \in Bijection(1..m, A)
  BY <1>2, <1>3, <1>5 DEF Bijection, Injection, Surjection, IsInjective
<1>7. ExistsBijection(1..m, A) /\ IsFiniteSet(1..m) /\ Cardinality(1..m) = m
  BY <1>6, FS_Interval, m \in Nat DEF ExistsBijection
<1> QED
  BY <1>7, FS_Bijection DEF A

-----------------------------------------------------------------------------
(* What the arcs say. *)

\* The resident sources are as many as the arc is long.
LEMMA ResidentArc ==
  ASSUME TypeOK, SlotArc
  PROVE  /\ residentCount \in Nat /\ residentCount <= SourceSlotCount
         /\ Resident = {s \in Slots : Distance(sourceHead, s) < residentCount}
         /\ residentCount = Cardinality(Resident)
<1>1. /\ residentCount \in 0..SourceSlotCount /\ sourceHead \in Slots
      /\ residentCount \in Nat /\ residentCount <= SourceSlotCount
  BY ConfigValid DEF SlotArc, TypeOK
<1>2. Resident = {s \in Slots : Distance(sourceHead, s) < residentCount}
  BY DEF SlotArc, Resident
<1> QED
  BY <1>1, <1>2, ArcCount

\* A resident source holds the pages of its part of the arc.
LEMMA EntrySpan ==
  ASSUME TypeOK, SlotArc, Marked, NEW base \in Pages,
         NEW off \in [0..residentCount -> 0..HighWaterPages], Chain(base, off),
         NEW s \in Resident
  PROVE  LET d == Distance(sourceHead, s)
         IN /\ d \in 0..(residentCount - 1) /\ d + 1 \in 0..residentCount
            /\ off[d] \in 0..HighWaterPages /\ off[d + 1] \in 0..HighWaterPages
            /\ off[d + 1] = off[d] + Footprint(s)
            /\ Footprint(s) \in 1..PageCount
            /\ Start(entries[s]) = PageAfter(base, off[d])
            /\ EntryPages(entries[s]) \subseteq Pages
            /\ \A p \in Pages : p \in EntryPages(entries[s]) <=>
                 off[d] <= PageDistance(base, p) /\ PageDistance(base, p) < off[d + 1]
<1> DEFINE d == Distance(sourceHead, s)
<1>1. /\ residentCount \in Nat /\ residentCount <= SourceSlotCount
      /\ s \in Slots /\ d < residentCount
  BY ResidentArc DEF Resident
<1>2. d \in Nat
  BY <1>1, DistanceType DEF TypeOK
<1>3. d \in 0..(residentCount - 1) /\ d \in 0..residentCount /\ d + 1 \in 0..residentCount
  BY <1>1, <1>2
<1>4. /\ Start(entries[s]) = PageAfter(base, off[d])
      /\ off[d + 1] = off[d] + Footprint(s)
  BY <1>1 DEF Chain
<1> HIDE DEF d
<1>5. off[d] \in 0..HighWaterPages /\ off[d + 1] \in 0..HighWaterPages
  BY <1>3
<1>6. entries[s] \in EntryType /\ Shaped(entries[s])
  BY <1>1 DEF TypeOK, Marked
<1>7. /\ Footprint(s) \in 1..PageCount
      /\ EntryPages(entries[s]) =
           {p \in Pages : PageDistance(Start(entries[s]), p) < Footprint(s)}
  BY <1>6, EntryArc DEF Footprint
<1>8. /\ off[d] \in 0..PageCount /\ Footprint(s) \in 0..PageCount
      /\ off[d] + Footprint(s) <= PageCount
  BY <1>4, <1>5, <1>7, ConfigValid
<1>9. \A p \in Pages : PageDistance(PageAfter(base, off[d]), p) < Footprint(s) <=>
         off[d] <= PageDistance(base, p) /\ PageDistance(base, p) < off[d] + Footprint(s)
  BY <1>8, PageRing
<1> QED
  BY <1>3, <1>4, <1>5, <1>7, <1>9 DEF d

\* A request the capacity checks admit finds its slot and its pages free.
LEMMA AdmittedFits ==
  ASSUME TypeOK, SlotArc, PageArc, NEW n \in PageRuns,
         residentCount < HighWaterSources,
         occupiedPages + WrapPadding(pageTail, n) + n <= HighWaterPages
  PROVE  StorageFree(n)
<1>1. entries[sourceTail].state = "Free"
  <2>1. /\ residentCount \in 0..SourceSlotCount /\ sourceTail \in Slots /\ sourceHead \in Slots
        /\ sourceTail = SlotAfter(sourceHead, residentCount)
        /\ residentCount < SourceSlotCount
    BY ConfigValid DEF SlotArc, TypeOK
  <2>2. Distance(sourceHead, sourceTail) = residentCount
    BY <2>1, ConfigValid DEF SlotAfter, Distance, Slots
  <2> QED
    BY <2>1, <2>2 DEF SlotArc
<1>2. ASSUME NEW p \in RunPages(pageTail, n)
      PROVE  pages[p] = 0
  <2>1. PICK base \in Pages, off \in [0..residentCount -> 0..HighWaterPages] :
          Chain(base, off)
    BY DEF PageArc
  <2>2. /\ pageTail = PageAfter(base, occupiedPages) /\ occupiedPages = off[residentCount]
        /\ \A q \in Pages : pages[q] # 0 <=> PageDistance(base, q) < occupiedPages
    BY <2>1 DEF Chain
  <2>3. residentCount \in 0..residentCount
    BY DEF SlotArc
  <2>4. occupiedPages \in 0..PageCount
    BY <2>2, <2>3, ConfigValid
  <2>5. pageTail \in Pages /\ WrapPadding(pageTail, n) \in 0..PageCount /\ n \in Nat
    BY PlacementType DEF TypeOK, PageRuns
  <2>6. /\ WrapPadding(pageTail, n) + n <= PageCount
        /\ occupiedPages + (WrapPadding(pageTail, n) + n) <= PageCount
    BY <2>4, <2>5, ConfigValid
  <2>7. /\ RunPages(pageTail, n) =
             {q \in Pages : PageDistance(pageTail, q) < WrapPadding(pageTail, n) + n}
        /\ WrapPadding(pageTail, n) + n \in 0..PageCount
    BY <2>5, <2>6, RunArc
  <2>8. p \in Pages /\ occupiedPages <= PageDistance(base, p)
    BY <1>2, <2>2, <2>4, <2>6, <2>7, PageRing
  <2>9. PageDistance(base, p) \in Int
    BY <2>8, <2>4, PageRing
  <2> QED
    BY <2>2, <2>4, <2>8, <2>9
<1> QED
  BY <1>1, <1>2 DEF StorageFree

\* The arcs give the property.
LEMMA ArcProperty ==
  ASSUME TypeOK, ArcInv
  PROVE  PagesExact
<1>i. SlotArc /\ PageArc /\ Marked /\ LegacyCounted
  BY DEF ArcInv
<1>1. AllocatorNeverCorrupt
  <2> SUFFICES ASSUME NEW n \in PageRuns, NEW kind \in Kinds, ~ stopped,
                      PressureDimensions(n, kind) = {}
               PROVE  StorageFree(n)
    BY DEF AllocatorNeverCorrupt, InspectReserve
  <2>1. /\ "sources" \notin PressureDimensions(n, kind)
        /\ "pages" \notin PressureDimensions(n, kind)
    OBVIOUS
  <2>2. ~(residentCount >= HighWaterSources)
    BY <2>1 DEF PressureDimensions, CountPressure, Dimensions
  <2>3. ~(occupiedPages + WrapPadding(pageTail, n) + n > HighWaterPages)
    BY <2>1 DEF PressureDimensions, CountPressure, Dimensions
  <2>4. /\ residentCount < HighWaterSources
        /\ occupiedPages + WrapPadding(pageTail, n) + n <= HighWaterPages
    <3>1. /\ residentCount \in Int /\ occupiedPages \in Int /\ n \in Int
          /\ WrapPadding(pageTail, n) \in Int
      BY PlacementType DEF TypeOK, PageRuns
    <3> QED
      BY <2>2, <2>3, <3>1, ConfigValid
  <2> QED
    BY <1>i, <2>4, AdmittedFits
<1>2. \A s, t \in Resident : s # t => EntryPages(entries[s]) \cap EntryPages(entries[t]) = {}
  BY <1>i DEF Marked
<1>3. occupiedPages = Cardinality({p \in Pages : pages[p] # 0})
  <2>1. PICK base \in Pages, off \in [0..residentCount -> 0..HighWaterPages] :
          Chain(base, off)
    BY <1>i DEF PageArc
  <2>2. residentCount \in 0..residentCount
    BY <1>i DEF SlotArc
  <2>3. /\ {p \in Pages : pages[p] # 0} = {p \in Pages : PageDistance(base, p) < occupiedPages}
        /\ occupiedPages = off[residentCount]
    BY <2>1 DEF Chain
  <2>4. occupiedPages \in 0..PageCount
    BY <2>2, <2>3, ConfigValid
  <2> QED
    BY <2>3, <2>4, PageArcCount
<1>4. residentCount = Cardinality(Resident)
  BY <1>i, ResidentArc
<1>5. compatibilityResident = Cardinality({s \in Resident : entries[s].kind = "Legacy"})
  BY <1>i DEF LegacyCounted, LegacyResident
<1>6. /\ \A s \in Resident : \A p \in EntryPages(entries[s]) :
           pages[p] = entries[s].storage.generation
      /\ \A p \in Pages : pages[p] # 0 => \E s \in Resident : p \in EntryPages(entries[s])
  BY <1>i DEF Marked
<1> QED
  BY <1>1, <1>2, <1>3, <1>4, <1>5, <1>6 DEF PagesExact

\* A step that moves no source and no page: states change, and whatever else
\* the allocator does not look at.
LEMMA ArcQuiet ==
  ASSUME TypeOK, ArcInv,
         \A s \in Slots :
           /\ entries'[s].state = "Free" <=> entries[s].state = "Free"
           /\ entries'[s].kind = entries[s].kind
           /\ entries'[s].storage = entries[s].storage
           /\ entries'[s].padding = entries[s].padding,
         UNCHANGED <<pages, sourceHead, sourceTail, residentCount, pageTail,
                     occupiedPages, allocations, compatibilityResident>>
  PROVE  ArcInv'
<1>i. SlotArc /\ PageArc /\ Marked /\ LegacyCounted /\ Rewound
  BY DEF ArcInv
<1>1. SlotArc' /\ Rewound'
  BY <1>i DEF SlotArc, Rewound
<1>2. /\ Resident' = Resident /\ LegacyResident' = LegacyResident
      /\ \A s \in Slots : /\ EntryPages(entries[s])' = EntryPages(entries[s])
                          /\ Shaped(entries[s])' = Shaped(entries[s])
                          /\ Start(entries[s])' = Start(entries[s])
                          /\ Footprint(s)' = Footprint(s)
      /\ Resident \subseteq Slots
  BY DEF Resident, LegacyResident, EntryPages, Shaped, Start, Footprint
<1>3. Marked'
  BY <1>i, <1>2 DEF Marked
<1>4. PageArc'
  <2>1. PICK base \in Pages, off \in [0..residentCount -> 0..HighWaterPages] :
          Chain(base, off)
    BY <1>i DEF PageArc
  <2>2. Chain(base, off)'
    BY <1>2, <2>1 DEF Chain
  <2> QED
    BY <2>2 DEF PageArc
<1>5. LegacyCounted'
  BY <1>i, <1>2 DEF LegacyCounted
<1> QED
  BY <1>1, <1>3, <1>4, <1>5 DEF ArcInv

-----------------------------------------------------------------------------
(* Reservation: both arcs grow at their tails. *)

\* The runs of a batch continue the arc of pages one behind the other.
LEMMA RunsFollow ==
  ASSUME NEW ns \in Seq(PageRuns), NEW tails \in [0..Len(ns) -> Pages],
         NEW occupied \in [0..Len(ns) -> 0..HighWaterPages], NEW base \in Pages,
         PageTails(ns, tails), PagesOccupied(ns, tails, occupied),
         pageTail = PageAfter(base, occupiedPages)
  PROVE  /\ \A j \in 0..Len(ns) : tails[j] = PageAfter(base, occupied[j])
         /\ \A i, j \in 0..Len(ns) : i < j => occupied[i] < occupied[j]
         /\ \A j \in 1..Len(ns) : \A p \in Pages :
              p \in RunPages(tails[j - 1], ns[j]) <=>
                /\ occupied[j - 1] <= PageDistance(base, p)
                /\ PageDistance(base, p) < occupied[j]
<1> DEFINE k == Len(ns)
           f(j) == WrapPadding(tails[j - 1], ns[j]) + ns[j]
<1>0. k \in Nat
  OBVIOUS
<1>1. ASSUME NEW j \in 1..k
      PROVE  /\ j - 1 \in 0..k /\ j \in 0..k
             /\ occupied[j - 1] \in 0..PageCount /\ occupied[j] \in 0..PageCount
             /\ f(j) \in 1..PageCount /\ occupied[j] = occupied[j - 1] + f(j)
             /\ tails[j] = PageAfter(tails[j - 1], f(j))
             /\ RunPages(tails[j - 1], ns[j]) =
                  {p \in Pages : PageDistance(tails[j - 1], p) < f(j)}
  <2>1. j - 1 \in 0..k /\ j \in 0..k
    BY <1>0
  <2>2. /\ occupied[j - 1] \in 0..HighWaterPages /\ occupied[j] \in 0..HighWaterPages
        /\ tails[j - 1] \in Pages /\ ns[j] \in PageRuns
    BY <2>1
  <2>3. occupied[j] = occupied[j - 1] + WrapPadding(tails[j - 1], ns[j]) + ns[j]
    BY DEF PagesOccupied
  <2>4. tails[j] = TailAfter(tails[j - 1], ns[j])
    BY DEF PageTails
  <2>5. WrapPadding(tails[j - 1], ns[j]) \in 0..PageCount /\ ns[j] \in Nat
    BY <2>2, PlacementType DEF PageRuns
  <2>6. f(j) <= PageCount
    BY <2>2, <2>3, <2>5, ConfigValid
  <2>7. /\ f(j) \in 1..PageCount
        /\ TailAfter(tails[j - 1], ns[j]) = PageAfter(tails[j - 1], f(j))
        /\ RunPages(tails[j - 1], ns[j]) =
             {p \in Pages : PageDistance(tails[j - 1], p) < f(j)}
    BY <2>2, <2>6, RunArc
  <2>8. occupied[j] = occupied[j - 1] + f(j)
    BY <2>2, <2>3, <2>5
  <2> QED
    BY <2>1, <2>2, <2>4, <2>7, <2>8, ConfigValid
<1> HIDE DEF f
<1>2. ASSUME NEW j \in 1..k, tails[j - 1] = PageAfter(base, occupied[j - 1])
      PROVE  tails[j] = PageAfter(base, occupied[j])
  BY <1>1, <1>2, PageRing
<1>3. \A j \in 0..k : tails[j] = PageAfter(base, occupied[j])
  <2> DEFINE T == {j \in 0..k : tails[j] # PageAfter(base, occupied[j])}
  <2> SUFFICES ASSUME T # {} PROVE FALSE
    OBVIOUS
  <2>1. T \in SUBSET Nat
    OBVIOUS
  <2>2. 0 \notin T
    BY DEF PageTails, PagesOccupied
  <2> HIDE DEF T
  <2>3. PICK j \in T : \A y \in T : j <= y
    BY <2>1, LeastNumber
  <2>4. j \in 1..k /\ j - 1 \in 0..k
    BY <2>2, <1>0 DEF T
  <2>5. j - 1 \notin T
    BY <2>3, <2>4
  <2> QED
    BY <1>2, <2>4, <2>5 DEF T
<1>4. \A i, j \in 0..k : i < j => occupied[i] < occupied[j]
  <2>1. occupied \in [0..k -> Nat]
    BY ConfigValid
  <2>2. \A j \in 1..k : occupied[j - 1] < occupied[j]
    BY <1>1
  <2> QED
    BY <1>0, <2>1, <2>2, Grows
<1>5. ASSUME NEW j \in 1..k, NEW p \in Pages
      PROVE  p \in RunPages(tails[j - 1], ns[j]) <=>
               /\ occupied[j - 1] <= PageDistance(base, p)
               /\ PageDistance(base, p) < occupied[j]
  <2>1. /\ j - 1 \in 0..k /\ occupied[j - 1] \in 0..PageCount
        /\ occupied[j] \in 0..PageCount /\ f(j) \in 0..PageCount
        /\ occupied[j] = occupied[j - 1] + f(j)
        /\ RunPages(tails[j - 1], ns[j]) =
             {r \in Pages : PageDistance(tails[j - 1], r) < f(j)}
    BY <1>1
  <2>2. tails[j - 1] = PageAfter(base, occupied[j - 1])
    BY <1>3, <2>1
  <2>3. occupied[j - 1] + f(j) <= PageCount
    BY <2>1
  <2>4. PageDistance(PageAfter(base, occupied[j - 1]), p) < f(j) <=>
          /\ occupied[j - 1] <= PageDistance(base, p)
          /\ PageDistance(base, p) < occupied[j - 1] + f(j)
    BY <2>1, <2>3, PageRing
  <2> QED
    BY <2>1, <2>2, <2>4
<1> QED
  BY <1>3, <1>4, <1>5

\* The slots of a reservation are the places behind the arc.
LEMMA SlotsFollow ==
  ASSUME NEW h \in Slots, NEW n \in 0..SourceSlotCount, NEW k \in 1..SourceSlotCount,
         n + k <= SourceSlotCount, NEW s \in Slots
  PROVE  /\ SlotAfter(SlotAfter(h, n), k) = SlotAfter(h, n + k)
         /\ Distance(SlotAfter(h, n), s) \in Nat /\ Distance(h, s) \in Nat
         /\ Distance(SlotAfter(h, n), s) < k =>
              Distance(h, s) = n + Distance(SlotAfter(h, n), s)
         /\ Distance(h, s) < n + k =>
              Distance(h, s) < n \/ Distance(SlotAfter(h, n), s) < k
BY ConfigValid DEF SlotAfter, Distance, Slots

\* A new entry holds the pages of its run and starts where the tail was.
LEMMA NewEntryArc ==
  ASSUME NEW kind, NEW s, NEW k, NEW j, NEW n \in PageRuns, NEW t \in Pages, NEW q,
         WrapPadding(t, n) + n <= PageCount
  PROVE  LET e == NewEntry(kind, s, k, j, n, t, q)
         IN /\ Shaped(e) /\ Start(e) = t
            /\ EntryPages(e) = RunPages(t, n)
            /\ e.padding + e.storage.pageCount = WrapPadding(t, n) + n
            /\ e.storage.generation = allocations + j
            /\ e.kind = kind /\ e.state = "Writing"
<1> DEFINE e == NewEntry(kind, s, k, j, n, t, q)
<1>1. /\ e.storage.firstPage = FirstPage(t, n) /\ e.storage.pageCount = n
      /\ e.padding = WrapPadding(t, n) /\ e.storage.generation = allocations + j
      /\ e.kind = kind /\ e.state = "Writing"
  BY DEF NewEntry
<1> HIDE DEF e
<1>2. t \in Int /\ n \in Int /\ n >= 1 /\ t >= 0 /\ t < PageCount /\ n <= PageCount
      /\ PageCount \in Int
  BY ConfigValid DEF Pages, PageRuns
<1>3. CASE t + n > PageCount
  <2>1. WrapPadding(t, n) = PageCount - t /\ FirstPage(t, n) = 0
    BY <1>2, <1>3 DEF WrapPadding, FirstPage
  <2>2. Shaped(e) /\ EntryPages(e) = RunPages(t, n)
    BY <1>1, <1>2, <1>3, <2>1 DEF Shaped, EntryPages, RunPages
  <2>3. Start(e) = t % PageCount
    <3>1. 0 + PageCount - (PageCount - t) = t
      BY <1>2
    <3> QED
      BY <1>1, <2>1, <3>1 DEF Start
  <2>4. t % PageCount = t
    BY <1>2
  <2> QED
    BY <1>1, <2>2, <2>3, <2>4 DEF e
<1>4. CASE t + n <= PageCount
  <2>1. WrapPadding(t, n) = 0 /\ FirstPage(t, n) = t
    BY <1>2, <1>4 DEF WrapPadding, FirstPage
  <2>2. Shaped(e) /\ EntryPages(e) = RunPages(t, n)
    BY <1>1, <1>2, <1>4, <2>1 DEF Shaped, EntryPages, RunPages
  <2>3. Start(e) = (t + PageCount) % PageCount
    <3>1. t + PageCount - 0 = t + PageCount
      BY <1>2
    <3> QED
      BY <1>1, <2>1, <3>1 DEF Start
  <2>4. (t + PageCount) % PageCount = t
    BY <1>2
  <2> QED
    BY <1>1, <2>2, <2>3, <2>4 DEF e
<1> QED
  BY <1>2, <1>3, <1>4

\* A reservation that the capacity checks admit extends both arcs.
LEMMA ArcReserve ==
  ASSUME TypeOK, TypeOK', ArcInv, NEW kind \in Kinds, NEW ns \in Seq(PageRuns),
         Len(ns) \in 1..SourceSlotCount, NEW q \in Nat, ReserveStorage(kind, ns, q),
         residentCount + Len(ns) <= SourceSlotCount
  PROVE  ArcInv'
<1> DEFINE k == Len(ns)
           N == {s \in Slots : Distance(sourceTail, s) < k}
           New(s) == s \in N
           J(s) == Distance(sourceTail, s) + 1
           d(s) == Distance(sourceHead, s)
<1>i. SlotArc /\ PageArc /\ Marked /\ LegacyCounted /\ Rewound
  BY DEF ArcInv
<1>1. PICK tails \in [0..k -> Pages], occupied \in [0..k -> 0..HighWaterPages] :
        /\ PageTails(ns, tails) /\ PagesOccupied(ns, tails, occupied)
        /\ PlaceSources(kind, ns, q, tails, occupied)
  BY DEF ReserveStorage
<1>2. PICK base \in Pages, off \in [0..residentCount -> 0..HighWaterPages] :
        Chain(base, off)
  BY <1>i DEF PageArc
<1>n. /\ k \in Nat /\ k >= 1 /\ k \in 1..SourceSlotCount /\ k \in 0..k /\ 0 \in 0..k
      /\ residentCount \in Nat /\ residentCount \in 0..SourceSlotCount
      /\ residentCount \in 0..residentCount
      /\ residentCount + k <= SourceSlotCount /\ allocations \in Nat
      /\ sourceHead \in Slots /\ sourceTail \in Slots /\ compatibilityResident \in Int
      /\ occupiedPages \in Int
  BY <1>i, ConfigValid DEF SlotArc, TypeOK
<1>3. /\ off[0] = 0 /\ off[residentCount] = occupiedPages
      /\ pageTail = PageAfter(base, occupiedPages)
      /\ \A i, j \in 0..residentCount : i < j => off[i] < off[j]
      /\ \A s \in Slots : d(s) < residentCount =>
           /\ Start(entries[s]) = PageAfter(base, off[d(s)])
           /\ off[d(s) + 1] = off[d(s)] + Footprint(s)
      /\ \A p \in Pages : pages[p] # 0 <=> PageDistance(base, p) < occupiedPages
  BY <1>2 DEF Chain
<1>4. /\ \A j \in 0..k : tails[j] = PageAfter(base, occupied[j])
      /\ \A i, j \in 0..k : i < j => occupied[i] < occupied[j]
      /\ \A j \in 1..k : \A p \in Pages :
           p \in RunPages(tails[j - 1], ns[j]) <=>
             occupied[j - 1] <= PageDistance(base, p) /\ PageDistance(base, p) < occupied[j]
  BY <1>1, <1>3, RunsFollow
<1>5. /\ occupied[0] = occupiedPages
      /\ \A j \in 1..k :
           /\ j - 1 \in 0..k /\ j \in 0..k
           /\ occupied[j - 1] \in 0..PageCount /\ occupied[j] \in 0..PageCount
           /\ tails[j - 1] \in Pages /\ ns[j] \in PageRuns
           /\ occupied[j] = occupied[j - 1] + (WrapPadding(tails[j - 1], ns[j]) + ns[j])
           /\ WrapPadding(tails[j - 1], ns[j]) + ns[j] <= PageCount
  <2>1. occupied[0] = occupiedPages
    BY <1>1 DEF PagesOccupied
  <2> SUFFICES ASSUME NEW j \in 1..k
               PROVE  /\ j - 1 \in 0..k /\ j \in 0..k
                      /\ occupied[j - 1] \in 0..PageCount /\ occupied[j] \in 0..PageCount
                      /\ tails[j - 1] \in Pages /\ ns[j] \in PageRuns
                      /\ occupied[j] = occupied[j - 1]
                           + (WrapPadding(tails[j - 1], ns[j]) + ns[j])
                      /\ WrapPadding(tails[j - 1], ns[j]) + ns[j] <= PageCount
    BY <2>1
  <2>2. j - 1 \in 0..k /\ j \in 0..k
    BY <1>n
  <2>3. /\ tails[j - 1] \in Pages /\ ns[j] \in PageRuns
        /\ occupied[j - 1] \in 0..HighWaterPages /\ occupied[j] \in 0..HighWaterPages
    BY <2>2
  <2>4. occupied[j] = occupied[j - 1] + WrapPadding(tails[j - 1], ns[j]) + ns[j]
    BY <1>1 DEF PagesOccupied
  <2>5. WrapPadding(tails[j - 1], ns[j]) \in 0..PageCount /\ ns[j] \in Nat
    BY <2>3, PlacementType DEF PageRuns
  <2> QED
    BY <2>2, <2>3, <2>4, <2>5, ConfigValid
<1>6. /\ allocations' = allocations + k /\ pageTail' = tails[k]
      /\ occupiedPages' = occupied[k] /\ sourceTail' = SlotAfter(sourceTail, k)
      /\ residentCount' = residentCount + k /\ sourceHead' = sourceHead
      /\ compatibilityResident' = compatibilityResident + (IF kind = "Legacy" THEN k ELSE 0)
  BY <1>1 DEF PlaceSources
\* The slots.
<1>7. ASSUME NEW s \in Slots
      PROVE  /\ d(s) \in Nat /\ Distance(sourceTail, s) \in Nat
             /\ New(s) => /\ J(s) \in 1..k /\ d(s) = residentCount + (J(s) - 1)
                          /\ entries[s].state = "Free"
             /\ d(s) < residentCount + k <=> d(s) < residentCount \/ New(s)
             /\ SlotAfter(sourceTail, k) = SlotAfter(sourceHead, residentCount + k)
  <2>1. sourceTail = SlotAfter(sourceHead, residentCount)
    BY <1>i DEF SlotArc
  <2>a. LET t == SlotAfter(sourceHead, residentCount)
        IN /\ SlotAfter(t, k) = SlotAfter(sourceHead, residentCount + k)
           /\ Distance(t, s) \in Nat /\ Distance(sourceHead, s) \in Nat
           /\ Distance(t, s) < k => Distance(sourceHead, s) = residentCount + Distance(t, s)
           /\ Distance(sourceHead, s) < residentCount + k =>
                Distance(sourceHead, s) < residentCount \/ Distance(t, s) < k
    <3> HIDE DEF k
    <3> QED
      BY <1>n, SlotsFollow
  <2>2. /\ SlotAfter(sourceTail, k) = SlotAfter(sourceHead, residentCount + k)
        /\ Distance(sourceTail, s) \in Nat /\ d(s) \in Nat
        /\ New(s) => d(s) = residentCount + Distance(sourceTail, s)
        /\ d(s) < residentCount + k => d(s) < residentCount \/ New(s)
    BY <2>1, <2>a
  <2> HIDE DEF k, d
  <2>3. New(s) => J(s) \in 1..k /\ d(s) = residentCount + (J(s) - 1)
    BY <1>n, <2>2
  <2>4. New(s) => entries[s].state = "Free"
    <3>1. New(s) => ~(d(s) < residentCount)
      BY <1>n, <2>2
    <3> QED
      BY <1>i, <3>1 DEF SlotArc, d
  <2>5. d(s) < residentCount + k <=> d(s) < residentCount \/ New(s)
    BY <1>n, <2>2
  <2> QED
    BY <2>2, <2>3, <2>4, <2>5
<1>8. ASSUME NEW s \in Slots
      PROVE  /\ ~ New(s) => entries'[s] = entries[s]
             /\ New(s) => entries'[s] =
                  NewEntry(kind, s, k, J(s), ns[J(s)], tails[J(s) - 1], q)
  <2>1. New(s) <=> J(s) <= k
    BY <1>n, <1>7
  <2> QED
    BY <1>1, <2>1 DEF PlaceSources
<1>9. ASSUME NEW s \in Slots, New(s)
      PROVE  /\ Shaped(entries'[s]) /\ Start(entries'[s]) = tails[J(s) - 1]
             /\ EntryPages(entries'[s]) = RunPages(tails[J(s) - 1], ns[J(s)])
             /\ Footprint(s)' = WrapPadding(tails[J(s) - 1], ns[J(s)]) + ns[J(s)]
             /\ entries'[s].storage.generation = allocations + J(s)
             /\ entries'[s].kind = kind /\ entries'[s].state = "Writing"
  <2>1. /\ J(s) \in 1..k
        /\ entries'[s] = NewEntry(kind, s, k, J(s), ns[J(s)], tails[J(s) - 1], q)
    BY <1>7, <1>8, <1>9
  <2>2. /\ tails[J(s) - 1] \in Pages /\ ns[J(s)] \in PageRuns
        /\ WrapPadding(tails[J(s) - 1], ns[J(s)]) + ns[J(s)] <= PageCount
    BY <1>5, <2>1
  <2> HIDE DEF k, J
  <2> QED
    BY <2>1, <2>2, NewEntryArc DEF Footprint
<1> HIDE DEF k, N, J, d
<1>10. Resident' = {s \in Slots : d(s) < residentCount \/ New(s)}
       /\ Resident = {s \in Slots : d(s) < residentCount}
       /\ \A s \in Slots : d(s) < residentCount => ~ New(s)
  <2>1. \A s \in Slots : entries[s].state # "Free" <=> d(s) < residentCount
    BY <1>i DEF SlotArc, d
  <2>2. \A s \in Slots : New(s) => entries'[s].state = "Writing"
    BY <1>9
  <2>3. \A s \in Slots : ~ New(s) => entries'[s] = entries[s]
    BY <1>8
  <2>4. \A s \in Slots : New(s) => entries[s].state = "Free"
    BY <1>7
  <2> QED
    BY <2>1, <2>2, <2>3, <2>4 DEF Resident
<1>r. \A s : s \in Resident' =>
        s \in Slots /\ (s \in N \/ (s \in Resident /\ s \notin N))
  BY <1>8 DEF Resident
<1>11. SlotArc'
  <2>1. residentCount' \in 0..SourceSlotCount
    BY <1>n, <1>6
  <2>2. sourceTail' = SlotAfter(sourceHead', residentCount')
    BY <1>n, <1>6, <1>7
  <2>3. \A s \in Slots : entries'[s].state # "Free" <=> d(s) < residentCount'
    BY <1>6, <1>7, <1>10 DEF Resident
  <2> QED
    BY <1>6, <2>1, <2>2, <2>3 DEF SlotArc, d
\* The pages.
<1>12. ASSUME NEW p \in Pages
       PROVE  /\ PageDistance(base, p) \in Nat
              /\ \A j \in 1..k : p \in RunPages(tails[j - 1], ns[j]) =>
                   pages'[p] = allocations + j /\ pages[p] = 0
              /\ (\A j \in 1..k : p \notin RunPages(tails[j - 1], ns[j])) =>
                   pages'[p] = pages[p]
  <2> DEFINE runs == {j \in 1..k : p \in RunPages(tails[j - 1], ns[j])}
  <2>1. pages'[p] = IF runs # {} THEN allocations + (CHOOSE j \in runs : TRUE) ELSE pages[p]
    BY <1>1 DEF PlaceSources, k
  <2>2. PageDistance(base, p) \in 0..(PageCount - 1)
    <3>1. 0 \in 0..PageCount
      BY ConfigValid
    <3> QED
      BY <3>1, PageRing
  <2>3. PageDistance(base, p) \in Nat
    BY <2>2, ConfigValid
  <2>4. ASSUME NEW i \in 1..k, NEW j \in 1..k, i < j, i \in runs, j \in runs
        PROVE  FALSE
    <3>1. /\ PageDistance(base, p) < occupied[i] /\ occupied[j - 1] <= PageDistance(base, p)
      BY <1>4, <2>4
    <3>2. i \in 0..k /\ j - 1 \in 0..k /\ (i = j - 1 \/ i < j - 1)
      BY <1>n, <2>4
    <3>3. occupied[i] \in Nat /\ occupied[j - 1] \in Nat
      BY <3>2, ConfigValid
    <3>4. CASE i = j - 1
      BY <2>3, <3>1, <3>3, <3>4
    <3>5. CASE i < j - 1
      <4>1. occupied[i] < occupied[j - 1]
        BY <1>4, <3>2, <3>5
      <4> QED
        BY <2>3, <3>1, <3>3, <4>1
    <3> QED
      BY <3>2, <3>4, <3>5
  <2>5. ASSUME NEW j \in 1..k, j \in runs
        PROVE  pages'[p] = allocations + j /\ pages[p] = 0
    <3>1. \A i \in runs : i = j
      <4> TAKE i \in runs
      <4>1. i \in 1..k /\ i \in Int /\ j \in Int
        BY <1>n
      <4>2. i = j \/ i < j \/ j < i
        BY <4>1
      <4> QED
        BY <2>4, <2>5, <4>1, <4>2
    <3>2. runs = {j}
      BY <2>5, <3>1
    <3>3. pages'[p] = allocations + j
      BY <2>1, <3>2
    <3>4. occupied[j - 1] <= PageDistance(base, p)
      BY <1>4, <2>5
    <3>5. occupiedPages <= occupied[j - 1]
      <4>1. j - 1 \in 0..k /\ 0 \in 0..k /\ (j - 1 = 0 \/ 0 < j - 1)
        BY <1>n
      <4>2. occupied[0] \in Nat /\ occupied[j - 1] \in Nat
        BY <4>1, ConfigValid
      <4>3. j - 1 = 0 \/ occupied[0] < occupied[j - 1]
        BY <1>4, <4>1
      <4> QED
        BY <1>5, <4>2, <4>3
    <3>6. ~(PageDistance(base, p) < occupiedPages)
      <4>1. occupied[j - 1] \in Nat /\ occupiedPages \in Int
        BY <1>5 DEF TypeOK
      <4> QED
        BY <2>3, <3>4, <3>5, <4>1
    <3> QED
      BY <1>3, <3>3, <3>6
  <2>6. (\A j \in 1..k : p \notin RunPages(tails[j - 1], ns[j])) => pages'[p] = pages[p]
    BY <2>1
  <2> QED
    BY <2>3, <2>5, <2>6
<1>13. ASSUME NEW p \in Pages
       PROVE  pages'[p] # 0 <=> PageDistance(base, p) < occupied[k]
  <2>0. /\ PageDistance(base, p) \in Nat /\ occupied[k] \in Nat /\ occupiedPages \in Nat
        /\ occupiedPages < occupied[k]
    BY <1>4, <1>5, <1>12, <1>n
  <2>1. ASSUME NEW j \in 1..k, p \in RunPages(tails[j - 1], ns[j])
        PROVE  pages'[p] # 0 /\ PageDistance(base, p) < occupied[k]
    <3>1. pages'[p] = allocations + j /\ PageDistance(base, p) < occupied[j]
      BY <1>4, <1>12, <2>1
    <3>2. j \in 0..k /\ k \in 0..k /\ (j = k \/ j < k) /\ occupied[j] \in Nat
      BY <1>5, <1>n
    <3>3. j = k \/ occupied[j] < occupied[k]
      BY <1>4, <3>2
    <3> QED
      BY <1>n, <2>0, <3>1, <3>2, <3>3
  <2>2. ASSUME \A j \in 1..k : p \notin RunPages(tails[j - 1], ns[j])
        PROVE  pages'[p] # 0 <=> PageDistance(base, p) < occupied[k]
    <3>1. pages'[p] # 0 <=> PageDistance(base, p) < occupiedPages
      BY <1>3, <1>12, <2>2
    <3>2. ASSUME occupiedPages <= PageDistance(base, p), PageDistance(base, p) < occupied[k]
          PROVE  FALSE
      <4>1. occupied \in [0..k -> Nat]
        BY ConfigValid
      <4>2. PICK j \in 1..k : /\ occupied[j - 1] <= PageDistance(base, p)
                              /\ PageDistance(base, p) < occupied[j]
        BY <1>5, <1>n, <2>0, <3>2, <4>1, InOneStep
      <4> QED
        BY <1>4, <2>2, <4>2
    <3> QED
      BY <2>0, <3>1, <3>2
  <2> QED
    BY <2>1, <2>2
<1>14. PageArc'
  <2> DEFINE n == residentCount
             longer == [i \in 0..(n + k) |-> IF i <= n THEN off[i] ELSE occupied[i - n]]
  <2>1. \A i \in 0..n : i \in 0..(n + k) /\ i <= n /\ off[i] \in 0..HighWaterPages
    BY <1>n
  <2>2. \A i \in 0..(n + k) : ~(i <= n) =>
           i - n \in 1..k /\ i - n \in 0..k /\ occupied[i - n] \in 0..HighWaterPages
    <3> SUFFICES ASSUME NEW i \in 0..(n + k), ~(i <= n)
                 PROVE  i - n \in 1..k /\ i - n \in 0..k
                        /\ occupied[i - n] \in 0..HighWaterPages
      OBVIOUS
    <3>1. i - n \in 1..k /\ i - n \in 0..k
      BY <1>n
    <3> QED
      BY <3>1
  <2>a. longer \in [0..(n + k) -> 0..HighWaterPages]
    BY <2>1, <2>2
  <2>b. \A i \in 0..(n + k) : longer[i] = IF i <= n THEN off[i] ELSE occupied[i - n]
    OBVIOUS
  <2> HIDE DEF longer
  <2>3. PICK off2 :
          /\ off2 \in [0..(n + k) -> 0..HighWaterPages]
          /\ \A i \in 0..(n + k) : off2[i] = IF i <= n THEN off[i] ELSE occupied[i - n]
    BY <2>a, <2>b
  <2>4. /\ \A i \in 0..n : off2[i] = off[i]
        /\ \A j \in 1..k : off2[n + j] = occupied[j] /\ n + j \in 0..(n + k)
    <3>1. \A i \in 0..n : off2[i] = off[i]
      BY <2>1, <2>3
    <3> SUFFICES ASSUME NEW j \in 1..k
                 PROVE  off2[n + j] = occupied[j] /\ n + j \in 0..(n + k)
      BY <3>1
    <3>2. n + j \in 0..(n + k) /\ ~(n + j <= n) /\ (n + j) - n = j
      BY <1>n
    <3> QED
      BY <2>3, <3>2
  <2>5. off2[n] = occupied[0]
    BY <1>3, <1>5, <1>n, <2>4
  <2>6. \A j \in 0..k : off2[n + j] = occupied[j]
    <3> TAKE j \in 0..k
    <3>1. CASE j = 0
      BY <1>n, <2>5, <3>1
    <3>2. CASE j \in 1..k
      BY <2>4, <3>2
    <3> QED
      BY <1>n, <3>1, <3>2
  <2>7. ASSUME NEW i \in 0..(n + k), NEW j \in 0..(n + k), i < j
        PROVE  off2[i] < off2[j]
    <3>1. CASE j <= n
      <4>1. i \in 0..n /\ j \in 0..n
        BY <1>n, <2>7, <3>1
      <4> QED
        BY <1>3, <2>4, <2>7, <4>1
    <3>2. CASE n <= i
      <4>1. i - n \in 0..k /\ j - n \in 0..k /\ i - n < j - n
            /\ n + (i - n) = i /\ n + (j - n) = j
        BY <1>n, <2>7, <3>2
      <4>2. off2[i] = occupied[i - n] /\ off2[j] = occupied[j - n]
        BY <2>6, <4>1
      <4> QED
        BY <1>4, <4>1, <4>2
    <3>3. CASE i < n /\ n < j
      <4>1. i \in 0..n /\ n \in 0..n /\ j - n \in 0..k /\ 0 < j - n /\ n + (j - n) = j
            /\ 0 \in 0..k
        BY <1>n, <2>7, <3>3
      <4>2. off2[i] = off[i] /\ off2[j] = occupied[j - n]
        BY <2>4, <2>6, <4>1
      <4>3. off[i] < occupiedPages
        BY <1>3, <3>3, <4>1
      <4>4. occupiedPages < occupied[j - n]
        BY <1>4, <1>5, <4>1
      <4>5. off[i] \in Nat /\ occupied[j - n] \in Nat /\ occupiedPages \in Int
        <5>1. off[i] \in 0..HighWaterPages /\ occupied[j - n] \in 0..HighWaterPages
          BY <4>1
        <5> QED
          BY <1>n, <5>1, ConfigValid
      <4> QED
        BY <4>2, <4>3, <4>4, <4>5
    <3> QED
      BY <1>n, <3>1, <3>2, <3>3
  <2>8. ASSUME NEW s \in Slots, d(s) < n + k
        PROVE  /\ Start(entries'[s]) = PageAfter(base, off2[d(s)])
               /\ off2[d(s) + 1] = off2[d(s)] + Footprint(s)'
    <3>0. d(s) \in Nat /\ (d(s) < n \/ New(s))
      BY <1>7, <2>8
    <3>1. CASE d(s) < n
      <4>1. entries'[s] = entries[s] /\ Footprint(s)' = Footprint(s)
        BY <1>8, <1>10, <3>1 DEF Footprint
      <4>2. d(s) \in 0..n /\ d(s) + 1 \in 0..n
        BY <1>n, <3>0, <3>1
      <4> QED
        BY <1>3, <2>4, <3>1, <4>1, <4>2
    <3>2. CASE New(s)
      <4>1. J(s) \in 1..k /\ d(s) = n + (J(s) - 1)
        BY <1>7, <3>2
      <4>2. J(s) - 1 \in 0..k /\ J(s) \in 0..k /\ d(s) + 1 = n + J(s)
        <5>1. n \in Nat /\ k \in Nat /\ J(s) \in Nat /\ J(s) >= 1 /\ J(s) <= k
          BY <1>n, <4>1
        <5> QED
          BY <4>1, <5>1
      <4>3. off2[d(s)] = occupied[J(s) - 1] /\ off2[d(s) + 1] = occupied[J(s)]
        BY <2>6, <4>1, <4>2
      <4>4. /\ Start(entries'[s]) = tails[J(s) - 1]
            /\ Footprint(s)' = WrapPadding(tails[J(s) - 1], ns[J(s)]) + ns[J(s)]
        BY <1>9, <3>2
      <4> QED
        BY <1>4, <1>5, <4>1, <4>2, <4>3, <4>4
    <3> QED
      BY <3>0, <3>1, <3>2
  <2>9. /\ off2[0] = 0 /\ off2[n + k] = occupied[k] /\ tails[k] = PageAfter(base, occupied[k])
    BY <1>3, <1>4, <1>n, <2>4, <2>6
  <2>10. Chain(base, off2)'
    <3>1. /\ off2[0] = 0 /\ off2[residentCount'] = occupiedPages'
          /\ pageTail' = PageAfter(base, occupiedPages')
      BY <1>6, <2>9
    <3>2. \A i, j \in 0..residentCount' : i < j => off2[i] < off2[j]
      BY <1>6, <2>7
    <3>3. \A s \in Slots : Distance(sourceHead', s) < residentCount' =>
            /\ Start(entries'[s]) = PageAfter(base, off2[Distance(sourceHead', s)])
            /\ off2[Distance(sourceHead', s) + 1] =
                 off2[Distance(sourceHead', s)] + Footprint(s)'
      BY <1>6, <2>8 DEF d
    <3>4. \A p \in Pages : pages'[p] # 0 <=> PageDistance(base, p) < occupiedPages'
      BY <1>6, <1>13
    <3> QED
      BY <3>1, <3>2, <3>3, <3>4 DEF Chain
  <2>11. off2 \in [0..residentCount' -> 0..HighWaterPages]
    BY <1>6, <2>3
  <2> QED
    BY <2>10, <2>11 DEF PageArc
<1>15. Marked'
  <2>0. /\ \A s \in Resident :
             /\ Shaped(entries[s]) /\ entries[s].storage.generation \in 1..allocations
             /\ \A p \in EntryPages(entries[s]) : pages[p] = entries[s].storage.generation
        /\ \A s, t \in Resident :
             s # t => entries[s].storage.generation # entries[t].storage.generation
        /\ \A p \in Pages : pages[p] # 0 =>
             \E s \in Resident : p \in EntryPages(entries[s])
    BY <1>i DEF Marked
  <2>1. \A s \in Resident' : s \in Slots /\ (New(s) \/ (s \in Resident /\ ~ New(s)))
    BY <1>r
  <2>2. ASSUME NEW s \in Resident
        PROVE  s \in Slots /\ ~ New(s) /\ s \in Resident' /\ entries'[s] = entries[s]
               /\ EntryPages(entries[s]) \subseteq Pages
    <3>1. s \in Slots /\ ~ New(s) /\ s \in Resident'
      BY <1>10
    <3> QED
      BY <1>i, <1>2, <1>8, <3>1, EntrySpan
  <2>3. ASSUME NEW s \in Resident'
        PROVE  /\ Shaped(entries'[s]) /\ entries'[s].storage.generation \in 1..allocations'
               /\ \A p \in EntryPages(entries'[s]) :
                    pages'[p] = entries'[s].storage.generation
    <3>1. CASE New(s)
      <4>1. s \in Slots /\ J(s) \in 1..k
        BY <1>7, <2>1, <3>1
      <4>2. /\ Shaped(entries'[s]) /\ entries'[s].storage.generation = allocations + J(s)
            /\ EntryPages(entries'[s]) = RunPages(tails[J(s) - 1], ns[J(s)])
        BY <1>9, <3>1, <4>1
      <4>3. allocations + J(s) \in 1..(allocations + k)
        BY <1>n, <4>1
      <4>4. RunPages(tails[J(s) - 1], ns[J(s)]) \subseteq Pages
        BY <1>5, <4>1, RunArc
      <4> QED
        BY <1>6, <1>12, <4>1, <4>2, <4>3, <4>4
    <3>2. CASE s \in Resident /\ ~ New(s)
      <4>1. /\ entries'[s] = entries[s] /\ Shaped(entries[s])
            /\ entries[s].storage.generation \in 1..allocations
            /\ EntryPages(entries[s]) \subseteq Pages
            /\ \A p \in EntryPages(entries[s]) : pages[p] = entries[s].storage.generation
        BY <2>0, <2>2, <3>2
      <4>2. entries[s].storage.generation \in 1..(allocations + k)
        BY <1>n, <4>1
      <4>3. ASSUME NEW p \in EntryPages(entries[s])
            PROVE  pages'[p] = pages[p]
        <5>1. p \in Pages /\ pages[p] # 0
          BY <1>n, <4>1
        <5> QED
          BY <1>12, <5>1
      <4> QED
        BY <1>6, <4>1, <4>2, <4>3
    <3> QED
      BY <2>1, <3>1, <3>2
  <2>4. ASSUME NEW s \in Resident', NEW t \in Resident', s # t
        PROVE  entries'[s].storage.generation # entries'[t].storage.generation
    <3>1. ASSUME NEW r \in Resident'
          PROVE  /\ New(r) => r \in Slots /\ J(r) \in 1..k
                      /\ entries'[r].storage.generation = allocations + J(r)
                 /\ ~ New(r) => r \in Resident
                      /\ entries'[r].storage.generation = entries[r].storage.generation
                      /\ entries'[r].storage.generation \in 1..allocations
      BY <1>7, <1>9, <2>0, <2>1, <2>2
    <3>2. CASE New(s) /\ New(t)
      <4>1. J(s) # J(t)
        <5>1. s \in Slots /\ t \in Slots /\ sourceTail \in Slots
          BY <1>n, <2>1
        <5>2. Distance(sourceTail, s) # Distance(sourceTail, t)
          BY <2>4, <5>1, DistanceInjective
        <5>3. Distance(sourceTail, s) \in Nat /\ Distance(sourceTail, t) \in Nat
          BY <1>7, <5>1
        <5> QED
          BY <5>2, <5>3 DEF J
      <4> QED
        BY <1>n, <3>1, <3>2, <4>1
    <3>3. CASE New(s) /\ ~ New(t)
      BY <1>n, <3>1, <3>3
    <3>4. CASE ~ New(s) /\ New(t)
      BY <1>n, <3>1, <3>4
    <3>5. CASE ~ New(s) /\ ~ New(t)
      BY <2>0, <2>4, <3>1, <3>5
    <3> QED
      BY <3>2, <3>3, <3>4, <3>5
  <2>5. ASSUME NEW p \in Pages, pages'[p] # 0
        PROVE  \E s \in Resident' : p \in EntryPages(entries'[s])
    <3>1. CASE \E j \in 1..k : p \in RunPages(tails[j - 1], ns[j])
      <4>1. PICK j \in 1..k : p \in RunPages(tails[j - 1], ns[j])
        BY <3>1
      <4> DEFINE s == SlotAfter(sourceTail, j - 1)
      <4>2. s \in Slots /\ Distance(sourceTail, s) = j - 1
        BY <1>n, ArcCount, k \in 0..SourceSlotCount
      <4> HIDE DEF s
      <4>3. New(s) /\ J(s) = j
        BY <1>n, <4>2 DEF N, J
      <4> QED
        BY <1>9, <1>10, <4>1, <4>2, <4>3
    <3>2. CASE \A j \in 1..k : p \notin RunPages(tails[j - 1], ns[j])
      <4>1. pages[p] # 0
        BY <1>12, <2>5, <3>2
      <4>2. PICK s \in Resident : p \in EntryPages(entries[s])
        BY <2>0, <4>1
      <4> QED
        BY <2>2, <4>2
    <3> QED
      BY <3>1, <3>2
  <2> QED
    BY <2>3, <2>4, <2>5 DEF Marked
<1>16. LegacyCounted'
  <2>1. N \in SUBSET Slots /\ Cardinality(N) = k
    BY <1>n, ArcCount, k \in 0..SourceSlotCount DEF N
  <2>3. LegacyResident \in SUBSET Slots
    BY DEF LegacyResident, Resident
  <2>4. LegacyResident' = IF kind = "Legacy" THEN LegacyResident \cup N ELSE LegacyResident
    <3>1. \A s \in Slots : s \in LegacyResident' <=>
            s \in LegacyResident \/ (New(s) /\ kind = "Legacy")
      BY <1>8, <1>9, <1>10 DEF LegacyResident
    <3>2. LegacyResident' \subseteq Slots
      BY <1>10 DEF LegacyResident
    <3> QED
      BY <2>1, <2>3, <3>1, <3>2
  <2>5. LegacyResident \cap N = {}
    BY <1>10, <2>3 DEF LegacyResident
  <2>6. /\ IsFiniteSet(N) /\ IsFiniteSet(LegacyResident)
        /\ Cardinality(LegacyResident) \in Nat
    BY <2>1, <2>3, SlotSets
  <2>7. Cardinality(LegacyResident \cup N) = Cardinality(LegacyResident) + k
    <3>1. Cardinality(LegacyResident \cap N) = 0
      BY <2>5, FS_EmptySet
    <3>2. Cardinality(LegacyResident \cup N) =
            Cardinality(LegacyResident) + Cardinality(N) - Cardinality(LegacyResident \cap N)
      BY <2>6, FS_Union
    <3> QED
      BY <1>n, <2>1, <2>6, <3>1, <3>2
  <2>8. compatibilityResident = Cardinality(LegacyResident)
    BY <1>i DEF LegacyCounted
  <2>9. CASE kind = "Legacy"
    <3>1. compatibilityResident' = compatibilityResident + k
      BY <1>6, <2>9
    <3>2. Cardinality(LegacyResident') = Cardinality(LegacyResident \cup N)
      BY <2>4, <2>9
    <3> QED
      BY <2>7, <2>8, <3>1, <3>2 DEF LegacyCounted
  <2>10. CASE kind # "Legacy"
    <3>1. compatibilityResident' = compatibilityResident
      BY <1>6, <1>n, <2>10
    <3>2. LegacyResident' = LegacyResident
      BY <2>4, <2>10
    <3> QED
      BY <2>8, <3>1, <3>2 DEF LegacyCounted
  <2> QED
    BY <2>9, <2>10
<1>17. Rewound'
  BY <1>6, <1>n DEF Rewound
<1> QED
  BY <1>11, <1>14, <1>15, <1>16, <1>17 DEF ArcInv

-----------------------------------------------------------------------------
(* Release: an arc gets shorter at its head or at its tail. *)

\* Sources that leave take their marks with them and no others.
LEMMA MarkedRelease ==
  ASSUME TypeOK, ArcInv, NEW S \in SUBSET Resident,
         NEW h, NEW t, NEW pt, NEW oc, Release(S, h, t, pt, oc)
  PROVE  Marked' /\ Resident' = Resident \ S
<1>i. SlotArc /\ PageArc /\ Marked
  BY DEF ArcInv
<1>1. /\ \A s \in Slots : /\ s \in S => entries'[s] = FreeEntry(entries[s].generation + 1)
                          /\ s \notin S => entries'[s] = entries[s]
      /\ \A p \in Pages : pages'[p] =
           IF \E s \in S : p \in EntryPages(entries[s]) THEN 0 ELSE pages[p]
      /\ allocations' = allocations
  BY DEF Release
<1>2. Resident' = Resident \ S
  <2>1. \A s \in Slots : s \in S => entries'[s].state = "Free"
    BY ReleaseEntries
  <2> QED
    BY <1>1, <2>1 DEF Resident
<1>3. ASSUME NEW s \in Resident
      PROVE  EntryPages(entries[s]) \subseteq Pages
  <2>1. PICK base \in Pages, off \in [0..residentCount -> 0..HighWaterPages] :
          Chain(base, off)
    BY <1>i DEF PageArc
  <2> QED
    BY <1>i, <2>1, EntrySpan
<1>4. /\ \A s \in Resident :
           /\ Shaped(entries[s]) /\ entries[s].storage.generation \in 1..allocations
           /\ \A p \in EntryPages(entries[s]) : pages[p] = entries[s].storage.generation
      /\ \A s, u \in Resident :
           s # u => entries[s].storage.generation # entries[u].storage.generation
      /\ \A p \in Pages : pages[p] # 0 =>
           \E s \in Resident : p \in EntryPages(entries[s])
      /\ Resident \subseteq Slots
  BY <1>i DEF Marked, Resident
<1>5. ASSUME NEW s \in Resident \ S
      PROVE  /\ entries'[s] = entries[s]
             /\ \A p \in EntryPages(entries[s]) : pages'[p] = pages[p]
  <2>1. entries'[s] = entries[s]
    BY <1>1, <1>4
  <2>2. ASSUME NEW p \in EntryPages(entries[s]), NEW u \in S, p \in EntryPages(entries[u])
        PROVE  FALSE
    <3>1. u \in Resident /\ s \in Resident /\ u # s
      OBVIOUS
    <3> QED
      BY <1>4, <2>2, <3>1
  <2> QED
    BY <1>1, <1>3, <2>1, <2>2
<1>6. ASSUME NEW p \in Pages, pages'[p] # 0
      PROVE  \E s \in Resident \ S : p \in EntryPages(entries[s])
  BY <1>1, <1>4, <1>6
<1>7. Marked'
  <2>1. \A s \in Resident \ S :
          /\ Shaped(entries'[s]) /\ entries'[s].storage.generation \in 1..allocations'
          /\ \A p \in EntryPages(entries'[s]) : pages'[p] = entries'[s].storage.generation
    BY <1>1, <1>4, <1>5
  <2>2. \A s, u \in Resident \ S :
          s # u => entries'[s].storage.generation # entries'[u].storage.generation
    BY <1>4, <1>5
  <2>3. \A p \in Pages : pages'[p] # 0 =>
           \E s \in Resident \ S : p \in EntryPages(entries'[s])
    BY <1>5, <1>6
  <2> QED
    BY <1>2, <2>1, <2>2, <2>3 DEF Marked
<1> QED
  BY <1>2, <1>7

\* normalizeEmptyAllocator rewinds an empty tape.
LEMMA EmptyArc ==
  ASSUME TypeOK', Marked', Resident' = {}, residentCount' = 0, sourceHead' = 0,
         sourceTail' = 0, pageTail' = 0, occupiedPages' = 0
  PROVE  SlotArc' /\ PageArc' /\ Rewound'
<1>1. 0 \in Slots /\ 0 \in Pages /\ 0 \in 0..SourceSlotCount /\ 0 \in 0..HighWaterPages
  BY ConfigValid DEF Slots, Pages
<1>2. \A s \in Slots : entries'[s].state = "Free" /\ ~(Distance(0, s) < 0)
  BY ConfigValid DEF Resident, Distance, Slots
<1>3. SlotAfter(0, 0) = 0 /\ PageAfter(0, 0) = 0
  BY ConfigValid DEF SlotAfter, PageAfter
<1>4. SlotArc'
  BY <1>1, <1>2, <1>3 DEF SlotArc
<1>5. \A p \in Pages : pages'[p] = 0
  BY DEF Marked
<1>6. \A p \in Pages : ~(PageDistance(0, p) < 0)
  BY ConfigValid DEF PageDistance, Pages
<1>7. PICK off : off \in [0..0 -> 0..HighWaterPages] /\ off[0] = 0
  <2>1. [i \in 0..0 |-> 0] \in [0..0 -> 0..HighWaterPages] /\ [i \in 0..0 |-> 0][0] = 0
    BY <1>1
  <2> QED
    BY <2>1
<1>8. Chain(0, off)'
  BY <1>2, <1>3, <1>5, <1>6, <1>7 DEF Chain
<1>9. PageArc'
  BY <1>1, <1>7, <1>8 DEF PageArc
<1> QED
  BY <1>4, <1>9 DEF Rewound

\* releaseOldest: the head of both arcs moves behind the oldest source.
LEMMA ArcReclaim ==
  ASSUME TypeOK, TypeOK', ArcInv, NEW s \in Slots, FinishReclaim(s)
  PROVE  SlotArc' /\ PageArc' /\ Marked' /\ Rewound' /\ Resident' = Resident \ {s}
<1>i. SlotArc /\ PageArc /\ Marked
  BY DEF ArcInv
<1>1. /\ s = sourceHead /\ entries[s].state = "Reclaiming"
      /\ Release({s}, SlotAfter(s, 1), sourceTail, pageTail, occupiedPages - Footprint(s))
  BY DEF FinishReclaim
<1>2. s \in Resident
  BY <1>1 DEF Resident
<1>3. Marked' /\ Resident' = Resident \ {s}
  BY <1>1, <1>2, {s} \in SUBSET Resident, MarkedRelease
<1>4. Cardinality({s}) = 1
  BY FS_Singleton
<1>5. /\ residentCount' = residentCount - 1 /\ occupiedPages' = occupiedPages - Footprint(s)
      /\ residentCount = 1 => sourceHead' = 0 /\ sourceTail' = 0 /\ pageTail' = 0
      /\ residentCount # 1 => /\ sourceHead' = SlotAfter(s, 1) /\ sourceTail' = sourceTail
                              /\ pageTail' = pageTail
      /\ \A r \in Slots : r # s => entries'[r] = entries[r]
      /\ \A p \in Pages : pages'[p] = IF p \in EntryPages(entries[s]) THEN 0 ELSE pages[p]
  BY <1>1, <1>4 DEF Release
<1>6. PICK base \in Pages, off \in [0..residentCount -> 0..HighWaterPages] :
        Chain(base, off)
  BY <1>i DEF PageArc
<1>7. /\ residentCount \in Nat /\ residentCount <= SourceSlotCount
      /\ Resident = {r \in Slots : Distance(sourceHead, r) < residentCount}
  BY <1>i, ResidentArc
<1>8. Distance(sourceHead, s) = 0 /\ \A r \in Slots : Distance(s, r) \in Nat
  BY <1>1, ConfigValid DEF Distance, Slots
<1>9. /\ 0 < residentCount /\ off[1] = Footprint(s) /\ Footprint(s) \in 1..PageCount
      /\ off[0] = 0 /\ 1 \in 0..residentCount /\ off[1] \in 0..HighWaterPages
      /\ \A p \in Pages : p \in EntryPages(entries[s]) <=> PageDistance(base, p) < off[1]
  <2>1. off[0] = 0
    BY <1>6 DEF Chain
  <2>2. 0 < residentCount
    BY <1>2, <1>7, <1>8
  <2>3. /\ 0 + 1 \in 0..residentCount
        /\ off[0 + 1] \in 0..HighWaterPages /\ off[0 + 1] = off[0] + Footprint(s)
        /\ Footprint(s) \in 1..PageCount
        /\ \A p \in Pages : p \in EntryPages(entries[s]) <=>
             off[0] <= PageDistance(base, p) /\ PageDistance(base, p) < off[0 + 1]
    BY <1>i, <1>2, <1>6, <1>8, EntrySpan
  <2>4. \A p \in Pages : PageDistance(base, p) \in Nat
    BY PageRing, ConfigValid DEF PageDistance, Pages
  <2> QED
    BY <2>1, <2>2, <2>3, <2>4
<1>10. /\ off[residentCount] = occupiedPages /\ pageTail = PageAfter(base, occupiedPages)
       /\ \A i, j \in 0..residentCount : i < j => off[i] < off[j]
       /\ \A r \in Slots : Distance(sourceHead, r) < residentCount =>
            /\ Start(entries[r]) = PageAfter(base, off[Distance(sourceHead, r)])
            /\ off[Distance(sourceHead, r) + 1] =
                 off[Distance(sourceHead, r)] + Footprint(r)
       /\ \A p \in Pages : pages[p] # 0 <=> PageDistance(base, p) < occupiedPages
  BY <1>6 DEF Chain
<1>11. CASE residentCount = 1
  <2>1. occupiedPages' = 0
    BY <1>5, <1>9, <1>10, <1>11
  <2>2. Resident = {s}
    <3>1. \A r \in Slots : Distance(sourceHead, r) < 1 <=> r = sourceHead
      BY <1>1, DistanceOne
    <3> QED
      BY <1>1, <1>7, <1>11, <3>1
  <2>3. residentCount' = 0 /\ Resident' = {}
    BY <1>3, <1>5, <1>11, <2>2
  <2> QED
    BY <1>3, <1>5, <1>11, <2>1, <2>3, EmptyArc
<1>12. CASE residentCount # 1
  <2> DEFINE n == residentCount - 1
             b == PageAfter(base, off[1])
             shorter == [i \in 0..n |-> off[i + 1] - off[1]]
  <2>0. /\ n \in Nat /\ n >= 1 /\ residentCount = n + 1 /\ n <= SourceSlotCount
        /\ 1 \in 0..(n + 1)
    <3>1. residentCount \in Nat /\ residentCount <= SourceSlotCount /\ 0 < residentCount
      BY <1>7, <1>9
    <3> QED
      BY <1>12, <3>1, ConfigValid
  <2>1. /\ sourceHead' = SlotAfter(s, 1) /\ sourceTail' = sourceTail /\ pageTail' = pageTail
        /\ residentCount' = n
    BY <1>5, <1>12
  <2>2. SlotAfter(s, 1) \in Slots
    BY SlotAfterType, ConfigValid
  <2>3. ASSUME NEW r \in Slots
        PROVE  /\ r = s => ~(Distance(SlotAfter(s, 1), r) < n)
               /\ r # s => Distance(s, r) = Distance(SlotAfter(s, 1), r) + 1
               /\ Distance(SlotAfter(s, 1), r) \in Nat
    BY <2>0, <1>7, ConfigValid DEF SlotAfter, Distance, Slots
  <2>4. SlotArc'
    <3>1. sourceTail = SlotAfter(SlotAfter(s, 1), n)
      <4>1. sourceTail = SlotAfter(s, n + 1)
        BY <1>i, <1>1, <2>0 DEF SlotArc
      <4>2. n + 1 <= SourceSlotCount
        BY <1>7, <2>0
      <4> QED
        BY <4>1, <4>2, <2>0, ConfigValid DEF SlotAfter, Slots
    <3>2. n \in 0..SourceSlotCount
      BY <2>0
    <3>3. \A r \in Slots : r \in Resident' <=> Distance(SlotAfter(s, 1), r) < n
      <4> TAKE r \in Slots
      <4>1. r \in Resident' <=> r # s /\ Distance(s, r) < n + 1
        BY <1>1, <1>3, <1>7, <2>0
      <4> QED
        BY <2>0, <2>3, <4>1
    <3> QED
      BY <2>1, <3>1, <3>2, <3>3 DEF SlotArc, Resident
  <2>5. ASSUME NEW i \in 0..n
        PROVE  /\ i + 1 \in 0..residentCount /\ off[i + 1] \in 0..HighWaterPages
               /\ off[1] <= off[i + 1]
    <3>1. i + 1 \in 0..residentCount /\ (i + 1 = 1 \/ 1 < i + 1)
      BY <2>0
    <3>2. off[i + 1] \in 0..HighWaterPages
      BY <3>1
    <3>3. i + 1 = 1 \/ off[1] < off[i + 1]
      BY <1>9, <1>10, <3>1
    <3> QED
      BY <1>9, <3>1, <3>2, <3>3, ConfigValid
  <2>6. \A i \in 0..n : off[i + 1] - off[1] \in 0..HighWaterPages
    BY <1>9, <2>5, ConfigValid
  <2>7. PICK g : /\ g \in [0..n -> 0..HighWaterPages]
                 /\ \A i \in 0..n : g[i] = off[i + 1] - off[1]
    <3>1. /\ shorter \in [0..n -> 0..HighWaterPages]
          /\ \A i \in 0..n : shorter[i] = off[i + 1] - off[1]
      BY <2>6
    <3> QED
      BY <3>1
  <2>p. PICK c \in Pages : c = b
    BY <1>9, PageRing, ConfigValid
  <2> HIDE DEF shorter, b
  <2>8. /\ off[1] \in 0..PageCount /\ occupiedPages \in off[1]..PageCount
        /\ occupiedPages \in 0..HighWaterPages
    <3>1. n \in 0..n /\ off[n + 1] = occupiedPages
      BY <1>10, <2>0
    <3> QED
      BY <1>9, <2>5, <3>1, ConfigValid
  <2>9. /\ PageAfter(c, occupiedPages - off[1]) = pageTail
        /\ \A p \in Pages : PageDistance(c, p) < occupiedPages - off[1] <=>
             off[1] <= PageDistance(base, p) /\ PageDistance(base, p) < occupiedPages
    BY <1>10, <2>8, <2>p, PageRebase DEF b
  <2>10. \A p \in Pages : pages'[p] # 0 <=> PageDistance(c, p) < occupiedPages - off[1]
    <3> TAKE p \in Pages
    <3>1. PageDistance(base, p) \in Nat
      BY ConfigValid DEF PageDistance, Pages
    <3> QED
      BY <1>5, <1>9, <1>10, <2>8, <2>9, <3>1
  <2>11. /\ g[0] = 0 /\ g[n] = occupiedPages - off[1]
    <3>1. 0 \in 0..n /\ n \in 0..n /\ 0 + 1 = 1 /\ n + 1 = residentCount
      BY <2>0
    <3>2. g[0] = off[1] - off[1] /\ g[n] = occupiedPages - off[1]
      BY <1>10, <2>7, <3>1
    <3> QED
      BY <1>9, <3>2
  <2>12. \A i, j \in 0..n : i < j => g[i] < g[j]
    <3> SUFFICES ASSUME NEW i \in 0..n, NEW j \in 0..n, i < j
                 PROVE  g[i] < g[j]
      OBVIOUS
    <3>1. i + 1 < j + 1
      BY <2>0
    <3>2. off[i + 1] < off[j + 1]
      BY <1>10, <2>5, <3>1
    <3> QED
      BY <1>9, <2>5, <2>7, <3>2
  <2>13. ASSUME NEW r \in Slots, Distance(SlotAfter(s, 1), r) < n
         PROVE  /\ Start(entries'[r]) = PageAfter(c, g[Distance(SlotAfter(s, 1), r)])
                /\ g[Distance(SlotAfter(s, 1), r) + 1] =
                     g[Distance(SlotAfter(s, 1), r)] + Footprint(r)'
    <3> DEFINE e == Distance(SlotAfter(s, 1), r)
    <3>1. /\ r # s /\ Distance(sourceHead, r) = e + 1 /\ e \in Nat /\ e < n
      BY <1>1, <2>3, <2>13
    <3> HIDE DEF e
    <3>2. entries'[r] = entries[r] /\ Footprint(r)' = Footprint(r)
      BY <1>5, <3>1 DEF Footprint
    <3>3. e \in 0..n /\ e + 1 \in 0..n /\ e + 1 < residentCount
      BY <2>0, <3>1
    <3>4. /\ Start(entries[r]) = PageAfter(base, off[e + 1])
          /\ off[(e + 1) + 1] = off[e + 1] + Footprint(r)
      BY <1>10, <3>1, <3>3
    <3>5. /\ off[e + 1] \in 0..HighWaterPages /\ off[1] <= off[e + 1]
          /\ off[(e + 1) + 1] \in 0..HighWaterPages
          /\ g[e] = off[e + 1] - off[1] /\ g[e + 1] = off[(e + 1) + 1] - off[1]
      BY <2>5, <2>7, <3>3
    <3>6. PageAfter(c, off[e + 1] - off[1]) = PageAfter(base, off[e + 1])
      <4>1. off[e + 1] \in off[1]..PageCount
        BY <2>8, <3>5, ConfigValid
      <4> QED
        BY <2>8, <2>p, <4>1, PageRebase DEF b
    <3>7. Footprint(r) = off[(e + 1) + 1] - off[e + 1]
      <4>1. Footprint(r) \in Int
        <5>1. entries[r] \in EntryType
          BY DEF TypeOK
        <5> QED
          BY <5>1, ConfigValid DEF Footprint, EntryType
      <4> QED
        BY <3>4, <3>5, <4>1
    <3>8. g[e + 1] = g[e] + Footprint(r)
      BY <1>9, <3>5, <3>7
    <3> QED
      BY <3>2, <3>4, <3>5, <3>6, <3>8 DEF e
  <2>14. occupiedPages' = occupiedPages - off[1]
    BY <1>5, <1>9
  <2>15. Chain(c, g)'
    <3>1. pageTail' = PageAfter(c, occupiedPages')
      BY <2>1, <2>9, <2>14
    <3>2. g[0] = 0 /\ g[residentCount'] = occupiedPages'
      BY <2>1, <2>11, <2>14
    <3>3. \A i, j \in 0..residentCount' : i < j => g[i] < g[j]
      BY <2>1, <2>12
    <3>4. \A r \in Slots : Distance(sourceHead', r) < residentCount' =>
            /\ Start(entries'[r]) = PageAfter(c, g[Distance(sourceHead', r)])
            /\ g[Distance(sourceHead', r) + 1] =
                 g[Distance(sourceHead', r)] + Footprint(r)'
      BY <2>1, <2>13
    <3>5. \A p \in Pages : pages'[p] # 0 <=> PageDistance(c, p) < occupiedPages'
      BY <2>10, <2>14
    <3> QED
      BY <3>1, <3>2, <3>3, <3>4, <3>5 DEF Chain
  <2>16. g \in [0..residentCount' -> 0..HighWaterPages]
    BY <2>1, <2>7
  <2>17. PageArc'
    BY <2>15, <2>16 DEF PageArc
  <2>18. Rewound'
    BY <2>0, <2>1 DEF Rewound
  <2> QED
    BY <1>3, <2>4, <2>17, <2>18
<1> QED
  BY <1>11, <1>12

\* rollbackNewest: the tail of both arcs moves back in front of source o.
LEMMA ArcRollback ==
  ASSUME TypeOK, TypeOK', ArcInv, NEW o \in Slots, NEW k \in 1..SourceSlotCount,
         RollbackNewest(o, k), SlotAfter(o, k) = sourceTail, entries[o].state # "Free"
  PROVE  /\ SlotArc' /\ PageArc' /\ Marked' /\ Rewound'
         /\ Resident' = Resident \ {s \in Slots : Distance(o, s) < k}
         /\ {s \in Slots : Distance(o, s) < k} \subseteq Resident
<1> DEFINE S == {s \in Slots : Distance(o, s) < k}
           d(s) == Distance(sourceHead, s)
           m == residentCount - k
<1>i. SlotArc /\ PageArc /\ Marked
  BY DEF ArcInv
<1>1. PICK occupied :
        /\ occupied \in [0..k -> 0..PageCount] /\ occupied[0] = occupiedPages
        /\ \A j \in 1..k :
             occupied[j] = occupied[j - 1] - Footprint(SlotAfter(o, k - j))
        /\ Release(S, sourceHead, o, Start(entries[o]), occupied[k])
  BY DEF RollbackNewest, Start
<1>b. PICK base \in Pages :
        \E off \in [0..residentCount -> 0..HighWaterPages] : Chain(base, off)
  BY <1>i DEF PageArc
<1>2. PICK off : off \in [0..residentCount -> 0..HighWaterPages] /\ Chain(base, off)
  BY <1>b
<1>3. /\ residentCount \in Nat /\ residentCount <= SourceSlotCount
      /\ Resident = {s \in Slots : d(s) < residentCount} /\ sourceHead \in Slots
      /\ k \in Nat /\ k >= 1 /\ k <= SourceSlotCount
  <2>1. /\ residentCount \in Nat /\ residentCount <= SourceSlotCount
        /\ Resident = {s \in Slots : d(s) < residentCount}
    BY <1>i, ResidentArc
  <2>2. sourceHead \in Slots
    BY DEF TypeOK
  <2>3. k \in Nat /\ k >= 1 /\ k <= SourceSlotCount
    BY ConfigValid
  <2> QED
    BY <2>1, <2>2, <2>3
<1>4. o \in Resident /\ sourceTail = SlotAfter(sourceHead, residentCount)
  BY <1>i DEF Resident, SlotArc
<1>5. /\ d(o) = m /\ k <= residentCount
      /\ \A s \in Slots : /\ d(s) \in Nat
                          /\ s \in S <=> m <= d(s) /\ d(s) < residentCount
      /\ \A j \in 1..k : /\ SlotAfter(o, k - j) \in Slots
                         /\ d(SlotAfter(o, k - j)) = residentCount - j
  <2>1. residentCount \in 0..SourceSlotCount /\ d(o) < residentCount
    BY <1>3, <1>4
  <2>2. /\ Distance(sourceHead, o) = residentCount - k /\ k <= residentCount
        /\ \A s \in Slots :
             /\ Distance(sourceHead, s) \in Nat
             /\ Distance(o, s) < k <=>
                  /\ residentCount - k <= Distance(sourceHead, s)
                  /\ Distance(sourceHead, s) < residentCount
        /\ \A j \in 1..k : /\ SlotAfter(o, k - j) \in Slots
                           /\ Distance(sourceHead, SlotAfter(o, k - j)) = residentCount - j
    <3>1. /\ sourceHead \in Slots /\ SlotAfter(o, k) = SlotAfter(sourceHead, residentCount)
          /\ Distance(sourceHead, o) < residentCount
      BY <1>3, <1>4, <2>1
    <3>2. Distance(sourceHead, o) = residentCount - k /\ k <= residentCount
      BY <2>1, <3>1, ConfigValid DEF SlotAfter, Distance, Slots
    <3>3. ASSUME NEW s \in Slots
          PROVE  /\ Distance(sourceHead, s) \in Nat
                 /\ Distance(o, s) < k <=>
                      /\ residentCount - k <= Distance(sourceHead, s)
                      /\ Distance(sourceHead, s) < residentCount
      BY <2>1, <3>1, <3>2, ConfigValid DEF Distance, Slots
    <3>4. ASSUME NEW j \in 1..k
          PROVE  /\ SlotAfter(o, k - j) \in Slots
                 /\ Distance(sourceHead, SlotAfter(o, k - j)) = residentCount - j
      BY <2>1, <3>1, <3>2, ConfigValid DEF SlotAfter, Distance, Slots
    <3> QED
      BY <3>2, <3>3, <3>4
  <2> QED
    BY <2>2
<1>6. m \in Nat /\ m < residentCount /\ m \in 0..residentCount /\ m <= SourceSlotCount
      /\ residentCount = m + k
  <2>1. /\ residentCount \in Nat /\ k \in Nat /\ k >= 1 /\ k <= residentCount
        /\ residentCount <= SourceSlotCount /\ SourceSlotCount \in Nat
    BY <1>3, <1>5, ConfigValid
  <2> QED
    BY <2>1
<1>7. S \subseteq Resident /\ Cardinality(S) = k
  <2>1. S \subseteq Resident
    BY <1>3, <1>5
  <2>2. k \in 0..SourceSlotCount
    BY <1>3
  <2> QED
    BY <2>1, <2>2, ArcCount
<1> HIDE DEF S
<1>8. Marked' /\ Resident' = Resident \ S
  BY <1>1, <1>7, MarkedRelease
<1>9. /\ residentCount' = m /\ occupiedPages' = occupied[k]
      /\ m = 0 => sourceHead' = 0 /\ sourceTail' = 0 /\ pageTail' = 0
      /\ m # 0 => /\ sourceHead' = sourceHead /\ sourceTail' = o
                  /\ pageTail' = Start(entries[o])
  <2>1. residentCount = Cardinality(S) <=> m = 0
    BY <1>3, <1>6, <1>7
  <2> QED
    BY <1>1, <1>7, <2>1 DEF Release
<1>a. /\ \A s \in Slots : s \notin S => entries'[s] = entries[s]
      /\ \A p \in Pages : pages'[p] =
           IF \E s \in S : p \in EntryPages(entries[s]) THEN 0 ELSE pages[p]
  BY <1>1 DEF Release
<1>10. /\ off[0] = 0 /\ off[residentCount] = occupiedPages
       /\ \A i, j \in 0..residentCount : i < j => off[i] < off[j]
       /\ \A s \in Slots : d(s) < residentCount =>
            /\ Start(entries[s]) = PageAfter(base, off[d(s)])
            /\ off[d(s) + 1] = off[d(s)] + Footprint(s)
       /\ \A p \in Pages : pages[p] # 0 <=> PageDistance(base, p) < occupiedPages
  BY <1>2 DEF Chain
<1>o. \A i \in 0..residentCount : off[i] \in 0..HighWaterPages /\ off[i] \in Nat
  BY <1>2, ConfigValid
<1> HIDE DEF d, m
\* The counter is given back source by source, newest first.
<1>11. \A j \in 0..k : occupied[j] = off[residentCount - j]
  <2> DEFINE T == {j \in 0..k : occupied[j] # off[residentCount - j]}
  <2> SUFFICES ASSUME T # {} PROVE FALSE
    OBVIOUS
  <2>1. T \in SUBSET Nat
    BY <1>3
  <2>2. 0 \notin T
    BY <1>1, <1>3, <1>10
  <2> HIDE DEF T
  <2>3. PICK j \in T : \A y \in T : j <= y
    BY <2>1, LeastNumber
  <2>4. j \in 0..k /\ j # 0 /\ occupied[j] # off[residentCount - j]
    BY <2>2 DEF T
  <2>5. j \in 1..k /\ j - 1 \in 0..k /\ j \in Nat
    BY <1>3, <2>4
  <2>6. j - 1 \notin T
    BY <2>3, <2>5
  <2>7. occupied[j - 1] = off[residentCount - (j - 1)]
    BY <2>5, <2>6 DEF T
  <2> DEFINE r == SlotAfter(o, k - j)
  <2>8. occupied[j] = occupied[j - 1] - Footprint(r)
    BY <1>1, <2>5
  <2>9. r \in Slots /\ d(r) = residentCount - j
    BY <1>5, <2>5
  <2> HIDE DEF r
  <2>10. /\ residentCount - j < residentCount /\ residentCount - j \in 0..residentCount
         /\ (residentCount - j) + 1 = residentCount - (j - 1)
         /\ residentCount - (j - 1) \in 0..residentCount
    BY <1>3, <1>5, <2>5
  <2>11. off[residentCount - (j - 1)] = off[residentCount - j] + Footprint(r)
    BY <1>10, <2>9, <2>10
  <2>12. off[residentCount - (j - 1)] \in Nat /\ off[residentCount - j] \in Nat
    BY <1>o, <2>10
  <2>13. Footprint(r) \in Int
    <3>1. entries[r] \in EntryType
      BY <2>9 DEF TypeOK
    <3> QED
      BY <3>1, ConfigValid DEF Footprint, EntryType
  <2>14. occupied[j] = off[residentCount - j]
    BY <2>7, <2>8, <2>11, <2>12, <2>13
  <2> QED
    BY <2>4, <2>14
<1>12. occupiedPages' = off[m] /\ off[m] \in 0..HighWaterPages /\ off[m] \in Nat
  <2>1. k \in 0..k /\ residentCount - k = m
    BY <1>3, <1>6
  <2>2. occupied[k] = off[m]
    BY <1>11, <2>1
  <2> QED
    BY <1>6, <1>9, <1>o, <2>2
<1>13. CASE m = 0
  <2>1. Resident' = {}
    BY <1>3, <1>5, <1>6, <1>8, <1>13
  <2>2. occupiedPages' = 0
    BY <1>10, <1>12, <1>13
  <2> QED
    BY <1>7, <1>8, <1>9, <1>13, <2>1, <2>2, EmptyArc DEF S
<1>14. CASE m # 0
  <2>1. /\ sourceHead' = sourceHead /\ sourceTail' = o /\ pageTail' = Start(entries[o])
        /\ residentCount' = m
    BY <1>9, <1>14
  <2>2. \A s \in Slots : s \in Resident' <=> d(s) < m
    BY <1>3, <1>5, <1>6, <1>8
  <2>3. SlotArc'
    <3>1. m \in 0..SourceSlotCount
      BY <1>6
    <3>2. o = SlotAfter(sourceHead, m)
      <4>1. 0 \in 0..SourceSlotCount
        BY ConfigValid
      <4>2. SlotAfter(sourceHead, Distance(sourceHead, o)) = o
        BY <1>3, <4>1, ArcCount
      <4> QED
        BY <1>5, <4>2 DEF d
    <3> QED
      BY <2>1, <2>2, <3>1, <3>2 DEF SlotArc, Resident, d
  <2>4. PICK g : /\ g \in [0..m -> 0..HighWaterPages] /\ \A i \in 0..m : g[i] = off[i]
    <3>1. \A i \in 0..m : off[i] \in 0..HighWaterPages
      BY <1>6, <1>o
    <3> DEFINE f == [i \in 0..m |-> off[i]]
    <3>2. f \in [0..m -> 0..HighWaterPages] /\ \A i \in 0..m : f[i] = off[i]
      BY <3>1
    <3> HIDE DEF f
    <3> QED
      BY <3>2
  <2>5. Start(entries[o]) = PageAfter(base, off[m])
    BY <1>5, <1>6, <1>10
  <2>6. ASSUME NEW p \in Pages
        PROVE  pages'[p] # 0 <=> PageDistance(base, p) < off[m]
    <3>1. PageDistance(base, p) \in Nat
      BY ConfigValid DEF PageDistance, Pages
    <3>2. ASSUME NEW s \in Resident, p \in EntryPages(entries[s])
          PROVE  /\ s \in S => off[m] <= PageDistance(base, p)
                 /\ s \notin S => PageDistance(base, p) < off[m]
      <4>0. /\ d(s) + 1 \in 0..residentCount /\ d(s) \in 0..(residentCount - 1)
            /\ off[d(s)] <= PageDistance(base, p) /\ PageDistance(base, p) < off[d(s) + 1]
        BY <1>i, <1>2, <3>2, EntrySpan DEF d
      <4>1. s \in Slots /\ d(s) \in 0..residentCount /\ d(s) < residentCount /\ d(s) \in Nat
        BY <1>3, <1>5
      <4>2. off[d(s)] \in Nat /\ off[d(s) + 1] \in Nat
        BY <1>o, <4>0, <4>1
      <4>3. CASE s \in S
        <5>1. m = d(s) \/ m < d(s)
          BY <1>5, <1>6, <4>1, <4>3
        <5>2. m = d(s) \/ off[m] < off[d(s)]
          BY <1>6, <1>10, <4>1, <5>1
        <5> QED
          BY <1>12, <3>1, <4>0, <4>2, <4>3, <5>2
      <4>4. CASE s \notin S
        <5>1. d(s) < m
          BY <1>5, <1>6, <4>1, <4>4
        <5>2. d(s) + 1 = m \/ d(s) + 1 < m
          BY <1>6, <4>1, <5>1
        <5>3. d(s) + 1 = m \/ off[d(s) + 1] < off[m]
          BY <1>6, <1>10, <4>0, <5>2
        <5> QED
          BY <1>12, <3>1, <4>0, <4>2, <4>4, <5>3
      <4> QED
        BY <4>3, <4>4
    <3>3. off[m] < occupiedPages /\ occupiedPages \in Nat
      <4>1. residentCount \in 0..residentCount
        BY <1>3
      <4> QED
        BY <1>6, <1>10, <1>o, <4>1
    <3>4. ASSUME pages'[p] # 0
          PROVE  PageDistance(base, p) < off[m]
      <4>1. pages[p] # 0 /\ \A s \in S : p \notin EntryPages(entries[s])
        BY <1>a, <3>4
      <4>2. PICK s \in Resident : p \in EntryPages(entries[s])
        BY <1>i, <4>1 DEF Marked
      <4> QED
        BY <3>2, <4>1, <4>2
    <3>5. ASSUME PageDistance(base, p) < off[m]
          PROVE  pages'[p] # 0
      <4>1. pages[p] # 0
        BY <1>10, <1>12, <3>1, <3>3, <3>5
      <4>2. \A s \in S : p \notin EntryPages(entries[s])
        BY <1>7, <1>12, <3>1, <3>2, <3>5
      <4> QED
        BY <1>a, <4>1, <4>2
    <3> QED
      BY <3>4, <3>5
  <2>7. Chain(base, g)'
    <3>1. /\ g[0] = 0 /\ g[residentCount'] = occupiedPages'
          /\ pageTail' = PageAfter(base, occupiedPages')
      BY <1>6, <1>10, <1>12, <2>1, <2>4, <2>5
    <3>2. \A i, j \in 0..residentCount' : i < j => g[i] < g[j]
      <4>1. \A i \in 0..m : i \in 0..residentCount
        BY <1>6
      <4> QED
        BY <1>10, <2>1, <2>4, <4>1
    <3>3. \A s \in Slots : d(s) < m =>
            /\ Start(entries'[s]) = PageAfter(base, g[d(s)])
            /\ g[d(s) + 1] = g[d(s)] + Footprint(s)'
      <4> SUFFICES ASSUME NEW s \in Slots, d(s) < m
                   PROVE  /\ Start(entries'[s]) = PageAfter(base, g[d(s)])
                          /\ g[d(s) + 1] = g[d(s)] + Footprint(s)'
        OBVIOUS
      <4>1. /\ d(s) \in Nat /\ d(s) < residentCount /\ s \notin S
            /\ d(s) \in 0..m /\ d(s) + 1 \in 0..m
        <5>1. d(s) \in Nat
          BY <1>5
        <5> QED
          BY <1>5, <1>6, <5>1
      <4>2. entries'[s] = entries[s] /\ Footprint(s)' = Footprint(s)
        BY <1>a, <4>1 DEF Footprint
      <4> QED
        BY <1>10, <2>4, <4>1, <4>2
    <3>4. \A p \in Pages : pages'[p] # 0 <=> PageDistance(base, p) < occupiedPages'
      BY <1>12, <2>6
    <3> QED
      BY <2>1, <3>1, <3>2, <3>3, <3>4 DEF Chain, d
  <2>8. PageArc'
    BY <2>1, <2>4, <2>7 DEF PageArc
  <2>9. Rewound'
    BY <1>14, <2>1 DEF Rewound
  <2> QED
    BY <1>7, <1>8, <2>3, <2>8, <2>9 DEF S
<1> QED
  BY <1>13, <1>14

\* A single source finds a free slot below the high water of the ring.
LEMMA SlotAvailable ==
  ASSUME TypeOK, NEW n \in PageRuns, NEW kind \in Kinds, InspectReserve(n, kind) = "Ready"
  PROVE  residentCount + 1 <= SourceSlotCount
<1>1. PressureDimensions(n, kind) = {} /\ "sources" \in Dimensions
  BY DEF InspectReserve, Dimensions
<1>2. ~(residentCount >= HighWaterSources)
  BY <1>1 DEF PressureDimensions, CountPressure
<1>3. residentCount \in Int /\ HighWaterSources \in 1..SourceSlotCount /\ SourceSlotCount \in Nat
  BY ConfigValid DEF TypeOK
<1> QED
  BY <1>2, <1>3

\* When sources S leave the ring, the compatibility sources among them are
\* given back.
LEMMA LegacyReleased ==
  ASSUME TypeOK, LegacyCounted, NEW S \in SUBSET Slots, NEW d \in Int,
         Resident' = Resident \ S,
         \A s \in Resident \ S : entries'[s].kind = entries[s].kind,
         Cardinality(LegacyResident \cap S) = d,
         compatibilityResident' = compatibilityResident - d
  PROVE  LegacyCounted'
<1>1. LegacyResident' = LegacyResident \ S
  BY DEF LegacyResident
<1>2. IsFiniteSet(LegacyResident)
  <2>1. LegacyResident \in SUBSET Slots
    BY DEF LegacyResident, Resident
  <2> QED
    BY <2>1, SlotSets
<1>3. Cardinality(LegacyResident \ S) =
        Cardinality(LegacyResident) - Cardinality(LegacyResident \cap S)
  BY <1>2, FS_Difference
<1> QED
  BY <1>1, <1>3 DEF LegacyCounted

\* Every step preserves the invariant of the arcs: one case per action.
LEMMA ArcStep ==
  IdentityInv /\ QueueInv /\ ArcInv /\ [Next]_tapeVars => ArcInv'
<1> SUFFICES ASSUME IdentityInv, QueueInv, ArcInv, [Next]_tapeVars PROVE ArcInv'
  OBVIOUS
<1>0. TypeOK /\ TypeOK' /\ CreditsHeld /\ LegacyCounted
  BY TypeStep DEF IdentityInv, QueueInv, ArcInv
<1>a. \A s \in Slots : entries[s] \in EntryType
  BY <1>0 DEF TypeOK
<1>b. SourceSlotCount \in Nat /\ residentCount \in Int
  BY <1>0, ConfigValid DEF TypeOK
<1> DEFINE Keeps(s) == /\ entries'[s].kind = entries[s].kind
                       /\ entries'[s].storage = entries[s].storage
                       /\ entries'[s].padding = entries[s].padding
           ringOnly == <<pages, sourceHead, sourceTail, residentCount, pageTail,
                         occupiedPages, allocations, compatibilityResident>>
\* Nothing enters or leaves the ring.
<1>s. ASSUME UNCHANGED ringOnly,
             \A s \in Slots :
               \/ entries'[s] = entries[s]
               \/ /\ Keeps(s) /\ entries[s].state # "Free" /\ entries'[s].state # "Free"
      PROVE  ArcInv'
  <2>1. \A s \in Slots :
           /\ entries'[s].state = "Free" <=> entries[s].state = "Free"
           /\ entries'[s].kind = entries[s].kind
           /\ entries'[s].storage = entries[s].storage
           /\ entries'[s].padding = entries[s].padding
    BY <1>s
  <2> QED
    BY <1>0, <1>s, <2>1, ArcQuiet
<1>t. ASSUME NEW S, NEW state \in States \ {"Free"}, SetStates(S, state),
             \A s \in Slots : s \in S => entries[s].state # "Free", UNCHANGED ringOnly
      PROVE  ArcInv'
  <2>1. ASSUME NEW s \in Slots
        PROVE  \/ entries'[s] = entries[s]
               \/ Keeps(s) /\ entries[s].state # "Free" /\ entries'[s].state # "Free"
    <3>1. CASE s \notin S
      BY <1>t, <3>1 DEF SetStates
    <3>2. CASE s \in S
      <4>1. entries'[s] = [entries[s] EXCEPT !.state = state]
        BY <1>t, <3>2 DEF SetStates
      <4> QED
        BY <1>a, <1>t, <3>2, <4>1 DEF EntryType
    <3> QED
      BY <3>1, <3>2
  <2> QED
    BY <1>s, <1>t, <2>1
<1>1. ASSUME NEW n \in PageRuns, ReserveLegacy(n)
      PROVE  ArcInv'
  <2> DEFINE ns == <<n>>
  <2>1. /\ "Legacy" \in Kinds /\ ns \in Seq(PageRuns) /\ Len(ns) = 1
        /\ 0 \in Nat /\ Len(ns) \in 1..SourceSlotCount
    BY <1>0, ConfigValid DEF Kinds
  <2>2. ReserveStorage("Legacy", ns, 0) /\ InspectReserve(n, "Legacy") = "Ready"
    BY <1>1 DEF ReserveLegacy
  <2>3. residentCount + Len(ns) <= SourceSlotCount
    BY <1>0, <2>1, <2>2, SlotAvailable
  <2> HIDE DEF ns
  <2> QED
    BY <1>0, <2>1, <2>2, <2>3, ArcReserve
<1>2. ASSUME NEW n \in PageRuns, NEW kind \in Kinds, ProbeReserve(n, kind)
      PROVE  ArcInv'
  BY <1>s, <1>2 DEF ProbeReserve, ringVars, laneVars, readyVars
<1>3. ASSUME NEW n \in PageRuns, NEW q \in SeqIds, ReserveArena(n, q)
      PROVE  ArcInv'
  <2> DEFINE ns == <<n>>
  <2>1. /\ "Arena" \in Kinds /\ ns \in Seq(PageRuns) /\ Len(ns) = 1
        /\ q \in Nat /\ Len(ns) \in 1..SourceSlotCount
    BY <1>0, ConfigValid DEF Kinds, SeqIds
  <2>2. ReserveStorage("Arena", ns, q) /\ InspectReserve(n, "Arena") = "Ready"
    BY <1>3 DEF ReserveArena
  <2>3. residentCount + Len(ns) <= SourceSlotCount
    BY <1>0, <2>1, <2>2, SlotAvailable
  <2> HIDE DEF ns
  <2> QED
    BY <1>0, <2>1, <2>2, <2>3, ArcReserve
<1>4. ASSUME NEW k \in 1..MaxArenaBatchSources, NEW ns \in [1..k -> PageRuns],
             NEW q \in 1..(MaxSeqId + 1 - k), ReserveArenaBatch(ns, q)
      PROVE  ArcInv'
  <2>1. k \in Nat /\ k > 0 /\ q \in Nat /\ "Arena" \in Kinds
    BY ConfigValid DEF Kinds
  <2>2. ns \in Seq(PageRuns) /\ Len(ns) = k
    BY <2>1, RunsAreSequences
  <2>3. /\ k <= HighWaterSources /\ residentCount <= HighWaterSources - k
        /\ ReserveStorage("Arena", ns, q)
    BY <1>4, <2>2 DEF ReserveArenaBatch
  <2>4. Len(ns) \in 1..SourceSlotCount /\ residentCount + Len(ns) <= SourceSlotCount
    BY <1>b, <2>1, <2>2, <2>3, ConfigValid
  <2> QED
    BY <1>0, <2>1, <2>2, <2>3, <2>4, ArcReserve
<1>5. ASSUME NEW s \in Slots, NEW q \in SeqIds, SealLegacy(s, q)
      PROVE  ArcInv'
  <2>1. /\ UNCHANGED ringOnly /\ entries[s].state = "Writing"
        /\ entries' = [entries EXCEPT ![s].state = "Ready", ![s].seqId = q]
    BY <1>5 DEF SealLegacy
  <2>2. \A r \in Slots : r # s => entries'[r] = entries[r]
    BY <1>0, <2>1 DEF TypeOK
  <2>3. entries'[s] = [entries[s] EXCEPT !.state = "Ready", !.seqId = q]
    BY <1>0, <2>1 DEF TypeOK
  <2>4. Keeps(s) /\ entries'[s].state = "Ready"
    BY <1>a, <2>3 DEF EntryType
  <2> QED
    BY <1>s, <2>1, <2>2, <2>4
<1>6. ASSUME NEW S \in SUBSET Slots, NEW order, PublishStrict(S, order)
      PROVE  ArcInv'
  BY <1>6, <1>t DEF PublishStrict, SetStates, States
<1>7. ASSUME NEW s \in Slots, SealArena(s)
      PROVE  ArcInv'
  BY <1>6, <1>7, {s} \in SUBSET Slots DEF SealArena
<1>8. ASSUME SealArenaBatch
      PROVE  ArcInv'
  BY <1>6, <1>8, BatchSlots \in SUBSET Slots DEF SealArenaBatch, BatchSlots
<1>9. ASSUME NEW s \in Slots, AbortLegacy(s)
      PROVE  ArcInv'
  <2>1. /\ entries[s].state = "Writing" /\ entries[s].kind = "Legacy"
        /\ RollbackNewest(s, 1) /\ s = PreviousSlot(sourceTail)
        /\ compatibilityResident' = compatibilityResident - 1
    BY <1>9 DEF AbortLegacy
  <2>2. SlotAfter(s, 1) = sourceTail /\ 1 \in 1..SourceSlotCount
    <3>1. sourceTail \in Slots
      BY <1>0 DEF TypeOK
    <3> QED
      BY <2>1, <3>1, ConfigValid DEF PreviousSlot, SlotAfter, Slots
  <2> DEFINE S == {r \in Slots : Distance(s, r) < 1}
  <2>3. S = {s}
    BY DistanceOne
  <2>4. /\ SlotArc' /\ PageArc' /\ Marked' /\ Rewound'
        /\ Resident' = Resident \ S /\ S \subseteq Resident
    BY <1>0, <2>1, <2>2, ArcRollback
  <2>5. \A r \in Slots : r \notin S => entries'[r] = entries[r]
    BY <1>0, <2>1, RollbackEntries
  <2> HIDE DEF S
  <2>6. LegacyResident \cap S = {s}
    BY <2>1, <2>3, <2>4 DEF LegacyResident
  <2>7. Cardinality(LegacyResident \cap S) = 1
    BY <2>6, FS_Singleton
  <2>8. S \in SUBSET Slots /\ \A r \in Resident \ S : entries'[r].kind = entries[r].kind
    BY <2>3, <2>5 DEF Resident
  <2>9. LegacyCounted'
    BY <1>0, <2>1, <2>4, <2>7, <2>8, LegacyReleased
  <2> QED
    BY <2>4, <2>9 DEF ArcInv
<1>10. ASSUME NEW S \in SUBSET Slots, DetachForAbort(S)
       PROVE  ArcInv'
  <2>1. UNCHANGED ringOnly
    BY <1>10 DEF DetachForAbort, laneVars
  <2>2. ASSUME NEW s \in Slots
        PROVE  \/ entries'[s] = entries[s]
               \/ Keeps(s) /\ entries[s].state # "Free" /\ entries'[s].state # "Free"
    <3>1. CASE s \notin S
      BY <1>10, <3>1 DEF DetachForAbort
    <3>2. CASE s \in S
      <4>1. /\ entries'[s] = [entries[s] EXCEPT !.state = "Reclaiming", !.detach = "Abort"]
            /\ entries[s].state = "Writing"
        BY <1>10, <3>2 DEF DetachForAbort
      <4> QED
        BY <1>a, <3>2, <4>1 DEF EntryType
    <3> QED
      BY <3>1, <3>2
  <2> QED
    BY <1>s, <2>1, <2>2
<1>11. ASSUME NEW s \in Slots, AbortArenaDetach(s)
       PROVE  ArcInv'
  BY <1>10, <1>11, {s} \in SUBSET Slots DEF AbortArenaDetach
<1>12. ASSUME NEW failStop \in BOOLEAN, AbortBatchDetach(failStop)
       PROVE  ArcInv'
  BY <1>10, <1>12, BatchSlots \in SUBSET Slots DEF AbortBatchDetach, BatchSlots
<1>13. ASSUME NEW o \in Slots, NEW k \in 1..SourceSlotCount, FinishAbort(o, k)
       PROVE  ArcInv'
  <2> DEFINE S == {s \in Slots : Distance(o, s) < k}
  <2>1. /\ RollbackNewest(o, k) /\ SlotAfter(o, k) = sourceTail
        /\ compatibilityResident' = compatibilityResident
        /\ \A s \in S : entries[s].state = "Reclaiming" /\ entries[s].detach = "Abort"
    BY <1>13 DEF FinishAbort
  <2>2. o \in S
    BY ConfigValid DEF Distance, Slots
  <2>3. entries[o].state # "Free"
    BY <2>1, <2>2
  <2>4. /\ SlotArc' /\ PageArc' /\ Marked' /\ Rewound'
        /\ Resident' = Resident \ S /\ S \subseteq Resident
    BY <1>0, <2>1, <2>3, ArcRollback
  <2>5. \A r \in Slots : r \notin S => entries'[r] = entries[r]
    BY <1>0, <2>1, RollbackEntries
  <2>6. S \in SUBSET Slots
    OBVIOUS
  <2> HIDE DEF S
  <2>7. LegacyResident \cap S = {}
    BY <1>0, <2>1 DEF LegacyResident, Resident, CreditsHeld
  <2>8. Cardinality(LegacyResident \cap S) = 0
    BY <2>7, FS_EmptySet
  <2>9. compatibilityResident' = compatibilityResident - 0
    BY <1>0, <2>1 DEF TypeOK
  <2>10. \A r \in Resident \ S : entries'[r].kind = entries[r].kind
    BY <2>5 DEF Resident
  <2>11. LegacyCounted'
    BY <1>0, <2>4, <2>6, <2>8, <2>9, <2>10, LegacyReleased
  <2> QED
    BY <2>4, <2>11 DEF ArcInv
<1>14. ASSUME NEW s \in Slots, AbortArenaFinish(s)
       PROVE  ArcInv'
  BY <1>13, <1>14, ConfigValid, 1 \in 1..SourceSlotCount DEF AbortArenaFinish
<1>15. ASSUME AbortBatchFinish
       PROVE  ArcInv'
  <2>1. batch.first \in Slots /\ batch.count \in 0..SourceSlotCount
    BY <1>0 DEF TypeOK, BatchType
  <2>2. FinishAbort(batch.first, batch.count) /\ batch.count > 0
    BY <1>15 DEF AbortBatchFinish
  <2>3. batch.count \in 1..SourceSlotCount
    BY <1>b, <2>1, <2>2
  <2> QED
    BY <1>13, <2>1, <2>2, <2>3
<1>16. ASSUME NEW k \in 1..ReadyFifoCount, ReserveReadyPrefix(k)
       PROVE  ArcInv'
  <2> DEFINE S == {ready[i] : i \in 1..k}
  <2>1. /\ SetStates(S, "TentativeRepresented") /\ UNCHANGED ringOnly
        /\ \A s \in S : entries[s].state = "Ready"
    BY <1>16 DEF ReserveReadyPrefix, entriesOnly, laneVars
  <2> HIDE DEF S
  <2> QED
    BY <1>t, <2>1 DEF States
<1>17. TentativeValid => \A s \in Members(tentative) :
         entries[s].state = "TentativeRepresented"
  BY DEF TentativeValid, Members
<1>18. ASSUME RestoreReadyPrefix
       PROVE  ArcInv'
  <2>1. /\ SetStates(Members(tentative), "Ready") /\ UNCHANGED ringOnly
        /\ \A s \in Members(tentative) : entries[s].state = "TentativeRepresented"
    BY <1>17, <1>18 DEF RestoreReadyPrefix, entriesOnly, laneVars
  <2> QED
    BY <1>t, <2>1 DEF States
<1>19. ASSUME CommitReadyPrefix
       PROVE  ArcInv'
  <2>1. UNCHANGED ringOnly /\ TentativeValid
    BY <1>19 DEF CommitReadyPrefix, entriesOnly, laneVars
  <2>2. ASSUME NEW s \in Slots
        PROVE  \/ entries'[s] = entries[s]
               \/ Keeps(s) /\ entries[s].state # "Free" /\ entries'[s].state # "Free"
    <3>1. CASE s \notin Members(tentative)
      BY <1>19, <3>1 DEF CommitReadyPrefix
    <3>2. CASE s \in Members(tentative)
      <4>1. entries'[s] = [entries[s] EXCEPT !.state = "Represented", !.reserved = FALSE]
        BY <1>19, <3>2 DEF CommitReadyPrefix
      <4> QED
        BY <1>a, <1>17, <2>1, <3>2, <4>1 DEF EntryType
    <3> QED
      BY <3>1, <3>2
  <2> QED
    BY <1>s, <2>1, <2>2
<1>20. ASSUME NEW S \in SUBSET Slots,
              NEW before \in {"Represented", "Submitted"},
              NEW after \in {"Submitted", "Completed"},
              TransitionAll(S, before, after)
       PROVE  ArcInv'
  <2>1. /\ SetStates(S, after) /\ \A s \in S : entries[s].state = before
        /\ UNCHANGED ringOnly
    BY <1>20 DEF TransitionAll, entriesOnly, laneVars
  <2> QED
    BY <1>t, <2>1 DEF States
<1>21. ASSUME NEW S \in SUBSET Slots, SubmitSources(S) \/ CompleteAll(S)
       PROVE  ArcInv'
  BY <1>20, <1>21 DEF SubmitSources, CompleteAll
<1>22. ASSUME NEW s \in Slots, CompleteInline(s)
       PROVE  ArcInv'
  BY <1>20, <1>22, {s} \in SUBSET Slots DEF CompleteInline
<1>23. ASSUME NEW s \in Slots, TakeGroupSettlement(s)
       PROVE  ArcInv'
  <2>1. /\ entries' = [entries EXCEPT ![s].settled = TRUE] /\ UNCHANGED ringOnly
        /\ entries[s].state = "Completed"
    BY <1>23 DEF TakeGroupSettlement, entriesOnly, laneVars
  <2>2. \A r \in Slots : r # s => entries'[r] = entries[r]
    BY <1>0, <2>1 DEF TypeOK
  <2>3. entries'[s] = [entries[s] EXCEPT !.settled = TRUE]
    BY <1>0, <2>1 DEF TypeOK
  <2>4. Keeps(s) /\ entries'[s].state = entries[s].state
    BY <1>a, <2>3 DEF EntryType
  <2> QED
    BY <1>s, <2>1, <2>2, <2>4
<1>24. ASSUME NEW s \in Slots, BeginPostEncodeRetire(s) \/ BeginReclaim(s)
       PROVE  ArcInv'
  <2>1. /\ BeginRelease(s) /\ entries[s].state \in {"Represented", "Completed"}
        /\ UNCHANGED ringOnly
    BY <1>24 DEF BeginPostEncodeRetire, BeginReclaim, Reclaimable, BeginRelease,
                 entriesOnly, laneVars
  <2> DEFINE d == IF entries[s].kind = "Arena" THEN "Reclaim" ELSE "None"
  <2>2. entries' = [entries EXCEPT ![s].state = "Reclaiming", ![s].detach = d]
    BY <2>1 DEF BeginRelease
  <2> HIDE DEF d
  <2>3. \A r \in Slots : r # s => entries'[r] = entries[r]
    BY <1>0, <2>2 DEF TypeOK
  <2>4. entries'[s] = [entries[s] EXCEPT !.state = "Reclaiming", !.detach = d]
    BY <1>0, <2>2 DEF TypeOK
  <2>5. Keeps(s) /\ entries'[s].state = "Reclaiming"
    BY <1>a, <2>4 DEF EntryType
  <2> QED
    BY <1>s, <2>1, <2>3, <2>5
<1>25. ASSUME NEW s \in Slots, FinishReclaim(s)
       PROVE  ArcInv'
  <2> DEFINE d == IF entries[s].kind = "Legacy" THEN 1 ELSE 0
  <2>1. compatibilityResident' = compatibilityResident - d /\ entries[s].state = "Reclaiming"
    BY <1>25 DEF FinishReclaim
  <2>2. SlotArc' /\ PageArc' /\ Marked' /\ Rewound' /\ Resident' = Resident \ {s}
    BY <1>0, <1>25, ArcReclaim
  <2>3. \A r \in Slots : r # s => entries'[r] = entries[r]
    <3>1. PICK h, tl, pt, oc : Release({s}, h, tl, pt, oc)
      BY <1>25 DEF FinishReclaim
    <3> QED
      BY <3>1 DEF Release
  <2>4. LegacyResident \cap {s} = IF entries[s].kind = "Legacy" THEN {s} ELSE {}
    BY <2>1 DEF LegacyResident, Resident
  <2>5. Cardinality(LegacyResident \cap {s}) = d
    <3>1. Cardinality({s}) = 1 /\ Cardinality({}) = 0
      BY FS_Singleton, FS_EmptySet
    <3> QED
      BY <2>4, <3>1
  <2>6. d \in Int /\ {s} \in SUBSET Slots
    OBVIOUS
  <2> HIDE DEF d
  <2>7. LegacyCounted'
    BY <1>0, <2>1, <2>2, <2>3, <2>5, <2>6, LegacyReleased DEF Resident
  <2> QED
    BY <2>2, <2>7 DEF ArcInv
<1>26. CASE StopAdmission
  BY <1>s, <1>26 DEF StopAdmission, ringVars, laneVars, readyVars
<1>27. CASE UNCHANGED tapeVars
  BY <1>s, <1>27 DEF tapeVars, ringVars, laneVars, readyVars
<1> QED
  BY <1>1, <1>2, <1>3, <1>4, <1>5, <1>7, <1>8, <1>9, <1>11, <1>12, <1>14, <1>15,
     <1>16, <1>18, <1>19, <1>21, <1>22, <1>23, <1>24, <1>25, <1>26, <1>27
  DEF Next, Produce, Encode, Finish

\* The empty tape: both arcs are empty.
LEMMA ArcInit == Init => ArcInv
<1> SUFFICES ASSUME Init PROVE ArcInv
  OBVIOUS
<1>1. /\ \A s \in Slots : entries[s].state = "Free"
      /\ \A p \in Pages : pages[p] = 0
      /\ sourceHead = 0 /\ sourceTail = 0 /\ residentCount = 0
      /\ pageTail = 0 /\ occupiedPages = 0 /\ compatibilityResident = 0
  BY DEF Init, FreeEntry
<1>2. 0 \in Slots /\ 0 \in Pages /\ 0 \in 0..SourceSlotCount /\ 0 \in 0..HighWaterPages
  BY ConfigValid DEF Slots, Pages
<1>3. \A s \in Slots : ~(Distance(0, s) < 0)
  BY ConfigValid DEF Distance, Slots
<1>4. SlotAfter(0, 0) = 0 /\ PageAfter(0, 0) = 0
  BY ConfigValid DEF SlotAfter, PageAfter
<1>5. SlotArc
  BY <1>1, <1>2, <1>3, <1>4 DEF SlotArc
<1>6. \A p \in Pages : ~(PageDistance(0, p) < 0)
  BY ConfigValid DEF PageDistance, Pages
<1>7. PICK off : off \in [0..0 -> 0..HighWaterPages] /\ off[0] = 0
  <2>1. [i \in 0..0 |-> 0] \in [0..0 -> 0..HighWaterPages] /\ [i \in 0..0 |-> 0][0] = 0
    BY <1>2
  <2> QED
    BY <2>1
<1>8. Chain(0, off)
  BY <1>1, <1>3, <1>4, <1>6, <1>7 DEF Chain
<1>9. PageArc
  BY <1>1, <1>2, <1>7, <1>8 DEF PageArc
<1>10. Resident = {} /\ LegacyResident = {}
  BY <1>1 DEF Resident, LegacyResident
<1>11. Marked
  BY <1>1, <1>10 DEF Marked
<1>12. LegacyCounted /\ Rewound
  BY <1>1, <1>10, FS_EmptySet DEF LegacyCounted, Rewound
<1> QED
  BY <1>5, <1>9, <1>11, <1>12 DEF ArcInv

\* The pages a source holds carry its allocation and nobody else's, every other
\* page is free, the counters agree with the ring, and a request the capacity
\* checks admit is never found corrupt, for every geometry of the tape.
THEOREM PagesCorrect == Spec => []PagesExact
<1>1. IdentityInv /\ ArcInv => PagesExact
  BY ArcProperty DEF IdentityInv
<1> QED
  BY <1>1, IdentityInit, QueueInit, ArcInit, QueueStep, ArcStep, IdentityStep, PTL DEF Spec

-----------------------------------------------------------------------------
(* The admission latch. *)

\* With nothing resident every counter the latch looks at is zero, and the page
\* tail is at the start of the arena.
EmptyCounted ==
  residentCount = 0 =>
    /\ occupiedPages = 0 /\ pageTail = 0
    /\ reservations = 0 /\ compatibilityResident = 0

\* It follows from the arcs and the credits.
LEMMA EmptyCounts ==
  IdentityInv /\ QueueInv /\ ArcInv => EmptyCounted
<1> SUFFICES ASSUME IdentityInv, QueueInv, ArcInv, residentCount = 0
             PROVE  /\ occupiedPages = 0 /\ pageTail = 0
                    /\ reservations = 0 /\ compatibilityResident = 0
  BY DEF EmptyCounted
<1>0. TypeOK /\ SlotArc /\ PageArc /\ LegacyCounted /\ Rewound /\ CreditsHeld /\ CreditsCounted
  BY DEF IdentityInv, ArcInv, QueueInv
<1>1. occupiedPages = 0
  BY <1>0 DEF PageArc, Chain
<1>2. pageTail = 0
  BY <1>0 DEF Rewound
<1>3. \A s \in Slots : entries[s].state = "Free"
  <2>1. \A s \in Slots : ~(Distance(sourceHead, s) < 0)
    BY <1>0, ConfigValid DEF TypeOK, Distance, Slots
  <2> QED
    BY <1>0, <2>1 DEF SlotArc
<1>4. Credited = {}
  BY <1>0, <1>3 DEF Credited, CreditsHeld, CreditStates
<1>5. LegacyResident = {}
  BY <1>3 DEF LegacyResident, Resident
<1> QED
  BY <1>0, <1>1, <1>2, <1>4, <1>5, FS_EmptySet DEF CreditsCounted, LegacyCounted

\* A release that empties the tape reopens every dimension.
LEMMA ReopensEmpty ==
  ASSUME closed \in SUBSET Dimensions, ~ stopped
  PROVE  StillClosed(0, 0, 0, 0) = {}
<1>1. /\ 0 <= LowWaterSources /\ 0 < CompatibilityPayloadCount
      /\ 0 <= LowWaterPages /\ 0 <= LowWaterReady
  BY ConfigValid
<1> QED
  BY <1>1 DEF StillClosed, Dimensions

\* An empty tape presses on no dimension.
LEMMA EmptyNoPressure ==
  ASSUME NEW n \in PageRuns, NEW kind \in Kinds, residentCount = 0, occupiedPages = 0,
         pageTail = 0, reservations = 0, compatibilityResident = 0
  PROVE  PressureDimensions(n, kind) = {}
<1>1. /\ ~(0 >= HighWaterSources) /\ ~(0 >= CompatibilityPayloadCount)
      /\ ~(0 >= HighWaterReady)
  BY ConfigValid
<1>2. CountPressure(kind, 0, 0, 0) = {}
  BY <1>1 DEF CountPressure
<1>3. n \in Nat /\ n <= HighWaterPages /\ HighWaterPages <= PageCount /\ PageCount \in Nat
  BY ConfigValid DEF PageRuns
<1>4. WrapPadding(0, n) = 0
  BY <1>3, ConfigValid DEF WrapPadding
<1>5. ~(0 + WrapPadding(0, n) + n > HighWaterPages)
  BY <1>3, <1>4, ConfigValid
<1> QED
  BY <1>2, <1>5 DEF PressureDimensions

\* Every step preserves the property of the latch: the latch of an empty tape
\* is touched by a refused probe, and by a release that empties it.
LEMMA AdmitStep ==
  /\ TypeOK /\ TypeOK' /\ EmptyCounted /\ EmptyCounted' /\ EmptyTapeAdmits /\ ArcInv
  /\ [Next]_tapeVars
  => EmptyTapeAdmits'
<1> SUFFICES ASSUME TypeOK, TypeOK', EmptyCounted, EmptyCounted', EmptyTapeAdmits, ArcInv,
                    [Next]_tapeVars, residentCount' = 0, ~ stopped'
             PROVE  closed' = {}
  BY DEF EmptyTapeAdmits
<1>0. /\ occupiedPages' = 0 /\ pageTail' = 0 /\ reservations' = 0
      /\ compatibilityResident' = 0
  BY DEF EmptyCounted
<1>a. closed \in SUBSET Dimensions /\ stopped \in BOOLEAN
  BY DEF TypeOK
<1>b. residentCount \in Nat
  BY ConfigValid DEF ArcInv, SlotArc
<1>s. ASSUME residentCount' = residentCount, stopped => stopped', closed' \subseteq closed
      PROVE  closed' = {}
  BY <1>s DEF EmptyTapeAdmits
<1>r. ASSUME stopped => stopped', closed' = StillClosed(0, 0, 0, 0)
      PROVE  closed' = {}
  BY <1>a, <1>r, ReopensEmpty
<1>n. ASSUME NEW kind, NEW ns \in Seq(PageRuns), NEW q, ReserveStorage(kind, ns, q), ns # <<>>
      PROVE  FALSE
  <2>1. residentCount' = residentCount + Len(ns)
    BY <1>n DEF ReserveStorage, PlaceSources
  <2>2. Len(ns) \in Nat /\ Len(ns) > 0
    BY <1>n
  <2> QED
    BY <1>b, <2>1, <2>2
<1>1. ASSUME NEW n \in PageRuns, ReserveLegacy(n) \/ \E q \in SeqIds : ReserveArena(n, q)
      PROVE  FALSE
  <2>1. <<n>> \in Seq(PageRuns) /\ <<n>> # <<>>
    OBVIOUS
  <2> QED
    BY <1>1, <1>n, <2>1 DEF ReserveLegacy, ReserveArena
<1>2. ASSUME NEW n \in PageRuns, NEW kind \in Kinds, ProbeReserve(n, kind)
      PROVE  closed' = {}
  <2>1. /\ InspectReserve(n, kind) \in {"TemporaryPressure", "Corrupt"}
        /\ stopped' = (stopped \/ InspectReserve(n, kind) = "Corrupt")
        /\ closed' = IF InspectReserve(n, kind) = "TemporaryPressure"
               THEN closed \cup PressureDimensions(n, kind) ELSE closed
        /\ residentCount' = residentCount
    BY <1>2 DEF ProbeReserve, ringVars
  <2>2. PressureDimensions(n, kind) = {}
    BY <2>1, EmptyNoPressure DEF EmptyCounted
  <2> QED
    BY <1>a, <1>s, <2>1, <2>2
<1>4. ASSUME NEW k \in 1..MaxArenaBatchSources, NEW ns \in [1..k -> PageRuns],
             NEW q \in 1..(MaxSeqId + 1 - k), ReserveArenaBatch(ns, q)
      PROVE  FALSE
  <2>1. k \in Nat /\ k > 0
    BY ConfigValid
  <2>2. ns \in Seq(PageRuns) /\ Len(ns) = k
    BY <2>1, RunsAreSequences
  <2>3. ns # <<>>
    BY <2>1, <2>2
  <2> QED
    BY <1>4, <1>n, <2>2, <2>3 DEF ReserveArenaBatch
<1>5. ASSUME NEW s \in Slots, NEW q \in SeqIds, SealLegacy(s, q)
      PROVE  closed' = {}
  BY <1>5, <1>s DEF SealLegacy
<1>6. ASSUME NEW s \in Slots, SealArena(s) \/ SealArenaBatch
      PROVE  closed' = {}
  BY <1>6, <1>s DEF SealArena, SealArenaBatch, PublishStrict
<1>7. ASSUME NEW s \in Slots, AbortLegacy(s)
      PROVE  closed' = {}
  BY <1>0, <1>7, <1>r DEF AbortLegacy
<1>8. ASSUME NEW S, DetachForAbort(S), stopped => stopped'
      PROVE  closed' = {}
  BY <1>8, <1>s DEF DetachForAbort
<1>9. ASSUME NEW s \in Slots, AbortArenaDetach(s)
      PROVE  closed' = {}
  BY <1>9, <1>8 DEF AbortArenaDetach
<1>10. ASSUME NEW failStop \in BOOLEAN, AbortBatchDetach(failStop)
       PROVE  closed' = {}
  BY <1>10, <1>8 DEF AbortBatchDetach
<1>11. ASSUME NEW o, NEW k, FinishAbort(o, k), stopped => stopped'
       PROVE  closed' = {}
  <2>1. /\ closed' = StillClosed(residentCount', compatibilityResident, reservations,
                           occupiedPages')
        /\ compatibilityResident' = compatibilityResident /\ reservations' = reservations
    BY <1>11 DEF FinishAbort
  <2> QED
    BY <1>0, <1>11, <1>r, <2>1
<1>12. ASSUME NEW s \in Slots, AbortArenaFinish(s)
       PROVE  closed' = {}
  BY <1>11, <1>12 DEF AbortArenaFinish
<1>13. ASSUME AbortBatchFinish
       PROVE  closed' = {}
  BY <1>11, <1>13 DEF AbortBatchFinish
<1>14. ASSUME NEW k \in 1..ReadyFifoCount, ReserveReadyPrefix(k)
       PROVE  closed' = {}
  BY <1>14, <1>s DEF ReserveReadyPrefix, entriesOnly
<1>15. ASSUME RestoreReadyPrefix
       PROVE  closed' = {}
  BY <1>15, <1>s DEF RestoreReadyPrefix, entriesOnly
<1>16. ASSUME CommitReadyPrefix
       PROVE  closed' = {}
  <2>1. closed' \subseteq closed
    BY <1>16 DEF CommitReadyPrefix, StillClosed
  <2> QED
    BY <1>16, <1>s, <2>1 DEF CommitReadyPrefix, entriesOnly
<1>17. ASSUME NEW S, SubmitSources(S) \/ CompleteAll(S)
       PROVE  closed' = {}
  BY <1>17, <1>s DEF SubmitSources, CompleteAll, TransitionAll, entriesOnly
<1>18. ASSUME NEW s \in Slots, CompleteInline(s) \/ TakeGroupSettlement(s)
       PROVE  closed' = {}
  BY <1>18, <1>s DEF CompleteInline, TransitionAll, TakeGroupSettlement, entriesOnly
<1>19. ASSUME NEW s \in Slots, BeginPostEncodeRetire(s) \/ BeginReclaim(s)
       PROVE  closed' = {}
  BY <1>19, <1>s DEF BeginPostEncodeRetire, BeginReclaim, BeginRelease, entriesOnly
<1>20. ASSUME NEW s \in Slots, FinishReclaim(s)
       PROVE  closed' = {}
  <2>1. /\ closed' = StillClosed(residentCount', compatibilityResident', reservations,
                           occupiedPages')
        /\ reservations' = reservations /\ stopped' = stopped
    BY <1>20 DEF FinishReclaim, readyVars
  <2> QED
    BY <1>0, <1>r, <2>1
<1>21. CASE StopAdmission
  BY <1>21 DEF StopAdmission
<1>22. CASE UNCHANGED tapeVars
  BY <1>22, <1>s DEF tapeVars, ringVars
<1>23. Slots # {}
  <2>1. 0 \in Slots
    BY ConfigValid DEF Slots
  <2> QED
    BY <2>1
<1> QED
  BY <1>1, <1>2, <1>4, <1>5, <1>6, <1>7, <1>9, <1>10, <1>12, <1>13, <1>14, <1>15,
     <1>16, <1>17, <1>18, <1>19, <1>20, <1>21, <1>22, <1>23
  DEF Next, Produce, Encode, Finish

\* An empty tape that was not stopped admits: no dimension stays latched with
\* nothing left whose release could reopen it.
THEOREM AdmissionCorrect == Spec => []EmptyTapeAdmits
<1>1. Init => EmptyTapeAdmits
  BY DEF Init, EmptyTapeAdmits
<1>2. IdentityInv => TypeOK
  BY DEF IdentityInv
<1> QED
  BY <1>1, <1>2, EmptyCounts, AdmitStep, IdentityInit, QueueInit, ArcInit, QueueStep,
     ArcStep, IdentityStep, PTL DEF Spec
=============================================================================

# A TLA+ verification of dxmt9's command path

dxmt9 runs Direct3D 9 programs under Wine on Metal. The Windows side records
the program's calls into flat chunks; the Unix side replays them into a command
queue that encodes Metal command buffers, submits them, and recycles memory as
the GPU finishes. This directory models the protocols on that path: the replay
worker and its fences, the ring of sources between producer and encoder, the
threads that move a source from "being written" to "reclaimed", the releases
that cut open sessions, and the pacing, drawables and window-system changes
around a Present. `PROJECT.json` names, for each definition, the lines it
stands for.

Paths below are relative to `src/src/dxmt9/` unless they say otherwise.

## Inventory

### What is on the path of a command

| Part | State it keeps | Operations | Talks to |
|---|---|---|---|
| PE recorder (`../d3d9/d3d9_pe_*`) | open chunk, shadow D3D9 state, state blocks | record a call, seal a chunk, commit it | chunk registry through the Wine bridge |
| Chunk registry (`../d3d9/device_c_chunk_*`) | imported chunks | import, decode, replay | command queue |
| Replay offload (`../d3d9/device_c_replay_offload.*`) | a bounded FIFO, one worker, a ledger of ordinals per resource, query receipts, a fail-stop latch | reserve, commit, replay, fence one resource or all, poll, poison, stop | application threads, command queue |
| Command queue (`dxmt9_command_queue.cpp`) | the scheduling mutex, the ring of chunk slots, sequence numbers, three worker threads | draw, clear, present, map, flush, arena build/publish/abort, stop | lifecycle controller, resource pool, presenter |
| Queue lifecycle controller (`dxmt9_queue.cpp`) | slot states, `pendingCompletion_`, `completedSeqQueue_`, settlement history, poison | ensure a slot, commit a chunk, dequeue/reserve/restore, submit, complete, drain, reclaim | tape, worker loops |
| CPU-ready tape (`dxmt9_cpu_ready_tape.hpp`) | source ring, page ring, ready FIFO, tentative prefix, admission latch | reserve, publish, represent, submit, complete, reclaim, abort | no lock of its own; the callers hold the mutex |
| Session coordinator (`dxmt9_command_queue_cpu_ready_session.cpp`) | open session, capacity lease, window of candidates | plan a prefix, encode, retain, retire early, submit | tape, releases posted by producers |
| Post-encode ledger (`dxmt9_post_encode_retirement.hpp`) | receipts at `seqId` modulo the ledger size | activate, submit, complete, release | controller |
| Session release (`dxmt9_session_release.*`, `dxmt9_closed_prefix.hpp`) | a ring of ordered events, a terminal latch, fences, covered ordinals, the closed-prefix receipt | post, peek, acknowledge, release on the coordinator's own account | replay thread, teardown, coordinator |
| Present pacing (`dxmt9_command_queue.{cpp,hpp}`) | completed present ordinals and sequences, deferred targets, latency | present, both boundaries, abort of the ordinal gate | encoder, watcher, finish thread |
| Window-system gate and presenter registry (`dxmt9_command_queue.cpp`) | the gate, uses inside it, slots with generations | enter, leave, quiesce, swap, final quiesce, reopen | swap chains, Presents, arena builders |
| Presenter (`dxmt9_presenter.mm`, `dxmt9_drawable_token_state.hpp`) | tokens, requests, the held flag, prefetched drawable and its generation | acquire by four policies, prefetch, wait, destroy | encoder, two acquire workers |
| Resource pool and marks (`dxmt9_resource_pool.cpp`, `dxmt9_mark_reclaim_predicates.hpp`) | `lastUsedSeqId` stamps, rename rings, mark tickets | mark, map, rename, destroy | producer, finish thread |
| Queries, ring arenas, encoders, shader and pipeline caches, frame graph, capture, tracing | see `PROJECT.json` | | |

Three worker threads run beside any number of client threads. The *encode
thread* takes published sources and records command buffers; the *completion
watcher* waits for each buffer on the GPU and settles it; the *finish thread*
advances `completedSeqId` and reclaims the tape head. They meet at one mutex
and the condition variables `writeCv`, `encodeCv`, `finishCv` and
`pendingCompletionCv_`.

### What is hard

* **Waiting.** A client may sleep for a chunk slot, for an inflight credit, or
  for a sequence; each worker sleeps for its queue. The hold that makes a wait
  predicate true has to notify the right condition variable, and a stop or a
  poison has to notify them all.
* **Notifiers that do not hold the waiter's mutex.** The window-system gate is
  opened, and its uses are retired, outside the mutex under which somebody
  tests it and falls asleep.
* **State seen before a wait and used after it.** `commitCurrentChunk` sleeps at
  the inflight cap holding the index of a chunk that another client may commit
  in the meantime; `mapBuffer` reads a stamp and then commits, sleeps, waits; a
  Present looks up its Presenter by an id taken before the gate held it back.
* **Two clocks.** A Present is paced by its ordinal when it is offloaded and by
  its sequence when it is not; different threads advance the two.
* **Ownership given back in several pieces.** A source owns a tape entry, pages,
  a control slot, an inflight credit and perhaps a receipt. They go back at
  different times, by different threads, and payload owners are destroyed with
  the mutex dropped in between.
* **Order.** Completion is published strictly by sequence, while sources may be
  tentatively reserved and put back, retired early, or completed inline by the
  encode thread without passing the watcher. Replayed, inline and direct work
  on the same resource must come in program order although only some of it
  goes through the worker. A release must cover what was recorded before it
  and may not wait for what comes after.
* **Partial failure.** A batch is aborted half built; a query marker refuses its
  sequence after the source has been published; the encoder throws or yields
  no command buffer; a replay fails with calls asleep behind it; the layer has
  no drawable; a new Presenter cannot be built.
* **Limits.** Four admission dimensions with hysteresis, a page ring whose runs
  may not wrap, a receipt ledger smaller than the number of sequences, a replay
  FIFO bounded in items and bytes, one drawable and one token slot.

`PROJECT.json` lists these as hazards at the line where each bites.

### What makes the parts correct

* Tape: allocation accounting is exact; an admitted source can always be
  published; the FIFO is in sequence order; identities are never shared; a
  group's storage leaves together; an empty tape admits.
* Queue: no published sequence is lost, duplicated or overtaken; credits and
  slots are exact; no internal check ever fires; no wakeup is lost; a stop ends
  publication and lets the workers be joined; a map observes the draws before it.
* Sessions: retaining sources never starves the producer that would end the
  session.
* Releases: a control that returns has covered its fence; no acknowledgement is
  refused by the transport; whoever posted comes back, or the queue has stopped.
* Presents: the application is never further ahead than it asked for, no boundary
  waits for a Present that was not made, each Present gets its own drawable and
  nothing uses a Presenter that was destroyed.
* Replay offload: effects on a resource come in program order, a fence that
  returned saw all earlier work, a poll reads the value captured for it, and a
  failed worker releases everybody.
* Buffers: a draw reads the bytes written before it was issued, however the buffer
  was renamed since, and no backing or record is reused or freed while a recorded
  command needs it.

## Modules

| Module | Models | Runs |
|---|---|---|
| `CpuReadyTape` | `CpuReadyTape`, and what each of its callers does to it in one hold of the mutex | `tape` |
| `CpuReadyTapeProofs` | theorems about it: identities, queues, groups, then storage | TLAPS |
| `QueueLifecycle` | `QueueLifecycleController` and the worker loops, compatibility chunks | through `QueueRefinement` |
| `OrderedCompletion` | the abstract service: sequences are committed, executed and completed in order | as a property |
| `QueueRefinement` | `QueueLifecycle` with the mapping onto `OrderedCompletion` | `queue_plain`, `queue_session` |
| `QueueProofs` | theorems about the queue and its refinement | TLAPS |
| `SessionRelease` | ordered and terminal releases, the coordinator that serves them | `session_release`, `teardown_raw` |
| `SessionReleaseProofs` | theorems about it | TLAPS |
| `WsiQuiescence` | the window-system gate, the presenter registry, replacement and teardown | `wsi`, `wsi_drain` |
| `WsiQuiescenceProofs` | theorems about it | TLAPS |
| `PresentPacing` | frame latency: both boundaries and the watermarks they wait for | `pacing` |
| `PresentPacingProofs` | theorems about it | TLAPS |
| `DrawableAcquire` | the Presenter's four acquire policies and its two workers | `drawable` |
| `DrawableAcquireProofs` | theorems about it | TLAPS |
| `ReplayOffload`, `MCReplayOffload` | the replay worker, its FIFO, ledger and fences | `replay`, `replay_lanes` |
| `ReplayOffloadProofs` | theorems about it | TLAPS |
| `BufferVersions` | a buffer's rename ring, marks, locks, deferred mutations and reclamation | `versions` |
| `BufferVersionsProofs` | theorems about it: lifetimes, then contents | TLAPS |

The modules do not share variables; where they overlap each keeps the part its
questions are about. `CpuReadyTape` keeps pages, arena sources, batches and
groups and leaves threads out; `QueueLifecycle` keeps the threads and reduces
the tape to the sequence of resident compatibility sources, whose FIFO order
and counts are what `CpuReadyTape` establishes. The modules around a Present
reduce the queue to what `OrderedCompletion` promises, an in-order sequence of
commit, submission and completion: `committed`, `encoded` and `completed` in
`WsiQuiescence`, `chunks`, `encoded`, `settled` and `completedSeqId` in
`PresentPacing`, `sources`, `submitted`, `completed` and `reclaimed` in
`SessionRelease`, `gpu` and `completed` in `BufferVersions` (which also reduces the
replay worker to its FIFO order and its ledger to `Pending`). That the real controller keeps this promise is what
`QueueRefinement` checks and `QueueProofs` proves.

### CpuReadyTape

The variables are the members of the class, under their names without the
underscore; `batch` is the `ArenaBatchReservation` the builder carries. An
action is one hold of the scheduling mutex by one caller. An abort or a
reclamation drops the mutex to destroy payload owners, so each is two actions
(`AbortArenaDetach`/`AbortArenaFinish`, `AbortBatchDetach`/`AbortBatchFinish`,
`BeginReclaim`/`FinishReclaim`), and everything else may run in between.

`InspectReserve` keeps the code's order of refusals (stopped, pressure,
corrupt). `StillClosed` is the hysteresis: a dimension closes when it reaches its
high water and reopens at its low water. `WrapPadding` is the part of the page
ring a run skips so as not to wrap; `Footprint` is what a release gives back.

Abstracted: raw, source and sequence ordinals advance together and are
compared together, so one number stands for the three; payload bytes, segments,
semantic summaries and producer identities; which of the interchangeable
compatibility payload blocks is used.

### QueueLifecycle and its refinement

| State | Code |
|---|---|
| `slots`, `writeIndex`, `writingSlot`, `nextSeqId`, `inflight` | the chunk ring in `SubmissionBinding` |
| `tape`, `closed` | resident sources oldest first, and the ready-pressure latch |
| `batch`, `session` | represented sources still to be encoded; sources the open session retains |
| `pending`, `watching` | `pendingCompletion_` and the buffer the watcher waits for |
| `completedQueue`, `completedSeqId`, `ledger` | the same |
| `pc`, `job`, `parked` | where each thread is in its loop or call, and which threads sleep on a condition variable |
| `lastUsed`, `drawn`, `mapDrawn` | one buffer's stamp, the last sequence that really draws from it, and `drawn` as a map found it |

Two clients stand for the application's threads: a writer, which draws, marks,
commits, presents and flushes, and a mapper, which maps the buffer. `Map` is the
slow lane; the fast lane takes no lock and waits for nothing. With
`SessionSources = 0` the encoder is `runEncodeLoop`; otherwise it is the
session coordinator, whose planning (which prefix to take, when to end a session
at a rendering boundary) is left open, so every plan it could make is covered.
`SessionDue` is the part of the planning that is not open: when it *must* end a
session.

A thread in `parked` sleeps until an action notifies its condition variable.
Spurious wakeups and the `encodeCv` notifications that only feed diagnostics
are left out, so they cannot hide a lost wakeup. Handing a command buffer to
the watcher happens in the hold in which its sources become Submitted; in the
code a second mutex guards that queue, and no other thread acts on a Submitted
source before it is handed over. A command buffer that ends in a GPU error is
settled like any other, as in the code.

`bound` says whether a source's query end marker accepted the sequence
(`CommitUnbound` is the branch where it did not). `EnsureStopped("undefined")`
is the dereference of an empty optional: the behaviour is undefined and the
model stops the writer there.

`QueueRefinement` instantiates `OrderedCompletion`: `committed` is
`lastCommittedSeqId`, `executed` the last sequence in `completedSeqQueue_`
(`Executed`; appended by the watcher, or by the encoder for an inline completion),
`waiting` (`Waiting`) the target of a client inside `waitForSequence`. `CompletesInOrder` is the safety part, `CompletesEventually`
the whole fair specification.

### SessionRelease

| State | Code |
|---|---|
| `sources`, `chunk`, `writing` | the published sources with their raw ordinals, the replay ordinal of the current chunk, the legacy writer's open work |
| `covered`, `coveredRaw`, `witness` | `sessionReleaseCovered{SeqId,RawOrdinal}_`, the receipt of `closedPrefixCoordinator_` |
| `session` | the command buffer that successive sources join, and whether its pass is open |
| `transport` | `sessionReleaseState_`: the event ring, last fences, the terminal latch and acknowledged ordinals |
| `coord`, `client`, `waiter`, `target` | the coordinator's place in its loop, the posting thread, a thread in `waitForSequence` and its published target |
| `moved` | whether the capacity generation advanced during a lease wait |

The client is the replay thread that reaches an ordered control, or the thread
that tears a swap chain down; they are one thread here because the bridge
drains the replay before it posts a teardown. The coordinator peeks, represents
every source up to the fence, closes the pass or submits, acknowledges; with
nothing posted it carries the session, parks (`IdleDone`), or releases on its
own account when someone waits for a sequence it holds. A lease is denied while
more than `LeaseLimit` sources are resident; the denied coordinator submits its
session or sleeps until the generation moves (`classifyFirstLeaseCapacityWait`).

### WsiQuiescence

`gate`, `users`, `admissionStopped` are the atomics of the gate; `slots`, `free`
the registry with its generations and free list; `live` the Presenter objects
not destroyed; `binding` the id each swap chain holds. A wait on a condition
variable is two steps, testing and going to sleep, because some notifiers do
not take the waiter's mutex. `PresentStep`, `ArenaStep` and `ChangeStep` are the
parts of a call in progress: a Present that enters, resolves, publishes and
leaves; an arena build that may append a Present; a replacement or a teardown
that arms, drains, fences, swaps, destroys and reopens. `RunPostCommitCallbacks`
is the callback the encoder runs after it has left the mutex.

### PresentPacing

`offload`, `presentOrdinal`, `failed` are the replay side; `chunks` ..
`presentQueue` the queue; `dequeued`, `presentCompleted`, `completedOrdinal` the
three watermarks; `deferredOrdinal`, `deferredSeq` the targets carried to the
next Present. `app` is the application's thread: before its Present it may wait
for an ordinal ("paced", the replay worker submits), after it for a sequence
("direct"). The latency arithmetic (`backBufferLatencyCap`,
`effectivePresentFrameLatency` and the clamps) is taken over as it is. All
notifiers of these waits hold the mutex, so a wait is a guard.

### DrawableAcquire

`token` is the state of each Present's token, `slot` the Presenter's one
registry slot, `requests`, `held`, `worker` the Async worker, `generation`,
`prefetched`, `requested`, `inFlight`, `fetcher` the prefetch worker. `Ahead` is
how many Presents may be submitted and not encoded. The layer may answer with
no drawable (`MayNil`), the encoder may leave a Present before it asks for one
(`MaySkip`), and appending a Present to a direct build may fail (`MayReject`).
`layer` counts the changes of the layer's properties. `configureLayer` is two steps:
`Configure` discards what was prefetched and starts a new generation under
`preAcquireMutex_`, `SetProps` changes the layer afterwards, without it. So is a
prefetch: `PreFetch` gets a drawable of the properties of that moment, `PreStore`
keeps it if the generation is still that of the request. `raced`, a history that
only a property reads, is set when the request was taken between the two steps of
`configureLayer`.

### ReplayOffload

`queue`, `queuedBytes`, `inFlight`, `stop` are the FIFO, `nextSeq`,
`lastQueued`, `lastReplayed`, `accepting`, `stopping`, `poisoned`, `terminal`
the ledger, `failed`, `wpc`, `witem` the worker, `pollOrdinal` the receipts.
Each step of a call is one critical section of the queue mutex or the ledger
mutex, or one atomic access; sleepers are kept in `asleep`. Chunk commits and
state-block applies hold the recorder mutex; `Lock`, `Unlock` and `GetData` do
not and interleave with them. `issued`, `effects` and `held` are histories that
the properties read and no guard does. `MCReplayOffload` gives the chunk sets.

### BufferVersions

One buffer, of a flavour chosen at the start: dynamic (a DISCARD lock renames the
backing), managed (a writable Unlock does, on the calling thread or as a task of
the replay FIFO), or plain (the CPU waits). `buf` is the pool's `BufferRecord` with
its rename ring; the content of a backing is, for each of a few cells, the number
of the write that put it there. `storage` is the core Buffer's shadow. The
application thread records draws, commits, locks, writes, unlocks and drops its
reference; a step of its calls is one critical section or one atomic read, so the
fast lane of `mapBuffer` works with a watermark that may be behind. The worker
marks a chunk without the mutex (`ReadTicket`, `StampLockFree`), restamps, and
appends draw by draw; the slot may be published at any point of this. `want` in a
draw, `era` and the counters are histories; a guard reads them only in
`PromiseKept`, which is what an application promises with NOOVERWRITE.

## Runs

| Run | Instance | Distinct states |
|---|---|---|
| `tape` | 3 source slots, 4 pages, runs of 1-2 pages, 2 ready entries, batches of 2, 4 allocations, 4 sequences | 1,068,625 |
| `queue_plain` | 3 chunk slots, plain encoder, 3 sequences | 84,130 |
| `queue_session` | 3 chunk slots, 1 receipt, sessions of 2, 3 sequences | 246,818 |
| `session_release` | 2 sources, 2 controls, 2 teardowns, 1 sequence wait, leases denied beyond 1 resident source, a stop | 980,017 |
| `wsi` | 1 application thread, 1 arena builder that may also own a change, 1 other owner, 2 swap chains, 2 Presents, 2 changes, a stop | 1,539,524 |
| `pacing` | all six boundary policies, latency unset or 2, 2 chunks queued, paced and direct Presents, failures and a stop, 3 chunks | 506,738 |
| `drawable` | all four acquire policies, 5 Presents, 3 ahead, 2 resizes, every failure | 803,498 |
| `replay` | 2 threads, 1 buffer, 1 query, all calls, FIFO of 2 items and 2 bytes, spans of 1 and 3 bytes, 3 calls, failures | 126,041 |
| `replay_lanes` | 1 thread, deferred and inline chunks, 5 calls, failures | 2,104,464 |
| `versions` | dynamic, managed and plain, 2 cells, 2 writes, 2 draws, 1 sequence of another source | 789,120 |
| `wsi_drain`, `teardown_raw` | the findings below | - |

**Why these bounds.** In `tape`, three slots and four pages make the source ring
and the page ring wrap within four allocations, with and without padding; the
high and low waters differ in every dimension, so each latch closes and
reopens; a batch of two beside one other source gives a group that completes one
member at a time, and an abort with and without a younger allocation. In the
queue runs the number of sequences exceeds the number of publishable chunks
(`SlotCount - 1`), so the inflight cap is met, slots are reused, and the ring
wraps; one receipt for three sequences makes receipts collide, and a source
then stays resident instead. A client can block in each of the three waits; with
two chunk slots the wait for a slot is never met (it needs the ready latch closed
by an aborted third chunk), so there are three. In `session_release` two sources
and a lease limit of one make the coordinator be denied while it carries a
session; two controls give an event behind the head, and a second teardown meets
the latch of the first. In `wsi` two chains make a slot be freed and reused with
a new generation, and the builder that is also an owner gives the teardown from
inside an arena build. In `pacing` a third chunk lets a draw stand between two
Presents. In `drawable`
three Presents ahead fill the token slot, the worker and a waiting request at
once, and five let an older one be refused meanwhile. In `replay` a span of
three bytes exceeds the FIFO's two and is refused whole, and two threads
with three calls let one fence while the other commits and the worker fails. In
`versions` two writes and two draws give a draw on each side of a rename with
either of them unreplayed, and a foreign sequence makes tickets go stale;
`MCVersionsThree.cfg` repeats the invariants with three writes (5,039,286 states,
about a minute and a half), where a managed NOOVERWRITE upload can also meet a
queued mutation that an earlier write left behind.

The `Max...` constants bound counters that the program does not bound. At the
bound, and after a stop or a teardown, nothing more happens, so most runs do not
check deadlock; that no one is stuck is what the liveness properties say.
`replay_lanes` does check it.

**Fairness.** Weak fairness for the steps of a thread that is inside a call or
is a worker: the operating system runs a thread that is not asleep and the GPU
finishes every buffer. No client has to begin a call, and nothing has to stop.
Beyond that:

* `QueueLifecycle`: weak fairness for submitting a session that is due, because
  the coordinator's loop checks those conditions on every turn; strong fairness
  for committing a reserved prefix, because after restoring a prefix the
  coordinator reserves a single source and does not restore for ever.
* `PresentPacing`: encoding and failing to encode are one fair step; nothing
  says which.
* `DrawableAcquire`: the layer answers a request, with or without a drawable
  (`nextDrawable` times out); a destructor that has begun goes on.
* `BufferVersions`: the worker, the finish thread, the GPU and the steps inside a
  call. Publication of the writing slot is not assumed: a map has to publish what
  it waits for.
* `SessionRelease`: the coordinator, the waits of calls already entered, the
  GPU and reclamation.

### The properties

**Tape.** `PagesExact` (what is allocated is exactly what the resident entries
and the padding between them occupy, and the allocator never finds itself
corrupt), `PublicationNeverRefused`, `PublicationOrder`, `IdentityUnique`,
`GroupLeavesTogether`, `EmptyTapeAdmits`, and the type invariant.

**Queue.** `NoSpuriousPoison` (the checks in submit, settlement, reclaim and
dequeue find what the other threads left). `PipelineExact`: completed queue,
watcher, pending buffers, session, batch, tentative prefix and FIFO,
concatenated, are exactly the sequences after `completedSeqId`
(`PipelineFifo`); a credit goes back exactly once, by early retirement or by
the drain (`InflightExact`); slots match the tape (`SlotsMatchTape`).
`NoLostWakeup`, `UnboundNeverEncoded`, `MapObservesDraw`, `NoPublishAfterStop`;
`NobodyStuck` (`ClientReturns`, `CommittedCompletes`, `WorkersJoin`); and the
refinement. `PipelineFifo` and `SlotsMatchTape` are claimed while the queue is
not poisoned: after a failed inline completion the coordinator drops the source
it was working on. `NoLostWakeup` exempts the hold in which an inline
completion has freed its slot and not yet notified.

**Releases.** `ReleaseCovers` (when a control returns, every source up to its
fence is represented, and the pass closed, the sources submitted or complete as
it asked; a teardown finds every source reclaimed; a refusal means a stop or an
earlier teardown), `AckNeverRejected` (the checks on acknowledgement and on the receipt never
fail, so the session is never aborted open), `TransportExact` (events in ordinal
order, monotone fences, a head that does not change while it is being served,
watermarks that do not overtake the sources), `ReleasesReturn` (every call comes
back; exempt are states where the next event's raw ordinal makes the coordinator
refuse a published source, `RawCut`, which is the `teardown_raw` finding).

**Window system.** `QuiescenceProtects`: the registry is swapped only when the
gate is armed by that owner, no use is inside and every published Present has
completed (`SwapIsQuiescent`), so neither a use nor the encoder holds a
destroyed Presenter. `RegistryCoherent`: an id resolves to the Presenter it was
issued for or to nothing, however its slot was reused, and a bound id resolves.
`GateSleepersWoken`.

**Pacing.** `BoundariesSound` (the number of Presents ahead of the watermark
never exceeds the latency, for each kind; a boundary's target is a Present that
exists; the ordinal bound is claimed for an application whose Presents are all
offloaded), `CompletionAccounting` (the present queue holds Presents that are
settled and not drained, each once and in order, and no ordinal is retired before
its sequence),
`PacedReturns` (a boundary ends unless a Present went missing, which
`MCPacingLost.cfg` shows can happen).

**Drawables.** `DrawablesAccounted` (while the layer answers, Async holds one
drawable at a time; the destructor fulfils every token; `OwnToken`: a Present is
encoded with the drawable acquired for it), `PrefetchCurrent` (a prefetched drawable
is presented with the layer properties it was made for, however requests, arrivals,
skipped Presents and changes interleave; a request taken between the discard and the
change of `configureLayer` may miss that one change and no other, which is the race
of `MCDrawablePrefetch.cfg`), `FulfilledOnce`, `SyncEncoderReturns` (for the policies
other than Async; what Async does is in `MCDrawableWait.cfg`).
`OwnToken` is stated for Async and until the slot first refuses a token
(`MCDrawableStash.cfg`); under SyncOnSubmit a first Present for which the layer
has no drawable can take the token of the next.

**Replay.** `BooksExact` (bounds and byte counts are exact, and what an accepted
item retains is released once), `OrdinalOrder`, `DirectCallsCurrent` (`FenceHolds`: a lock or drain
that returned sees all earlier work on its resource; `ReceiptReadsCaptured`: a
poll reads the issue it captured),
`NothingStuck` (calls return, accepted items settle), `ProgramOrder` and
`ReplaySerial` (an inline replay runs alone). The inline lane is in the
one-thread run only, because of the race `MCReplayReadback.cfg` shows: that other
threads undo the drain is not checked by a passing run.

**Buffers.** `DrawsReadWhatWasWritten`: the backing a published draw captured holds,
in the cells it reads, what the application had written when it issued the draw,
whatever was locked, renamed, staged or uploaded since. `LifetimeCovered`: a
record is not freed while the application, a queued task or a draw can reach it,
and the stamps of record and backing cover every appended draw with the number it
is published under. `BuffersProgress`: Lock and Unlock return, also when the
sequence a mark used is never published, and a destroyed record is reclaimed. The
restamp of `markChunkResources` is in the model, but on the compatibility lane no
property needs it: each append, and publication, stamps again under the mutex. Its loss would
not be noticed here.

Each property has a mutant: a plausible slip in one definition (a missing
notification, an unclamped wait, a forgotten padding, a guard that is one late)
that makes TLC report the property violated.

## Findings

Two are runs of their own:

* **`wsi_drain`** - `leaveWsiPresentUse` decrements the use count and notifies
  without the mutex (`dxmt9_command_queue.cpp:9980`). Between the test and the
  sleep of `beginWsiQuiescence` (9784) the notification is lost and the
  replacement sleeps for ever.
* **`teardown_raw`** - a teardown posts its terminal event with no raw fence, and
  `requestTerminal` gives it the raw fence of the last ordered control
  (`dxmt9_session_release.cpp:207`). With a source of a newer chunk still Ready,
  selection refuses it (`dxmt9_command_queue_cpu_ready_session.cpp:1180`),
  nothing is selected and the loop ends (1589): the event is never acknowledged
  and the teardown waits for ever.

The other configurations each ask one question whose answer is no (`tlc -config
X.cfg M` shows the trace):

| Configuration, module | Property | What happens |
|---|---|---|
| `MCQueueStopDraw`, `QueueLifecycle` | `CurrentSlotEnsured` | `ensureWritingSlotUnlocked` discards the result of `ensureWriterSlot`, which is false after a stop; `submitClear` then calls `currentSlotUnlocked`, whose comment requires an ensured slot, and dereferences an empty optional (`dxmt9_command_queue.cpp:2539`, 2562, 8019). |
| `MCQueueInline`, `QueueLifecycle` | `InlineCompletes` | `completeInlineChunk` cites `EncodeCompleteInline` of `specs/verification/tla/QueueLifecycleRefinement.tla`, which completes the next sequence and goes on. The code also needs the source to be the oldest resident: if its predecessor is settled and not yet reclaimed, the queue poisons itself (`dxmt9_queue.cpp:4962`). |
| `MCQueueJoin`, `QueueLifecycle` | `JoinRetiresCallbacks` | Teardown relies on "joining all workers" to retire every callback (`dxmt9_command_queue.cpp:9924`). The watcher leaves once the stop is set and its queue is empty, while the encoder still drains and submits. |
| `MCWsiAdmission`, `WsiQuiescence` | `AdmissionResumes` | `endWsiQuiescence` opens the gate and notifies `writeCv_` without `mutex_` (9946): an arena waiter between its test and its sleep is not woken. |
| `MCWsiFinalArena`, `WsiQuiescence` | `QuiescenceEnds` | A final quiescence waits for an arena (9855) whose owner waits at the gate to append a Present (8246). |
| `MCWsiCallback`, `WsiQuiescence` | `CallbackKeepsPresenter` | The post-commit callback holds a raw Presenter (`dxmt9_draw_encoder_chunk.mm:4180`) and runs after the mutex is left; a replacement may have fenced and destroyed it. |
| `MCWsiRetained`, `WsiQuiescence` | `AdmittedPresentResolves` | A Present held back by the gate goes on with the id it took before; that id is stale and the Present is skipped, against the comment at 8242. |
| `MCPacingDrift`, `PresentPacing` | `OrdinalCorrespondence` | Every retired Present advances the completed ordinal (`dxmt9_queue.cpp:5266`), only offloaded ones the application's: the former overtakes the latter. |
| `MCPacingIso`, `PresentPacing` | `PacingIsomorphic` | `dxmt9_command_queue.hpp:335` calls the two boundaries order-isomorphic; with a draw chunk between two Presents one is open and the other closed. |
| `MCPacingLost`, `PresentPacing` | `AppReturns` | A Present whose chunk yields no command buffer is completed inline and never counted (`dxmt9_queue.cpp:4775`); a later ordinal boundary waits for ever. |
| `MCDrawableStash`, `DrawableAcquire` | `StashAccepted` | With two Presents in flight the second token finds the slot occupied: `DXMT_ASSERT(stashed)` (`dxmt9_command_queue.cpp:10924`). |
| `MCDrawableWait`, `DrawableAcquire` | `EncoderReturns` | A Present left before its drawable drops its token with the held flag set (`dxmt9_presenter.mm:672`); the next Async Present waits for ever. |
| `MCDrawablePrefetch`, `DrawableAcquire` | `PrefetchFresh` | `configureLayer` discards the prefetch and bumps the generation (`dxmt9_presenter.mm:382`) before it changes the layer (384), outside that mutex. A pending request taken in between has the new generation, gets a drawable of the old properties, passes the check (579) and is presented. |
| `MCReplayReadback`, `MCReplayOffload` | `ReplaySerial` | Another thread's Unlock commits a mutation after an inline chunk has drained the FIFO (`../d3d9/device_c_chunk_replay.cpp:4468`): the worker replays it concurrently. `FenceHolds` fails on the same race once `Lock` is among the calls. |
| `MCSessionSecond`, `SessionRelease` | `TeardownsComplete` | The terminal latch is never reset (`dxmt9_session_release.cpp:201`): the teardown of a second swap chain, and every later ordered control, is refused, and `../d3d9/core_resources.cpp:661` returns without unregistering the Presenter. |

## Proofs

### The tape (`CpuReadyTapeProofs`)

These hold for every configuration that
`CpuReadyTapeConfig::create` accepts (assumption `ConfigValid`, evaluated by TLC
in run `tape`):

* `TypeCorrect`: `Spec => []TypeOK`. The invariant is inductive as it stands.
  The lemmas say that a ring index stays in the ring (`SlotAfterType`), that a
  page run stays inside the page ring although it may skip padding, and that
  placing, releasing and rolling back entries keeps their type.
* `IdentityCorrect`: `Spec => [](IdentityUnique /\ StrictAdmissionAlone)`.
  Neither half is inductive alone. A batch that is rolled back lowers
  `seqIdHighWater` to what it was before, so uniqueness needs to know that
  everything resident outside the batch is older than the batch; and that holds
  only because no compatibility source can publish while a strict admission is
  open, which in turn needs `compatibilityWritingCount` to count the writers
  exactly. `IdentityInv` is the conjunction of the three. `QuietStep` and
  `StateStep` cover the many actions that change states and never identities;
  reservation, publication, batch publication and rollback have steps of their
  own.

* `PublicationCorrect`: `Spec => []PublicationNeverRefused` and `OrderCorrect`:
  `Spec => []PublicationOrder`, from `IdentityInv` and `QueueInv`. A credit is held
  from the reservation to the commit, and an aborted source keeps its flag without
  the credit (`CreditsHeld`); each of the two queues holds exactly the sources in
  its state (`Holds`), so its length is a count of slots; the queues are sorted, the
  tentative one in front, and what was represented is older (`QueueOrdered`). Order
  is kept by a batch publication only because there is one strict admission at a
  time and its numbers follow the ring and are above everything published
  (`StrictOpen`); counting is `CreditsCounted`.
* `GroupsCorrect`: `Spec => []GroupLeavesTogether`, from those and `GroupInv`.
  A returned sequence number may be taken again by another batch, so `GroupSound`
  separates the open batch's groups from the resident ones by their tail number;
  `GroupWhole` says that a group is either all there or leaving.
* `PagesCorrect`: `Spec => []PagesExact` (in it, that `inspectReserve` never reports
  Corrupt), from `ArcInv`. The resident sources are one arc of the source ring
  (`SlotArc`); their runs, padding included, follow each other on one arc of the
  page ring (`PageArc`: `base` is where the arc starts, `off` how far behind it each
  source starts); the pages of the arc carry the generation of their source
  (`Marked`). Reservations extend the arcs at the tail (`ArcReserve`), aborts cut
  them there (`ArcRollback`), reclaims cut them at the head (`ArcReclaim`). Where one
  would use induction along the arc the proofs take the least place where the claim
  fails (`LeastNumber`, from the well-foundedness of the numbers), which the provers
  can follow.
* `AdmissionCorrect`: `Spec => []EmptyTapeAdmits`, from all of these: with nothing
  resident every counter is zero and the page tail is rewound (`EmptyCounts`), so a
  probe finds no pressure and the release that emptied the tape reopened every
  dimension. This is where it matters that `MaxPagesPerSource` is at most
  `HighWaterPages` and that every low water is below its high water.

`StrictAdmissionAlone` is not checked by a run of its own: it is the
strengthening that carries the proof.

### The queue (`QueueProofs`)

For every number of slots from two (three with sessions), and any number of receipts,
of sources a session retains and of sequences (`QueueConfig`, evaluated in runs
`queue_plain` and `queue_session`), and so for the plain encode loop and for the
session coordinator under every plan it could make:

* `QueueRefines`: `Spec => CompletesInOrder`. The queue implements the
  safety part of `OrderedCompletion`: every step of a client, of the encoder, of the
  watcher and of the finish thread commits, executes, completes, begins or ends a
  wait in the promised way, stops the queue, or is invisible.
* `UnboundCorrect`: `Spec => []UnboundNeverEncoded`.
* `MapCorrect`: `Spec => []MapObservesDraw`.
* `StopCorrect`: `Spec => NoPublishAfterStop`, an action property.
* `WakeupCorrect`: `Spec => []NoLostWakeup`.

All of them rest on `QueueInvariant`: `Spec => []QueueInv`, where `QueueInv` is
`FlowInv /\ CallInv`.

`FlowInv` is about the chunks on their way. `Places` and `FlowTypes` are their types;
`TapeOrdered` says that the resident sources are in the order of their sequences and
of their stages (represented, tentative, ready, open), so what a restore gives back
is again in front of the rest, and that a source whose query refused it never
leaves the ready stage (what `UnboundNeverEncoded` needs); `OpenLast` that the open
chunk is the youngest resident. `Chain` is the heart: what is
executed but not completed, what the watcher waits for, what is handed to it, what a
session retains, what the encoder is working on and what waits on the tape follow
each other without an overlap, each in ascending order, between `completedSeqId` and
`lastCommittedSeqId` (`InOrder`; after a poison some sequences may be missing). That the watcher appends in order, that the finish
thread completes in order and that no sequence is handed over twice are all read off
this line; no shorter one is inductive, because each step moves a sequence from one
list to the next one and has to know what is in front of it. `EncoderHolds`,
`WatcherHolds` and `HeadReclaimed` say what the threads hold between two holds of the
mutex.

`CallInv` is about the clients between two holds: `Stamped` relates the buffer's
stamp to the draws recorded from it, `CallOf` says what each waiting client wants and
that the target it waits for covers it, and `MapSees` that a mapper's draws are
covered by its target from the moment it read the stamp, whoever commits the open
chunk meanwhile.

`WakeupCorrect` needs a third invariant, `SleepInv`, because the wait predicates
read what three other threads write. Whoever sleeps has nothing to do: the
encoder no Ready source and no reason to end its session, the watcher and the finish
thread an empty queue, a client a predicate that is still false; and nobody sleeps
after a stop. The one exception is the writer that waits for room while an inline
completion is between its two holds: the slot is already free and the notification
still to come. Per step of one thread the proof shows that it wakes those for whom it
changes anything (`RoomQuiet`, `SequenceQuiet`) or that the waiting predicates do not
move.

The steps are proved from what the tape's operators do entry by entry (`MovedEffect`,
`ReserveEffect`, `SubmitEffect`, `SettleEffect` and the other `...Effect` lemmas), each
stated and proved once.

### Drawables (`DrawableAcquireProofs`)

For every set of policies, queue depth and number of Presents and resizes
(`DrawableAssumption`, evaluated in run `drawable`):

* `DrawablesCorrect`: `Spec => []DrawablesAccounted`,
* `PrefetchCorrect`: `Spec => []PrefetchCurrent`,
* `TokensFulfilledOnce`: `Spec => FulfilledOnce`, an action property.

All three follow from one inductive invariant, `DrawableInv`. `OwnToken` alone says
nothing about the Presents behind the one being encoded, so `SlotFollowsQueue`
relates the single token slot to the queue: as long as it refused nothing, at most
one published Present has not taken its token and the slot holds that one.
`OneDrawableHeld` needs `HeldExact`: `asyncAcquireDrawableHeld_` stands for the only
drawable nobody came for, and the worker acquires only when there is none.
`DestroyFulfilsAll` and `FulfilledOnce` need `PendingServed`: a token is pending
exactly while it is queued or being served, and in one place only.
`PrefetchCurrent` needs `GenerationExact`, which follows a request of the current
generation from the worker to the slot: between `Configure` and `SetProps` there is
nothing but what was requested in that window (`WillFit`), so `SetProps` leaves behind
drawables that fit or have raced with it.

### Buffers (`BufferVersionsProofs`)

For every finite set of cells, every set of spans, and any number of writes, draws and
sequences (`VersionConstants`, evaluated in run `versions`):

* `LifetimeCorrect`: `Spec => []LifetimeCovered`, from `LifeInv`. `Referenced` says
  that a record is destroyed behind its last reference and reclaimed behind the
  last sequence that used it; `Captured` that a task's draws name the backing the
  task leases; `Covered` is the stamps' half of the property.
* `ContentsCorrect`: `Spec => []DrawsReadWhatWasWritten`, from `LifeInv` and
  `ContentInv`. A draw reads late, so the invariant speaks about the future:
  `Content(k)` is what backing `k` will hold when the worker reaches the queued
  chunks, the mutation in front of them applied. `DrawsAgree` says that this is
  what each draw in flight wants; `ActiveCurrent` that the active backing has, or
  will have, what the application sees; `CallQuiet` what a lock has waited for at
  each of its steps; `EraCurrent` and `PromiseHolds` that a NOOVERWRITE write
  touches no cell that a draw of the same contents reads. The step that matters is
  the rename: `FlightClear` shows that the backing a DISCARD takes was captured by
  no draw in flight.

`Stamped` is a closed form over the set of backings instead of a fold, because what
a fold computes is out of the provers' reach.

### Session releases (`SessionReleaseProofs`)

For every lease limit, every event capacity and any number of sources, chunks,
controls, teardowns and waits (`ReleaseConstants`, evaluated in run
`session_release`):

* `ReleaseCorrect`: `Spec => []ReleaseCovers`,
* `ReleaseAccepted`: `Spec => []AckNeverRejected`,
* `ReleaseFifo`: `Spec => []TransportExact`.

All three rest on `ReleaseInvariant`: `Spec => []SessionInv`. Beside the types and
the order of the watermarks (`Marks`) it has these parts:

* `Fifo`. The events are in ordinal order with growing fences, all of them behind the
  acknowledged ordinal, and the terminal event is the last. So the event
  `peekNext` picks by the least ordinal is the head of the queue (`NextOf`). There are
  at most two. The coordinator posts only when no event is ready, and only a fence
  that is not behind the last one; as its own fence is covered, every queued event
  would be covered too, hence ready, so it posts into an empty ring. The replay thread
  waits for its own event before it posts the next one (`Short`). This is why the model
  may leave out the wait at a full ring whenever the ring has two places.
* `Serving`. The coordinator drops the mutex between picking an event and
  acknowledging it. Meanwhile the event stays the head, because only the coordinator
  removes events and what is posted goes behind it, and it stays covered, because
  coverage only grows; after `finalize` it is submitted. The acknowledgement checks
  exactly this, hence `AckNeverRejected`.
* `Carried`. What is represented and not submitted is the carried session, except
  while a prefix is being encoded. It links the coordinator's own bookkeeping
  (`session`) with the watermarks the others read.
* `Witnessed`. A closed-prefix receipt that is still there implies that nothing was
  selected since: what it saw published is represented, and the pass is closed.
* `Promised` and `Served`. The replay thread is the only one that publishes, so while
  it is inside a call its fence is everything published. Once it is acknowledged there
  is nothing left to select, so no later step of the coordinator opens a pass or
  encodes again before the call returns; this is what carries the property from the
  acknowledgement, or from the receipt, to the return.

A call is refused only by a stop or behind a teardown, because a fence never lies in
front of the previous one: `Marks` bounds the transport's last fences by the chunk
reached and by the sources published.

### Replay offload (`ReplayOffloadProofs`)

For any threads, buffers, queries, chunks and calls and for every bound of the FIFO
(`OffloadConstants`, evaluated in runs `replay` and `replay_lanes`: among the types of
the constants it says that a buffer is no query and that the names of the worker and
of the device's owner are no thread's), with replay failures and failing allocations:

* `OffloadBooks`: `Spec => []BooksExact`,
* `OffloadOrdinals`: `Spec => []OrdinalOrder`,
* `OffloadProgram`: `Spec => []ProgramOrder`,
* `OffloadReceipts`: `Spec => []ReceiptReadsCaptured`, the half of `DirectCallsCurrent`
  that needs nothing more;

and for a device whose lanes stay apart (`Apart`: one thread makes the calls, or no chunk
is replayed inline; run `replay` is an instance of the second, `replay_lanes` of the
first):

* `OffloadFences`: `Apart` implies `Spec => []DirectCallsCurrent`,
* `OffloadInline`: `Apart` implies `Spec => []ReplaySerial`.

Without `Apart` the last two are false: run `replay_readback` refutes `ReplaySerial`, and
with `"Lock"` among its `Calls` TLC refutes `FenceHolds` by the same race (the inline chunk
publishes a watermark above the mutation still in the FIFO, so the lock does not wait for it).

They are all theorems about `Spec` and rest on `OffloadAlways`: `Spec => []OffloadInv`.
Beside the types, in which the locals of a thread depend on its place (`Local`), it has
these parts:

* `Ordered` and `Effected`. The elements behind the worker's item, and what took effect
  before it, are in the order of their ordinals and, if both are the program's calls, of
  the program. A committed mutation replaces its placeholder in its place, so it takes
  nothing out of order; an abandoned one leaves from the middle.
* `Youngest` and `Cleared`. Only one thread at a time makes a recorder-ordered call,
  and until it is queued or takes effect it is younger than everything there is. A lane
  that drained the FIFO finds no program call left in it: other threads may append
  behind its back, but only mutations, which are ordered by their ordinal alone. This is
  why `ProgramOrder` survives the race of finding `ReplaySerial`, and why it needs the
  ledger to be running: after a failure what was queued may be thrown away.
* `Owned`. A reservation's ordinal belongs to its thread alone: whatever element has it
  is a placeholder of the reserved size, so a commit or a release finds its own
  (`findReservationLocked`) and the charge it gives back is the one it took.
* `Retained`, `Charged`. What is held is what is queued, in the worker's hands or
  replayed inline; the charge is the sum over the FIFO. The oversize escape admits only
  into an empty FIFO, so an excess is the charge of the head.
* `Counted`. Each ordinal was taken by a call, so the bound of the calls bounds them.
* `Ledger`. A query's snapshot lies between what was replayed and what was accepted, and
  what is still to be replayed has a higher ordinal than the snapshot; so when a receipt
  classifies as ready the snapshot is the captured one.
* `Fenced`. What a call behind the global drain waits for is done, or outstanding as long
  as the ledger runs; it is done once the drain has answered.

With `Apart` there are three more (`ApartInv`, inductive beside `OffloadInv`): `Older`,
what took effect has a lower ordinal than everything still to be replayed; `Quieted`, an
inline lane that has drained the FIFO has it for itself; `BufferFenced`, what a lock waits
for lies behind the buffer's watermark of replayed work until it is done, so a watermark
that has caught up means that all of it is done. A second thread breaks them together:
an inline chunk takes its ordinal behind a reservation and moves the watermark past it.

The proof goes in two steps. `NextKinds` reduces the 28 actions to a few kinds of step
(a thread moves, appends, cuts or replaces an element, plays inline, and so on), each
stated by its effect on the state; every part of the invariant is then preserved by
every kind. `Charge` is a recursive function. What it does on an append, a cut and a
replacement is shown from the least place at which two partial sums would disagree
(`LeastNumber`), because the induction rule is out of the provers' reach.

### The window-system gate (`WsiQuiescenceProofs`)

For every set of threads and every finite set of swap chains (`WsiAssumption`,
evaluated in runs `wsi` and `wsi_drain`; finiteness is needed because `Init` numbers
the slots and the Presenters of the swap chains `1..Cardinality(Chains)`, and a
program has finitely many swap chains):

* `QuiescenceCorrect`: `Spec => []QuiescenceProtects`,
* `RegistryCorrect`: `Spec => []RegistryCoherent`,
* `SleepersCorrect`: `Spec => []GateSleepersWoken`.

The inductive invariant is `TypeOK /\ GateInv /\ RegistryInv`. On the gate's side an
owner that armed the gate is the only one (`GateOwned`), the counter of uses is the
number of threads inside (`UsersCounted`), so once the owner saw zero nobody enters
(`Quieted`); with the arenas kept out by the same gate nothing is published, so the
fence waits for the last sequence (`Fenced`). That is the only time at which a
Presenter is destroyed, and no resolved pointer is left dangling (`PointersLive`).
On the registry's side a slot's generation only grows, and an id of the slot's
generation names the Presenter in it (`IdsSound`); two swap chains, or a swap chain
and a candidate, never name the same slot (`BindingsOwn`).

### Pacing (`PresentPacingProofs`)

For every set of policies, latencies and back-buffer counts and every number of
chunks (`PacingAssumption`, evaluated in run `pacing`):

* `BoundariesCorrect`: `Spec => []BoundariesSound`,
* `AccountingCorrect`: `Spec => []CompletionAccounting`.

The inductive invariant is `PacingInv`. `LatencyBounds` first shows that the clamp,
the back-buffer cap and the Immediate default never yield more than the application
allowed. `OrdinalPaced` and `DirectPaced` say that an application past its boundary
is within that latency; they survive the other threads' steps because a watermark
only advances. Under the deferred policy a Present stores the target that the next
one waits for, so the latency is owed meanwhile: `DirectDeferred` keeps both the
bound and what the stored target still guarantees. The bound on offloaded Presents
counts sequences while the boundary counts ordinals; `OrdinalCounted` links them, and
holds because the queue the ordinals are popped from has each settled Present once,
in order, and none that is drained (`QueueExact`): draining one sequence retires at
most its own Present.

`Due` is the prefix the pop loop removes, and not a filter, because what `SelectSeq`
returns is out of the provers' reach; the loop stops at the first later sequence.

Each inductive invariant was checked by TLC on the instance of its component's run
(`QueueInv`, `GroupInv` and `ArcInv` over the tape's 1,068,625 states; all of `WsiInv`
over its 1,539,524; `QueueInv` and `SleepInv` over the 84,130 of `queue_plain` and the 246,818 of
`queue_session`; `PacingInv` over the 506,738 of `pacing`;
`SessionInv` over the 980,017 of `session_release` and over 8.5 million of a larger
instance; `ContentInv` also with three writes, 5,039,286 states) before it was proved.

### What is only model-checked

* `QueueLifecycle`: `PipelineExact` and `NoSpuriousPoison`. The order in them is
  `Chain`; the rest needs an invariant that no sequence is *missing* while the queue is
  healthy and that credits, receipts and slots count exactly, which is not proved yet.

Out of the prover's reach, and left to TLC: liveness under fairness
(`CompletesEventually`, `ClientReturns`, `NobodyStuck`, `BuffersProgress`,
`SyncEncoderReturns` and the other temporal properties) and `ENABLED`; what a fold or
a recursive definition computes for every input; anything about a module with a
RECURSIVE operator (there is none).

## Plan

Done: the tape, the window-system gate, pacing, drawables, buffer versions, session
releases, replay offload, and the queue, plain and with sessions, with its refinement,
each with its theorems.

Next modules:

1. `ArenaBuilder` - begin, publish and abort of direct arena sources and batches
   (`dxmt9_command_queue.cpp` 5709-6062, 7560-7992) over `CpuReadyTape`'s
   operations, with the settlement-history ring that event waiters read
   (`dxmt9_queue.cpp` 5309-5362): a waiter is never answered by an overwritten
   record. It should implement `OrderedCompletion` for groups.
2. The marks of direct sources, which have no later stamp under the mutex and do
   need the restamp, beside `BufferVersions`; textures and surfaces.
3. Direct continuation, occlusion results and fences.

Next theorems: for `QueueLifecycle` `PipelineExact` and `NoSpuriousPoison`.

## Not modelled

* Chunk encoding and replay, shader translation, pipeline and argument caches,
  the frame graph, encode partitioning: data transformations inside one thread.
  The frame graph's pure algorithms could be checked as operators later.
* Ring arenas: the finish thread still reclaims them, and no encoder allocates
  from them.
* The Wine bridge, tracing, perf counters, capture and replay files: marshalling
  and observation; no queue decision depends on them.
* Inside the modelled parts: lifecycle observers, watchdogs, submission
  diagnostics, the plan a session follows, receipt generations, 64-bit wrap of
  generations and sequence numbers.
* `SessionRelease`: the wait at a full event ring and the coalescing of two
  pending terminal events (at most two events are ever queued, and the gate
  serialises teardowns); the wait of `commitCurrentChunk` at its cap, inline
  completion, the admission-pressure escape, early prefixes and retained heads,
  the query-submission target, the serial escape's memory of a consumed head.
* `WsiQuiescence`: how the layer is obtained from Wine; mirror tickets.
* `BufferVersions`: textures, surfaces, heaps, the reordered index cache, read-only
  locks, the marks of direct sources, failed allocations, the opt-in range upload
  of DISCARD locks, the switches that turn renaming or the mutation offload off.
* `DrawableAcquire`: which properties the layer has, gamma, present pipelines, the
  mirror target.
* `ReplayOffload`: the test-only `EffectUnknown`, the lazy start of the worker,
  the NOOVERWRITE and DISCARD bypass of the default pool, render-tape observers,
  the segmented transport pool; each buffer is locked by one thread at a time.

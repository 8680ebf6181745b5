--------------------------- MODULE DrawableAcquire ---------------------------
(***************************************************************************)
(* How a Present gets its drawable.  Under Async and SyncOnSubmit,         *)
(* submitPresent obtains a PresentDrawableToken, stashes it in the         *)
(* Presenter's one registry slot and publishes the Present; the encode     *)
(* thread takes the token and waits for its drawable, which under Async    *)
(* the acquire worker delivers, one at a time.  Under PreAcquire a second  *)
(* worker prefetches the drawable of the next Present, unless what was     *)
(* prefetched is discarded meanwhile, ahead of a change of the layer's     *)
(* properties.  Sync acquires in the encode thread.                        *)
(*                                                                         *)
(* One Presenter; every action is one critical section of one of its       *)
(* mutexes, or the call into the layer between two of them.  Every         *)
(* notifier holds, or held just before, the mutex its waiters use, so a    *)
(* wait is a guard.                                                        *)
(***************************************************************************)
EXTENDS Naturals, Sequences, FiniteSets

CONSTANTS
  Policies,     \* AcquirePolicy values to start from
  MaxPresents,  \* bound: Presents submitted
  Ahead,        \* Presents submitted and not yet encoded (2 for a latency of 1)
  MaxResizes,   \* bound: changes of the layer's properties
  MayNil,       \* may the layer have no drawable
  MaySkip,      \* may the encoder leave a Present before its drawable
  MayReject     \* may the append of a Present to a direct build fail

ASSUME DrawableAssumption ==
  /\ Policies \subseteq {"Sync", "SyncOnSubmit", "PreAcquire", "Async"}
  /\ MaxPresents \in Nat /\ Ahead \in Nat \ {0} /\ MaxResizes \in Nat
  /\ MayNil \in BOOLEAN /\ MaySkip \in BOOLEAN /\ MayReject \in BOOLEAN

Presents == 1..MaxPresents

\* A prefetched drawable, or none: the layer's properties it was made for, and, for the
\* properties below only, whether its request was taken between the discard and
\* the change of them.
MaybeDrawable ==
  {{}} \cup {{[layer |-> n, raced |-> r]} : n \in 0..MaxResizes, r \in BOOLEAN}

\* No token: tokens carry the number of the Present that made them.
NoToken == 0

VARIABLES
  policy,     \* policy_
  submitted,  \* the last Present the application began to submit
  app,        \* the application's thread: [pc, token]
  queue,      \* published Presents: [present, required] (drawableTokenRequired)
  retired,    \* how many Presents the encoder is done with, or never got
  slot,       \* PresenterSlot::pendingToken
  refused,    \* tokens that stash refused
  token,      \* PresentDrawableToken: "none", "pending", "drawable", "failed"
  requests,   \* asyncAcquireRequests_
  held,       \* asyncAcquireDrawableHeld_
  worker,     \* runAsyncAcquireLoop: [pc, token]
  generation, \* preAcquireGeneration_
  prefetched, \* prefetchedDrawable_: the drawable, or none
  requested,  \* preAcquireRequested_
  inFlight,   \* preAcquireInFlight_
  fetcher,    \* runPreAcquireLoop: [pc, generation, raced, drawable]
  layer,      \* the properties in force in the CAMetalLayer: how often they changed
  encoder,    \* the encode thread: [pc, present, token, drawable]
  teardown    \* ~Presenter: "no", "async", "pre", "done"

appVars == <<submitted, app>>
slotVars == <<slot, refused>>
asyncVars == <<token, requests, held, worker>>
preVars == <<generation, prefetched, requested, inFlight, fetcher>>
vars == <<policy, appVars, queue, retired, slotVars, asyncVars, preVars, layer,
          encoder, teardown>>

Idle == [pc |-> "idle", present |-> 0, token |-> NoToken, drawable |-> {}]

Init ==
  /\ policy \in Policies
  /\ submitted = 0 /\ app = [pc |-> "run", token |-> NoToken]
  /\ queue = <<>> /\ retired = 0
  /\ slot = NoToken /\ refused = {}
  /\ token = [p \in Presents |-> "none"]
  /\ requests = <<>> /\ held = FALSE /\ worker = [pc |-> "idle", token |-> NoToken]
  /\ generation = 0 /\ prefetched = {} /\ requested = FALSE /\ inFlight = FALSE
  /\ fetcher = [pc |-> "idle", generation |-> 0, raced |-> FALSE, drawable |-> {}]
  /\ layer = 0 /\ encoder = Idle /\ teardown = "no"

\* nextDrawable, nextDrawableRetained: a drawable, or none in time.
NextDrawable == IF MayNil THEN BOOLEAN ELSE {TRUE}

-----------------------------------------------------------------------------
(* submitPresent. *)

\* lookupPresenter and the acquire of the policy, up to the token.
Acquire ==
  /\ app.pc = "run" /\ teardown = "no"
  /\ submitted < MaxPresents /\ submitted - retired < Ahead
  /\ submitted' = submitted + 1
  /\ \E got \in NextDrawable :
       /\ token' = [token EXCEPT ![submitted + 1] =
            CASE policy = "Async" -> "pending"
              [] policy = "SyncOnSubmit" /\ got -> "drawable"
              [] OTHER -> "none"]
       /\ app' = [pc |-> "stash",
                  token |-> IF policy = "Async" \/ (policy = "SyncOnSubmit" /\ got)
                              THEN submitted + 1 ELSE NoToken]
  /\ requests' = IF policy = "Async" THEN Append(requests, submitted + 1)
                                     ELSE requests
  /\ UNCHANGED <<policy, queue, retired, slotVars, held, worker, preVars, layer,
                 encoder, teardown>>

\* Mutant of Stash: a newer token replaces the one in the slot.
StashOverwrites ==
  /\ app.pc = "stash"
  /\ slot' = (IF app.token = NoToken THEN slot ELSE app.token)
  /\ app' = [app EXCEPT !.pc = "publish"]
  /\ UNCHANGED <<policy, submitted, queue, retired, refused, asyncVars, preVars,
                 layer, encoder, teardown>>

\* stashDrawableToken: an occupied slot refuses, the submitter lets go of its token.
Stash ==
  /\ app.pc = "stash"
  /\ IF app.token # NoToken /\ slot # NoToken
       THEN refused' = refused \cup {app.token} /\ UNCHANGED slot
       ELSE slot' = (IF app.token = NoToken THEN slot ELSE app.token)
            /\ UNCHANGED refused
  /\ app' = [app EXCEPT !.pc = "publish"]
  /\ UNCHANGED <<policy, submitted, queue, retired, asyncVars, preVars, layer,
                 encoder, teardown>>

\* presentAndCommit.
Publish ==
  /\ app.pc = "publish"
  /\ queue' = Append(queue, [present |-> submitted,
                             required |-> policy \in {"Async", "SyncOnSubmit"}])
  /\ app' = [pc |-> "run", token |-> NoToken]
  /\ UNCHANGED <<policy, submitted, retired, slotVars, asyncVars, preVars, layer,
                 encoder, teardown>>

\* appendActiveDirectChunkSlotPresent failed: what is in the slot is taken out.
Reject ==
  /\ MayReject /\ app.pc = "publish"
  /\ slot' = IF app.token # NoToken THEN NoToken ELSE slot
  /\ app' = [pc |-> "run", token |-> NoToken]
  /\ retired' = retired + 1
  /\ UNCHANGED <<policy, submitted, queue, refused, asyncVars, preVars, layer,
                 encoder, teardown>>

-----------------------------------------------------------------------------
(* The acquire worker of Async. *)

\* Mutant of AsyncPop: the request stays queued until it is served.
AsyncPopLate ==
  /\ worker.pc = "idle" /\ teardown = "no"
  /\ requests # <<>> /\ ~held
  /\ held' = TRUE
  /\ worker' = [pc |-> "acquire", token |-> Head(requests)]
  /\ UNCHANGED <<policy, appVars, queue, retired, slotVars, token, requests,
                 preVars, layer, encoder, teardown>>

AsyncPop ==
  /\ worker.pc = "idle" /\ teardown = "no"
  /\ requests # <<>> /\ ~held
  /\ requests' = Tail(requests) /\ held' = TRUE
  /\ worker' = [pc |-> "acquire", token |-> Head(requests)]
  /\ UNCHANGED <<policy, appVars, queue, retired, slotVars, token, preVars,
                 layer, encoder, teardown>>

\* PresentDrawableToken::complete or fail.
AsyncFulfil ==
  /\ worker.pc = "acquire"
  /\ \E got \in NextDrawable :
       /\ token' = [token EXCEPT ![worker.token] = IF got THEN "drawable" ELSE "failed"]
       /\ worker' = [pc |-> IF got THEN "idle" ELSE "finish", token |-> NoToken]
  /\ UNCHANGED <<policy, appVars, queue, retired, slotVars, requests, held, preVars,
                 layer, encoder, teardown>>

\* finishAsyncAcquireToken after a failure.
AsyncFinish ==
  /\ worker.pc = "finish"
  /\ held' = FALSE
  /\ worker' = [worker EXCEPT !.pc = "idle"]
  /\ UNCHANGED <<policy, appVars, queue, retired, slotVars, token, requests, preVars,
                 layer, encoder, teardown>>

-----------------------------------------------------------------------------
(* The prefetch worker of PreAcquire. *)

PreTake ==
  /\ fetcher.pc = "idle" /\ requested /\ teardown \notin {"pre", "done"}
  /\ requested' = FALSE /\ inFlight' = TRUE
  /\ fetcher' = [pc |-> "acquire", generation |-> generation,
                 raced |-> encoder.pc = "setProps", drawable |-> {}]
  /\ UNCHANGED <<policy, appVars, queue, retired, slotVars, asyncVars, generation,
                 prefetched, layer, encoder, teardown>>

\* nextDrawableRetained, without the mutex: the drawable has the properties the layer
\* has now.
PreFetch ==
  /\ fetcher.pc = "acquire"
  /\ \E got \in NextDrawable :
       fetcher' = [fetcher EXCEPT !.pc = "store",
         !.drawable = IF got THEN {[layer |-> layer, raced |-> fetcher.raced]} ELSE {}]
  /\ UNCHANGED <<policy, appVars, queue, retired, slotVars, asyncVars, generation,
                 prefetched, requested, inFlight, layer, encoder, teardown>>

\* Mutant of PreStore: the generation is not compared.
PreStoreAnyway ==
  /\ fetcher.pc = "store"
  /\ prefetched' = IF prefetched = {} /\ teardown \notin {"pre", "done"}
                     THEN fetcher.drawable ELSE prefetched
  /\ fetcher' = [fetcher EXCEPT !.pc = "settle", !.drawable = {}]
  /\ UNCHANGED <<policy, appVars, queue, retired, slotVars, asyncVars, generation,
                 requested, inFlight, layer, encoder, teardown>>

\* The drawable is kept if nothing was discarded since the request was taken.
PreStore ==
  /\ fetcher.pc = "store"
  /\ prefetched' = IF /\ fetcher.generation = generation /\ prefetched = {}
                       /\ teardown \notin {"pre", "done"}
                     THEN fetcher.drawable ELSE prefetched
  /\ fetcher' = [fetcher EXCEPT !.pc = "settle", !.drawable = {}]
  /\ UNCHANGED <<policy, appVars, queue, retired, slotVars, asyncVars, generation,
                 requested, inFlight, layer, encoder, teardown>>

\* Mutant of PreSettle: the encoder is not told.
PreSettleSilent ==
  /\ fetcher.pc = "settle"
  /\ fetcher' = [fetcher EXCEPT !.pc = "idle"]
  /\ UNCHANGED <<policy, appVars, queue, retired, slotVars, asyncVars, generation,
                 prefetched, requested, inFlight, layer, encoder, teardown>>

PreSettle ==
  /\ fetcher.pc = "settle"
  /\ inFlight' = FALSE
  /\ fetcher' = [fetcher EXCEPT !.pc = "idle"]
  /\ UNCHANGED <<policy, appVars, queue, retired, slotVars, asyncVars, generation,
                 prefetched, requested, layer, encoder, teardown>>

-----------------------------------------------------------------------------
(* The encode thread: the Present case of encodeChunk and encodeCommands. *)

EncoderGoes(label) == encoder' = [encoder EXCEPT !.pc = label]

\* takeDrawableToken.
Take ==
  /\ encoder.pc = "idle" /\ queue # <<>>
  /\ encoder' = [Idle EXCEPT !.pc = "configure", !.present = Head(queue).present,
                             !.token = slot]
  /\ slot' = NoToken
  /\ UNCHANGED <<policy, appVars, queue, retired, refused, asyncVars, preVars,
                 layer, teardown>>

\* The Present is over: encoded, or skipped.
Leave ==
  /\ encoder' = Idle
  /\ queue' = Tail(queue) /\ retired' = retired + 1

\* A missing source surface, presenter, pipeline or render encoder: the token, and the
\* drawable if there is one, are let go.
Skip ==
  /\ MaySkip /\ encoder.pc \in {"configure", "pipeline", "present"}
  /\ Leave
  /\ UNCHANGED <<policy, appVars, slotVars, asyncVars, preVars, layer, teardown>>

\* configureLayer: other properties than the cached ones first discard what was
\* prefetched, in a hold of preAcquireMutex_ of its own ...
Configure ==
  /\ encoder.pc = "configure"
  /\ \/ EncoderGoes("pipeline") /\ UNCHANGED <<generation, prefetched>>
     \/ /\ layer < MaxResizes
        /\ EncoderGoes("setProps")
        /\ generation' = generation + 1 /\ prefetched' = {}
  /\ UNCHANGED <<policy, appVars, queue, retired, slotVars, asyncVars, requested,
                 inFlight, fetcher, layer, teardown>>

\* ... and then, without that mutex, change the layer: MetalLayer_setProps.  The same
\* calls by a SyncOnSubmit submitter or the acquire worker meet no prefetch.
SetProps ==
  /\ encoder.pc = "setProps"
  /\ EncoderGoes("pipeline")
  /\ layer' = layer + 1
  /\ UNCHANGED <<policy, appVars, queue, retired, slotVars, asyncVars, preVars,
                 teardown>>

\* pipelineFor has a pipeline; from here on the drawable is waited for.
Pipeline ==
  /\ encoder.pc = "pipeline"
  /\ EncoderGoes("drawable")
  /\ UNCHANGED <<policy, appVars, queue, retired, slotVars, asyncVars, preVars,
                 layer, teardown>>

\* waitDrawable and finishAsyncAcquireToken.
WaitToken ==
  /\ encoder.pc = "drawable" /\ encoder.token # NoToken
  /\ token[encoder.token] \in {"drawable", "failed"}
  /\ held' = FALSE
  /\ IF token[encoder.token] = "drawable"
       THEN EncoderGoes("present") /\ UNCHANGED <<queue, retired>>
       ELSE Leave
  /\ UNCHANGED <<policy, appVars, slotVars, token, requests, worker, preVars,
                 layer, teardown>>

\* A Present that needs a token and has none is skipped.
TokenMissing ==
  /\ encoder.pc = "drawable" /\ encoder.token = NoToken /\ Head(queue).required
  /\ Leave
  /\ UNCHANGED <<policy, appVars, slotVars, asyncVars, preVars, layer, teardown>>

\* takeOrWaitForPrefetchedDrawable, and nextDrawable on a miss.
TakeDrawable ==
  /\ encoder.pc = "drawable" /\ encoder.token = NoToken /\ ~Head(queue).required
  /\ prefetched # {} \/ ~inFlight
  /\ prefetched' = {}
  /\ \E got \in IF prefetched # {} THEN {TRUE} ELSE NextDrawable :
       IF got THEN /\ encoder' = [encoder EXCEPT !.pc = "present", !.drawable = prefetched]
                   /\ UNCHANGED <<queue, retired>>
              ELSE Leave
  /\ UNCHANGED <<policy, appVars, slotVars, asyncVars, generation, requested,
                 inFlight, fetcher, layer, teardown>>

\* presentDrawable, the commit, and preAcquireNextDrawable behind it.
Present ==
  /\ encoder.pc = "present"
  /\ Leave
  /\ requested' = \/ requested
                  \/ policy = "PreAcquire" /\ prefetched = {} /\ ~inFlight
  /\ UNCHANGED <<policy, appVars, slotVars, asyncVars, generation, prefetched,
                 inFlight, fetcher, layer, teardown>>

-----------------------------------------------------------------------------
(* ~Presenter, after the window-system gate has drained the queue. *)

\* The queued requests fail; unregisterPresenter has emptied the slot.
DestroyAsync ==
  /\ teardown = "no" /\ app.pc = "run" /\ queue = <<>> /\ encoder.pc = "idle"
  /\ teardown' = "async"
  /\ token' = [p \in Presents |->
       IF \E i \in DOMAIN requests : requests[i] = p THEN "failed" ELSE token[p]]
  /\ requests' = <<>> /\ held' = FALSE
  /\ slot' = NoToken
  /\ UNCHANGED <<policy, appVars, queue, retired, refused, worker, preVars, layer,
                 encoder>>

\* The acquire worker is joined, the prefetch worker told to stop.
DestroyPre ==
  /\ teardown = "async" /\ worker.pc = "idle"
  /\ teardown' = "pre"
  /\ requested' = FALSE /\ generation' = generation + 1
  /\ UNCHANGED <<policy, appVars, queue, retired, slotVars, asyncVars, prefetched,
                 inFlight, fetcher, layer, encoder>>

\* The prefetch worker is joined, discardPrefetchedDrawable.
DestroyDone ==
  /\ teardown = "pre" /\ fetcher.pc = "idle"
  /\ teardown' = "done"
  /\ prefetched' = {} /\ generation' = generation + 1
  /\ UNCHANGED <<policy, appVars, queue, retired, slotVars, asyncVars, requested,
                 inFlight, fetcher, layer, encoder>>

Submit == Stash \/ Publish \/ Reject
AsyncWorker == AsyncPop \/ AsyncFulfil \/ AsyncFinish
PreWorker == PreTake \/ PreFetch \/ PreStore \/ PreSettle
Encoder == Take \/ Skip \/ Configure \/ SetProps \/ Pipeline \/ WaitToken
             \/ TokenMissing \/ TakeDrawable \/ Present
Destroy == DestroyAsync \/ DestroyPre \/ DestroyDone

Next == Acquire \/ Submit \/ AsyncWorker \/ PreWorker \/ Encoder \/ Destroy

Spec == Init /\ [][Next]_vars

\* Every thread runs, and the layer answers (nextDrawable times out).  Nobody has
\* to present or to tear down; once begun, the destructor goes on.
Fairness ==
  WF_vars(Submit) /\ WF_vars(AsyncWorker) /\ WF_vars(PreWorker) /\ WF_vars(Encoder)
    /\ WF_vars(DestroyPre) /\ WF_vars(DestroyDone)

FairSpec == Spec /\ Fairness

-----------------------------------------------------------------------------
(* Properties. *)

\* Every variable has its type.
TypeOK ==
  /\ submitted \in 0..MaxPresents /\ retired \in 0..submitted
  /\ app \in [pc : {"run", "stash", "publish"}, token : 0..MaxPresents]
  /\ queue \in Seq([present : Presents, required : BOOLEAN])
  /\ slot \in 0..MaxPresents /\ refused \subseteq Presents
  /\ token \in [Presents -> {"none", "pending", "drawable", "failed"}]
  /\ requests \in Seq(Presents) /\ held \in BOOLEAN
  /\ worker \in [pc : {"idle", "acquire", "finish"}, token : 0..MaxPresents]
  /\ generation \in Nat /\ prefetched \in MaybeDrawable
  /\ requested \in BOOLEAN /\ inFlight \in BOOLEAN
  /\ fetcher \in [pc : {"idle", "acquire", "store", "settle"}, generation : Nat,
                  raced : BOOLEAN, drawable : MaybeDrawable]
  /\ layer \in 0..MaxResizes
  /\ encoder.pc \in {"idle", "configure", "setProps", "pipeline", "drawable", "present"}
  /\ teardown \in {"no", "async", "pre", "done"}

\* A token is fulfilled once: no complete or fail finds it ready (the assertion of
\* PresentDrawableToken), whichever of the worker and the destructor comes first.
FulfilledOnce ==
  [][\A p \in Presents :
       token[p] \in {"drawable", "failed"} => token'[p] = token[p]]_vars

\* Once the Presenter is destroyed, no token waits for a drawable: the requests
\* that were queued have failed and the one being served was served.
DestroyFulfilsAll ==
  teardown \in {"pre", "done"} => \A p \in Presents : token[p] # "pending"

\* Under Async, a Present is encoded with the drawable acquired for it, as long
\* as the one slot between stashDrawableToken and takeDrawableToken has refused
\* no token; rejected and skipped Presents leave nothing in it.
OwnToken ==
  policy = "Async" /\ refused = {}
    => encoder.token \in {NoToken, encoder.present}

\* The drawable fits the layer; or its request was taken between the discard and the
\* layer's last change, and then it is of the properties just before.
Fits(d) == d.layer = layer \/ (d.raced /\ d.layer + 1 = layer)

\* What the generation achieves: a prefetched drawable is presented only with the layer
\* properties it was made for, however its request, its arrival and the changes
\* of the layer interleave, except that a request taken between the discard
\* and the change of configureLayer may miss that one change, and no other.
PrefetchCurrent ==
  /\ encoder.pc = "present" => \A d \in encoder.drawable : Fits(d)
  /\ teardown = "no" /\ encoder.pc # "setProps" => \A d \in prefetched : Fits(d)

\* While the layer has always answered, Async keeps at most one drawable that
\* the encoder has not come for (asyncAcquireDrawableHeld_), whatever becomes of
\* the Presents and of their tokens.
OneDrawableHeld ==
  policy = "Async" /\ (\A p \in Presents : token[p] # "failed") =>
  Cardinality({p \in Presents :
    /\ token[p] = "drawable"
    /\ \/ p = slot
       \/ p = app.token /\ app.pc = "stash"
       \/ p = encoder.token /\ encoder.pc # "present"}) <= 1

\* Every drawable and every token is accounted for, up to the destructor, and a
\* token reaches the Present it was made for.
DrawablesAccounted == TypeOK /\ OneDrawableHeld /\ DestroyFulfilsAll /\ OwnToken

\* Unless drawables are acquired asynchronously, the encode thread comes back
\* from every Present, prefetched drawables and skipped Presents included.
SyncEncoderReturns ==
  encoder.pc # "idle" ~> (encoder.pc = "idle" \/ policy = "Async")

-----------------------------------------------------------------------------
(* What the code says of itself and does not keep. *)

\* WaitProgress: the encode thread comes back from every Present.
EncoderReturns == encoder.pc # "idle" ~> encoder.pc = "idle"

\* discardPrefetchedDrawable: no drawable of earlier layer properties is presented.
PrefetchFresh ==
  encoder.pc = "present" => \A d \in encoder.drawable : d.layer = layer

\* The assertion of stashDrawableToken: the slot is free.
StashAccepted == refused = {}
==============================================================================

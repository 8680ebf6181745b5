------------------------ MODULE DrawableAcquireProofs ------------------------
(***************************************************************************)
(* Proofs about DrawableAcquire, for any number of Presents, any depth of  *)
(* the queue and every acquire policy.                                     *)
(***************************************************************************)
EXTENDS DrawableAcquire, FiniteSetTheorems, TLAPS

-----------------------------------------------------------------------------
(* The inductive invariant, in parts. *)

\* The encode thread's record, and what it is between two Presents.
EncoderRecord ==
  [pc : {"idle", "configure", "setProps", "pipeline", "drawable", "present"},
   present : Nat, token : 0..MaxPresents, drawable : MaybeDrawable]

EncoderShape ==
  /\ policy \in Policies /\ encoder \in EncoderRecord
  /\ encoder.pc = "idle" => encoder = Idle
  /\ encoder.pc = "setProps" => layer < MaxResizes

\* Every Present that was begun is with the application, in the queue, or over.
Submitting == IF app.pc = "run" THEN 0 ELSE 1

PresentsCounted ==
  /\ submitted = retired + Len(queue) + Submitting
  /\ encoder.pc # "idle" => queue # <<>> /\ encoder.present = Head(queue).present
  /\ \A i \in 1..Len(queue) : queue[i].present + Submitting <= submitted

\* What the application carries.
AppToken ==
  /\ app.token \in {NoToken, submitted}
  /\ app.pc = "run" => app.token = NoToken
  /\ policy = "Async" /\ app.pc # "run" => app.token = submitted

\* A token is pending exactly while it is queued or being served, once.
PendingServed ==
  /\ \A p \in Presents : p > submitted => token[p] = "none"
  /\ \A i \in DOMAIN requests : requests[i] <= submitted
  /\ \A i, j \in DOMAIN requests : i < j => requests[i] < requests[j]
  /\ worker.pc = "acquire" =>
       /\ worker.token \in Presents
       /\ \A i \in DOMAIN requests : worker.token < requests[i]
  /\ \A p \in Presents :
       token[p] = "pending" <=> \/ \E i \in DOMAIN requests : requests[i] = p
                                \/ worker.pc = "acquire" /\ worker.token = p
  /\ worker.pc = "finish" => \E p \in Presents : token[p] = "failed"

\* The destructor finds the queue drained and the workers joined.
TeardownQuiet ==
  /\ teardown # "no" => /\ app.pc = "run" /\ queue = <<>> /\ encoder.pc = "idle"
                        /\ requests = <<>> /\ slot = NoToken
  /\ teardown \in {"pre", "done"} => worker.pc = "idle"

\* A token is in one place only: encoder, slot, or the application before it
\* stashes it.
TokensApart ==
  /\ \A p \in {slot, encoder.token} \ {NoToken} :
       p + (IF app.pc = "stash" THEN 1 ELSE 0) <= submitted
  /\ slot # NoToken => slot # encoder.token

\* While nothing was refused under Async, at most one Present is stashed and not
\* taken, and the slot holds its token.
Untaken == IF encoder.pc = "idle" THEN 0 ELSE 1

SlotFollowsQueue ==
  policy = "Async" /\ refused = {} =>
    /\ Len(queue) + (IF app.pc = "publish" THEN 1 ELSE 0) <= Untaken + 1
    /\ Len(queue) > Untaken => slot = queue[Untaken + 1].present
    /\ Len(queue) <= Untaken =>
         slot = IF app.pc = "publish" THEN submitted ELSE NoToken
    /\ encoder.token \in {NoToken, encoder.present}

\* A drawable that the encoder has not come for.
Waiting(p) ==
  /\ token[p] = "drawable"
  /\ \/ p = slot
     \/ p = app.token /\ app.pc = "stash"
     \/ p = encoder.token /\ encoder.pc # "present"

\* asyncAcquireDrawableHeld_ stands for it.
HeldExact ==
  policy = "Async" /\ (\A p \in Presents : token[p] # "failed") =>
    /\ worker.pc = "acquire" /\ teardown = "no" => held
    /\ worker.pc = "acquire" => \A p \in Presents : ~Waiting(p)
    /\ \A p \in Presents : Waiting(p) => held
    /\ \A p, q \in Presents : Waiting(p) /\ Waiting(q) => p = q

\* A drawable that still fits the layer when the change under way is made.
WillFit(d) == IF encoder.pc = "setProps" THEN d.raced /\ d.layer = layer ELSE Fits(d)

\* Prefetched drawables and the generation: what was requested since the last discard
\* fits, or was requested beside the change of the layer that follows it.
GenerationExact ==
  /\ fetcher.generation <= generation
  /\ encoder.pc # "present" => encoder.drawable = {}
  /\ \A d \in encoder.drawable : Fits(d)
  /\ teardown \in {"no", "async"} =>
       /\ \A d \in prefetched : WillFit(d)
       /\ fetcher.generation = generation =>
            /\ fetcher.pc = "acquire" /\ encoder.pc = "setProps" => fetcher.raced
            /\ fetcher.pc = "store" => \A d \in fetcher.drawable : WillFit(d)

DrawableInv ==
  /\ TypeOK /\ EncoderShape /\ PresentsCounted /\ AppToken /\ PendingServed
  /\ TeardownQuiet /\ TokensApart /\ SlotFollowsQueue /\ HeldExact
  /\ GenerationExact

-----------------------------------------------------------------------------
(* What the encode thread does to the queue, the slot and its own record. *)

\* It takes the Present at the head, with what is in the slot ...
Takes ==
  /\ encoder.pc = "idle" /\ queue # <<>>
  /\ encoder' = [pc |-> "configure", present |-> Head(queue).present,
                 token |-> slot, drawable |-> {}]
  /\ slot' = NoToken
  /\ UNCHANGED <<queue, retired, held>>

\* ... or goes on with it ...
GoesOn ==
  /\ encoder.pc # "idle" /\ encoder'.pc # "idle"
  /\ encoder.pc = "present" => encoder'.pc = "present"
  /\ encoder'.present = encoder.present /\ encoder'.token = encoder.token
  /\ encoder' \in EncoderRecord
  /\ UNCHANGED <<queue, retired, slot>>

\* ... or is through with it.
Finishes ==
  /\ encoder.pc # "idle" /\ encoder' = Idle
  /\ queue' = Tail(queue) /\ retired' = retired + 1
  /\ UNCHANGED slot

\* Every step of the encode thread is one of the three, and leaves the
\* application, the tokens and the workers alone.
LEMMA EncoderStep ==
  ASSUME TypeOK, EncoderShape, Encoder
  PROVE  /\ Takes \/ GoesOn \/ Finishes
         /\ UNCHANGED <<policy, submitted, app, refused, token, requests, worker,
                       fetcher, inFlight, teardown>>
         /\ UNCHANGED held \/ WaitToken
<1> USE DrawableAssumption
    DEF TypeOK, EncoderShape, EncoderRecord, Takes, GoesOn, Finishes, Leave,
        EncoderGoes, NoToken, appVars, slotVars, asyncVars, preVars
<1>1. CASE Take
  BY <1>1 DEF Take, Idle
<1>2. CASE Skip
  BY <1>2 DEF Skip
<1>3. CASE Configure
  BY <1>3 DEF Configure
<1>9. CASE SetProps
  BY <1>9 DEF SetProps
<1>4. CASE Pipeline
  BY <1>4 DEF Pipeline
<1>5. CASE WaitToken
  <2>1. encoder \in EncoderRecord /\ encoder.pc = "drawable"
    BY <1>5 DEF WaitToken
  <2>2. /\ \/ EncoderGoes("present") /\ UNCHANGED <<queue, retired>>
           \/ Leave
        /\ UNCHANGED <<policy, appVars, slotVars, token, requests, worker, preVars,
                       teardown>>
    BY <1>5 DEF WaitToken
  <2> HIDE DEF TypeOK, EncoderShape
  <2>3. CASE EncoderGoes("present") /\ UNCHANGED <<queue, retired>>
    BY <1>5, <2>1, <2>2, <2>3
  <2>4. CASE Leave
    BY <1>5, <2>1, <2>2, <2>4
  <2> QED
    BY <2>2, <2>3, <2>4
<1>6. CASE TokenMissing
  BY <1>6 DEF TokenMissing
<1>7. CASE TakeDrawable
  <2> HIDE DEF EncoderRecord
  <2>0. encoder \in EncoderRecord /\ prefetched \in MaybeDrawable
    OBVIOUS
  <2>1. [encoder EXCEPT !.pc = "present", !.drawable = prefetched] \in EncoderRecord
    BY <2>0, Zenon DEF EncoderRecord
  <2>2. CASE UNCHANGED <<queue, retired>>
             /\ encoder' = [encoder EXCEPT !.pc = "present", !.drawable = prefetched]
    BY <1>7, <2>1, <2>2 DEF TakeDrawable
  <2>3. CASE Leave
    BY <1>7, <2>3 DEF TakeDrawable
  <2> QED
    BY <1>7, <2>2, <2>3 DEF TakeDrawable
<1>8. CASE Present
  BY <1>8 DEF Present
<1> QED
  BY <1>1, <1>2, <1>3, <1>4, <1>5, <1>6, <1>7, <1>8, <1>9 DEF Encoder

-----------------------------------------------------------------------------
(* The invariant is kept: one lemma for each part, one case for each action    *)
(* that can disturb it.                                                        *)

\* The queue holds Presents.
LEMMA QueueShape ==
  ASSUME TypeOK
  PROVE  /\ submitted \in Nat /\ retired \in Nat /\ submitted <= MaxPresents
         /\ queue \in Seq([present : Presents, required : BOOLEAN])
         /\ Len(queue) \in Nat /\ DOMAIN queue = 1..Len(queue)
         /\ \A i \in 1..Len(queue) : queue[i].present \in Presents /\ queue[i].present \in Nat
         /\ queue # <<>> =>
              /\ Len(queue) >= 1
              /\ Head(queue) = queue[1]
              /\ Tail(queue) \in Seq([present : Presents, required : BOOLEAN])
              /\ Len(Tail(queue)) = Len(queue) - 1
              /\ DOMAIN Tail(queue) = 1..(Len(queue) - 1)
              /\ \A i \in 1..(Len(queue) - 1) : Tail(queue)[i] = queue[i + 1]
<1> USE DrawableAssumption
<1> DEFINE R == [present : Presents, required : BOOLEAN]
<1>1. queue \in Seq(R) /\ submitted \in Nat /\ retired \in Nat /\ submitted <= MaxPresents
  BY DEF TypeOK
<1>2. \A i \in 1..Len(queue) : queue[i] \in R
  <2> HIDE DEF R
  <2> QED BY <1>1
<1>3. \A r \in R : r.present \in Presents /\ r.present \in Nat
  BY DEF Presents
<1>4. Len(queue) \in Nat /\ DOMAIN queue = 1..Len(queue)
  <2> HIDE DEF R
  <2> QED BY <1>1
<1>5. queue # <<>> =>
        /\ Len(queue) >= 1
        /\ Head(queue) = queue[1]
        /\ Tail(queue) \in Seq(R)
        /\ Len(Tail(queue)) = Len(queue) - 1
        /\ DOMAIN Tail(queue) = 1..(Len(queue) - 1)
        /\ \A i \in 1..(Len(queue) - 1) : Tail(queue)[i] = queue[i + 1]
  <2> HIDE DEF R
  <2> QED BY <1>1
<1> QED
  BY <1>1, <1>2, <1>3, <1>4, <1>5

\* Every action leaves the policy alone, and only the encode thread writes its
\* record: between two Presents it carries nothing.
LEMMA EncoderShapeStep ==
  ASSUME DrawableInv, [Next]_vars
  PROVE  EncoderShape'
<1> USE DEF DrawableInv, Idle, NoToken
<1>0. /\ policy \in Policies /\ encoder \in EncoderRecord
      /\ encoder.pc = "idle" => encoder = Idle
      /\ {} \in MaybeDrawable
  BY DEF EncoderShape, MaybeDrawable
<1>1. ASSUME Encoder
      PROVE  /\ policy' \in Policies /\ encoder' \in EncoderRecord
             /\ encoder'.pc = "idle" => encoder' = Idle
  <2>1. (Takes \/ GoesOn \/ Finishes) /\ policy' = policy
    BY <1>1, EncoderStep
  <2>2. CASE Takes
    <3>1. Head(queue).present \in Nat /\ slot \in 0..MaxPresents
      BY <2>2, QueueShape DEF Takes, TypeOK
    <3> QED
      BY <1>0, <2>1, <2>2, <3>1 DEF Takes, EncoderRecord
  <2>3. CASE GoesOn
    BY <1>0, <2>1, <2>3 DEF GoesOn
  <2>4. CASE Finishes
    BY <1>0, <2>1, <2>4, DrawableAssumption DEF Finishes, EncoderRecord
  <2> QED
    BY <2>1, <2>2, <2>3, <2>4
<1>2. ASSUME Encoder
      PROVE  encoder'.pc = "setProps" => layer' < MaxResizes
  <2>1. CASE Configure
    <3>1. CASE EncoderGoes("pipeline")
      BY <1>0, <3>1 DEF EncoderGoes, EncoderRecord
    <3>2. CASE layer < MaxResizes
      BY <2>1, <3>2 DEF Configure
    <3> QED
      BY <2>1, <3>1, <3>2 DEF Configure
  <2>2. CASE Take \/ Skip \/ SetProps \/ Pipeline \/ WaitToken \/ TokenMissing
             \/ TakeDrawable \/ Present
    <3>1. \/ encoder' = [Idle EXCEPT !.pc = "configure", !.present = Head(queue).present,
                                    !.token = slot]
          \/ encoder' = Idle
          \/ EncoderGoes("pipeline") \/ EncoderGoes("drawable") \/ EncoderGoes("present")
          \/ encoder' = [encoder EXCEPT !.pc = "present", !.drawable = prefetched]
      BY <2>2
         DEF Take, Skip, SetProps, Pipeline, WaitToken, TokenMissing, TakeDrawable,
             Present, Leave
    <3>2. ASSUME NEW label, EncoderGoes(label)
          PROVE  encoder'.pc = label
      BY <1>0, <3>2 DEF EncoderGoes, EncoderRecord
    <3>3. CASE encoder' = [encoder EXCEPT !.pc = "present", !.drawable = prefetched]
      <4>1. encoder'.pc = "present"
        BY <1>0, <3>3 DEF EncoderRecord
      <4> QED
        BY <4>1
    <3>4. CASE EncoderGoes("pipeline") \/ EncoderGoes("drawable") \/ EncoderGoes("present")
      <4>1. encoder'.pc \in {"pipeline", "drawable", "present"}
        BY <3>2, <3>4
      <4> QED
        BY <4>1
    <3>5. CASE encoder' = [Idle EXCEPT !.pc = "configure", !.present = Head(queue).present,
                                       !.token = slot]
      <4>1. encoder' = [pc |-> "configure", present |-> Head(queue).present,
                        token |-> slot, drawable |-> {}]
        BY <3>5
      <4>2. encoder'.pc = "configure"
        BY <4>1
      <4> QED
        BY <4>2
    <3>6. CASE encoder' = Idle
      BY <3>6
    <3> QED
      BY <3>1, <3>3, <3>4, <3>5, <3>6
  <2> QED
    BY <1>2, <2>1, <2>2 DEF Encoder
<1>3. CASE UNCHANGED <<policy, encoder, layer>>
  BY <1>3 DEF EncoderShape
<1>4. CASE Encoder
  BY <1>1, <1>2, <1>4 DEF EncoderShape
<1> QED
  BY <1>3, <1>4
     DEF Next, Submit, AsyncWorker, PreWorker, Destroy, vars, Acquire, Stash,
         Publish, Reject, AsyncPop, AsyncFulfil, AsyncFinish, PreTake, PreFetch,
         PreStore, PreSettle, DestroyAsync, DestroyPre, DestroyDone

\* No Present is lost or counted twice between the application, the queue and
\* the encode thread.
LEMMA PresentsCountedStep ==
  ASSUME DrawableInv, [Next]_vars
  PROVE  PresentsCounted'
<1> USE DEF DrawableInv, PresentsCounted
<1>0. /\ submitted \in Nat /\ retired \in Nat /\ Len(queue) \in Nat
      /\ Submitting \in {0, 1}
      /\ \A i \in 1..Len(queue) : queue[i].present \in Nat
  BY QueueShape DEF Submitting
<1>1. CASE Acquire
  <2>1. /\ submitted' = submitted + 1 /\ Submitting = 0 /\ Submitting' = 1
        /\ UNCHANGED <<queue, retired, encoder>>
    BY <1>1 DEF Acquire, Submitting
  <2> QED
    BY <1>0, <2>1
<1>2. CASE Stash
  <2>1. Submitting' = Submitting /\ UNCHANGED <<submitted, queue, retired, encoder>>
    BY <1>2 DEF Stash, Submitting, TypeOK
  <2> QED
    BY <1>0, <2>1
<1>3. CASE Publish
  <2> DEFINE new == [present |-> submitted,
                     required |-> policy \in {"Async", "SyncOnSubmit"}]
  <2>1. /\ queue' = Append(queue, new) /\ Submitting = 1 /\ Submitting' = 0
        /\ UNCHANGED <<submitted, retired, encoder>>
    BY <1>3 DEF Publish, Submitting
  <2>2. new.present = submitted
    OBVIOUS
  <2> HIDE DEF new
  <2>3. /\ Len(queue') = Len(queue) + 1
        /\ \A i \in 1..Len(queue) : queue'[i] = queue[i]
        /\ queue'[Len(queue) + 1] = new
        /\ queue # <<>> => queue' # <<>> /\ Head(queue') = Head(queue)
    BY <2>1, QueueShape
  <2>4. \A i \in 1..Len(queue') : queue'[i].present + Submitting' <= submitted'
    <3> TAKE i \in 1..Len(queue')
    <3>1. CASE i = Len(queue) + 1
      BY <1>0, <2>1, <2>2, <2>3, <3>1
    <3>2. CASE i \in 1..Len(queue)
      BY <1>0, <2>1, <2>3, <3>2
    <3> QED
      BY <1>0, <2>3, <3>1, <3>2
  <2> QED
    BY <1>0, <2>1, <2>3, <2>4
<1>4. CASE Reject
  <2>1. /\ retired' = retired + 1 /\ Submitting = 1 /\ Submitting' = 0
        /\ UNCHANGED <<submitted, queue, encoder>>
    BY <1>4 DEF Reject, Submitting
  <2> QED
    BY <1>0, <2>1
<1>5. CASE Encoder
  <2>1. (Takes \/ GoesOn \/ Finishes) /\ submitted' = submitted /\ Submitting' = Submitting
    BY <1>5, EncoderStep DEF Submitting
  <2>2. CASE Takes
    BY <1>0, <2>1, <2>2 DEF Takes
  <2>3. CASE GoesOn
    BY <1>0, <2>1, <2>3 DEF GoesOn
  <2>4. CASE Finishes
    <3>1. /\ Len(queue') = Len(queue) - 1
          /\ \A i \in 1..(Len(queue) - 1) : queue'[i] = queue[i + 1]
      BY <2>4, QueueShape DEF Finishes
    <3>2. encoder'.pc = "idle" /\ retired' = retired + 1
      BY <2>4 DEF Finishes, Idle
    <3>3. \A i \in 1..Len(queue') : queue'[i].present + Submitting' <= submitted'
      <4> TAKE i \in 1..Len(queue')
      <4>1. i + 1 \in 1..Len(queue) /\ queue'[i] = queue[i + 1]
        BY <1>0, <3>1
      <4> QED
        BY <2>1, <4>1
    <3> QED
      BY <1>0, <2>1, <3>1, <3>2, <3>3
  <2> QED
    BY <2>1, <2>2, <2>3, <2>4
<1>6. CASE UNCHANGED <<submitted, app, queue, retired, encoder>>
  BY <1>6 DEF Submitting
<1> QED
  BY <1>1, <1>2, <1>3, <1>4, <1>5, <1>6
     DEF Next, Submit, AsyncWorker, PreWorker, Destroy, vars, appVars, AsyncPop,
         AsyncFulfil, AsyncFinish, PreTake, PreFetch, PreStore, PreSettle, DestroyAsync,
         DestroyPre, DestroyDone

\* The application carries the token of the Present it is submitting.
LEMMA AppTokenStep ==
  ASSUME DrawableInv, [Next]_vars
  PROVE  AppToken'
<1> USE DrawableAssumption DEF DrawableInv, AppToken, NoToken
<1>1. CASE Acquire
  BY <1>1 DEF Acquire
<1>2. CASE Stash
  BY <1>2 DEF Stash, TypeOK
<1>3. CASE Publish
  BY <1>3 DEF Publish
<1>4. CASE Reject
  BY <1>4 DEF Reject
<1>5. CASE UNCHANGED <<policy, submitted, app>>
  BY <1>5
<1>6. ASSUME Encoder
      PROVE  UNCHANGED <<policy, submitted, app>>
  BY <1>6, EncoderStep
<1> QED
  BY <1>1, <1>2, <1>3, <1>4, <1>5, <1>6
     DEF Next, Submit, AsyncWorker, PreWorker, Destroy, vars, appVars, AsyncPop,
         AsyncFulfil, AsyncFinish, PreTake, PreFetch, PreStore, PreSettle, DestroyAsync,
         DestroyPre, DestroyDone

\* Requests are queued and served in the order of the Presents, each once, and a
\* token is pending for exactly as long.
LEMMA PendingServedStep ==
  ASSUME DrawableInv, [Next]_vars
  PROVE  PendingServed'
<1> USE DrawableAssumption DEF DrawableInv, PendingServed, Presents
<1>0. /\ submitted \in Nat /\ requests \in Seq(1..MaxPresents)
      /\ Len(requests) \in Nat /\ DOMAIN requests = 1..Len(requests)
      /\ \A i \in DOMAIN requests : requests[i] \in 1..MaxPresents
      /\ token \in [1..MaxPresents -> {"none", "pending", "drawable", "failed"}]
  BY DEF TypeOK
<1>1. CASE Acquire
  <2>1. submitted + 1 \in 1..MaxPresents /\ submitted' = submitted + 1 /\ UNCHANGED worker
    BY <1>0, <1>1 DEF Acquire
  <2>2. \A p \in Presents : p # submitted + 1 => token'[p] = token[p]
    BY <1>0, <1>1 DEF Acquire
  <2>3. token[submitted + 1] = "none"
    BY <1>0, <2>1
  <2>4. worker.pc = "acquire" => worker.token <= submitted
    BY <1>0
  <2>5. CASE policy = "Async"
    <3>1. requests' = Append(requests, submitted + 1)
      BY <1>1, <2>5 DEF Acquire
    <3>2. token'[submitted + 1] = "pending"
      <4>1. token' = [token EXCEPT ![submitted + 1] = "pending"]
        BY <1>1, <2>5 DEF Acquire
      <4> QED
        BY <1>0, <2>1, <4>1
    <3>3. /\ DOMAIN requests' = 1..(Len(requests) + 1)
          /\ \A i \in DOMAIN requests : requests'[i] = requests[i]
          /\ requests'[Len(requests) + 1] = submitted + 1
      BY <1>0, <2>1, <3>1
    <3>4. \A i, j \in DOMAIN requests' : i < j => requests'[i] < requests'[j]
      <4> TAKE i, j \in DOMAIN requests'
      <4>1. CASE j \in DOMAIN requests
        <5>1. i < j => i \in DOMAIN requests
          BY <1>0, <3>3, <4>1
        <5> QED
          BY <3>3, <4>1, <5>1
      <4>2. CASE j = Len(requests) + 1
        <5>1. i < j => i \in DOMAIN requests
          BY <1>0, <3>3, <4>2
        <5>2. i \in DOMAIN requests => requests[i] < submitted + 1
          BY <1>0
        <5> QED
          BY <3>3, <4>2, <5>1, <5>2
      <4> QED
        BY <1>0, <3>3, <4>1, <4>2
    <3>5. \A i \in DOMAIN requests' : i \in DOMAIN requests \/ i = Len(requests) + 1
      BY <1>0, <3>3
    <3>6. \A i \in DOMAIN requests : i \in DOMAIN requests'
      BY <1>0, <3>3
    <3>7. \A i \in DOMAIN requests' : requests'[i] <= submitted'
      BY <1>0, <2>1, <3>3, <3>5
    <3>8. worker'.pc = "acquire" => \A i \in DOMAIN requests' : worker'.token < requests'[i]
      BY <1>0, <2>1, <2>4, <3>3, <3>5
    <3>9. \A p \in Presents :
            token'[p] = "pending" <=> \/ \E i \in DOMAIN requests' : requests'[i] = p
                                      \/ worker'.pc = "acquire" /\ worker'.token = p
      <4> TAKE p \in Presents
      <4>1. CASE p = submitted + 1
        BY <1>0, <3>2, <3>3, <4>1
      <4>2. CASE p # submitted + 1
        BY <2>1, <2>2, <3>3, <3>5, <3>6, <4>2
      <4> QED
        BY <4>1, <4>2
    <3> QED
      BY <1>0, <2>1, <2>2, <2>3, <3>2, <3>4, <3>7, <3>8, <3>9
  <2>6. CASE policy # "Async"
    <3>1. requests' = requests
      BY <1>1, <2>6 DEF Acquire
    <3>2. token'[submitted + 1] \in {"none", "drawable"}
      <4>1. \/ token' = [token EXCEPT ![submitted + 1] = "none"]
            \/ token' = [token EXCEPT ![submitted + 1] = "drawable"]
        BY <1>1, <2>6 DEF Acquire
      <4> QED
        BY <1>0, <2>1, <4>1
    <3> QED
      BY <1>0, <2>1, <2>2, <2>3, <3>1, <3>2
  <2> QED
    BY <2>5, <2>6
<1>2. CASE AsyncPop
  <2>1. /\ worker.pc = "idle" /\ requests # <<>> /\ requests' = Tail(requests)
        /\ worker'.pc = "acquire" /\ worker'.token = Head(requests)
        /\ UNCHANGED <<submitted, token>>
    BY <1>2 DEF AsyncPop, appVars
  <2>2. /\ Head(requests) = requests[1] /\ 1 \in DOMAIN requests
        /\ DOMAIN requests' = 1..(Len(requests) - 1)
        /\ \A i \in DOMAIN requests' : requests'[i] = requests[i + 1]
    BY <1>0, <2>1
  <2>3. \A i \in DOMAIN requests : i = 1 \/ i - 1 \in DOMAIN requests'
    BY <1>0, <2>2
  <2>4. \A i \in DOMAIN requests' : i + 1 \in DOMAIN requests
    BY <1>0, <2>2
  <2>5. \A p \in Presents :
          (\E i \in DOMAIN requests : requests[i] = p)
            <=> requests[1] = p \/ \E i \in DOMAIN requests' : requests'[i] = p
    <3> TAKE p \in Presents
    <3>1. ASSUME NEW i \in DOMAIN requests, requests[i] = p, i # 1
          PROVE  i - 1 \in DOMAIN requests' /\ requests'[i - 1] = p
      <4>1. i - 1 \in DOMAIN requests' /\ (i - 1) + 1 = i
        BY <1>0, <2>3, <3>1
      <4> QED
        BY <2>2, <3>1, <4>1
    <3> QED
      BY <2>2, <2>4, <3>1
  <2>6. \A i, j \in DOMAIN requests' : i < j => requests'[i] < requests'[j]
    <3> TAKE i, j \in DOMAIN requests'
    <3>1. i < j => i + 1 < j + 1
      BY <2>2
    <3> QED
      BY <2>2, <2>4, <3>1
  <2>7. \A i \in DOMAIN requests' : worker'.token < requests'[i]
    <3> TAKE i \in DOMAIN requests'
    <3>1. 1 < i + 1
      BY <2>2
    <3> QED
      BY <2>1, <2>2, <2>4, <3>1
  <2>8. requests[1] \in 1..MaxPresents
    BY <1>0, <2>2
  <2> QED
    BY <2>1, <2>2, <2>4, <2>5, <2>6, <2>7, <2>8
<1>3. CASE AsyncFulfil
  <2>1. /\ worker.pc = "acquire" /\ worker'.pc \in {"idle", "finish"}
        /\ UNCHANGED <<submitted, requests>>
    BY <1>3 DEF AsyncFulfil, appVars
  <2>2. worker.token \in 1..MaxPresents
    BY <2>1
  <2>3. \/ token' = [token EXCEPT ![worker.token] = "drawable"] /\ worker'.pc = "idle"
        \/ token' = [token EXCEPT ![worker.token] = "failed"]
    <3>1. PICK got \in NextDrawable :
            /\ token' = [token EXCEPT ![worker.token] = IF got THEN "drawable" ELSE "failed"]
            /\ worker' = [pc |-> IF got THEN "idle" ELSE "finish", token |-> NoToken]
      BY <1>3 DEF AsyncFulfil
    <3>2. CASE got
      BY <3>1, <3>2
    <3>3. CASE ~got
      BY <3>1, <3>3
    <3> QED
      BY <3>2, <3>3
  <2>4. /\ token'[worker.token] \in {"drawable", "failed"}
        /\ worker'.pc = "finish" => token'[worker.token] = "failed"
        /\ \A p \in Presents : p # worker.token => token'[p] = token[p]
    BY <1>0, <2>1, <2>2, <2>3
  <2>5. worker.token <= submitted /\ \A i \in DOMAIN requests : requests[i] # worker.token
    BY <1>0, <2>1
  <2> QED
    BY <1>0, <2>1, <2>2, <2>4, <2>5
<1>4. CASE AsyncFinish
  BY <1>4 DEF AsyncFinish, appVars, TypeOK
<1>5. CASE DestroyAsync
  <2>1. requests' = <<>> /\ UNCHANGED <<submitted, worker>>
    BY <1>5 DEF DestroyAsync, appVars
  <2>2. \A p \in Presents :
          token'[p] = IF \E i \in DOMAIN requests : requests[i] = p
                        THEN "failed" ELSE token[p]
    BY <1>5 DEF DestroyAsync
  <2>3. DOMAIN requests' = {}
    BY <2>1
  <2> QED
    BY <1>0, <2>1, <2>2, <2>3
<1>6. CASE UNCHANGED <<submitted, token, requests, worker>>
  BY <1>6
<1>7. ASSUME Encoder
      PROVE  UNCHANGED <<submitted, token, requests, worker>>
  BY <1>7, EncoderStep
<1> QED
  BY <1>1, <1>2, <1>3, <1>4, <1>5, <1>6, <1>7
     DEF Next, Submit, AsyncWorker, PreWorker, Destroy, vars, appVars, asyncVars,
         Stash, Publish, Reject, PreTake, PreFetch, PreStore, PreSettle, DestroyPre,
         DestroyDone

\* From the destructor on nothing is submitted, queued or encoded, and the
\* acquire worker is joined before the prefetch worker is told to stop.
LEMMA TeardownQuietStep ==
  ASSUME DrawableInv, [Next]_vars
  PROVE  TeardownQuiet'
<1> USE DEF DrawableInv, TeardownQuiet, NoToken
<1>1. CASE Acquire
  BY <1>1 DEF Acquire
<1>2. CASE Submit
  BY <1>2 DEF Submit, Stash, Publish, Reject, asyncVars
<1>3. CASE AsyncWorker
  BY <1>3 DEF AsyncWorker, AsyncPop, AsyncFulfil, AsyncFinish, appVars, slotVars
<1>4. CASE Encoder
  <2>1. (Takes \/ GoesOn \/ Finishes) /\ UNCHANGED <<app, requests, worker, teardown>>
    BY <1>4, EncoderStep
  <2> QED
    BY <2>1 DEF Takes, GoesOn, Finishes
<1>5. CASE DestroyAsync
  BY <1>5 DEF DestroyAsync, appVars
<1>6. CASE DestroyPre
  BY <1>6 DEF DestroyPre, appVars, slotVars, asyncVars
<1>7. CASE DestroyDone
  BY <1>7 DEF DestroyDone, appVars, slotVars, asyncVars
<1>8. CASE UNCHANGED <<app, queue, encoder, requests, slot, worker, teardown>>
  BY <1>8
<1> QED
  BY <1>1, <1>2, <1>3, <1>4, <1>5, <1>6, <1>7, <1>8
     DEF Next, PreWorker, Destroy, vars, appVars, slotVars, asyncVars, PreTake, PreFetch,
         PreStore, PreSettle

\* A token moves from the application to the slot and from there to the encoder.
LEMMA TokensApartStep ==
  ASSUME DrawableInv, [Next]_vars
  PROVE  TokensApart'
<1> USE DrawableAssumption DEF DrawableInv, TokensApart, NoToken
<1>0. /\ submitted \in Nat /\ slot \in Nat /\ encoder.token \in Nat
      /\ app.token \in {0, submitted}
  BY DEF TypeOK, EncoderShape, EncoderRecord, AppToken
<1>1. CASE Acquire
  <2>1. submitted' = submitted + 1 /\ app.pc = "run" /\ UNCHANGED <<slot, encoder>>
    BY <1>1 DEF Acquire, slotVars
  <2>2. app'.pc = "stash"
    BY <1>1 DEF Acquire
  <2> QED
    BY <1>0, <2>1, <2>2
<1>2. CASE Stash
  <2>1. /\ app.pc = "stash" /\ slot' \in {slot, app.token}
        /\ UNCHANGED <<submitted, encoder>>
    BY <1>2 DEF Stash
  <2>2. app'.pc = "publish"
    BY <1>2 DEF Stash, TypeOK
  <2> QED
    BY <1>0, <2>1, <2>2
<1>3. CASE Publish
  BY <1>0, <1>3 DEF Publish, slotVars
<1>4. CASE Reject
  BY <1>0, <1>4 DEF Reject
<1>5. CASE Encoder
  <2>1. (Takes \/ GoesOn \/ Finishes) /\ UNCHANGED <<submitted, app>>
    BY <1>5, EncoderStep
  <2>2. CASE Takes
    BY <1>0, <2>1, <2>2 DEF Takes
  <2>3. CASE GoesOn
    BY <1>0, <2>1, <2>3 DEF GoesOn
  <2>4. CASE Finishes
    BY <1>0, <2>1, <2>4 DEF Finishes, Idle
  <2> QED
    BY <2>1, <2>2, <2>3, <2>4
<1>6. CASE DestroyAsync
  BY <1>0, <1>6 DEF DestroyAsync, appVars
<1>7. CASE UNCHANGED <<submitted, app, slot, encoder>>
  BY <1>7
<1> QED
  BY <1>1, <1>2, <1>3, <1>4, <1>5, <1>6, <1>7
     DEF Next, Submit, AsyncWorker, PreWorker, Destroy, vars, appVars, slotVars,
         AsyncPop, AsyncFulfil, AsyncFinish, PreTake, PreFetch, PreStore, PreSettle,
         DestroyPre, DestroyDone

\* Until a token is refused under Async, what is in the slot belongs to the one
\* Present that the encoder has not taken.
LEMMA SlotFollowsQueueStep ==
  ASSUME DrawableInv, [Next]_vars
  PROVE  SlotFollowsQueue'
<1> USE DEF DrawableInv
<1>0. refused' = {} => refused = {}
  BY EncoderStep
     DEF Next, Submit, AsyncWorker, PreWorker, Destroy, vars, slotVars, Acquire, Stash,
         Publish, Reject, AsyncPop, AsyncFulfil, AsyncFinish, PreTake, PreFetch, PreStore,
         PreSettle, DestroyAsync, DestroyPre, DestroyDone
<1>1. policy' = policy
  BY EncoderStep
     DEF Next, Submit, AsyncWorker, PreWorker, Destroy, vars, Acquire, Stash,
         Publish, Reject, AsyncPop, AsyncFulfil, AsyncFinish, PreTake, PreFetch, PreStore,
         PreSettle, DestroyAsync, DestroyPre, DestroyDone
<1> SUFFICES ASSUME policy = "Async", refused = {}, refused' = {}
             PROVE  /\ Len(queue') + (IF app'.pc = "publish" THEN 1 ELSE 0) <= Untaken' + 1
                    /\ Len(queue') > Untaken' => slot' = queue'[Untaken' + 1].present
                    /\ Len(queue') <= Untaken' =>
                         slot' = IF app'.pc = "publish" THEN submitted' ELSE NoToken
                    /\ encoder'.token \in {NoToken, encoder'.present}
  BY <1>0, <1>1 DEF SlotFollowsQueue
<1>2. /\ Len(queue) + (IF app.pc = "publish" THEN 1 ELSE 0) <= Untaken + 1
      /\ Len(queue) > Untaken => slot = queue[Untaken + 1].present
      /\ Len(queue) <= Untaken =>
           slot = IF app.pc = "publish" THEN submitted ELSE NoToken
      /\ encoder.token \in {NoToken, encoder.present}
  BY DEF SlotFollowsQueue
<1>3. /\ Untaken \in {0, 1} /\ Len(queue) \in Nat /\ submitted \in Nat
      /\ app.pc # "run" => app.token = submitted
  BY QueueShape DEF Untaken, AppToken
<1>4. CASE Acquire
  <2>1. /\ app.pc = "run" /\ app'.pc = "stash"
        /\ UNCHANGED <<queue, slot, encoder>>
    BY <1>4 DEF Acquire, slotVars
  <2> QED
    BY <1>2, <1>3, <2>1 DEF Untaken
<1>5. CASE Stash
  <2>1. /\ app.pc = "stash" /\ app.token = submitted
        /\ UNCHANGED <<submitted, queue, encoder>>
    BY <1>3, <1>5 DEF Stash
  <2>2. app'.pc = "publish"
    BY <1>5 DEF Stash, TypeOK
  <2>3. submitted > 0
    BY <1>3, <2>1, QueueShape DEF PresentsCounted, Submitting
  <2>4. slot = NoToken /\ slot' = submitted
    BY <1>5, <2>1, <2>3 DEF Stash, NoToken
  <2>5. ~(Len(queue) > Untaken)
    <3>1. ASSUME Len(queue) > Untaken
          PROVE  queue[Untaken + 1].present \in Presents
      <4>1. Untaken + 1 \in 1..Len(queue)
        BY <1>3, <3>1
      <4> QED
        BY <4>1, QueueShape
    <3> QED
      BY <1>2, <2>4, <3>1, DrawableAssumption DEF NoToken, Presents
  <2> QED
    BY <1>2, <1>3, <2>1, <2>2, <2>4, <2>5 DEF Untaken
<1>6. CASE Publish
  <2> DEFINE new == [present |-> submitted,
                     required |-> policy \in {"Async", "SyncOnSubmit"}]
  <2>1. /\ app.pc = "publish" /\ queue' = Append(queue, new)
        /\ app'.pc = "run" /\ UNCHANGED <<slot, encoder>>
    BY <1>6 DEF Publish, slotVars
  <2>2. new.present = submitted
    OBVIOUS
  <2> HIDE DEF new
  <2>3. Len(queue') = Len(queue) + 1 /\ queue'[Len(queue) + 1] = new
    BY <2>1, QueueShape
  <2>4. Untaken' = Untaken
    BY <2>1 DEF Untaken
  <2>5. Len(queue) <= Untaken /\ slot = submitted
    BY <1>2, <1>3, <2>1
  <2>6. Len(queue') > Untaken' => slot' = queue'[Untaken' + 1].present
    <3>1. Len(queue') > Untaken' => Untaken' + 1 = Len(queue) + 1
      BY <1>3, <2>3, <2>4, <2>5
    <3> QED
      BY <2>1, <2>2, <2>3, <2>5, <3>1
  <2>7. Len(queue') <= Untaken' => slot' = NoToken
    <3>1. Len(queue') <= Untaken' => Len(queue) = 0 /\ Untaken = 1
      BY <1>3, <2>3, <2>4
    <3>2. Untaken = 1 => Len(queue) >= 1
      BY QueueShape DEF Untaken, PresentsCounted
    <3> QED
      BY <3>1, <3>2
  <2> QED
    BY <1>2, <1>3, <2>1, <2>3, <2>4, <2>5, <2>6, <2>7
<1>7. CASE Reject
  <2>1. /\ app.pc = "publish" /\ app'.pc = "run" /\ UNCHANGED <<queue, encoder>>
        /\ slot' = IF app.token # NoToken THEN NoToken ELSE slot
    BY <1>7 DEF Reject
  <2>2. Len(queue) <= Untaken /\ slot = submitted
    BY <1>2, <1>3, <2>1
  <2>3. slot' = NoToken
    BY <1>3, <2>1, <2>2
  <2> QED
    BY <1>2, <1>3, <2>1, <2>2, <2>3 DEF Untaken
<1>8. CASE Encoder
  <2>1. (Takes \/ GoesOn \/ Finishes) /\ UNCHANGED <<submitted, app>>
    BY <1>8, EncoderStep
  <2>2. CASE Takes
    <3>1. /\ Untaken = 0 /\ Untaken' = 1 /\ slot' = NoToken /\ UNCHANGED queue
          /\ encoder'.token = slot /\ encoder'.present = Head(queue).present
      BY <2>2 DEF Takes, Untaken
    <3>2. Len(queue) >= 1 /\ Head(queue) = queue[1]
      BY <2>2, QueueShape DEF Takes
    <3> QED
      BY <1>2, <1>3, <2>1, <3>1, <3>2
  <2>3. CASE GoesOn
    BY <1>2, <1>3, <2>1, <2>3 DEF GoesOn, Untaken
  <2>4. CASE Finishes
    <3>1. /\ Untaken = 1 /\ Untaken' = 0 /\ UNCHANGED slot
          /\ encoder'.token = NoToken
      BY <2>4 DEF Finishes, Untaken, Idle
    <3>2. queue # <<>>
      BY <2>4 DEF Finishes, PresentsCounted
    <3>3. /\ Len(queue') = Len(queue) - 1 /\ Len(queue) >= 1
          /\ \A i \in 1..(Len(queue) - 1) : queue'[i] = queue[i + 1]
      BY <2>4, <3>2, QueueShape DEF Finishes
    <3>4. Len(queue') > 0 => queue'[1] = queue[2]
      BY <1>3, <3>3
    <3> QED
      BY <1>2, <1>3, <2>1, <3>1, <3>3, <3>4
  <2> QED
    BY <2>1, <2>2, <2>3, <2>4
<1>9. CASE DestroyAsync
  <2>1. /\ queue = <<>> /\ encoder.pc = "idle" /\ app.pc = "run"
        /\ slot' = NoToken /\ UNCHANGED <<queue, encoder, app>>
    BY <1>9 DEF DestroyAsync, appVars
  <2> QED
    BY <1>2, <1>3, <2>1 DEF Untaken
<1>10. CASE UNCHANGED <<submitted, app, queue, slot, encoder>>
  BY <1>2, <1>10 DEF Untaken
<1> QED
  BY <1>4, <1>5, <1>6, <1>7, <1>8, <1>9, <1>10
     DEF Next, Submit, AsyncWorker, PreWorker, Destroy, vars, appVars, slotVars,
         AsyncPop, AsyncFulfil, AsyncFinish, PreTake, PreFetch, PreStore, PreSettle,
         DestroyPre, DestroyDone

\* A drawable waits only while asyncAcquireDrawableHeld_ is set, and the worker
\* does not ask for another one meanwhile.
LEMMA HeldExactStep ==
  ASSUME DrawableInv, [Next]_vars
  PROVE  HeldExact'
<1> USE DEF DrawableInv
<1> DEFINE NoneFailed == \A p \in Presents : token[p] # "failed"
           Held == /\ worker.pc = "acquire" /\ teardown = "no" => held
                   /\ worker.pc = "acquire" => \A p \in Presents : ~Waiting(p)
                   /\ \A p \in Presents : Waiting(p) => held
                   /\ \A p, q \in Presents : Waiting(p) /\ Waiting(q) => p = q
<1>1. policy' = policy
  BY EncoderStep
     DEF Next, Submit, AsyncWorker, PreWorker, Destroy, vars, Acquire, Stash,
         Publish, Reject, AsyncPop, AsyncFulfil, AsyncFinish, PreTake, PreFetch, PreStore,
         PreSettle, DestroyAsync, DestroyPre, DestroyDone
<1>2. policy = "Async" /\ NoneFailed => Held
  BY DEF HeldExact
<1> SUFFICES ASSUME policy = "Async", NoneFailed'
             PROVE  Held'
  BY <1>1 DEF HeldExact
<1>3. token \in [Presents -> {"none", "pending", "drawable", "failed"}]
  BY DEF TypeOK
<1>4. ASSUME NoneFailed, UNCHANGED <<worker, held>>,
             teardown' = "no" => teardown = "no",
             \A p \in Presents : Waiting(p)' => Waiting(p)
      PROVE  Held'
  BY <1>2, <1>4
<1>5. CASE Acquire
  <2>1. /\ token' = [token EXCEPT ![submitted + 1] = "pending"]
        /\ app.pc = "run" /\ submitted + 1 \in Presents
        /\ UNCHANGED <<slot, encoder, worker, held, teardown>>
    BY <1>5, DrawableAssumption, QueueShape DEF Acquire, slotVars, Presents
  <2>2. app' = [pc |-> "stash", token |-> submitted + 1]
    BY <1>5 DEF Acquire
  <2>3. \A p \in Presents : IF p = submitted + 1 THEN token'[p] = "pending"
                            ELSE token'[p] = token[p]
    BY <1>3, <2>1
  <2>4. token[submitted + 1] = "none"
    BY <2>1, QueueShape DEF PendingServed
  <2>5. NoneFailed
    BY <2>3, <2>4
  <2>6. \A p \in Presents : Waiting(p)' => Waiting(p)
    BY <2>1, <2>2, <2>3 DEF Waiting
  <2> QED
    BY <1>4, <2>1, <2>5, <2>6
<1>6. CASE Stash
  <2>1. app.pc = "stash" /\ UNCHANGED <<token, worker, held, encoder, teardown>>
    BY <1>6 DEF Stash, asyncVars
  <2>2. app'.pc = "publish" /\ slot' \in {slot, app.token}
    BY <1>6 DEF Stash, TypeOK
  <2>3. \A p \in Presents : Waiting(p)' => Waiting(p)
    BY <2>1, <2>2 DEF Waiting
  <2> QED
    BY <1>4, <2>1, <2>3
<1>7. CASE Publish
  BY <1>4, <1>7 DEF Publish, asyncVars, slotVars, Waiting
<1>8. CASE Reject
  <2>1. app'.pc = "run" /\ slot' \in {slot, NoToken}
        /\ UNCHANGED <<token, worker, held, encoder, teardown>>
    BY <1>8 DEF Reject, asyncVars
  <2>2. \A p \in Presents : Waiting(p)' => Waiting(p)
    BY <2>1, DrawableAssumption DEF Waiting, Presents, NoToken
  <2> QED
    BY <1>4, <2>1, <2>2
<1>9. CASE AsyncPop
  <2>1. /\ ~held /\ held' /\ worker'.pc = "acquire"
        /\ UNCHANGED <<token, slot, app, encoder>>
    BY <1>9 DEF AsyncPop, appVars, slotVars
  <2>2. \A p \in Presents : Waiting(p)' <=> Waiting(p)
    BY <2>1 DEF Waiting
  <2> QED
    BY <1>2, <2>1, <2>2
<1>10. CASE AsyncFulfil
  <2>1. /\ worker.pc = "acquire" /\ worker.token \in Presents
        /\ UNCHANGED <<slot, app, encoder, held, teardown>>
    BY <1>10 DEF AsyncFulfil, appVars, slotVars, PendingServed
  <2>2. token' = [token EXCEPT ![worker.token] = "drawable"] /\ worker'.pc = "idle"
    <3>1. PICK got \in NextDrawable :
            /\ token' = [token EXCEPT ![worker.token] = IF got THEN "drawable" ELSE "failed"]
            /\ worker' = [pc |-> IF got THEN "idle" ELSE "finish", token |-> NoToken]
      BY <1>10 DEF AsyncFulfil
    <3>2. CASE got
      BY <3>1, <3>2
    <3>3. CASE ~got
      <4>1. token'[worker.token] = "failed"
        BY <1>3, <2>1, <3>1, <3>3
      <4> QED
        BY <2>1, <4>1
    <3> QED
      BY <3>2, <3>3
  <2>3. \A p \in Presents : p # worker.token => token'[p] = token[p]
    BY <1>3, <2>2
  <2>4. token[worker.token] = "pending"
    BY <2>1 DEF PendingServed
  <2>5. NoneFailed
    BY <2>3, <2>4
  <2>6. \A p \in Presents : Waiting(p)' => p = worker.token
    BY <1>2, <2>1, <2>3, <2>5 DEF Waiting
  <2>7. teardown # "no" => \A p \in Presents : ~Waiting(p)'
    BY <2>1, DrawableAssumption
       DEF TeardownQuiet, EncoderShape, Idle, AppToken, Waiting, Presents, NoToken
  <2> QED
    BY <1>2, <2>1, <2>2, <2>5, <2>6, <2>7
<1>11. CASE AsyncFinish
  BY <1>11 DEF AsyncFinish, PendingServed
<1>12. CASE Encoder
  <2>1. /\ Takes \/ GoesOn \/ Finishes
        /\ UNCHANGED <<app, token, worker, teardown>>
        /\ UNCHANGED held \/ WaitToken
    BY <1>12, EncoderStep
  <2>2. NoneFailed
    BY <2>1
  <2>3. \A p \in Presents : Waiting(p)' => Waiting(p)
    <3>1. CASE Takes
      BY <2>1, <3>1, DrawableAssumption DEF Takes, Waiting, Presents, NoToken
    <3>2. CASE GoesOn
      BY <2>1, <3>2 DEF GoesOn, Waiting
    <3>3. CASE Finishes
      BY <2>1, <3>3, DrawableAssumption DEF Finishes, Idle, Waiting, Presents, NoToken
    <3> QED
      BY <2>1, <3>1, <3>2, <3>3
  <2>4. CASE WaitToken
    <3>1. /\ encoder.pc = "drawable" /\ encoder.token \in Presents
          /\ token[encoder.token] \in {"drawable", "failed"}
          /\ UNCHANGED slot
      BY <2>4, DrawableAssumption
         DEF WaitToken, slotVars, EncoderShape, EncoderRecord, Presents, NoToken
    <3>2. Waiting(encoder.token)
      BY <2>2, <3>1 DEF Waiting
    <3>3. encoder'.pc = "present"
      BY <2>2, <2>4, <3>1 DEF WaitToken, EncoderGoes, EncoderShape, EncoderRecord
    <3>4. encoder.token # slot /\ ~(app.pc = "stash" /\ app.token = encoder.token)
      <4>1. encoder.token # NoToken /\ encoder.token \in Nat /\ submitted \in Nat
        BY <3>1, DrawableAssumption, QueueShape DEF Presents, NoToken
      <4>2. encoder.token # slot
        BY <4>1 DEF TokensApart
      <4>3. app.pc = "stash" => encoder.token + 1 <= submitted
        BY <4>1 DEF TokensApart
      <4> QED
        BY <4>1, <4>2, <4>3 DEF AppToken
    <3>5. encoder'.token = encoder.token
      BY <2>2, <2>4, <3>1 DEF WaitToken, EncoderGoes, EncoderShape, EncoderRecord
    <3>6. \A p \in Presents : p = encoder.token => ~Waiting(p)'
      BY <2>1, <3>1, <3>3, <3>4 DEF Waiting
    <3>7. \A p \in Presents : ~Waiting(p)'
      BY <1>2, <2>2, <2>3, <3>1, <3>2, <3>6
    <3> QED
      BY <1>2, <2>1, <2>2, <3>1, <3>2, <3>7
  <2> QED
    BY <1>4, <2>1, <2>2, <2>3, <2>4
<1>13. CASE DestroyAsync
  <2>1. /\ slot' = NoToken /\ teardown' = "async" /\ app.pc = "run" /\ encoder.pc = "idle"
        /\ UNCHANGED <<app, encoder>>
    BY <1>13 DEF DestroyAsync, appVars
  <2>2. \A p \in Presents : ~Waiting(p)'
    BY <2>1, DrawableAssumption
       DEF EncoderShape, Idle, Waiting, Presents, NoToken
  <2> QED
    BY <2>1, <2>2
<1>14. CASE DestroyPre \/ DestroyDone
  BY <1>4, <1>14
     DEF DestroyPre, DestroyDone, appVars, slotVars, asyncVars, Waiting
<1>15. CASE UNCHANGED <<token, slot, app, encoder, worker, held, teardown>>
  BY <1>4, <1>15 DEF Waiting
<1> QED
  BY <1>5, <1>6, <1>7, <1>8, <1>9, <1>10, <1>11, <1>12, <1>13, <1>14, <1>15
     DEF Next, Submit, AsyncWorker, PreWorker, Destroy, vars, appVars, slotVars,
         asyncVars, PreTake, PreFetch, PreStore, PreSettle

\* What was prefetched, and what is being presented, fits the layer: Configure
\* discards it, and SetProps finds only what was requested in between.
LEMMA GenerationExactStep ==
  ASSUME DrawableInv, [Next]_vars
  PROVE  GenerationExact'
<1> USE DEF DrawableInv, GenerationExact
<1>0. /\ generation \in Nat /\ fetcher.generation \in Nat /\ layer \in Nat
      /\ encoder \in EncoderRecord
      /\ fetcher \in [pc : {"idle", "acquire", "store", "settle"}, generation : Nat,
                      raced : BOOLEAN, drawable : MaybeDrawable]
  BY DrawableAssumption DEF TypeOK, EncoderShape
<1>1. CASE PreTake
  <2>1. UNCHANGED <<generation, layer, encoder, prefetched, teardown>>
    BY <1>1 DEF PreTake
  <2>2. /\ fetcher'.pc = "acquire" /\ fetcher'.generation = generation
        /\ encoder.pc = "setProps" => fetcher'.raced
    BY <1>1 DEF PreTake
  <2> QED
    BY <1>0, <2>1, <2>2 DEF WillFit, Fits
<1>2. CASE PreFetch
  <2>1. /\ fetcher.pc = "acquire"
        /\ UNCHANGED <<generation, layer, encoder, prefetched, teardown>>
    BY <1>2 DEF PreFetch
  <2>2. /\ fetcher'.pc = "store" /\ fetcher'.generation = fetcher.generation
        /\ \A d \in fetcher'.drawable : d.layer = layer /\ d.raced = fetcher.raced
    BY <1>0, <1>2 DEF PreFetch
  <2> QED
    BY <1>0, <2>1, <2>2 DEF WillFit, Fits
<1>3. CASE PreStore
  <2>1. fetcher.pc = "store" /\ UNCHANGED <<generation, layer, encoder, teardown>>
    BY <1>3 DEF PreStore
  <2>2. \/ prefetched' = prefetched
        \/ fetcher.generation = generation /\ prefetched' = fetcher.drawable
    BY <1>3, Zenon DEF PreStore
  <2>3. fetcher'.pc = "settle" /\ fetcher'.generation = fetcher.generation
    BY <1>0, <1>3 DEF PreStore
  <2> QED
    BY <1>0, <2>1, <2>2, <2>3 DEF WillFit, Fits
<1>4. CASE PreSettle
  <2>1. UNCHANGED <<generation, layer, encoder, prefetched, teardown>>
    BY <1>4 DEF PreSettle
  <2>2. fetcher'.pc = "idle" /\ fetcher'.generation = fetcher.generation
    BY <1>0, <1>4 DEF PreSettle
  <2> QED
    BY <1>0, <2>1, <2>2 DEF WillFit, Fits
<1>5. CASE Configure
  <2>1. /\ encoder.pc = "configure" /\ encoder'.drawable = {}
        /\ UNCHANGED <<fetcher, layer, teardown>>
    BY <1>0, <1>5 DEF Configure, EncoderGoes, EncoderRecord
  <2>2. CASE EncoderGoes("pipeline") /\ UNCHANGED <<generation, prefetched>>
    <3>1. encoder'.pc = "pipeline"
      BY <1>0, <2>2 DEF EncoderGoes, EncoderRecord
    <3> QED
      BY <2>1, <2>2, <3>1 DEF WillFit, Fits
  <2>3. CASE generation' = generation + 1 /\ prefetched' = {}
    BY <1>0, <2>1, <2>3
  <2> QED
    BY <1>5, <2>2, <2>3 DEF Configure
<1>6. CASE SetProps
  <2>1. /\ encoder.pc = "setProps" /\ layer' = layer + 1
        /\ UNCHANGED <<generation, prefetched, fetcher, teardown>>
    BY <1>6 DEF SetProps, preVars
  <2>2. encoder'.pc = "pipeline" /\ encoder'.drawable = {}
    BY <1>0, <1>6, <2>1 DEF SetProps, EncoderGoes, EncoderRecord
  <2>3. \A d : WillFit(d) => WillFit(d)'
    BY <1>0, <2>1, <2>2 DEF WillFit, Fits
  <2> QED
    BY <1>0, <2>1, <2>2, <2>3
<1>7. ASSUME encoder.pc # "setProps", encoder'.pc # "setProps",
             UNCHANGED <<generation, layer, fetcher, teardown>>,
             prefetched' \in {prefetched, {}},
             encoder'.pc # "present" => encoder'.drawable = {},
             \A d \in encoder'.drawable : Fits(d)
      PROVE  GenerationExact'
  BY <1>0, <1>7 DEF WillFit, Fits
<1>8. CASE Take
  BY <1>7, <1>8 DEF Take, preVars, Idle
<1>9. CASE Skip
  BY <1>7, <1>9 DEF Skip, Leave, preVars, Idle
<1>10. CASE Pipeline
  BY <1>0, <1>7, <1>10 DEF Pipeline, EncoderGoes, preVars, EncoderRecord
<1>11. CASE WaitToken
  <2>1. encoder.pc = "drawable" /\ encoder.drawable = {}
        /\ UNCHANGED <<generation, layer, fetcher, prefetched, teardown>>
    BY <1>11 DEF WaitToken, preVars
  <2>2. CASE EncoderGoes("present")
    <3>1. encoder'.pc = "present" /\ encoder'.drawable = {}
      BY <1>0, <2>1, <2>2 DEF EncoderGoes, EncoderRecord
    <3> QED
      BY <1>7, <2>1, <3>1
  <2>3. CASE Leave
    BY <1>7, <2>1, <2>3 DEF Leave, Idle
  <2> QED
    BY <1>11, <2>2, <2>3 DEF WaitToken
<1>12. CASE TokenMissing
  BY <1>7, <1>12 DEF TokenMissing, Leave, Idle, preVars
<1>13. CASE TakeDrawable
  <2>1. /\ encoder.pc = "drawable" /\ prefetched' = {}
        /\ UNCHANGED <<generation, layer, fetcher, teardown>>
    BY <1>13 DEF TakeDrawable
  <2>2. \A d \in prefetched : Fits(d)
    BY <2>1 DEF TeardownQuiet, TypeOK, WillFit
  <2>3. CASE encoder' = [encoder EXCEPT !.pc = "present", !.drawable = prefetched]
    <3>1. encoder'.drawable = prefetched /\ encoder'.pc = "present"
      BY <1>0, <2>3 DEF EncoderRecord
    <3> QED
      BY <1>7, <2>1, <2>2, <3>1
  <2>4. CASE Leave
    BY <1>7, <2>1, <2>4 DEF Leave, Idle
  <2> QED
    BY <1>13, <2>3, <2>4 DEF TakeDrawable
<1>14. CASE Present
  BY <1>7, <1>14 DEF Present, Leave, Idle
<1>15. CASE DestroyAsync
  <2>1. /\ teardown = "no" /\ UNCHANGED <<generation, layer, fetcher, prefetched, encoder>>
    BY <1>15 DEF DestroyAsync, preVars
  <2> QED
    BY <1>0, <2>1 DEF WillFit, Fits
<1>16. CASE DestroyPre
  BY <1>0, <1>16 DEF DestroyPre, TeardownQuiet, EncoderShape, Idle
<1>17. CASE DestroyDone
  BY <1>0, <1>17 DEF DestroyDone, TeardownQuiet, EncoderShape, Idle
<1>18. CASE UNCHANGED <<generation, layer, fetcher, prefetched, encoder, teardown>>
  BY <1>18 DEF WillFit, Fits
<1> QED
  BY <1>1, <1>2, <1>3, <1>4, <1>5, <1>6, <1>8, <1>9, <1>10, <1>11, <1>12, <1>13, <1>14,
     <1>15, <1>16, <1>17, <1>18
     DEF Next, Submit, AsyncWorker, PreWorker, Encoder, Destroy, vars, preVars,
         Acquire, Stash, Publish, Reject, AsyncPop, AsyncFulfil, AsyncFinish

\* Every action keeps the types.
LEMMA TypeOKStep ==
  ASSUME DrawableInv, PresentsCounted', EncoderShape', AppToken', [Next]_vars
  PROVE  TypeOK'
<1> USE DEF DrawableInv
<1>1. /\ submitted' \in 0..MaxPresents /\ retired' \in Nat
      /\ queue' \in Seq([present : Presents, required : BOOLEAN])
  <2>1. /\ submitted \in 0..MaxPresents /\ retired \in Nat
        /\ queue \in Seq([present : Presents, required : BOOLEAN])
    BY QueueShape DEF TypeOK
  <2>2. CASE Acquire
    BY <2>1, <2>2, DrawableAssumption DEF Acquire
  <2>3. CASE Publish
    <3>1. submitted \in Presents
      BY <2>3, DrawableAssumption, QueueShape
         DEF Publish, PresentsCounted, Submitting, Presents
    <3>2. [present |-> submitted, required |-> policy \in {"Async", "SyncOnSubmit"}]
            \in [present : Presents, required : BOOLEAN]
      BY <3>1
    <3> QED
      BY <2>1, <2>3, <3>2 DEF Publish
  <2>4. CASE Reject
    BY <2>1, <2>4 DEF Reject
  <2>5. CASE Encoder
    <3>1. (Takes \/ GoesOn \/ Finishes) /\ submitted' = submitted
      BY <2>5, EncoderStep
    <3>2. CASE Takes \/ GoesOn
      BY <2>1, <3>1, <3>2 DEF Takes, GoesOn
    <3>3. CASE Finishes
      <4>1. queue # <<>> /\ queue' = Tail(queue) /\ retired' = retired + 1
        BY <3>3 DEF Finishes, PresentsCounted
      <4>2. Tail(queue) \in Seq([present : Presents, required : BOOLEAN])
        BY <4>1, QueueShape
      <4> QED
        BY <2>1, <3>1, <4>1, <4>2
    <3> QED
      BY <3>1, <3>2, <3>3
  <2>6. CASE UNCHANGED <<submitted, retired, queue>>
    BY <2>1, <2>6
  <2> QED
    BY <2>2, <2>3, <2>4, <2>5, <2>6
       DEF Next, Submit, AsyncWorker, PreWorker, Destroy, vars, appVars, Stash,
           AsyncPop, AsyncFulfil, AsyncFinish, PreTake, PreFetch, PreStore, PreSettle,
           DestroyAsync, DestroyPre, DestroyDone
<1>2. retired' \in 0..submitted'
  <2>1. Len(queue') \in Nat /\ Submitting' \in {0, 1}
    BY <1>1 DEF Submitting
  <2> QED
    BY <1>1, <2>1 DEF PresentsCounted
<1>3. /\ app' \in [pc : {"run", "stash", "publish"}, token : 0..MaxPresents]
      /\ slot' \in 0..MaxPresents /\ refused' \subseteq Presents
  <2> USE DrawableAssumption
  <2>1. /\ submitted \in 0..MaxPresents /\ slot \in 0..MaxPresents
        /\ app \in [pc : {"run", "stash", "publish"}, token : 0..MaxPresents]
        /\ refused \subseteq Presents
    BY DEF TypeOK
  <2>2. CASE Acquire
    BY <2>1, <2>2 DEF Acquire, slotVars, NoToken
  <2>3. CASE Stash
    <3>1. app.token \in 0..MaxPresents /\ (app.token # NoToken => app.token \in Presents)
      BY <2>1 DEF NoToken, Presents
    <3>2. app' \in [pc : {"run", "stash", "publish"}, token : 0..MaxPresents]
      BY <2>1, <2>3 DEF Stash
    <3> QED
      BY <2>1, <2>3, <3>1, <3>2 DEF Stash
  <2>4. CASE Publish
    BY <2>1, <2>4 DEF Publish, slotVars, NoToken
  <2>5. CASE Reject
    BY <2>1, <2>5 DEF Reject, NoToken
  <2>6. CASE Encoder
    BY <2>1, <2>6, EncoderStep DEF Takes, GoesOn, Finishes, NoToken
  <2>7. CASE DestroyAsync
    BY <2>1, <2>7 DEF DestroyAsync, appVars, NoToken
  <2>8. CASE UNCHANGED <<app, slot, refused>>
    BY <2>1, <2>8
  <2> QED
    BY <2>2, <2>3, <2>4, <2>5, <2>6, <2>7, <2>8
       DEF Next, Submit, AsyncWorker, PreWorker, Destroy, vars, appVars, slotVars,
           AsyncPop, AsyncFulfil, AsyncFinish, PreTake, PreFetch, PreStore, PreSettle,
           DestroyPre, DestroyDone
<1>4. /\ token' \in [Presents -> {"none", "pending", "drawable", "failed"}]
      /\ requests' \in Seq(Presents) /\ held' \in BOOLEAN
      /\ worker' \in [pc : {"idle", "acquire", "finish"}, token : 0..MaxPresents]
  <2>1. /\ token \in [Presents -> {"none", "pending", "drawable", "failed"}]
        /\ requests \in Seq(Presents) /\ held \in BOOLEAN
        /\ worker \in [pc : {"idle", "acquire", "finish"}, token : 0..MaxPresents]
    BY DEF TypeOK
  <2>2. CASE Acquire
    <3>1. submitted + 1 \in Presents
      BY <2>2, DrawableAssumption, QueueShape DEF Acquire, Presents
    <3>2. token' \in [Presents -> {"none", "pending", "drawable", "failed"}]
      <4>1. \E v \in {"none", "pending", "drawable"} :
              token' = [token EXCEPT ![submitted + 1] = v]
        BY <2>2, Zenon DEF Acquire
      <4> QED
        BY <2>1, <4>1
    <3> QED
      BY <2>1, <2>2, <3>1, <3>2 DEF Acquire
  <2>3. CASE AsyncPop
    <3>1. Head(requests) \in Presents /\ Tail(requests) \in Seq(Presents)
      BY <2>1, <2>3 DEF AsyncPop
    <3> QED
      BY <2>1, <2>3, <3>1, DrawableAssumption DEF AsyncPop, Presents
  <2>4. CASE AsyncFulfil
    <3>1. \E v \in {"drawable", "failed"} :
            token' = [token EXCEPT ![worker.token] = v]
      BY <2>4 DEF AsyncFulfil
    <3>2. token' \in [Presents -> {"none", "pending", "drawable", "failed"}]
      BY <2>1, <3>1
    <3>3. worker' \in [pc : {"idle", "acquire", "finish"}, token : 0..MaxPresents]
      BY <2>4, DrawableAssumption DEF AsyncFulfil, NoToken
    <3> QED
      BY <2>1, <2>4, <3>2, <3>3 DEF AsyncFulfil
  <2>5. CASE AsyncFinish
    BY <2>1, <2>5 DEF AsyncFinish
  <2>6. CASE Encoder
    <3>1. UNCHANGED <<token, requests, worker>> /\ (UNCHANGED held \/ held' = FALSE)
      BY <2>6, EncoderStep DEF WaitToken
    <3> QED
      BY <2>1, <3>1
  <2>7. CASE DestroyAsync
    <3>1. token' \in [Presents -> {"none", "pending", "drawable", "failed"}]
      BY <2>1, <2>7, Zenon DEF DestroyAsync
    <3>2. requests' \in Seq(Presents) /\ held' = FALSE /\ worker' = worker
      BY <2>7 DEF DestroyAsync
    <3> QED
      BY <2>1, <3>1, <3>2
  <2>8. CASE UNCHANGED <<token, requests, held, worker>>
    BY <2>1, <2>8
  <2> QED
    BY <2>2, <2>3, <2>4, <2>5, <2>6, <2>7, <2>8
       DEF Next, Submit, AsyncWorker, PreWorker, Destroy, vars, asyncVars, Stash,
           Publish, Reject, PreTake, PreFetch, PreStore, PreSettle, DestroyPre, DestroyDone
<1>5. generation' \in Nat /\ prefetched' \in MaybeDrawable
  <2>1. /\ generation \in Nat /\ prefetched \in MaybeDrawable
        /\ {} \in MaybeDrawable /\ fetcher.drawable \in MaybeDrawable
    BY DEF TypeOK, MaybeDrawable
  <2>2. /\ generation' \in {generation, generation + 1}
        /\ prefetched' \in {prefetched, {}, fetcher.drawable}
    BY DEF Next, Submit, AsyncWorker, PreWorker, Encoder, Destroy, vars, preVars,
           Acquire, Stash, Publish, Reject, AsyncPop, AsyncFulfil, AsyncFinish,
           PreTake, PreFetch, PreStore, PreSettle, Take, Skip, Configure, SetProps,
           Pipeline, WaitToken, TokenMissing, TakeDrawable, Present, DestroyAsync,
           DestroyPre, DestroyDone
  <2> QED
    BY <2>1, <2>2
<1>6. requested' \in BOOLEAN /\ inFlight' \in BOOLEAN
  BY Zenon
     DEF TypeOK, Next, Submit, AsyncWorker, PreWorker, Encoder, Destroy, vars, preVars,
         Acquire, Stash, Publish, Reject, AsyncPop, AsyncFulfil, AsyncFinish,
         PreTake, PreFetch, PreStore, PreSettle, Take, Skip, Configure, SetProps,
         Pipeline, WaitToken, TokenMissing, TakeDrawable, Present, DestroyAsync,
         DestroyPre, DestroyDone
<1>7. layer' \in 0..MaxResizes
  <2>1. layer \in 0..MaxResizes
    BY DEF TypeOK
  <2>2. CASE SetProps
    BY <2>1, <2>2, DrawableAssumption DEF SetProps, EncoderShape
  <2>3. CASE UNCHANGED layer
    BY <2>1, <2>3
  <2> QED
    BY <2>2, <2>3
       DEF Next, Submit, AsyncWorker, PreWorker, Encoder, Destroy, vars,
           Acquire, Stash, Publish, Reject, AsyncPop, AsyncFulfil, AsyncFinish,
           PreTake, PreFetch, PreStore, PreSettle, Take, Skip, Configure, Pipeline,
           WaitToken, TokenMissing, TakeDrawable, Present, DestroyAsync, DestroyPre,
           DestroyDone
<1>8. teardown' \in {"no", "async", "pre", "done"}
  BY DEF TypeOK, Next, Submit, AsyncWorker, PreWorker, Encoder, Destroy, vars, preVars,
         Acquire, Stash, Publish, Reject, AsyncPop, AsyncFulfil, AsyncFinish,
         PreTake, PreFetch, PreStore, PreSettle, Take, Skip, Configure, SetProps,
         Pipeline, WaitToken, TokenMissing, TakeDrawable, Present, DestroyAsync,
         DestroyPre, DestroyDone
<1>9. fetcher' \in [pc : {"idle", "acquire", "store", "settle"}, generation : Nat,
                    raced : BOOLEAN, drawable : MaybeDrawable]
  <2>1. /\ generation \in Nat /\ layer \in 0..MaxResizes
        /\ fetcher \in [pc : {"idle", "acquire", "store", "settle"}, generation : Nat,
                        raced : BOOLEAN, drawable : MaybeDrawable]
    BY DEF TypeOK
  <2>2. {} \in MaybeDrawable /\ {[layer |-> layer, raced |-> fetcher.raced]} \in MaybeDrawable
    BY <2>1 DEF MaybeDrawable
  <2>3. CASE PreTake
    <3>1. fetcher' = [pc |-> "acquire", generation |-> generation,
                      raced |-> encoder.pc = "setProps", drawable |-> {}]
      BY <2>3 DEF PreTake
    <3> DEFINE raced == encoder.pc = "setProps"
    <3>2. raced \in BOOLEAN
      OBVIOUS
    <3> HIDE DEF raced
    <3> QED
      BY <2>1, <2>2, <3>1, <3>2 DEF raced
  <2>4. CASE PreFetch
    <3>1. PICK D \in MaybeDrawable :
            fetcher' = [fetcher EXCEPT !.pc = "store", !.drawable = D]
      BY <2>2, <2>4 DEF PreFetch
    <3> QED
      BY <2>1, <3>1
  <2>5. \/ fetcher' = fetcher \/ PreTake \/ PreFetch
        \/ fetcher' = [fetcher EXCEPT !.pc = "settle", !.drawable = {}]
        \/ fetcher' = [fetcher EXCEPT !.pc = "idle"]
    BY EncoderStep
       DEF Next, Submit, AsyncWorker, PreWorker, Destroy, vars, preVars,
         Acquire, Stash, Publish, Reject, AsyncPop, AsyncFulfil, AsyncFinish,
         PreStore, PreSettle, DestroyAsync, DestroyPre, DestroyDone
  <2> QED
    BY <2>1, <2>2, <2>3, <2>4, <2>5
<1>10. encoder'.pc \in {"idle", "configure", "setProps", "pipeline", "drawable", "present"}
  BY DEF EncoderShape, EncoderRecord
<1> QED
  BY <1>1, <1>2, <1>3, <1>4, <1>5, <1>6, <1>7, <1>8, <1>9, <1>10 DEF TypeOK

-----------------------------------------------------------------------------
(* The theorems. *)

\* The invariant holds initially.
LEMMA DrawableInit ==
  ASSUME Init
  PROVE  DrawableInv
<1> USE DrawableAssumption DEF Init, NoToken, Idle, Presents
<1>1. TypeOK
  <2>1. {} \in MaybeDrawable
    BY DEF MaybeDrawable
  <2>2. token \in [Presents -> {"none", "pending", "drawable", "failed"}]
    BY Zenon
  <2>3. prefetched \in MaybeDrawable
    BY <2>1
  <2>4. /\ submitted \in 0..MaxPresents /\ retired \in 0..submitted
        /\ app \in [pc : {"run", "stash", "publish"}, token : 0..MaxPresents]
        /\ slot \in 0..MaxPresents /\ refused \subseteq Presents
        /\ worker \in [pc : {"idle", "acquire", "finish"}, token : 0..MaxPresents]
        /\ fetcher \in [pc : {"idle", "acquire", "store", "settle"}, generation : Nat,
                        raced : BOOLEAN, drawable : MaybeDrawable]
        /\ generation \in Nat /\ layer \in 0..MaxResizes
    BY <2>1
  <2>5. /\ queue \in Seq([present : Presents, required : BOOLEAN])
        /\ requests \in Seq(Presents)
    OBVIOUS
  <2>6. /\ held \in BOOLEAN /\ requested \in BOOLEAN /\ inFlight \in BOOLEAN
        /\ encoder.pc \in {"idle", "configure", "setProps", "pipeline", "drawable", "present"}
        /\ teardown \in {"no", "async", "pre", "done"}
    OBVIOUS
  <2> HIDE DEF Init
  <2> QED
    BY <2>2, <2>3, <2>4, <2>5, <2>6 DEF TypeOK
<1>2. EncoderShape
  BY DEF EncoderShape, EncoderRecord, MaybeDrawable
<1>3. PresentsCounted /\ AppToken
  BY DEF PresentsCounted, Submitting, AppToken
<1>4. PendingServed /\ TeardownQuiet
  BY DEF PendingServed, TeardownQuiet
<1>5. TokensApart /\ SlotFollowsQueue
  BY DEF TokensApart, SlotFollowsQueue, Untaken
<1>6. HeldExact /\ GenerationExact
  BY DEF HeldExact, Waiting, GenerationExact, WillFit
<1> QED
  BY <1>1, <1>2, <1>3, <1>4, <1>5, <1>6 DEF DrawableInv

\* Every step keeps it.
LEMMA DrawableNext ==
  ASSUME DrawableInv, [Next]_vars
  PROVE  DrawableInv'
BY EncoderShapeStep, PresentsCountedStep, AppTokenStep, PendingServedStep,
   TeardownQuietStep, TokensApartStep, SlotFollowsQueueStep, HeldExactStep,
   GenerationExactStep, TypeOKStep DEF DrawableInv

\* DrawableInv is an invariant of every behaviour.
LEMMA DrawableInvariant == Spec => []DrawableInv
<1>1. Init => DrawableInv
  BY DrawableInit
<1>2. DrawableInv /\ [Next]_vars => DrawableInv'
  BY DrawableNext
<1> QED
  BY <1>1, <1>2, PTL DEF Spec

\* What makes at most one drawable wait.
LEMMA OneWaits ==
  ASSUME DrawableInv
  PROVE  OneDrawableHeld
<1> SUFFICES ASSUME policy = "Async", \A p \in Presents : token[p] # "failed"
             PROVE  Cardinality({p \in Presents : Waiting(p)}) <= 1
  BY DEF OneDrawableHeld, Waiting
<1> DEFINE W == {p \in Presents : Waiting(p)}
<1>1. \A p, q \in W : p = q
  BY DEF DrawableInv, HeldExact
<1> HIDE DEF W
<1>2. CASE W = {}
  <2>1. Cardinality({}) = 0
    BY FS_EmptySet, Zenon
  <2> QED
    BY <1>2, <2>1 DEF W
<1>3. CASE W # {}
  <2>1. PICK p : p \in W
    BY <1>3
  <2>2. W = {p}
    BY <1>1, <2>1
  <2>3. Cardinality({p}) = 1
    BY FS_Singleton, Zenon
  <2> QED
    BY <2>2, <2>3 DEF W
<1> QED
  BY <1>2, <1>3

\* Under every policy and for any number of Presents, submitted ahead of the encoder
\* to any depth, at most one acquired drawable waits for the encoder while
\* the layer answers, no token is left pending behind ~Presenter, and a Present
\* is encoded with its own token as long as the slot refused none.
THEOREM DrawablesCorrect == Spec => []DrawablesAccounted
<1>1. DrawableInv => DrawablesAccounted
  <2> SUFFICES ASSUME DrawableInv
               PROVE  DrawablesAccounted
    OBVIOUS
  <2>1. TypeOK /\ OneDrawableHeld
    BY OneWaits DEF DrawableInv
  <2>2. DestroyFulfilsAll
    BY DEF DestroyFulfilsAll, DrawableInv, TeardownQuiet, PendingServed
  <2>3. OwnToken
    BY DEF OwnToken, DrawableInv, SlotFollowsQueue
  <2> QED
    BY <2>1, <2>2, <2>3 DEF DrawablesAccounted
<1> QED
  BY <1>1, DrawableInvariant, PTL

\* Whenever the prefetch worker takes its request and comes back, and however often the
\* layer is reconfigured meanwhile, a prefetched drawable is presented with the
\* properties it was made for, or misses the one change beside whose discard
\* its request was taken.
THEOREM PrefetchCorrect == Spec => []PrefetchCurrent
<1>1. DrawableInv => PrefetchCurrent
  BY DEF DrawableInv, GenerationExact, WillFit, PrefetchCurrent
<1> QED
  BY <1>1, DrawableInvariant, PTL

\* No token is fulfilled a second time, by the worker or by the destructor.
THEOREM TokensFulfilledOnce == Spec => FulfilledOnce
<1>1. ASSUME DrawableInv, [Next]_vars
      PROVE  [\A p \in Presents :
                token[p] \in {"drawable", "failed"} => token'[p] = token[p]]_vars
  <2> USE <1>1 DEF DrawableInv
  <2>0. token \in [Presents -> {"none", "pending", "drawable", "failed"}]
    BY DEF TypeOK
  <2> SUFFICES ASSUME NEW p \in Presents, token[p] \in {"drawable", "failed"}
               PROVE  token'[p] = token[p]
    OBVIOUS
  <2>1. CASE Acquire
    <3>1. p # submitted + 1
      BY QueueShape DEF PendingServed
    <3> QED
      BY <2>0, <2>1, <3>1 DEF Acquire
  <2>2. CASE AsyncFulfil
    <3>1. p # worker.token
      BY <2>2 DEF AsyncFulfil, PendingServed
    <3> QED
      BY <2>0, <2>2, <3>1 DEF AsyncFulfil
  <2>3. CASE DestroyAsync
    <3>1. ~\E i \in DOMAIN requests : requests[i] = p
      BY DEF PendingServed
    <3> QED
      BY <2>3, <3>1 DEF DestroyAsync
  <2>4. CASE UNCHANGED token
    BY <2>4
  <2> QED
    BY <1>1, <2>1, <2>2, <2>3, <2>4, EncoderStep
       DEF Next, Submit, AsyncWorker, PreWorker, Destroy, vars, asyncVars, Stash,
           Publish, Reject, AsyncPop, AsyncFinish, PreTake, PreFetch, PreStore, PreSettle,
           DestroyPre, DestroyDone
<1> QED
  BY <1>1, DrawableInvariant, PTL DEF Spec, FulfilledOnce
==============================================================================

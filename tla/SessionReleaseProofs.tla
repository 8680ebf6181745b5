------------------------- MODULE SessionReleaseProofs -------------------------
(***************************************************************************)
(* Theorems about SessionRelease, for every value of its constants: the    *)
(* transport stays an exact short FIFO (ReleaseFifo), the acknowledgement  *)
(* made after the mutex was released is never rejected (ReleaseAccepted),  *)
(* and a control that returns was given what it asked for                  *)
(* (ReleaseCorrect).                                                       *)
(*                                                                         *)
(* The inductive invariant SessionInv has seven parts: the types (Types),  *)
(* the watermarks (Marks), the FIFO of events (Fifo), the carried session  *)
(* (Carried), the event being served (Serving), the receipt (Witnessed)    *)
(* and what the replay thread may rely on while it waits (Promised).       *)
(***************************************************************************)
EXTENDS SessionRelease, NaturalsInduction, WellFoundedInduction, TLAPS

-----------------------------------------------------------------------------
(* The inductive invariant. *)

\* The events of the transport.
Events == [ordinal : Nat, action : Actions, raw : 0 .. MaxChunk,
           seq : 0 .. MaxSources]

\* Where the two threads may be.
CoordPcs == {"top", "close", "finalize", "ack", "park", "idle", "lease",
             "encode", "encodeAlone", "exited"}

ClientPcs == {"run", "ackWait", "gpuWait", "terminalWait", "terminalGpuWait",
              "drainWait", "returned"}

\* The states of the transport.
Transports == [ordered : Seq(Events), terminal : Events, next : Nat, acked : Nat,
               lastRaw : 0 .. MaxChunk, lastSeq : 0 .. MaxSources,
               requested : BOOLEAN]

\* The types of the threads and of what they exchange.
Types ==
  /\ transport \in Transports
  /\ session \in [last : 0 .. MaxSources, raw : 0 .. MaxChunk, pass : BOOLEAN]
  /\ coord \in [pc : CoordPcs, rel : Events, then : {"top", "topOrExit", "exited", "ack"},
                serial : BOOLEAN]
  /\ client \in [pc : ClientPcs, action : Actions \cup {"none", "Teardown"},
                 ordinal : Nat, seq : 0 .. MaxSources, ok : BOOLEAN]
  /\ witness \in [ordinal : Nat, raw : 0 .. MaxChunk, published : 0 .. MaxSources]
  /\ waiter \in 0 .. MaxSources /\ target \in 0 .. MaxSources
  /\ stop \in BOOLEAN /\ aborted \in BOOLEAN /\ asleep \subseteq {"coord", "client"}

\* The sources published and the watermarks over them; what a source or a fence
\* calls a raw ordinal is a chunk the replay thread has reached.
Marks ==
  /\ sources \in Seq(0 .. MaxChunk) /\ writing \in BOOLEAN
  /\ chunk \in 1 .. Larger(1, MaxChunk) /\ coveredRaw \in 0 .. MaxChunk
  /\ Len(sources) <= MaxSources /\ (writing => Len(sources) < MaxSources)
  /\ submitted \in Nat /\ completed \in Nat /\ reclaimed \in Nat /\ covered \in Nat
  /\ reclaimed <= completed /\ completed <= submitted
  /\ submitted <= covered /\ covered <= Len(sources)
  /\ \A i \in 1 .. Len(sources) : sources[i] <= chunk
  /\ session.raw <= chunk
  /\ transport.lastRaw <= chunk /\ transport.lastSeq <= Len(sources)

\* The transport t is a FIFO of increasing fences behind the acknowledged ones,
\* the terminal event the last of it.
FifoOf(t) ==
  /\ t.acked < t.next
  /\ \A i \in 1 .. Len(t.ordered) :
       /\ t.acked < t.ordered[i].ordinal /\ t.ordered[i].ordinal < t.next
       /\ t.ordered[i].seq <= t.lastSeq /\ t.ordered[i].raw <= t.lastRaw
  /\ \A i, j \in 1 .. Len(t.ordered) : i < j =>
       /\ t.ordered[i].ordinal < t.ordered[j].ordinal
       /\ t.ordered[i].seq <= t.ordered[j].seq /\ t.ordered[i].raw <= t.ordered[j].raw
  /\ t.terminal # NoEvent =>
       /\ t.requested /\ t.acked < t.terminal.ordinal /\ t.terminal.ordinal < t.next
       /\ t.terminal.seq <= t.lastSeq /\ t.terminal.raw <= t.lastRaw
       /\ \A i \in 1 .. Len(t.ordered) :
            /\ t.ordered[i].ordinal < t.terminal.ordinal
            /\ t.ordered[i].seq <= t.terminal.seq /\ t.ordered[i].raw <= t.terminal.raw

\* The client's event is queued.
Posted == \E i \in 1 .. Len(transport.ordered) :
            /\ transport.ordered[i].ordinal = client.ordinal
            /\ transport.ordered[i].action = client.action
            /\ transport.ordered[i].seq = client.seq

\* Two events at most: one of the coordinator's own, one of the replay thread,
\* which waits for it unless the queue is stopped.
Short ==
  /\ Len(transport.ordered) <= 2
  /\ Len(transport.ordered) = 2 /\ ~ stop => client.pc = "ackWait" /\ Posted

\* The transport as a whole.
Fifo == FifoOf(transport) /\ Short

\* The coordinator encodes a prefix with the mutex released.
Encoding == coord.pc \in {"encode", "encodeAlone"}

\* What is represented and not submitted is the carried session, but for what is
\* being encoded.
Carried ==
  /\ session.last = 0 => session = NoSession
  /\ session.last # 0 => submitted < session.last /\ session.last <= covered
  /\ ~ Encoding => IF session.last = 0 THEN submitted = covered ELSE session.last = covered
  /\ coord.pc = "encode" => submitted < covered
  /\ coord.pc = "encodeAlone" => session.last = 0
  /\ coord.pc = "finalize" => session.last # 0

\* The head of the FIFO.
NextOf(t) == IF t.ordered = <<>> THEN t.terminal ELSE t.ordered[1]

\* The event the coordinator serves with the mutex released is the next one, is
\* covered, and once its session is finalized, submitted.
Serving ==
  /\ (coord.rel # NoEvent) = (coord.pc \in {"close", "ack"} \/
                                (coord.pc = "finalize" /\ coord.then = "ack"))
  /\ coord.then = "ack" => coord.pc \in {"close", "finalize", "ack"} /\ coord.rel # NoEvent
  /\ coord.rel # NoEvent =>
       /\ coord.rel = NextOf(transport) /\ coord.rel.seq <= covered
       /\ (coord.pc = "close") = (coord.rel.action = "ClosePass")
       /\ coord.pc = "ack" => coord.rel.seq <= submitted

\* A receipt implies that everything it saw published is represented, the pass closed.
Witnessed == witness # NoWitness =>
  witness.published <= covered /\ ~ session.pass /\ ~ Encoding

\* The replay thread was acknowledged.
Served ==
  \/ client.pc = "ackWait" /\ client.ordinal <= transport.acked
  \/ client.pc = "gpuWait"
  \/ client.pc = "returned" /\ client.ok /\ client.action # "Teardown"

\* What the replay thread may rely on inside a call.
Promised ==
  /\ client.pc \in {"ackWait", "gpuWait"} => client.action \in Actions
  /\ client.pc \in {"terminalWait", "terminalGpuWait", "drainWait"} => client.action = "Teardown"
  /\ client.pc # "run" => client.seq = Len(sources)
  /\ client.pc = "run" => client = Resting
  /\ client.pc = "ackWait" /\ transport.acked < client.ordinal => Posted
  /\ Served => /\ covered = client.seq
               /\ client.action = "ClosePass" => ~ session.pass /\ ~ Encoding
               /\ client.action # "ClosePass" => client.seq <= submitted
  /\ client.pc = "returned" =>
       IF client.ok
       THEN /\ client.action = "SubmitAndWait" => client.seq <= completed
            /\ client.action = "Teardown" => reclaimed = Len(sources)
       ELSE stop \/ transport.requested

\* The inductive invariant.
SessionInv ==
  Types /\ Marks /\ Fifo /\ Carried /\ Serving /\ Witnessed /\ Promised /\ ~ aborted

-----------------------------------------------------------------------------
(* Numbers. *)

\* The constants, by ReleaseConstants.
LEMMA Bounds ==
  /\ MaxSources \in Nat /\ MaxChunk \in Nat
  /\ MaxControls \in Nat /\ MaxTeardowns \in Nat /\ MaxWaits \in Nat
BY ReleaseConstants

\* A nonempty set of numbers has a least one.
LEMMA LeastNumber ==
  ASSUME NEW T \in SUBSET Nat, T # {}
  PROVE  \E x \in T : \A y \in T : x <= y
<1>1. PICK x \in T : \A y \in T : ~ (<<y, x>> \in OpToRel(<, Nat))
  BY NatLessThanWellFounded, WFMin
<1>2. \A y \in T : ~ (y < x)
  BY <1>1 DEF OpToRel
<1> QED
  BY <1>2

\* The maximum of a nonempty set of numbers below a bound is one of them.
LEMMA MaxIn ==
  ASSUME NEW n \in Nat, NEW T \in SUBSET (0 .. n), T # {}
  PROVE  Max(T) \in T
<1> DEFINE U == {n - x : x \in T}
<1>1. U \in SUBSET Nat /\ U # {}
  <2>1. \A x \in T : n - x \in Nat
    OBVIOUS
  <2> QED
    BY <2>1
<1>2. PICK u \in U : \A y \in U : u <= y
  BY <1>1, LeastNumber
<1>3. PICK x \in T : u = n - x
  OBVIOUS
<1>4. \A y \in T : n - x <= n - y
  BY <1>2, <1>3
<1>5. \A y \in T : x >= y
  BY <1>4
<1> QED
  BY <1>5 DEF Max

\* The larger of two numbers.
LEMMA LargerIs ==
  ASSUME NEW a \in Int, NEW b \in Int
  PROVE  /\ Larger(a, b) \in {a, b} /\ Larger(a, b) >= a /\ Larger(a, b) >= b
BY DEF Larger

-----------------------------------------------------------------------------
(* The transport. *)

\* The next event is the head of the FIFO.
LEMMA PeekIs ==
  ASSUME transport \in Transports, FifoOf(transport)
  PROVE  PeekNext = NextOf(transport)
<1> DEFINE q == transport.ordered
           heads == {transport.terminal} \cup (IF q = <<>> THEN {} ELSE {Head(q)})
           live == heads \ {NoEvent}
<1>1. q \in Seq(Events) /\ transport.terminal \in Events
  BY DEF Transports
<1>2. PeekNext = IF live = {} THEN NoEvent
                 ELSE CHOOSE e \in live : \A f \in live : e.ordinal <= f.ordinal
  BY DEF PeekNext
<1>3. CASE q = <<>>
  <2>1. heads = {transport.terminal}
    BY <1>3
  <2>2. NextOf(transport) = transport.terminal
    BY <1>3 DEF NextOf
  <2>3. transport.terminal.ordinal \in Nat
    BY <1>1 DEF Events
  <2>4. live = {transport.terminal} \ {NoEvent}
    BY <2>1
  <2>. HIDE DEF q, heads, live
  <2>5. CASE transport.terminal = NoEvent
    BY <1>2, <2>2, <2>4, <2>5
  <2>6. CASE transport.terminal # NoEvent
    <3>1. live = {transport.terminal}
      BY <2>4, <2>6
    <3>2. (CHOOSE e \in live : \A f \in live : e.ordinal <= f.ordinal) = transport.terminal
      BY <3>1, <2>3
    <3>. QED
      BY <1>2, <2>2, <3>1, <3>2
  <2>. QED
    BY <2>5, <2>6
<1>4. CASE q # <<>>
  <2>1. Head(q) = q[1] /\ 1 \in 1 .. Len(q) /\ q[1] \in Events
    BY <1>1, <1>4
  <2>2. NextOf(transport) = q[1]
    BY <1>4 DEF NextOf
  <2>3. q[1] # NoEvent
    <3>1. transport.acked < q[1].ordinal /\ transport.acked \in Nat
      BY <2>1 DEF FifoOf, Transports
    <3>. QED
      BY <3>1 DEF NoEvent
  <2>4. transport.terminal # NoEvent => q[1].ordinal < transport.terminal.ordinal
    BY <2>1 DEF FifoOf
  <2>5. /\ q[1].ordinal \in Nat /\ transport.terminal.ordinal \in Nat
    BY <1>1, <2>1 DEF Events
  <2>6. heads = {transport.terminal, q[1]}
    BY <1>4, <2>1
  <2>. HIDE DEF q, heads
  <2>7. live = {q[1]} \/ (live = {q[1], transport.terminal} /\ transport.terminal # NoEvent)
    BY <2>3, <2>6
  <2>8. q[1] \in live /\ \A f \in live : q[1].ordinal <= f.ordinal
    BY <2>4, <2>5, <2>7
  <2>9. \A e \in live : (\A f \in live : e.ordinal <= f.ordinal) => e = q[1]
    BY <2>4, <2>5, <2>7
  <2>10. (CHOOSE e \in live : \A f \in live : e.ordinal <= f.ordinal) = q[1]
    <3>. HIDE DEF live
    <3>. QED
      BY <2>8, <2>9
  <2>. QED
    BY <1>2, <2>2, <2>8, <2>10
<1>. QED
  BY <1>3, <1>4

\* Events are events.
LEMMA NewEventType ==
  ASSUME transport \in Transports, NEW action \in Actions,
         NEW raw \in 0 .. MaxChunk, NEW seq \in 0 .. MaxSources
  PROVE  NewEvent(action, raw, seq) \in Events
BY DEF Transports, NewEvent, Events

\* What a queued event does to the FIFO.
LEMMA QueuedFifo ==
  ASSUME transport \in Transports, FifoOf(transport), NEW e \in Events,
         e.ordinal = transport.next, transport.terminal = NoEvent,
         transport.lastRaw <= e.raw, transport.lastSeq <= e.seq
  PROVE  /\ Queued(e) \in Transports /\ FifoOf(Queued(e))
         /\ Queued(e).ordered = Append(transport.ordered, e)
         /\ Queued(e).acked = transport.acked /\ Queued(e).requested = transport.requested
         /\ Queued(e).lastRaw = e.raw /\ Queued(e).lastSeq = e.seq
         /\ Queued(e).terminal = NoEvent
         /\ NextOf(Queued(e)) = IF transport.ordered = <<>> THEN e ELSE NextOf(transport)
<1> DEFINE q == transport.ordered
           u == Queued(e)
<1>1. q \in Seq(Events) /\ transport.next \in Nat /\ transport.acked \in Nat
  BY DEF Transports
<1>2. e.ordinal \in Nat /\ e.raw \in Int /\ e.seq \in Int /\ e.raw \in 0 .. MaxChunk
      /\ e.seq \in 0 .. MaxSources
  BY Bounds DEF Events
<1>3. u = [transport EXCEPT !.ordered = Append(q, e), !.next = transport.next + 1,
                            !.lastRaw = e.raw, !.lastSeq = e.seq]
  BY DEF Queued
<1>4. /\ u.ordered = Append(q, e) /\ u.next = transport.next + 1
      /\ u.lastRaw = e.raw /\ u.lastSeq = e.seq /\ u.acked = transport.acked
      /\ u.requested = transport.requested /\ u.terminal = transport.terminal
  BY <1>3 DEF Transports
<1>5. u \in Transports
  <2>1. Append(q, e) \in Seq(Events) /\ transport.next + 1 \in Nat
    BY <1>1
  <2>. QED
    BY <2>1, <1>2, <1>3 DEF Transports
<1>6. transport.terminal = NoEvent
  OBVIOUS
<1>7. /\ Len(u.ordered) = Len(q) + 1 /\ Len(q) \in Nat
      /\ \A i \in 1 .. Len(q) : u.ordered[i] = q[i] /\ q[i] \in Events
      /\ u.ordered[Len(q) + 1] = e
  BY <1>1, <1>4
<1>8. \A i \in 1 .. Len(q) : /\ transport.acked < q[i].ordinal /\ q[i].ordinal < transport.next
                             /\ q[i].seq <= transport.lastSeq /\ q[i].raw <= transport.lastRaw
                             /\ q[i].ordinal \in Int /\ q[i].seq \in Int /\ q[i].raw \in Int
  BY <1>7, Bounds DEF FifoOf, Events
<1>9. /\ transport.lastSeq \in Int /\ transport.lastRaw \in Int /\ transport.acked < transport.next
  BY Bounds DEF Transports, FifoOf
<1>10. \A i, j \in 1 .. Len(q) : i < j =>
         /\ q[i].ordinal < q[j].ordinal
         /\ q[i].seq <= q[j].seq /\ q[i].raw <= q[j].raw
  BY DEF FifoOf
<1>. HIDE DEF u, q
<1>11. \A i \in 1 .. Len(u.ordered) :
         /\ u.acked < u.ordered[i].ordinal /\ u.ordered[i].ordinal < u.next
         /\ u.ordered[i].seq <= u.lastSeq /\ u.ordered[i].raw <= u.lastRaw
  <2>. SUFFICES ASSUME NEW i \in 1 .. Len(u.ordered)
                PROVE  /\ u.acked < u.ordered[i].ordinal /\ u.ordered[i].ordinal < u.next
                       /\ u.ordered[i].seq <= u.lastSeq /\ u.ordered[i].raw <= u.lastRaw
    OBVIOUS
  <2>1. CASE i \in 1 .. Len(q)
    <3>1. u.ordered[i] = q[i]
      BY <2>1, <1>7
    <3>2. /\ transport.acked < q[i].ordinal /\ q[i].ordinal < transport.next
          /\ q[i].seq <= transport.lastSeq /\ q[i].raw <= transport.lastRaw
          /\ q[i].ordinal \in Int /\ q[i].seq \in Int /\ q[i].raw \in Int
      BY <2>1, <1>8
    <3>3. /\ u.acked < q[i].ordinal /\ q[i].ordinal < u.next
      BY <3>2, <1>1, <1>4
    <3>4. q[i].seq <= u.lastSeq /\ q[i].raw <= u.lastRaw
      BY <3>2, <1>2, <1>4, <1>9
    <3>. QED
      BY <3>1, <3>3, <3>4
  <2>2. CASE i = Len(q) + 1
    BY <2>2, <1>1, <1>2, <1>4, <1>7, <1>9
  <2>. QED
    BY <2>1, <2>2, <1>7
<1>12. \A i, j \in 1 .. Len(u.ordered) : i < j =>
         /\ u.ordered[i].ordinal < u.ordered[j].ordinal
         /\ u.ordered[i].seq <= u.ordered[j].seq /\ u.ordered[i].raw <= u.ordered[j].raw
  <2>. SUFFICES ASSUME NEW i \in 1 .. Len(u.ordered), NEW j \in 1 .. Len(u.ordered), i < j
                PROVE  /\ u.ordered[i].ordinal < u.ordered[j].ordinal
                       /\ u.ordered[i].seq <= u.ordered[j].seq
                       /\ u.ordered[i].raw <= u.ordered[j].raw
    OBVIOUS
  <2>0. i \in 1 .. Len(q)
    BY <1>7
  <2>1. CASE j \in 1 .. Len(q)
    BY <2>0, <2>1, <1>7, <1>10
  <2>2. CASE j = Len(q) + 1
    <3>1. u.ordered[i] = q[i] /\ u.ordered[j] = e
      BY <2>0, <2>2, <1>7
    <3>2. /\ q[i].ordinal < transport.next
          /\ q[i].seq <= transport.lastSeq /\ q[i].raw <= transport.lastRaw
          /\ q[i].seq \in Int /\ q[i].raw \in Int
      BY <2>0, <1>8
    <3>3. q[i].ordinal < e.ordinal /\ q[i].seq <= e.seq /\ q[i].raw <= e.raw
      BY <3>2, <1>2, <1>9
    <3>. QED
      BY <3>1, <3>3
  <2>. QED
    BY <2>1, <2>2, <1>7
<1>13. FifoOf(u)
  <2>1. u.acked < u.next
    BY <1>1, <1>4, <1>9
  <2>. QED
    BY <2>1, <1>4, <1>6, <1>11, <1>12 DEF FifoOf
<1>14. NextOf(u) = IF q = <<>> THEN e ELSE NextOf(transport)
  <2>1. u.ordered # <<>>
    <3>1. Len(<<>>) = 0 /\ Len(q) + 1 # 0
      BY <1>7
    <3>. QED
      BY <3>1, <1>7
  <2>2. CASE q = <<>>
    BY <2>1, <2>2, <1>7 DEF NextOf
  <2>3. CASE q # <<>>
    <3>1. 1 \in 1 .. Len(q)
      BY <2>3, <1>1
    <3>. QED
      BY <3>1, <2>1, <2>3, <1>7 DEF NextOf, q
  <2>. QED
    BY <2>2, <2>3
<1>. QED
  BY <1>4, <1>5, <1>6, <1>13, <1>14 DEF u, q

\* The terminal event is an event behind all the others.
LEMMA TerminalFifo ==
  ASSUME transport \in Transports, FifoOf(transport), NEW n \in 0 .. MaxSources,
         transport.lastSeq <= n, ~ transport.requested
  PROVE  LET u == WithTerminal(n)
         IN  /\ u \in Transports /\ FifoOf(u) /\ u.requested = TRUE
             /\ u.ordered = transport.ordered /\ u.acked = transport.acked
             /\ u.lastRaw = transport.lastRaw /\ u.lastSeq = n
             /\ u.terminal.ordinal = transport.next /\ u.terminal.seq = n
             /\ u.terminal.action = "SubmitSession" /\ u.terminal # NoEvent
             /\ transport.terminal = NoEvent
             /\ NextOf(transport) # NoEvent => NextOf(u) = NextOf(transport)
<1> DEFINE u == WithTerminal(n)
           e == NewEvent("SubmitSession", transport.lastRaw, Larger(n, transport.lastSeq))
           q == transport.ordered
<1>1. transport.terminal = NoEvent
  BY DEF FifoOf
<1>2. /\ q \in Seq(Events) /\ transport.next \in Nat /\ transport.acked \in Nat
      /\ transport.lastSeq \in 0 .. MaxSources /\ transport.lastRaw \in 0 .. MaxChunk
  BY DEF Transports
<1>3. Larger(n, transport.lastSeq) = n
  BY <1>2, Bounds DEF Larger
<1>4. e = [ordinal |-> transport.next, action |-> "SubmitSession", raw |-> transport.lastRaw,
           seq |-> n]
  BY <1>3 DEF NewEvent
<1>5. e \in Events
  BY <1>2, <1>4, "SubmitSession" \in Actions DEF Events, Actions
<1>6. e.ordinal = transport.next /\ e.raw = transport.lastRaw /\ e.seq = n
      /\ e.action = "SubmitSession"
  BY <1>4
<1>7. u = [transport EXCEPT !.terminal = e, !.next = transport.next + 1,
                            !.lastRaw = transport.lastRaw, !.lastSeq = n, !.requested = TRUE]
  BY <1>6 DEF WithTerminal
<1>. HIDE DEF e, u
<1>8. /\ u.ordered = q /\ u.next = transport.next + 1 /\ u.terminal = e
      /\ u.lastRaw = transport.lastRaw /\ u.lastSeq = n /\ u.acked = transport.acked
      /\ u.requested = TRUE
  BY <1>7 DEF Transports
<1>9. u \in Transports
  <2>1. transport.next + 1 \in Nat
    BY <1>2
  <2>. QED
    BY <2>1, <1>2, <1>5, <1>7 DEF Transports
<1>10. transport.acked < transport.next
  BY DEF FifoOf
<1>11. e # NoEvent
  BY <1>2, <1>6, <1>10 DEF NoEvent
<1>12. \A i \in 1 .. Len(q) :
         /\ transport.acked < q[i].ordinal /\ q[i].ordinal < transport.next
         /\ q[i].seq <= transport.lastSeq /\ q[i].raw <= transport.lastRaw
         /\ q[i] \in Events
  BY <1>2 DEF FifoOf
<1>13. \A i, j \in 1 .. Len(q) : i < j =>
         /\ q[i].ordinal < q[j].ordinal
         /\ q[i].seq <= q[j].seq /\ q[i].raw <= q[j].raw
  BY DEF FifoOf
<1>14. \A i \in 1 .. Len(q) : q[i].ordinal < transport.next + 1 /\ q[i].seq <= n
  <2>. TAKE i \in 1 .. Len(q)
  <2>1. /\ q[i].ordinal < transport.next /\ q[i].seq <= transport.lastSeq
        /\ q[i].ordinal \in Int /\ q[i].seq \in Int
    BY <1>12, Bounds DEF Events
  <2>2. q[i].ordinal < transport.next + 1
    BY <2>1, <1>2
  <2>3. transport.lastSeq \in Int /\ n \in Int
    BY <1>2, Bounds
  <2>4. q[i].seq <= n
    BY <2>1, <2>3
  <2>. QED
    BY <2>2, <2>4
<1>15. FifoOf(u)
  <2>1. \A i \in 1 .. Len(u.ordered) :
          /\ u.acked < u.ordered[i].ordinal /\ u.ordered[i].ordinal < u.next
          /\ u.ordered[i].seq <= u.lastSeq /\ u.ordered[i].raw <= u.lastRaw
    BY <1>8, <1>12, <1>14
  <2>2. \A i \in 1 .. Len(u.ordered) :
          /\ u.ordered[i].ordinal < u.terminal.ordinal
          /\ u.ordered[i].seq <= u.terminal.seq /\ u.ordered[i].raw <= u.terminal.raw
    BY <1>6, <1>8, <1>12, <1>14
  <2>3. u.acked < u.next /\ u.acked < u.terminal.ordinal /\ u.terminal.ordinal < u.next
    BY <1>2, <1>6, <1>8, <1>10
  <2>4. u.terminal.seq <= u.lastSeq /\ u.terminal.raw <= u.lastRaw
    BY <1>2, <1>6, <1>8, Bounds
  <2>. QED
    BY <2>1, <2>2, <2>3, <2>4, <1>8, <1>13 DEF FifoOf
<1>16. NextOf(transport) # NoEvent => NextOf(u) = NextOf(transport)
  BY <1>1, <1>8 DEF NextOf
<1>. QED
  BY <1>1, <1>6, <1>8, <1>9, <1>11, <1>15, <1>16 DEF u

\* The head of the FIFO has the least ordinal.
LEMMA NextFacts ==
  ASSUME NEW t \in Transports, FifoOf(t), NextOf(t) # NoEvent
  PROVE  /\ NextOf(t) \in Events /\ t.acked < NextOf(t).ordinal
         /\ NextOf(t).ordinal < t.next
         /\ NextOf(t).seq <= t.lastSeq /\ NextOf(t).raw <= t.lastRaw
         /\ (t.ordered = <<>> /\ NextOf(t) = t.terminal) \/
            (t.ordered # <<>> /\ NextOf(t) # t.terminal /\ NextOf(t) = t.ordered[1])
<1>1. t.ordered \in Seq(Events) /\ t.terminal \in Events
  BY DEF Transports
<1>2. CASE t.ordered = <<>>
  <2>1. NextOf(t) = t.terminal
    BY <1>2 DEF NextOf
  <2>. QED
    BY <1>1, <1>2, <2>1 DEF FifoOf
<1>3. CASE t.ordered # <<>>
  <2>1. NextOf(t) = t.ordered[1] /\ 1 \in 1 .. Len(t.ordered) /\ t.ordered[1] \in Events
    BY <1>1, <1>3 DEF NextOf
  <2>2. /\ t.acked < t.ordered[1].ordinal /\ t.ordered[1].ordinal < t.next
        /\ t.ordered[1].seq <= t.lastSeq /\ t.ordered[1].raw <= t.lastRaw
        /\ t.terminal # NoEvent => t.ordered[1].ordinal < t.terminal.ordinal
    BY <2>1 DEF FifoOf
  <2>3. t.ordered[1].ordinal \in Nat
    BY <2>1 DEF Events
  <2>4. t.ordered[1] # t.terminal
    BY <2>1, <2>2, <2>3
  <2>. QED
    BY <1>3, <2>1, <2>2, <2>4
<1>. QED
  BY <1>2, <1>3

\* An acknowledgement removes the head.
LEMMA AckedFifo ==
  ASSUME NEW t \in Transports, FifoOf(t), NextOf(t) # NoEvent
  PROVE  LET u == Acknowledged(t, NextOf(t))
         IN  /\ u \in Transports /\ FifoOf(u) /\ u.acked = NextOf(t).ordinal
             /\ u.requested = t.requested /\ u.next = t.next
             /\ u.lastRaw = t.lastRaw /\ u.lastSeq = t.lastSeq
             /\ \/ t.ordered = <<>> /\ u.ordered = <<>> /\ u.terminal = NoEvent
                \/ t.ordered # <<>> /\ u.ordered = Tail(t.ordered) /\ u.terminal = t.terminal
<1> DEFINE e == NextOf(t)
           u == Acknowledged(t, e)
           q == t.ordered
<1>1. /\ e \in Events /\ t.acked < e.ordinal /\ e.ordinal < t.next
      /\ e.seq <= t.lastSeq /\ e.raw <= t.lastRaw
      /\ (q = <<>> /\ e = t.terminal) \/ (q # <<>> /\ e # t.terminal /\ e = q[1])
  BY NextFacts
<1>2. /\ q \in Seq(Events) /\ t.next \in Nat /\ t.acked \in Nat /\ e.ordinal \in Nat
      /\ NoEvent \in Events
  BY <1>1, "ClosePass" \in Actions, Bounds DEF Transports, Events, NoEvent, Actions
<1>. HIDE DEF e
<1>3. CASE q = <<>>
  <2>1. u = [t EXCEPT !.terminal = NoEvent, !.acked = e.ordinal]
    BY <1>1, <1>3 DEF Acknowledged
  <2>. HIDE DEF u
  <2>2. /\ u.ordered = q /\ u.next = t.next /\ u.terminal = NoEvent
        /\ u.lastRaw = t.lastRaw /\ u.lastSeq = t.lastSeq /\ u.acked = e.ordinal
        /\ u.requested = t.requested
    BY <2>1 DEF Transports
  <2>3. u \in Transports
    BY <2>1, <1>2 DEF Transports
  <2>4. Len(u.ordered) = 0
    BY <1>3, <2>2
  <2>5. FifoOf(u)
    BY <1>1, <2>2, <2>4 DEF FifoOf
  <2>. QED
    BY <1>3, <2>2, <2>3, <2>5 DEF u, e
<1>4. CASE q # <<>>
  <2>1. u = [t EXCEPT !.ordered = Tail(q), !.acked = e.ordinal]
    BY <1>1, <1>4 DEF Acknowledged
  <2>2. /\ Tail(q) \in Seq(Events) /\ Len(Tail(q)) = Len(q) - 1
        /\ \A i \in 1 .. Len(q) - 1 : Tail(q)[i] = q[i + 1]
        /\ Len(q) \in Nat /\ Len(q) # 0 /\ q[1] = e
    BY <1>1, <1>2, <1>4
  <2>3. \A i \in 1 .. Len(q) :
         /\ t.acked < q[i].ordinal /\ q[i].ordinal < t.next
         /\ q[i].seq <= t.lastSeq /\ q[i].raw <= t.lastRaw
    BY DEF FifoOf
  <2>4. \A i, j \in 1 .. Len(q) : i < j =>
         /\ q[i].ordinal < q[j].ordinal
         /\ q[i].seq <= q[j].seq /\ q[i].raw <= q[j].raw
    BY DEF FifoOf
  <2>5. t.terminal # NoEvent =>
         /\ t.requested /\ t.acked < t.terminal.ordinal /\ t.terminal.ordinal < t.next
         /\ t.terminal.seq <= t.lastSeq /\ t.terminal.raw <= t.lastRaw
         /\ \A i \in 1 .. Len(q) :
              /\ q[i].ordinal < t.terminal.ordinal
              /\ q[i].seq <= t.terminal.seq /\ q[i].raw <= t.terminal.raw
    BY DEF FifoOf
  <2>. HIDE DEF u, q
  <2>6. /\ u.ordered = Tail(q) /\ u.next = t.next /\ u.terminal = t.terminal
        /\ u.lastRaw = t.lastRaw /\ u.lastSeq = t.lastSeq /\ u.acked = e.ordinal
        /\ u.requested = t.requested
    BY <2>1 DEF Transports
  <2>7. u \in Transports
    BY <2>1, <2>2, <1>2 DEF Transports
  <2>8. \A i \in 1 .. Len(u.ordered) :
          i + 1 \in 1 .. Len(q) /\ 1 < i + 1 /\ 1 \in 1 .. Len(q) /\ u.ordered[i] = q[i + 1]
    BY <2>2, <2>6
  <2>9. \A i \in 1 .. Len(u.ordered) :
          /\ u.acked < u.ordered[i].ordinal /\ u.ordered[i].ordinal < u.next
          /\ u.ordered[i].seq <= u.lastSeq /\ u.ordered[i].raw <= u.lastRaw
    BY <2>2, <2>3, <2>4, <2>6, <2>8
  <2>10. \A i, j \in 1 .. Len(u.ordered) : i < j =>
          /\ u.ordered[i].ordinal < u.ordered[j].ordinal
          /\ u.ordered[i].seq <= u.ordered[j].seq /\ u.ordered[i].raw <= u.ordered[j].raw
    BY <2>4, <2>8
  <2>11. u.terminal # NoEvent =>
         /\ u.requested /\ u.acked < u.terminal.ordinal /\ u.terminal.ordinal < u.next
         /\ u.terminal.seq <= u.lastSeq /\ u.terminal.raw <= u.lastRaw
         /\ \A i \in 1 .. Len(u.ordered) :
              /\ u.ordered[i].ordinal < u.terminal.ordinal
              /\ u.ordered[i].seq <= u.terminal.seq /\ u.ordered[i].raw <= u.terminal.raw
    <3>1. 1 \in 1 .. Len(q)
      BY <2>2
    <3>. QED
      BY <3>1, <2>2, <2>5, <2>6, <2>8
  <2>12. FifoOf(u)
    BY <2>6, <2>9, <2>10, <2>11, <1>1 DEF FifoOf
  <2>. QED
    BY <1>4, <2>6, <2>7, <2>12 DEF u, e, q
<1>. QED
  BY <1>3, <1>4

-----------------------------------------------------------------------------
(* What the steps do to the transport and to the sources. *)

\* The event that a post appends.
Event(action, raw, seq) ==
  [ordinal |-> transport.next, action |-> action, raw |-> raw, seq |-> seq]

\* A step that posts an ordered event, and one that acknowledges the next one.
Posts(action, raw, seq) ==
  /\ transport' \in Transports /\ FifoOf(transport')
  /\ transport'.ordered = Append(transport.ordered, Event(action, raw, seq))
  /\ transport'.acked = transport.acked /\ transport'.requested = transport.requested
  /\ transport'.lastRaw = raw /\ transport'.lastSeq = seq
  /\ transport.terminal = NoEvent /\ transport'.terminal = NoEvent
  /\ NextOf(transport') = IF transport.ordered = <<>> THEN Event(action, raw, seq)
                                                      ELSE NextOf(transport)
Acks(e) ==
  /\ e = NextOf(transport) /\ e # NoEvent
  /\ transport' \in Transports /\ FifoOf(transport') /\ transport'.acked = e.ordinal
  /\ transport'.requested = transport.requested
  /\ transport'.lastRaw = transport.lastRaw /\ transport'.lastSeq = transport.lastSeq
  /\ \/ transport.ordered = <<>> /\ transport'.ordered = <<>>
     \/ transport.ordered # <<>> /\ transport'.ordered = Tail(transport.ordered)

\* Without a teardown there is no terminal event.
LEMMA NotRequested ==
  ASSUME FifoOf(transport), ~ transport.requested
  PROVE  transport.terminal = NoEvent
BY DEF FifoOf

\* An accepted post keeps the FIFO.
LEMMA PostMoves ==
  ASSUME transport \in Transports, FifoOf(transport), NEW action \in Actions,
         NEW raw \in 0 .. MaxChunk, NEW seq \in 0 .. MaxSources, Accepts(raw, seq),
         transport' = Queued(NewEvent(action, raw, seq))
  PROVE  Posts(action, raw, seq) /\ Event(action, raw, seq) \in Events
<1> DEFINE e == NewEvent(action, raw, seq)
<1>1. e \in Events /\ e = Event(action, raw, seq)
  BY NewEventType DEF Event, NewEvent
<1>2. e.ordinal = transport.next /\ e.raw = raw /\ e.seq = seq
  BY DEF NewEvent
<1>3. transport.terminal = NoEvent /\ transport.lastRaw <= raw /\ transport.lastSeq <= seq
  BY NotRequested DEF Accepts, FenceNotBefore, Transports
<1>. HIDE DEF e
<1>. DEFINE u == Queued(e)
<1>4. /\ u \in Transports /\ FifoOf(u)
      /\ u.ordered = Append(transport.ordered, e)
      /\ u.acked = transport.acked /\ u.requested = transport.requested
      /\ u.lastRaw = e.raw /\ u.lastSeq = e.seq
      /\ u.terminal = NoEvent
      /\ NextOf(u) = IF transport.ordered = <<>> THEN e ELSE NextOf(transport)
  BY <1>1, <1>2, <1>3, QueuedFifo
<1>5. transport' = u
  BY DEF e
<1>. HIDE DEF u
<1>. QED
  BY <1>1, <1>2, <1>3, <1>4, <1>5 DEF Posts

\* An acknowledgement of the next event keeps the FIFO.
LEMMA AckMoves ==
  ASSUME transport \in Transports, FifoOf(transport), NEW e, e = NextOf(transport),
         e # NoEvent, transport' = Acknowledged(transport, e)
  PROVE  Acks(e)
<1>. DEFINE u == Acknowledged(transport, e)
<1>1. /\ u \in Transports /\ FifoOf(u) /\ u.acked = NextOf(transport).ordinal
      /\ u.requested = transport.requested
      /\ u.lastRaw = transport.lastRaw /\ u.lastSeq = transport.lastSeq
      /\ \/ transport.ordered = <<>> /\ u.ordered = <<>>
         \/ transport.ordered # <<>> /\ u.ordered = Tail(transport.ordered)
  BY AckedFifo
<1>2. transport' = u
  OBVIOUS
<1>. HIDE DEF u
<1>. QED
  BY <1>1, <1>2 DEF Acks

\* A step that publishes at most the writer's work.
Grows ==
  \/ sources' = sources /\ (writing' = writing \/ writing' = FALSE)
  \/ writing /\ writing' = FALSE /\ sources' = Append(sources, 0)

\* What such a step keeps.
LEMMA GrowMarks ==
  ASSUME Marks, Grows
  PROVE  /\ sources' \in Seq(0 .. MaxChunk) /\ writing' \in BOOLEAN
         /\ Len(sources') \in 0 .. MaxSources /\ Len(sources) <= Len(sources')
         /\ (writing' => Len(sources') < MaxSources)
         /\ \A i \in 1 .. Len(sources') : sources'[i] <= chunk
<1>0. sources \in Seq(0 .. MaxChunk) /\ writing \in BOOLEAN /\ Len(sources) \in Nat
      /\ Len(sources) <= MaxSources /\ (writing => Len(sources) < MaxSources)
      /\ \A i \in 1 .. Len(sources) : sources[i] <= chunk
  BY DEF Marks
<1>1. CASE sources' = sources /\ (writing' = writing \/ writing' = FALSE)
  <2>1. sources' \in Seq(0 .. MaxChunk) /\ Len(sources') = Len(sources)
    BY <1>0, <1>1
  <2>2. writing' \in BOOLEAN /\ (writing' => writing)
    <3>1. CASE writing' = writing
      BY <1>0, <3>1
    <3>2. CASE writing' = FALSE
      BY <3>2
    <3>. QED
      BY <1>1, <3>1, <3>2
  <2>. QED
    BY <1>0, <1>1, <2>1, <2>2, Bounds
<1>2. CASE writing /\ writing' = FALSE /\ sources' = Append(sources, 0)
  <2>1. chunk \in Nat /\ 0 <= chunk
    BY Bounds DEF Marks, Larger
  <2>2. 0 \in 0 .. MaxChunk
    BY Bounds
  <2>3. /\ sources' \in Seq(0 .. MaxChunk) /\ Len(sources') = Len(sources) + 1
        /\ \A i \in 1 .. Len(sources) : sources'[i] = sources[i]
        /\ sources'[Len(sources) + 1] = 0
    BY <1>0, <1>2, <2>2
  <2>4. Len(sources) < MaxSources
    BY <1>0, <1>2
  <2>5. \A i \in 1 .. Len(sources') : sources'[i] <= chunk
    BY <1>0, <2>1, <2>3
  <2>6. Len(sources') \in 0 .. MaxSources /\ Len(sources) <= Len(sources')
    BY <1>0, <2>3, <2>4, Bounds
  <2>. QED
    BY <1>2, <2>3, <2>5, <2>6
<1>. QED
  BY <1>1, <1>2 DEF Grows

\* The ways an ordered control leaves its first hold of the mutex.
ControlRefused(action) ==
  /\ transport.requested
  /\ client' = Returned(action, Len(sources'), FALSE)
  /\ UNCHANGED <<transport, coveredRaw, witness>>
ControlReused(c, action) ==
  /\ witness # NoWitness /\ covered = Len(sources) /\ sources' = sources
  /\ action = "ClosePass" /\ client' = Returned(action, Len(sources'), TRUE)
  /\ transport.ordered = <<>> /\ transport.terminal = NoEvent
  /\ transport' \in Transports /\ FifoOf(transport')
  /\ transport'.ordered = <<>> /\ transport'.terminal = NoEvent
  /\ transport'.requested = transport.requested
  /\ transport'.lastRaw = c /\ transport'.lastSeq = Len(sources')
  /\ coveredRaw' = Larger(coveredRaw, c)
  /\ witness' \in [ordinal : Nat, raw : 0 .. MaxChunk, published : {Len(sources)}]
ControlPosts(c, action) ==
  /\ Posts(action, c, Len(sources'))
  /\ client' = [pc |-> "ackWait", action |-> action, ordinal |-> transport.next,
                seq |-> Len(sources'), ok |-> FALSE]
  /\ UNCHANGED <<coveredRaw, witness>>

\* What an ordered control does.
ControlMoves(c, action) ==
  /\ client = Resting /\ ~ stop /\ chunk' = c /\ Grows /\ asleep' \subseteq {"coord", "client"}
  /\ UNCHANGED <<covered, submitted, completed, reclaimed, session, coord, waiter,
                 target, stop, aborted>>
  /\ ControlRefused(action) \/ ControlReused(c, action) \/ ControlPosts(c, action)

\* A reused receipt acknowledges the event in the hold that posted it.
LEMMA ReuseMoves ==
  ASSUME transport \in Transports, FifoOf(transport), transport.terminal = NoEvent,
         transport.ordered = <<>>, NEW e \in Events, e.ordinal = transport.next,
         transport.lastRaw <= e.raw, transport.lastSeq <= e.seq,
         transport' = Acknowledged(Queued(e), e)
  PROVE  /\ transport' \in Transports /\ FifoOf(transport')
         /\ transport'.ordered = <<>> /\ transport'.terminal = NoEvent
         /\ transport'.requested = transport.requested
         /\ transport'.lastRaw = e.raw /\ transport'.lastSeq = e.seq
<1> DEFINE t == Queued(e)
<1>1. /\ t \in Transports /\ FifoOf(t)
      /\ t.ordered = Append(transport.ordered, e)
      /\ t.requested = transport.requested
      /\ t.lastRaw = e.raw /\ t.lastSeq = e.seq /\ t.terminal = NoEvent
      /\ NextOf(t) = e
  BY QueuedFifo
<1>2. e # NoEvent
  BY DEF NoEvent, FifoOf, Transports
<1>. HIDE DEF t
<1>3. t.ordered = <<e>> /\ Tail(t.ordered) = <<>> /\ t.ordered # <<>>
  BY <1>1
<1>. DEFINE u == Acknowledged(t, NextOf(t))
<1>4. /\ u \in Transports /\ FifoOf(u) /\ u.requested = t.requested
      /\ u.lastRaw = t.lastRaw /\ u.lastSeq = t.lastSeq
      /\ u.ordered = <<>> /\ u.terminal = t.terminal
  BY <1>1, <1>2, <1>3, AckedFifo
<1>5. transport' = u
  BY <1>1 DEF t
<1>. HIDE DEF u
<1>. QED
  BY <1>1, <1>4, <1>5

\* The first hold of the mutex of an ordered control, case by case.
LEMMA ControlEffects ==
  ASSUME SessionInv, NEW c \in chunk .. MaxChunk, NEW action \in Actions,
         NEW retain \in BOOLEAN, NEW clean \in BOOLEAN, Control(c, action, retain, clean)
  PROVE  ControlMoves(c, action) /\ c \in 1 .. MaxChunk /\ chunk <= c
<1> DEFINE seq == Len(sources')
           e == NewEvent(action, c, seq)
<1>1. Types /\ Marks /\ FifoOf(transport) /\ transport \in Transports
  BY DEF SessionInv, Fifo, Types
<1>2. /\ client = Resting /\ ~ stop /\ chunk' = c
      /\ UNCHANGED <<covered, submitted, completed, reclaimed, session, coord, waiter,
                     target, stop, aborted>>
      /\ retain => action = "ClosePass"
      /\ IF retain THEN UNCHANGED <<sources, writing, moved>> ELSE CommitWriting
  BY DEF Control
<1>3. Grows
  <2>1. CASE retain
    BY <1>2, <2>1 DEF Grows
  <2>2. CASE ~ retain
    BY <1>2, <2>2 DEF Grows, CommitWriting, Committed
  <2>. QED
    BY <2>1, <2>2
<1>4. c \in 1 .. MaxChunk /\ chunk <= c /\ c \in 0 .. MaxChunk /\ chunk \in Nat
  BY <1>1, Bounds DEF Marks, Larger
<1>5. /\ seq \in 0 .. MaxSources /\ Len(sources) <= seq /\ Len(sources) \in Nat
  BY <1>1, <1>3, GrowMarks DEF Marks
<1>6. transport.lastRaw <= c /\ transport.lastSeq <= seq
  <2>1. /\ transport.lastRaw <= chunk /\ transport.lastSeq <= Len(sources)
        /\ transport.lastRaw \in Int /\ transport.lastSeq \in Int
    BY <1>1, Bounds DEF Marks, Transports
  <2>. QED
    BY <2>1, <1>4, <1>5
<1>7. Accepts(c, seq) \/ transport.requested
  BY <1>4, <1>5, <1>6, Bounds DEF Accepts, FenceNotBefore, Transports
<1>8. asleep' \subseteq {"coord", "client"}
  BY <1>1 DEF Control, Types
<1>9. CASE ~ Accepts(c, seq)
  <2>1. /\ client' = Returned(action, seq, FALSE)
        /\ UNCHANGED <<transport, coveredRaw, witness>>
    BY <1>9 DEF Control
  <2>. QED
    BY <1>2, <1>3, <1>4, <1>7, <1>8, <1>9, <2>1 DEF ControlMoves, ControlRefused
<1>10. CASE Accepts(c, seq) /\ retain /\ clean /\ Reusable(e)
  <2>1. /\ transport' = Acknowledged(Queued(e), e)
        /\ coveredRaw' = Larger(coveredRaw, e.raw)
        /\ witness' = Receipt(e) /\ client' = Returned(action, seq, TRUE)
    BY <1>10 DEF Control
  <2>2. /\ e \in Events /\ e.ordinal = transport.next /\ e.raw = c /\ e.seq = seq
    BY <1>1, <1>4, <1>5, NewEventType DEF NewEvent
  <2>3. /\ witness # NoWitness /\ covered = Len(sources) /\ transport.ordered = <<>>
        /\ ~ transport.requested /\ sources' = sources /\ action = "ClosePass"
    BY <1>2, <1>10 DEF Reusable, Published
  <2>4. transport.terminal = NoEvent
    BY <1>1, <2>3, NotRequested
  <2>5. witness' \in [ordinal : Nat, raw : 0 .. MaxChunk, published : {Len(sources)}]
    BY <2>1, <2>2 DEF Receipt, Published, Events
  <2>. HIDE DEF e, seq
  <2>6. /\ transport' \in Transports /\ FifoOf(transport')
        /\ transport'.ordered = <<>> /\ transport'.terminal = NoEvent
        /\ transport'.requested = transport.requested
        /\ transport'.lastRaw = c /\ transport'.lastSeq = seq
    BY <1>1, <1>6, <2>1, <2>2, <2>3, <2>4, ReuseMoves
  <2>7. ControlReused(c, action)
    BY <2>1, <2>2, <2>3, <2>4, <2>5, <2>6 DEF ControlReused, seq
  <2>. QED
    BY <1>2, <1>3, <1>4, <1>8, <2>7 DEF ControlMoves
<1>11. CASE Accepts(c, seq) /\ ~ (retain /\ clean /\ Reusable(e))
  <2>1. /\ transport' = Queued(e)
        /\ client' = [pc |-> "ackWait", action |-> action, ordinal |-> e.ordinal,
                      seq |-> seq, ok |-> FALSE]
        /\ UNCHANGED <<coveredRaw, witness>>
    BY <1>11 DEF Control
  <2>2. e.ordinal = transport.next
    BY DEF NewEvent
  <2>3. Posts(action, c, seq)
    BY <1>1, <1>4, <1>5, <1>11, <2>1, PostMoves
  <2>. QED
    BY <1>2, <1>3, <1>4, <1>8, <2>1, <2>2, <2>3 DEF ControlMoves, ControlPosts
<1>. QED
  BY <1>9, <1>10, <1>11

\* The ways a teardown leaves its first hold of the mutex.
TeardownRefused ==
  /\ transport.requested /\ UNCHANGED transport
  /\ client' = Returned("Teardown", Len(sources'), FALSE)
TeardownPosts ==
  /\ transport' \in Transports /\ FifoOf(transport') /\ transport'.requested = TRUE
  /\ transport'.ordered = transport.ordered /\ transport'.acked = transport.acked
  /\ transport'.lastRaw = transport.lastRaw /\ transport'.lastSeq = Len(sources')
  /\ NextOf(transport) # NoEvent => NextOf(transport') = NextOf(transport)
  /\ client' = [pc |-> "terminalWait", action |-> "Teardown", ordinal |-> transport.next,
                seq |-> Len(sources'), ok |-> FALSE]

\* What a teardown does.
TeardownMoves ==
  /\ client = Resting /\ ~ stop /\ Grows /\ asleep' \subseteq {"coord", "client"}
  /\ witness' = NoWitness
  /\ UNCHANGED <<chunk, covered, coveredRaw, submitted, completed, reclaimed, session,
                 coord, waiter, target, stop, aborted>>
  /\ TeardownRefused \/ TeardownPosts

\* The first hold of the mutex of a teardown, case by case.
LEMMA TeardownEffects ==
  ASSUME SessionInv, Teardown
  PROVE  TeardownMoves
<1> DEFINE seq == Len(sources')
<1>1. Types /\ Marks /\ FifoOf(transport) /\ transport \in Transports
  BY DEF SessionInv, Fifo, Types
<1>2. Grows
  BY DEF Teardown, Grows, CommitWriting, Committed
<1>3. /\ seq \in 0 .. MaxSources /\ Len(sources) <= seq /\ Len(sources) \in Nat
  BY <1>1, <1>2, GrowMarks DEF Marks
<1>4. transport.lastSeq <= seq
  <2>1. transport.lastSeq <= Len(sources) /\ transport.lastSeq \in Int
    BY <1>1, Bounds DEF Marks, Transports
  <2>. QED
    BY <2>1, <1>3
<1>5. asleep' \subseteq {"coord", "client"}
  BY <1>1 DEF Teardown, Types
<1>6. /\ client = Resting /\ ~ stop /\ witness' = NoWitness
      /\ UNCHANGED <<chunk, covered, coveredRaw, submitted, completed, reclaimed, session,
                     coord, waiter, target, stop, aborted>>
  BY DEF Teardown
<1>7. CASE transport.requested
  <2>1. UNCHANGED transport /\ client' = Returned("Teardown", seq, FALSE)
    BY <1>7 DEF Teardown
  <2>. QED
    BY <1>2, <1>5, <1>6, <1>7, <2>1 DEF TeardownMoves, TeardownRefused
<1>8. CASE ~ transport.requested
  <2>1. /\ transport' = WithTerminal(seq)
        /\ client' = [pc |-> "terminalWait", action |-> "Teardown",
                      ordinal |-> transport.next, seq |-> seq, ok |-> FALSE]
    BY <1>8 DEF Teardown
  <2>. DEFINE u == WithTerminal(seq)
  <2>. HIDE DEF seq
  <2>2. /\ u \in Transports /\ FifoOf(u) /\ u.requested = TRUE
        /\ u.ordered = transport.ordered /\ u.acked = transport.acked
        /\ u.lastRaw = transport.lastRaw /\ u.lastSeq = seq
        /\ NextOf(transport) # NoEvent => NextOf(u) = NextOf(transport)
    BY <1>1, <1>3, <1>4, <1>8, TerminalFifo
  <2>3. transport' = u
    BY <2>1
  <2>. HIDE DEF u
  <2>4. TeardownPosts
    BY <2>1, <2>2, <2>3 DEF TeardownPosts, seq
  <2>. QED
    BY <1>2, <1>5, <1>6, <2>4 DEF TeardownMoves
<1>. QED
  BY <1>7, <1>8

\* What an acknowledgement by the coordinator does.
AckEffects(e, closed) ==
  /\ Acks(e) /\ coveredRaw' = Larger(coveredRaw, e.raw) /\ coveredRaw' \in 0 .. MaxChunk
  /\ \/ witness' = NoWitness
     \/ /\ closed /\ covered = Len(sources)
        /\ witness' \in [ordinal : Nat, raw : 0 .. MaxChunk, published : {Len(sources)}]
  /\ asleep' \subseteq asleep /\ UNCHANGED aborted
  /\ coord' \in {[AtTop EXCEPT !.pc = "exited"], [AtTop EXCEPT !.pc = "top"]}

\* The acknowledgement of a covered next event is accepted.
LEMMA AcknowledgeMoves ==
  ASSUME Types, Marks, FifoOf(transport), NEW e, e = NextOf(transport), e # NoEvent,
         e.seq <= covered, NEW closed \in BOOLEAN, Acknowledge(e, closed)
  PROVE  AckEffects(e, closed)
<1>1. transport \in Transports /\ covered \in Nat /\ coveredRaw \in 0 .. MaxChunk
  BY DEF Types, Marks
<1>2. PeekNext = e
  BY <1>1, PeekIs
<1>3. e \in Events
  BY <1>1, NextFacts
<1>4. e.raw \in 0 .. MaxChunk /\ e.seq \in 0 .. MaxSources /\ e.ordinal \in Nat
  BY <1>3 DEF Events
<1>. DEFINE raw == RawCoverage(e)
<1>5. raw = Larger(coveredRaw, e.raw) /\ raw >= e.raw /\ raw \in 0 .. MaxChunk
  BY <1>1, <1>4, Bounds, LargerIs DEF RawCoverage
<1>. HIDE DEF raw
<1>6. FenceCovered(e, raw)
  BY <1>1, <1>4, <1>5, Bounds DEF FenceCovered
<1>7. /\ coveredRaw' = raw /\ transport' = Acknowledged(transport, e)
      /\ witness' = IF Certifies(e, closed) THEN Receipt(e) ELSE NoWitness
      /\ asleep' = asleep \ {"client"}
      /\ coord' = [AtTop EXCEPT !.pc = IF stop THEN "exited" ELSE "top"]
      /\ UNCHANGED aborted
  BY <1>2, <1>6 DEF Acknowledge, raw
<1>8. Acks(e)
  BY <1>1, <1>7, AckMoves
<1>9. \/ witness' = NoWitness
      \/ /\ closed /\ covered = Len(sources)
         /\ witness' \in [ordinal : Nat, raw : 0 .. MaxChunk, published : {Len(sources)}]
  <2>1. CASE Certifies(e, closed)
    <3>1. closed /\ covered = Len(sources)
      BY <2>1 DEF Certifies, Published
    <3>2. Receipt(e) \in [ordinal : Nat, raw : 0 .. MaxChunk, published : {Len(sources)}]
      BY <1>4 DEF Receipt, Published
    <3>. QED
      BY <2>1, <3>1, <3>2, <1>7
  <2>2. CASE ~ Certifies(e, closed)
    BY <2>2, <1>7
  <2>. QED
    BY <2>1, <2>2
<1>10. coord' \in {[AtTop EXCEPT !.pc = "exited"], [AtTop EXCEPT !.pc = "top"]}
  BY <1>7
<1>. QED
  BY <1>5, <1>7, <1>8, <1>9, <1>10 DEF AckEffects

\* What the coordinator never touches.
CoordStays ==
  UNCHANGED <<sources, writing, chunk, used, completed, reclaimed, client, waiter, target, stop>>

\* The start of a release: the session is taken out of the mutex, or there is none
\* and the event is acknowledged.
LEMMA BeginEffects ==
  ASSUME SessionInv, BeginRelease
  PROVE  LET e == NextOf(transport)
         IN  /\ CoordStays /\ UNCHANGED <<covered, submitted, session>> /\ coord.pc = "top"
             /\ e # NoEvent /\ e \in Events /\ e.seq <= covered
             /\ \/ /\ session # NoSession /\ witness' = NoWitness
                   /\ coord' = [AtTop EXCEPT !.pc = IF e.action = "ClosePass" THEN "close"
                                                                           ELSE "finalize",
                                             !.rel = e, !.then = "ack"]
                   /\ UNCHANGED <<coveredRaw, transport, asleep, aborted>>
                \/ session = NoSession /\ AckEffects(e, FALSE)
<1> DEFINE e == NextOf(transport)
<1>1. Types /\ Marks /\ FifoOf(transport) /\ transport \in Transports
  BY DEF SessionInv, Fifo, Types
<1>2. PeekNext = e
  BY <1>1, PeekIs
<1>3. coord.pc = "top" /\ ActionReady(e)
  BY <1>2 DEF BeginRelease
<1>4. e # NoEvent /\ (e.seq = 0 \/ covered >= e.seq)
  BY <1>3 DEF ActionReady, FenceCovered
<1>5. e \in Events
  BY <1>1, <1>4, NextFacts
<1>6. e.seq <= covered
  BY <1>1, <1>4, <1>5, Bounds DEF Events, Marks
<1>7. CoordStays /\ UNCHANGED <<covered, submitted, session>>
  BY DEF BeginRelease, CoordStays, inputVars, gpuVars
<1>8. CASE session # NoSession
  BY <1>2, <1>3, <1>4, <1>5, <1>6, <1>7, <1>8 DEF BeginRelease, Open
<1>9. CASE session = NoSession
  <2>1. Acknowledge(e, FALSE)
    BY <1>2, <1>9 DEF BeginRelease, Open
  <2>2. AckEffects(e, FALSE)
    BY <1>1, <1>4, <1>6, <2>1, AcknowledgeMoves
  <2>. QED
    BY <1>3, <1>4, <1>5, <1>6, <1>7, <1>9, <2>2
<1>. QED
  BY <1>8, <1>9

\* The end of a release: the event is acknowledged.
LEMMA AckReleaseEffects ==
  ASSUME SessionInv, AckRelease
  PROVE  /\ CoordStays /\ UNCHANGED <<covered, submitted>> /\ coord.pc \in {"close", "ack"}
         /\ coord.rel = NextOf(transport) /\ coord.rel # NoEvent /\ coord.rel \in Events
         /\ coord.rel.seq <= covered
         /\ session' = [session EXCEPT !.pass = @ /\ coord.pc # "close"]
         /\ AckEffects(coord.rel, coord.pc = "close")
<1>1. Types /\ Marks /\ FifoOf(transport) /\ transport \in Transports /\ Serving
  BY DEF SessionInv, Fifo, Types
<1>2. /\ coord.pc \in {"close", "ack"} /\ Acknowledge(coord.rel, coord.pc = "close")
      /\ session' = [session EXCEPT !.pass = @ /\ coord.pc # "close"]
  BY DEF AckRelease
<1>3. coord.rel # NoEvent
  BY <1>1, <1>2 DEF Serving
<1>4. coord.rel = NextOf(transport) /\ coord.rel.seq <= covered
  BY <1>1, <1>3 DEF Serving
<1>5. coord.rel \in Events
  BY <1>1 DEF Types
<1>6. CoordStays /\ UNCHANGED <<covered, submitted>>
  BY DEF AckRelease, CoordStays, inputVars, gpuVars
<1>7. AckEffects(coord.rel, coord.pc = "close")
  BY <1>1, <1>2, <1>3, <1>4, AcknowledgeMoves
<1>. QED
  BY <1>2, <1>3, <1>4, <1>5, <1>6, <1>7

\* The coordinator releases the session it carries: through the transport, whose
\* events it has all served, or directly.
ReleasePosts ==
  /\ Posts("SubmitSession", session.raw, session.last) /\ transport.ordered = <<>>
  /\ coord' = [AtTop EXCEPT !.pc = "top"]
ReleaseDirect(next) ==
  UNCHANGED transport /\ coord' = [AtTop EXCEPT !.pc = "finalize", !.then = next]

\* A post by the coordinator finds the queue empty: a queued event would be covered,
\* so its release would be ready.
LEMMA ReleaseEffects ==
  ASSUME SessionInv, NoReleaseReady, session # NoSession,
         NEW next \in {"top", "topOrExit"}, ReleaseSession(next)
  PROVE  /\ CoordStays /\ UNCHANGED <<covered, coveredRaw, submitted, session, asleep, aborted>>
         /\ coord.pc = "top" /\ session.last = covered
         /\ ReleasePosts \/ ReleaseDirect(next)
<1>1. Types /\ Marks /\ FifoOf(transport) /\ transport \in Transports /\ Carried
  BY DEF SessionInv, Fifo, Types
<1>2. CoordStays /\ UNCHANGED <<covered, coveredRaw, submitted, session, asleep, aborted>>
  BY DEF ReleaseSession, CoordStays, inputVars, gpuVars
<1>3. coord.pc = "top" /\ session.last = covered
  BY <1>1 DEF NoReleaseReady, Carried, Encoding
<1>4. session.last \in 0 .. MaxSources /\ session.raw \in 0 .. MaxChunk
  BY <1>1 DEF Types
<1>5. CASE Accepts(session.raw, session.last)
  <2>1. /\ transport' = Queued(NewEvent("SubmitSession", session.raw, session.last))
        /\ coord' = [AtTop EXCEPT !.pc = "top"]
    BY <1>5 DEF ReleaseSession, Goto
  <2>2. Posts("SubmitSession", session.raw, session.last)
    BY <1>1, <1>4, <1>5, <2>1, PostMoves, "SubmitSession" \in Actions DEF Actions
  <2>3. transport.ordered = <<>>
    <3>. SUFFICES ASSUME transport.ordered # <<>>
                  PROVE  FALSE
      OBVIOUS
    <3>. DEFINE e == transport.ordered[1]
    <3>1. transport.terminal = NoEvent
      BY <2>2 DEF Posts
    <3>2. transport.ordered \in Seq(Events) /\ 1 \in 1 .. Len(transport.ordered)
      BY <1>1 DEF Transports
    <3>3. /\ e \in Events /\ e.seq <= transport.lastSeq /\ transport.acked < e.ordinal
      BY <1>1, <3>2 DEF FifoOf
    <3>4. e # NoEvent
      BY <1>1, <3>3 DEF NoEvent, Transports
    <3>5. PeekNext = e
      BY <1>1, PeekIs DEF NextOf
    <3>. HIDE DEF e
    <3>6. transport.lastSeq <= session.last
      BY <1>5 DEF Accepts, FenceNotBefore
    <3>7. covered >= e.seq
      BY <1>1, <1>3, <1>4, <3>3, <3>6, Bounds DEF Events, Transports, Marks
    <3>8. ~ IsTerminal(e)
      BY <3>1, <3>4 DEF IsTerminal
    <3>9. ActionReady(e)
      BY <3>4, <3>7, <3>8 DEF ActionReady
    <3>. QED
      BY <3>5, <3>9 DEF NoReleaseReady
  <2>. QED
    BY <1>2, <1>3, <2>1, <2>2, <2>3 DEF ReleasePosts
<1>6. CASE ~ Accepts(session.raw, session.last)
  BY <1>2, <1>3, <1>6 DEF ReleaseSession, ReleaseDirect, SubmitThen
<1>. QED
  BY <1>5, <1>6

\* The producer's wait and a blocked head both release the carried session.
LEMMA ReleasingEffects ==
  ASSUME SessionInv, ReleaseForProducerWait \/ SelectBlocked
  PROVE  /\ CoordStays /\ UNCHANGED <<covered, coveredRaw, submitted, session, asleep, aborted>>
         /\ coord.pc = "top" /\ session.last = covered /\ session # NoSession
         /\ ReleasePosts \/ ReleaseDirect("top") \/ ReleaseDirect("topOrExit")
         /\ witness' = NoWitness \/ witness' = witness
<1>1. CASE ReleaseForProducerWait
  <2>1. NoReleaseReady /\ session # NoSession /\ ReleaseSession("topOrExit")
        /\ (witness' = NoWitness \/ witness' = witness)
    BY <1>1 DEF ReleaseForProducerWait, Open
  <2>. QED
    BY <2>1, ReleaseEffects
<1>2. CASE SelectBlocked
  <2>1. NoReleaseReady /\ session # NoSession /\ ReleaseSession("top") /\ witness' = NoWitness
    BY <1>2 DEF SelectBlocked, Selecting, Open
  <2>. QED
    BY <2>1, ReleaseEffects
<1>. QED
  BY <1>1, <1>2

\* The largest raw ordinal of some sources, or of what was covered before.
LEMMA RawIn ==
  ASSUME Marks, NEW a \in 0 .. MaxChunk, NEW S \in SUBSET (1 .. Len(sources))
  PROVE  /\ Max({a} \cup {sources[s] : s \in S}) \in 0 .. MaxChunk
         /\ a <= chunk => Max({a} \cup {sources[s] : s \in S}) <= chunk
<1>. DEFINE T == {a} \cup {sources[s] : s \in S}
<1>1. \A s \in S : sources[s] \in 0 .. MaxChunk /\ sources[s] <= chunk
  <2>. TAKE s \in S
  <2>1. s \in 1 .. Len(sources)
    OBVIOUS
  <2>2. sources \in Seq(0 .. MaxChunk) /\ \A i \in 1 .. Len(sources) : sources[i] <= chunk
    BY DEF Marks
  <2>3. sources[s] \in 0 .. MaxChunk
    <3>. DEFINE R == 0 .. MaxChunk
    <3>1. sources \in Seq(R)
      BY <2>2
    <3>. HIDE DEF R
    <3>2. sources[s] \in R
      BY <2>1, <3>1
    <3>. QED
      BY <3>2 DEF R
  <2>4. sources[s] <= chunk
    BY <2>1, <2>2
  <2>. QED
    BY <2>3, <2>4
<1>2. T \in SUBSET (0 .. MaxChunk) /\ T # {}
  BY <1>1
<1>3. Max(T) \in T
  BY <1>2, MaxIn, Bounds
<1>. QED
  BY <1>1, <1>2, <1>3

\* What the selection of a prefix does.
Selects(last, next) ==
  /\ CoordStays /\ UNCHANGED <<submitted, session, transport, asleep, aborted>>
  /\ coord.pc = "top" /\ last \in covered + 1 .. Len(sources)
  /\ covered' = last /\ coveredRaw' \in 0 .. MaxChunk
  /\ coord' = [AtTop EXCEPT !.pc = next] /\ witness' = NoWitness
  /\ next \in {"encode", "encodeAlone"} /\ (next = "encodeAlone" => session = NoSession)

\* Selected sources are represented.
LEMMA RepresentMoves ==
  ASSUME Marks, NEW last \in covered + 1 .. Len(sources), NEW next, Represent(last, next)
  PROVE  /\ covered' = last /\ coveredRaw' \in 0 .. MaxChunk
         /\ coord' = [AtTop EXCEPT !.pc = next] /\ witness' = NoWitness
<1>1. covered + 1 .. last \in SUBSET (1 .. Len(sources)) /\ coveredRaw \in 0 .. MaxChunk
  BY DEF Marks
<1>2. Max({coveredRaw} \cup {sources[s] : s \in covered + 1 .. last}) \in 0 .. MaxChunk
  BY <1>1, RawIn
<1>. QED
  BY <1>2 DEF Represent

\* Both ways to select move the covered prefix on.
LEMMA SelectEffects ==
  ASSUME SessionInv,
         (\E last \in covered + 1 .. Published : SelectJoined(last)) \/ SelectAlone
  PROVE  \E last, next : Selects(last, next)
<1>1. Marks
  BY DEF SessionInv
<1>2. CASE \E last \in covered + 1 .. Published : SelectJoined(last)
  <2>1. PICK last \in covered + 1 .. Published : SelectJoined(last)
    BY <1>2
  <2>2. last \in covered + 1 .. Len(sources) /\ coord.pc = "top" /\ Represent(last, "encode")
        /\ CoordStays /\ UNCHANGED <<submitted, session, transport, asleep, aborted>>
    BY <2>1 DEF SelectJoined, Published, Selecting, NoReleaseReady, CoordStays, inputVars, gpuVars
  <2>. QED
    BY <1>1, <2>2, RepresentMoves DEF Selects
<1>3. CASE SelectAlone
  <2>1. /\ coord.pc = "top" /\ Represent(covered + 1, "encodeAlone") /\ covered # Len(sources)
        /\ CoordStays /\ UNCHANGED <<submitted, session, transport, asleep, aborted>>
        /\ session = NoSession
    BY <1>3 DEF SelectAlone, Published, Selecting, NoReleaseReady, ReadyEmpty, CoordStays,
                inputVars, gpuVars, Open
  <2>2. covered + 1 \in covered + 1 .. Len(sources)
    BY <1>1, <2>1 DEF Marks
  <2>. QED
    BY <1>1, <2>1, <2>2, RepresentMoves DEF Selects
<1>. QED
  BY <1>2, <1>3

\* What an encoded prefix leaves: a carried session, or a submitted one.
Encodes ==
  /\ CoordStays /\ UNCHANGED <<covered, coveredRaw, transport, witness, asleep, aborted>>
  /\ Encoding /\ coord' = [AtTop EXCEPT !.pc = "top"]
  /\ \/ submitted' = covered /\ session' = NoSession
     \/ /\ coord.pc = "encode" /\ UNCHANGED submitted
        /\ session' \in [last : {covered}, raw : 0 .. MaxChunk, pass : BOOLEAN]
        /\ session'.raw <= chunk

\* Both ways to encode leave a session or a submission.
LEMMA EncodeEffects ==
  ASSUME SessionInv, (\E tail, pass \in BOOLEAN : EncodeJoined(tail, pass)) \/ EncodeAlone
  PROVE  Encodes
<1>1. Marks /\ Types /\ Carried
  BY DEF SessionInv
<1>2. CASE \E tail, pass \in BOOLEAN : EncodeJoined(tail, pass)
  <2>1. PICK tail \in BOOLEAN, pass \in BOOLEAN : EncodeJoined(tail, pass)
    BY <1>2
  <2>2. /\ CoordStays /\ coord' = [AtTop EXCEPT !.pc = "top"] /\ coord.pc = "encode" /\ Encoding
        /\ UNCHANGED <<covered, coveredRaw, transport, witness, asleep, aborted>>
    BY <2>1 DEF EncodeJoined, CoordStays, inputVars, Goto, Encoding
  <2>3. CASE tail
    BY <2>1, <2>2, <2>3 DEF EncodeJoined, Encodes
  <2>4. CASE ~ tail
    <3>. DEFINE from == Larger(session.last, submitted)
                S == from + 1 .. covered
                raw == Max({session.raw} \cup {sources[s] : s \in S})
    <3>1. session' = [last |-> covered, pass |-> pass, raw |-> raw] /\ UNCHANGED submitted
      BY <2>1, <2>4 DEF EncodeJoined
    <3>2. from \in Nat
      <4>1. session.last \in Nat /\ submitted \in Nat
        BY <1>1, Bounds DEF Types, Marks
      <4>. QED
        BY <4>1 DEF Larger
    <3>3. S \in SUBSET (1 .. Len(sources))
      <4>. HIDE DEF from
      <4>. QED
        BY <1>1, <3>2 DEF Marks
    <3>4. session.raw \in 0 .. MaxChunk /\ session.raw <= chunk
      BY <1>1 DEF Types, Marks
    <3>. HIDE DEF S
    <3>5. raw \in 0 .. MaxChunk /\ raw <= chunk
      BY <1>1, <3>3, <3>4, RawIn
    <3>. HIDE DEF raw
    <3>6. /\ session' \in [last : {covered}, raw : 0 .. MaxChunk, pass : BOOLEAN]
          /\ session'.raw <= chunk
      BY <3>1, <3>5
    <3>. QED
      BY <2>2, <3>1, <3>6 DEF Encodes
  <2>. QED
    BY <2>3, <2>4
<1>3. CASE EncodeAlone
  <2>1. /\ CoordStays /\ coord' = [AtTop EXCEPT !.pc = "top"] /\ Encoding
        /\ coord.pc = "encodeAlone" /\ submitted' = covered
        /\ UNCHANGED <<covered, coveredRaw, transport, witness, asleep, aborted, session>>
    BY <1>3 DEF EncodeAlone, CoordStays, inputVars, Goto, Encoding
  <2>2. session = NoSession
    BY <1>1, <2>1 DEF Carried
  <2>. QED
    BY <2>1, <2>2 DEF Encodes
<1>. QED
  BY <1>2, <1>3

\* What every step of the threads other than the coordinator leaves alone.
OthersStay == UNCHANGED <<covered, submitted, session, coord, aborted>>

\* The replay thread waits, or returns.
ClientWaits ==
  /\ OthersStay
  /\ UNCHANGED <<sources, writing, chunk, coveredRaw, completed, reclaimed, transport,
                 witness, waiter, stop>>
  /\ target' \in 0 .. MaxSources /\ asleep' \subseteq {"coord", "client"}
  /\ \/ client' = client
     \/ /\ client.pc = "ackWait" /\ client.ordinal <= transport.acked
        /\ client' = [client EXCEPT !.pc = "gpuWait"]
     \/ /\ client.pc \in {"ackWait", "gpuWait"} /\ stop
        /\ client' = Returned(client.action, client.seq, FALSE)
     \/ /\ \/ client.pc = "ackWait" /\ client.ordinal <= transport.acked
           \/ client.pc = "gpuWait"
        /\ client.action = "SubmitAndWait" => client.seq <= completed
        /\ client' = Returned(client.action, client.seq, TRUE)
     \/ client.pc = "returned" /\ client' = Resting
     \/ /\ client.pc \in {"terminalWait", "terminalGpuWait"}
        /\ \E next \in {"terminalGpuWait", "drainWait"} : client' = [client EXCEPT !.pc = next]
     \/ /\ client.pc = "drainWait" /\ stop
        /\ client' = Returned("Teardown", client.seq, FALSE)
     \/ /\ client.pc = "drainWait" /\ reclaimed = Len(sources)
        /\ client' = Returned("Teardown", client.seq, TRUE)

\* The targets a wait registers, and the sleepers.
LEMMA WaitTargets ==
  ASSUME Types
  PROVE  /\ Larger(target, client.seq) \in 0 .. MaxSources /\ 0 \in 0 .. MaxSources
         /\ asleep \cup {"client"} \subseteq {"coord", "client"}
         /\ asleep \ {"coord"} \subseteq {"coord", "client"}
BY Bounds DEF Types, Larger

\* The later holds of the replay thread, case by case.
LEMMA WaitEffects ==
  ASSUME SessionInv,
         ControlAcked \/ ControlCompleted \/ Return
         \/ TerminalAcked \/ TerminalCompleted \/ TeardownDrained
  PROVE  ClientWaits
<1>1. Types /\ stop \in BOOLEAN
  BY DEF SessionInv, Types
<1>2. /\ client.seq \in Nat /\ completed \in Nat /\ client.ordinal \in Nat
      /\ transport.acked \in Nat
  BY Bounds DEF SessionInv, Marks, Types, Transports
<1>3. target \in 0 .. MaxSources /\ asleep \subseteq {"coord", "client"}
  BY <1>1 DEF Types
<1>. DEFINE Stay == /\ OthersStay
                    /\ UNCHANGED <<sources, writing, chunk, coveredRaw, completed, reclaimed,
                                   transport, witness, waiter, stop>>
<1>4. CASE ControlAcked
  <2>1. Stay /\ client.pc = "ackWait"
    BY <1>4 DEF ControlAcked, OthersStay, inputVars, gpuVars
  <2>2. CASE ~ stop /\ ~ AckedThrough(client.ordinal)
    <3>1. asleep' = asleep \cup {"client"} /\ UNCHANGED <<client, target>>
      BY <1>4, <2>2 DEF ControlAcked
    <3>. QED
      BY <1>3, <2>1, <3>1 DEF ClientWaits
  <2>3. CASE stop
    <3>1. client' = Returned(client.action, client.seq, FALSE) /\ UNCHANGED <<target, asleep>>
      BY <1>4, <2>3 DEF ControlAcked
    <3>. QED
      BY <1>3, <2>1, <2>3, <3>1 DEF ClientWaits
  <2>4. CASE /\ ~ stop /\ AckedThrough(client.ordinal)
             /\ client.action = "SubmitAndWait" /\ client.seq > completed
    <3>1. EnterSequenceWait("gpuWait")
      BY <1>4, <2>4 DEF ControlAcked
    <3>2. /\ client' = [client EXCEPT !.pc = "gpuWait"] /\ target' \in 0 .. MaxSources
          /\ asleep' \subseteq {"coord", "client"}
      BY <1>1, <3>1, WaitTargets DEF EnterSequenceWait
    <3>3. client.ordinal <= transport.acked
      BY <1>2, <2>4 DEF AckedThrough
    <3>. QED
      BY <2>1, <3>2, <3>3 DEF ClientWaits
  <2>5. CASE /\ ~ stop /\ AckedThrough(client.ordinal)
             /\ ~ (client.action = "SubmitAndWait" /\ client.seq > completed)
    <3>1. client' = Returned(client.action, client.seq, TRUE) /\ UNCHANGED <<target, asleep>>
      BY <1>4, <2>5 DEF ControlAcked
    <3>2. /\ client.ordinal <= transport.acked
          /\ client.action = "SubmitAndWait" => client.seq <= completed
      BY <1>2, <2>5 DEF AckedThrough
    <3>. QED
      BY <1>3, <2>1, <3>1, <3>2 DEF ClientWaits
  <2>. QED
    BY <2>2, <2>3, <2>4, <2>5
<1>5. CASE ControlCompleted
  <2>1. /\ Stay /\ client.pc = "gpuWait" /\ target' \in {target, 0}
        /\ asleep' = asleep \ {"coord"} /\ client' = Returned(client.action, client.seq, ~ stop)
        /\ stop \/ completed >= client.seq
    BY <1>5 DEF ControlCompleted, LeaveSequenceWait, OthersStay, inputVars, gpuVars
  <2>2. target' \in 0 .. MaxSources /\ asleep' \subseteq {"coord", "client"}
    BY <1>1, <2>1, WaitTargets DEF Types
  <2>3. CASE stop
    BY <2>1, <2>2, <2>3 DEF ClientWaits
  <2>4. CASE ~ stop
    <3>1. client.seq <= completed /\ client' = Returned(client.action, client.seq, TRUE)
      BY <1>2, <2>1, <2>4
    <3>. QED
      BY <2>1, <2>2, <3>1 DEF ClientWaits
  <2>. QED
    BY <2>3, <2>4
<1>6. CASE Return
  BY <1>3, <1>6 DEF Return, ClientWaits, OthersStay, inputVars, gpuVars
<1>7. CASE TerminalAcked
  <2>1. Stay /\ client.pc = "terminalWait"
    BY <1>7 DEF TerminalAcked, OthersStay, inputVars, gpuVars
  <2>2. \/ asleep' = asleep \cup {"client"} /\ UNCHANGED <<client, target>>
        \/ EnterSequenceWait("terminalGpuWait")
        \/ client' = [client EXCEPT !.pc = "drainWait"] /\ UNCHANGED <<target, asleep>>
    BY <1>7 DEF TerminalAcked
  <2>3. CASE asleep' = asleep \cup {"client"} /\ UNCHANGED <<client, target>>
    BY <1>3, <2>1, <2>3 DEF ClientWaits
  <2>4. CASE EnterSequenceWait("terminalGpuWait")
    <3>2. /\ client' = [client EXCEPT !.pc = "terminalGpuWait"] /\ target' \in 0 .. MaxSources
          /\ asleep' \subseteq {"coord", "client"}
      BY <1>1, <2>4, WaitTargets DEF EnterSequenceWait
    <3>. QED
      BY <2>1, <3>2 DEF ClientWaits
  <2>5. CASE client' = [client EXCEPT !.pc = "drainWait"] /\ UNCHANGED <<target, asleep>>
    BY <1>3, <2>1, <2>5 DEF ClientWaits
  <2>. QED
    BY <2>2, <2>3, <2>4, <2>5
<1>8. CASE TerminalCompleted
  <2>1. /\ Stay /\ client.pc = "terminalGpuWait" /\ target' \in {target, 0}
        /\ asleep' = asleep \ {"coord"} /\ client' = [client EXCEPT !.pc = "drainWait"]
    BY <1>8 DEF TerminalCompleted, LeaveSequenceWait, OthersStay, inputVars, gpuVars
  <2>2. target' \in 0 .. MaxSources /\ asleep' \subseteq {"coord", "client"}
    BY <1>1, <2>1, WaitTargets DEF Types
  <2>. QED
    BY <2>1, <2>2 DEF ClientWaits
<1>9. CASE TeardownDrained
  <2>1. /\ Stay /\ client.pc = "drainWait" /\ UNCHANGED <<target, asleep>>
        /\ client' = Returned("Teardown", client.seq, ~ stop)
        /\ stop \/ reclaimed = Len(sources)
    BY <1>9 DEF TeardownDrained, OthersStay, inputVars, gpuVars, Published
  <2>3. CASE stop
    BY <1>3, <2>1, <2>3 DEF ClientWaits
  <2>4. CASE ~ stop
    <3>1. client' = Returned("Teardown", client.seq, TRUE) /\ reclaimed = Len(sources)
      BY <2>1, <2>4
    <3>. QED
      BY <1>3, <2>1, <3>1 DEF ClientWaits
  <2>. QED
    BY <2>3, <2>4
<1>. QED
  BY <1>4, <1>5, <1>6, <1>7, <1>8, <1>9

\* The coordinator rests, wakes up, or leaves without an event.
CoordRests ==
  /\ CoordStays /\ UNCHANGED <<covered, coveredRaw, submitted, session, transport, aborted>>
  /\ witness' = witness \/ witness' = NoWitness
  /\ coord.pc \in {"top", "park", "idle", "lease"} /\ asleep' \subseteq {"coord", "client"}
  /\ \/ coord' = coord
     \/ \E p \in {"top", "park", "idle", "lease", "exited"} : coord' = [AtTop EXCEPT !.pc = p]
     \/ coord' = [AtTop EXCEPT !.serial = TRUE]
     \/ session # NoSession /\ coord' = [AtTop EXCEPT !.pc = "finalize", !.then = "exited"]

\* The steps that leave sources and events alone.
LEMMA RestEffects ==
  ASSUME SessionInv,
         Rest \/ WakeUp \/ SelectDenied \/ SelectNothing
         \/ \E eligible \in BOOLEAN : LeaseWait(eligible)
  PROVE  CoordRests
<1>1. asleep \subseteq {"coord", "client"}
  BY DEF SessionInv, Types
<1>2. asleep \cup {"coord"} \subseteq {"coord", "client"}
  BY <1>1
<1>3. CASE Rest
  <2>1. /\ CoordStays /\ UNCHANGED <<covered, coveredRaw, submitted, session, transport, aborted>>
        /\ witness' = witness /\ coord.pc = "top"
    BY <1>3 DEF Rest, CoordStays, inputVars, gpuVars, NoReleaseReady
  <2>2. \/ session # NoSession /\ SubmitThen("exited") /\ UNCHANGED asleep
        \/ SleepAs("park", ParkDone)
        \/ Goto("exited") /\ UNCHANGED asleep
        \/ SleepAs("idle", IdleDone)
    BY <1>3 DEF Rest, Open
  <2>3. asleep' \subseteq {"coord", "client"}
    BY <1>1, <1>2, <2>2 DEF SleepAs
  <2>4. \/ \E p \in {"park", "idle", "exited"} : coord' = [AtTop EXCEPT !.pc = p]
        \/ session # NoSession /\ coord' = [AtTop EXCEPT !.pc = "finalize", !.then = "exited"]
    BY <2>2 DEF SleepAs, SubmitThen, Goto
  <2>. QED
    BY <2>1, <2>3, <2>4 DEF CoordRests
<1>4. CASE WakeUp
  <2>1. /\ CoordStays /\ UNCHANGED <<covered, coveredRaw, submitted, session, transport, aborted>>
        /\ witness' = witness /\ coord.pc \in {"park", "idle"}
    BY <1>4 DEF WakeUp, CoordStays, inputVars, gpuVars
  <2>2. \/ asleep' = asleep \cup {"coord"} /\ UNCHANGED coord
        \/ UNCHANGED asleep /\ \E p \in {"top", "exited"} : coord' = [AtTop EXCEPT !.pc = p]
    BY <1>4 DEF WakeUp, Goto
  <2>. QED
    BY <1>1, <1>2, <2>1, <2>2 DEF CoordRests
<1>5. CASE SelectDenied
  <2>1. /\ CoordStays /\ UNCHANGED <<covered, coveredRaw, submitted, session, transport, aborted>>
        /\ witness' = NoWitness /\ coord.pc = "top" /\ UNCHANGED asleep
        /\ \E p \in {"lease", "exited"} : coord' = [AtTop EXCEPT !.pc = p]
    BY <1>5 DEF SelectDenied, Selecting, NoReleaseReady, CoordStays, inputVars, gpuVars, Goto
  <2>. QED
    BY <1>1, <2>1 DEF CoordRests
<1>6. CASE SelectNothing
  <2>1. /\ CoordStays /\ UNCHANGED <<covered, coveredRaw, submitted, session, transport, aborted>>
        /\ witness' = NoWitness /\ coord.pc = "top" /\ UNCHANGED asleep
        /\ \/ session # NoSession /\ SubmitThen("exited")
           \/ Goto("exited")
    BY <1>6 DEF SelectNothing, Selecting, NoReleaseReady, CoordStays, inputVars, gpuVars, Open
  <2>2. \/ session # NoSession /\ coord' = [AtTop EXCEPT !.pc = "finalize", !.then = "exited"]
        \/ coord' = [AtTop EXCEPT !.pc = "exited"]
    BY <2>1 DEF SubmitThen, Goto
  <2>. QED
    BY <1>1, <2>1, <2>2 DEF CoordRests
<1>7. CASE \E eligible \in BOOLEAN : LeaseWait(eligible)
  <2>1. /\ CoordStays /\ UNCHANGED <<covered, coveredRaw, submitted, session, transport, aborted>>
        /\ witness' = witness /\ coord.pc = "lease"
    BY <1>7 DEF LeaseWait, CoordStays, inputVars
  <2>2. \/ UNCHANGED asleep /\ \E p \in {"top", "exited"} : coord' = [AtTop EXCEPT !.pc = p]
        \/ UNCHANGED asleep /\ coord' = [AtTop EXCEPT !.serial = TRUE]
        \/ asleep' = asleep \cup {"coord"} /\ UNCHANGED coord
    BY <1>7 DEF LeaseWait, Goto
  <2>. QED
    BY <1>1, <1>2, <2>1, <2>2 DEF CoordRests
<1>. QED
  BY <1>3, <1>4, <1>5, <1>6, <1>7

\* The submission of the carried session.
Submits ==
  /\ CoordStays /\ UNCHANGED <<covered, coveredRaw, transport, asleep, aborted>>
  /\ coord.pc = "finalize" /\ submitted' = session.last /\ session' = NoSession
  /\ witness' = NoWitness
  /\ \E p \in {"top", "exited", "ack"} : coord' = [coord EXCEPT !.pc = p]
  /\ (coord'.pc = "ack") = (coord.then = "ack")

\* The submission, as the invariant sees it.
LEMMA SubmitEffects ==
  ASSUME SessionInv, Submit
  PROVE  Submits
<1>1. coord \in [pc : CoordPcs, rel : Events, then : {"top", "topOrExit", "exited", "ack"},
                 serial : BOOLEAN]
  BY DEF SessionInv, Types
<1>. DEFINE p == IF coord.then # "topOrExit" THEN coord.then ELSE IF stop THEN "exited" ELSE "top"
<1>2. coord' = [coord EXCEPT !.pc = p] /\ coord.then \in {"top", "topOrExit", "exited", "ack"}
  BY <1>1 DEF Submit
<1>3. p \in {"top", "exited", "ack"} /\ (p = "ack") = (coord.then = "ack")
  BY <1>2
<1>. HIDE DEF p
<1>4. coord'.pc = p
  BY <1>1, <1>2
<1>5. /\ CoordStays /\ UNCHANGED <<covered, coveredRaw, transport, asleep, aborted>>
      /\ coord.pc = "finalize" /\ submitted' = session.last /\ session' = NoSession
      /\ witness' = NoWitness
  BY DEF Submit, CoordStays, inputVars
<1>. QED
  BY <1>2, <1>3, <1>4, <1>5 DEF Submits

\* A release begins, or the session was closed or submitted and the event is
\* acknowledged.
Begins ==
  /\ CoordStays /\ UNCHANGED <<covered, submitted, session, coveredRaw, transport, asleep, aborted>>
  /\ coord.pc = "top" /\ witness' = NoWitness /\ session # NoSession
  /\ NextOf(transport) # NoEvent /\ NextOf(transport) \in Events
  /\ NextOf(transport).seq <= covered
  /\ coord' = [AtTop EXCEPT !.pc = IF NextOf(transport).action = "ClosePass" THEN "close"
                                                                            ELSE "finalize",
                            !.rel = NextOf(transport), !.then = "ack"]
Acknowledges(e, closed) ==
  /\ CoordStays /\ UNCHANGED <<covered, submitted>> /\ AckEffects(e, closed)
  /\ e = NextOf(transport) /\ e # NoEvent /\ e \in Events /\ e.seq <= covered
  /\ \/ coord.pc = "top" /\ session = NoSession /\ UNCHANGED session /\ ~ closed
     \/ /\ coord.pc = "close" /\ closed /\ coord.rel = e
        /\ session' = [session EXCEPT !.pass = FALSE]
     \/ coord.pc = "ack" /\ ~ closed /\ UNCHANGED session /\ coord.rel = e

\* Both ends of a release.
LEMMA ServingEffects ==
  ASSUME SessionInv, BeginRelease \/ AckRelease
  PROVE  Begins \/ \E e, closed : Acknowledges(e, closed)
<1>1. CASE BeginRelease
  BY <1>1, BeginEffects DEF Begins, Acknowledges
<1>2. CASE AckRelease
  <2>1. session \in [last : 0 .. MaxSources, raw : 0 .. MaxChunk, pass : BOOLEAN]
    BY DEF SessionInv, Types
  <2>2. /\ CoordStays /\ UNCHANGED <<covered, submitted>> /\ coord.pc \in {"close", "ack"}
        /\ coord.rel = NextOf(transport) /\ coord.rel # NoEvent /\ coord.rel \in Events
        /\ coord.rel.seq <= covered
        /\ session' = [session EXCEPT !.pass = @ /\ coord.pc # "close"]
        /\ AckEffects(coord.rel, coord.pc = "close")
    BY <1>2, AckReleaseEffects
  <2>3. CASE coord.pc = "close"
    <3>1. session' = [session EXCEPT !.pass = FALSE]
      BY <2>2, <2>3
    <3>2. AckEffects(coord.rel, TRUE)
      BY <2>2, <2>3
    <3>3. Acknowledges(coord.rel, TRUE)
      BY <2>2, <2>3, <3>1, <3>2 DEF Acknowledges
    <3>. QED
      BY <3>3
  <2>4. CASE coord.pc = "ack"
    <3>1. session' = session
      <4>1. session.pass \in BOOLEAN /\ (session.pass /\ coord.pc # "close") = session.pass
        BY <2>1, <2>4
      <4>2. session' = [session EXCEPT !.pass = session.pass]
        BY <2>2, <4>1
      <4>. QED
        BY <2>1, <4>2
    <3>2. AckEffects(coord.rel, FALSE)
      BY <2>2, <2>4
    <3>3. Acknowledges(coord.rel, FALSE)
      BY <2>2, <2>4, <3>1, <3>2 DEF Acknowledges
    <3>. QED
      BY <3>3
  <2>. QED
    BY <2>2, <2>3, <2>4
<1>. QED
  BY <1>1, <1>2

\* A replayed chunk publishes a source, or records into the writer.
Publishes ==
  /\ OthersStay
  /\ UNCHANGED <<coveredRaw, completed, reclaimed, transport, witness, client, waiter,
                 target, stop>>
  /\ client = Resting /\ asleep' \subseteq asleep /\ Len(sources) < MaxSources
  /\ \/ /\ UNCHANGED writing /\ ~ writing
        /\ \E c \in chunk .. MaxChunk : \E raw \in {0, c} :
             chunk' = c /\ sources' = Append(sources, raw)
     \/ UNCHANGED <<sources, chunk>> /\ writing' = TRUE

\* The two ways to record.
LEMMA PublishEffects ==
  ASSUME SessionInv,
         (\E c \in chunk .. MaxChunk : \E raw \in {0, c} : Publish(c, raw)) \/ Draw
  PROVE  Publishes
<1>1. Marks /\ Len(sources) \in Nat
  BY DEF SessionInv, Marks
<1>2. ASSUME ~ writing, CanRecord
      PROVE  Len(sources) < MaxSources
  BY <1>1, <1>2, Bounds DEF CanRecord, Published
<1>3. CASE \E c \in chunk .. MaxChunk : \E raw \in {0, c} : Publish(c, raw)
  <2>0. PICK c \in chunk .. MaxChunk : \E raw \in {0, c} : Publish(c, raw)
    BY <1>3
  <2>1. PICK raw \in {0, c} : Publish(c, raw)
    BY <2>0
  <2>2. ~ writing /\ CanRecord
    BY <2>1 DEF Publish
  <2>. QED
    BY <1>2, <2>1, <2>2 DEF Publish, Publishes, OthersStay
<1>4. CASE Draw
  <2>1. ~ writing /\ CanRecord
    BY <1>4 DEF Draw
  <2>. QED
    BY <1>2, <1>4, <2>1 DEF Draw, Publishes, OthersStay, gpuVars
<1>. QED
  BY <1>3, <1>4

\* The second thread, the GPU and the finish thread, the stop.
Background ==
  /\ OthersStay /\ UNCHANGED <<sources, writing, chunk, coveredRaw, transport, client>>
  /\ waiter' \in 0 .. MaxSources /\ target' \in 0 .. MaxSources
  /\ asleep' \subseteq {"coord", "client"}
  /\ stop' = stop \/ stop' = TRUE
  /\ witness' = witness \/ witness' = NoWitness
  /\ completed' \in Nat /\ reclaimed' \in Nat
  /\ completed <= completed' /\ reclaimed <= reclaimed'
  /\ reclaimed' <= completed' /\ completed' <= submitted

\* The steps of the threads in the background only move the watermarks on.
LEMMA BackgroundEffects ==
  ASSUME SessionInv,
         (\E seq \in 1 .. Published : WaitBegin(seq)) \/ WaitEnd \/ Complete \/ Reclaim \/ Stop
  PROVE  Background
<1>1. Types /\ Marks
  BY DEF SessionInv
<1>2. /\ waiter \in 0 .. MaxSources /\ target \in 0 .. MaxSources
      /\ asleep \subseteq {"coord", "client"}
  BY <1>1 DEF Types
<1>3. /\ completed \in Nat /\ reclaimed \in Nat /\ submitted \in Nat
      /\ reclaimed <= completed /\ completed <= submitted
  BY <1>1 DEF Marks
<1>4. CASE \E seq \in 1 .. Published : WaitBegin(seq)
  <2>1. PICK seq \in 1 .. Published : WaitBegin(seq)
    BY <1>4
  <2>2. /\ OthersStay /\ UNCHANGED <<sources, writing, chunk, coveredRaw, transport, client>>
        /\ UNCHANGED <<stop, witness, completed, reclaimed>>
        /\ waiter' = seq /\ target' = Larger(target, seq) /\ asleep' = asleep \ {"coord"}
    BY <2>1 DEF WaitBegin, OthersStay, gpuVars
  <2>3. seq \in 0 .. MaxSources /\ Larger(target, seq) \in {target, seq}
    BY <1>1, <1>2, Bounds DEF Marks, Published, Larger
  <2>4. waiter' \in 0 .. MaxSources /\ target' \in 0 .. MaxSources
        /\ asleep' \subseteq {"coord", "client"}
    BY <1>2, <2>2, <2>3
  <2>. QED
    BY <1>3, <2>2, <2>4 DEF Background
<1>5. CASE WaitEnd
  <2>1. /\ OthersStay /\ UNCHANGED <<sources, writing, chunk, coveredRaw, transport, client>>
        /\ UNCHANGED <<stop, witness, completed, reclaimed>>
        /\ waiter' = 0 /\ target' \in {target, 0} /\ asleep' = asleep \ {"coord"}
    BY <1>5 DEF WaitEnd, OthersStay, gpuVars, inputVars, LeaveSequenceWait
  <2>2. 0 \in 0 .. MaxSources
    BY Bounds
  <2>3. waiter' \in 0 .. MaxSources /\ target' \in 0 .. MaxSources
        /\ asleep' \subseteq {"coord", "client"}
    BY <1>2, <2>1, <2>2
  <2>. QED
    BY <1>3, <2>1, <2>3 DEF Background
<1>6. CASE Complete
  <2>1. completed' \in Nat /\ completed <= completed' /\ completed' <= submitted
        /\ reclaimed <= completed'
    BY <1>3, <1>6 DEF Complete
  <2>. QED
    BY <1>2, <1>3, <1>6, <2>1 DEF Complete, Background, OthersStay, inputVars
<1>7. CASE Reclaim
  <2>1. reclaimed' \in Nat /\ reclaimed <= reclaimed' /\ reclaimed' <= completed
    BY <1>3, <1>7 DEF Reclaim
  <2>2. asleep' \subseteq {"coord", "client"}
    BY <1>2, <1>7 DEF Reclaim
  <2>. QED
    BY <1>2, <1>3, <1>7, <2>1, <2>2 DEF Reclaim, Background, OthersStay, inputVars
<1>8. CASE Stop
  BY <1>2, <1>3, <1>8 DEF Stop, Background, OthersStay, inputVars, gpuVars
<1>. QED
  BY <1>4, <1>5, <1>6, <1>7, <1>8

\* The coordinator gives its session up.
Releases ==
  /\ CoordStays /\ UNCHANGED <<covered, coveredRaw, submitted, session, asleep, aborted>>
  /\ coord.pc = "top" /\ session.last = covered /\ session # NoSession
  /\ ReleasePosts \/ ReleaseDirect("top") \/ ReleaseDirect("topOrExit")
  /\ witness' = NoWitness \/ witness' = witness

\* The kinds of steps.
ClientKind ==
  \/ Publishes \/ TeardownMoves \/ ClientWaits \/ Background
  \/ \E c \in 1 .. MaxChunk, action \in Actions : chunk <= c /\ ControlMoves(c, action)
CoordKind ==
  \/ Begins \/ (\E e, closed : Acknowledges(e, closed)) \/ Submits \/ Releases \/ CoordRests
  \/ (\E last, next : Selects(last, next)) \/ Encodes

\* Every step is of one of the kinds.
LEMMA NextKinds ==
  ASSUME SessionInv, Next
  PROVE  ClientKind \/ CoordKind
<1>1. CASE ClientNext
  <2>1. CASE \E c \in chunk .. MaxChunk, action \in Actions, retain, clean \in BOOLEAN :
               Control(c, action, retain, clean)
    BY <2>1, ControlEffects DEF ClientKind
  <2>2. CASE (\E c \in chunk .. MaxChunk : \E raw \in {0, c} : Publish(c, raw)) \/ Draw
    BY <2>2, PublishEffects DEF ClientKind
  <2>3. CASE Teardown
    BY <2>3, TeardownEffects DEF ClientKind
  <2>4. CASE ControlAcked \/ ControlCompleted \/ Return
             \/ TerminalAcked \/ TerminalCompleted \/ TeardownDrained
    BY <2>4, WaitEffects DEF ClientKind
  <2>. QED
    BY <1>1, <2>1, <2>2, <2>3, <2>4 DEF ClientNext
<1>2. CASE (\E seq \in 1 .. Published : WaitBegin(seq)) \/ WaitEnd \/ Complete \/ Reclaim \/ Stop
  BY <1>2, BackgroundEffects DEF ClientKind
<1>3. CASE CoordNext
  <2>1. CASE BeginRelease \/ AckRelease
    BY <2>1, ServingEffects DEF CoordKind
  <2>2. CASE Submit
    BY <2>2, SubmitEffects DEF CoordKind
  <2>3. CASE ReleaseForProducerWait \/ SelectBlocked
    BY <2>3, ReleasingEffects DEF CoordKind, Releases
  <2>4. CASE Rest \/ WakeUp \/ SelectDenied \/ SelectNothing
             \/ \E eligible \in BOOLEAN : LeaseWait(eligible)
    BY <2>4, RestEffects DEF CoordKind
  <2>5. CASE (\E last \in covered + 1 .. Published : SelectJoined(last)) \/ SelectAlone
    BY <2>5, SelectEffects DEF CoordKind
  <2>6. CASE (\E tail, pass \in BOOLEAN : EncodeJoined(tail, pass)) \/ EncodeAlone
    BY <2>6, EncodeEffects DEF CoordKind
  <2>. QED
    BY <1>3, <2>1, <2>2, <2>3, <2>4, <2>5, <2>6 DEF CoordNext
<1>. QED
  BY <1>1, <1>2, <1>3 DEF Next

-----------------------------------------------------------------------------
(* The parts of the invariant are preserved. *)

\* The records that the steps build have their types.
LEMMA RecordTypes ==
  /\ NoEvent \in Events
  /\ NoWitness \in [ordinal : Nat, raw : 0 .. MaxChunk, published : 0 .. MaxSources]
  /\ NoSession \in [last : 0 .. MaxSources, raw : 0 .. MaxChunk, pass : BOOLEAN]
  /\ AtTop = [pc |-> "top", rel |-> NoEvent, then |-> "top", serial |-> FALSE]
  /\ NoSession.last = 0 /\ NoSession.raw = 0 /\ NoSession.pass = FALSE
  /\ Resting \in [pc : ClientPcs, action : Actions \cup {"none", "Teardown"},
                  ordinal : Nat, seq : 0 .. MaxSources, ok : BOOLEAN]
BY Bounds, "ClosePass" \in Actions, "run" \in ClientPcs
   DEF NoEvent, Events, NoWitness, NoSession, AtTop, Resting, Actions, ClientPcs

\* Types of what the clients' steps leave.
LEMMA ClientTypes ==
  ASSUME SessionInv, ClientKind
  PROVE  Types'
<1>. DEFINE ClientType == [pc : ClientPcs, action : Actions \cup {"none", "Teardown"},
                           ordinal : Nat, seq : 0 .. MaxSources, ok : BOOLEAN]
            WitnessType == [ordinal : Nat, raw : 0 .. MaxChunk, published : 0 .. MaxSources]
<1>1. /\ transport \in Transports /\ client \in ClientType /\ witness \in WitnessType
      /\ session \in [last : 0 .. MaxSources, raw : 0 .. MaxChunk, pass : BOOLEAN]
      /\ coord \in [pc : CoordPcs, rel : Events, then : {"top", "topOrExit", "exited", "ack"},
                    serial : BOOLEAN]
      /\ waiter \in 0 .. MaxSources /\ target \in 0 .. MaxSources
      /\ stop \in BOOLEAN /\ aborted \in BOOLEAN /\ asleep \subseteq {"coord", "client"}
  BY DEF SessionInv, Types
<1>2. transport.next \in Nat /\ Len(sources) \in 0 .. MaxSources
  BY <1>1, Bounds DEF Transports, SessionInv, Marks
<1>3. {"run", "ackWait", "gpuWait", "terminalWait", "terminalGpuWait", "drainWait", "returned"}
        = ClientPcs
  BY DEF ClientPcs
<1>4. \A action \in Actions \cup {"none", "Teardown"}, seq \in 0 .. MaxSources, ok \in BOOLEAN :
        Returned(action, seq, ok) \in ClientType
  BY <1>3 DEF Returned
<1>5. client.action \in Actions \cup {"none", "Teardown"} /\ client.seq \in 0 .. MaxSources
  BY <1>1
<1>6. NoWitness \in WitnessType /\ Resting \in ClientType
  BY RecordTypes
<1>7. Marks
  BY DEF SessionInv
<1>. HIDE DEF ClientType, WitnessType
<1>8. ASSUME transport' \in Transports, client' \in ClientType, witness' \in WitnessType,
             UNCHANGED <<session, coord, aborted>>, waiter' \in 0 .. MaxSources,
             target' \in 0 .. MaxSources, stop' \in BOOLEAN,
             asleep' \subseteq {"coord", "client"}
      PROVE  Types'
  BY <1>1, <1>8 DEF Types, ClientType, WitnessType
<1>9. CASE Publishes
  BY <1>1, <1>8, <1>9 DEF Publishes, OthersStay
<1>10. CASE TeardownMoves
  <2>1. Len(sources') \in 0 .. MaxSources
    BY <1>7, <1>10, GrowMarks DEF TeardownMoves
  <2>2. CASE TeardownRefused
    BY <1>1, <1>4, <1>6, <1>8, <1>10, <2>1, <2>2 DEF TeardownMoves, TeardownRefused
  <2>3. CASE TeardownPosts
    <3>1. client' \in ClientType
      BY <1>2, <1>3, <2>1, <2>3 DEF TeardownPosts, ClientType
    <3>. QED
      BY <1>1, <1>6, <1>8, <1>10, <2>3, <3>1 DEF TeardownMoves, TeardownPosts
  <2>. QED
    BY <1>10, <2>2, <2>3 DEF TeardownMoves
<1>11. CASE ClientWaits
  <2>1. client' \in ClientType
    <3>1. ASSUME NEW p \in ClientPcs
          PROVE  [client EXCEPT !.pc = p] \in ClientType
      BY <1>1 DEF ClientType
    <3>2. \/ client' = client \/ client' = Resting
          \/ \E p \in ClientPcs : client' = [client EXCEPT !.pc = p]
          \/ \E action \in {client.action, "Teardown"}, ok \in BOOLEAN :
               client' = Returned(action, client.seq, ok)
      BY <1>3, <1>11 DEF ClientWaits
    <3>. QED
      BY <1>1, <1>4, <1>5, <1>6, <3>1, <3>2
  <2>. QED
    BY <1>1, <1>8, <1>11, <2>1 DEF ClientWaits, OthersStay
<1>12. CASE Background
  <2>1. stop' \in BOOLEAN /\ witness' \in WitnessType
    BY <1>1, <1>6, <1>12 DEF Background
  <2>. QED
    BY <1>1, <1>8, <1>12, <2>1 DEF Background, OthersStay
<1>13. CASE \E c \in 1 .. MaxChunk, action \in Actions : chunk <= c /\ ControlMoves(c, action)
  <2>1. PICK c \in 1 .. MaxChunk, action \in Actions : chunk <= c /\ ControlMoves(c, action)
    BY <1>13
  <2>2. Len(sources') \in 0 .. MaxSources
    BY <1>7, <2>1, GrowMarks DEF ControlMoves
  <2>3. UNCHANGED <<session, coord, aborted, waiter, target, stop>>
        /\ asleep' \subseteq {"coord", "client"}
    BY <2>1 DEF ControlMoves
  <2>4. CASE ControlRefused(action)
    BY <1>1, <1>4, <1>8, <2>2, <2>3, <2>4 DEF ControlRefused
  <2>5. CASE ControlReused(c, action)
    <3>1. witness' \in WitnessType
      BY <1>2, <2>5 DEF ControlReused, WitnessType
    <3>. QED
      BY <1>1, <1>4, <1>8, <2>2, <2>3, <2>5, <3>1 DEF ControlReused
  <2>6. CASE ControlPosts(c, action)
    <3>1. client' \in ClientType
      BY <1>2, <1>3, <2>2, <2>6 DEF ControlPosts, ClientType
    <3>. QED
      BY <1>1, <1>8, <2>3, <2>6, <3>1 DEF ControlPosts, Posts
  <2>. QED
    BY <2>1, <2>4, <2>5, <2>6 DEF ControlMoves
<1>. QED
  BY <1>9, <1>10, <1>11, <1>12, <1>13 DEF ClientKind

\* Types of what the coordinator's steps leave.
LEMMA CoordTypes ==
  ASSUME SessionInv, CoordKind
  PROVE  Types'
<1>. DEFINE CoordType == [pc : CoordPcs, rel : Events,
                          then : {"top", "topOrExit", "exited", "ack"}, serial : BOOLEAN]
            SessionType == [last : 0 .. MaxSources, raw : 0 .. MaxChunk, pass : BOOLEAN]
            WitnessType == [ordinal : Nat, raw : 0 .. MaxChunk, published : 0 .. MaxSources]
<1>1. /\ transport \in Transports /\ witness \in WitnessType
      /\ session \in SessionType /\ coord \in CoordType
      /\ client \in [pc : ClientPcs, action : Actions \cup {"none", "Teardown"},
                     ordinal : Nat, seq : 0 .. MaxSources, ok : BOOLEAN]
      /\ waiter \in 0 .. MaxSources /\ target \in 0 .. MaxSources
      /\ stop \in BOOLEAN /\ aborted \in BOOLEAN /\ asleep \subseteq {"coord", "client"}
  BY DEF SessionInv, Types
<1>2. covered \in 0 .. MaxSources /\ Len(sources) \in 0 .. MaxSources
  BY Bounds DEF SessionInv, Marks
<1>3. {"top", "close", "finalize", "ack", "park", "idle", "lease", "encode", "encodeAlone",
       "exited"} = CoordPcs
  BY DEF CoordPcs
<1>4. NoWitness \in WitnessType /\ NoSession \in SessionType
      /\ AtTop \in CoordType
  BY <1>3, RecordTypes DEF AtTop
<1>5. /\ \A p \in CoordPcs : [AtTop EXCEPT !.pc = p] \in CoordType
      /\ \A p \in CoordPcs : [coord EXCEPT !.pc = p] \in CoordType
      /\ [AtTop EXCEPT !.serial = TRUE] \in CoordType
      /\ \A n \in {"top", "topOrExit", "exited"} :
           [AtTop EXCEPT !.pc = "finalize", !.then = n] \in CoordType
      /\ \A p \in CoordPcs, e \in Events :
           [AtTop EXCEPT !.pc = p, !.rel = e, !.then = "ack"] \in CoordType
  BY <1>1, <1>3, <1>4
<1>. HIDE DEF CoordType, SessionType, WitnessType
<1>6. ASSUME CoordStays, transport' \in Transports, witness' \in WitnessType,
             session' \in SessionType, coord' \in CoordType, UNCHANGED aborted,
             asleep' \subseteq {"coord", "client"}
      PROVE  Types'
  BY <1>1, <1>6 DEF Types, CoordType, SessionType, WitnessType, CoordStays
<1>7. CASE Begins
  <2>1. coord' \in CoordType
    BY <1>3, <1>5, <1>7 DEF Begins
  <2>. QED
    BY <1>1, <1>4, <1>6, <1>7, <2>1 DEF Begins
<1>8. CASE \E e, closed : Acknowledges(e, closed)
  <2>1. PICK e, closed : Acknowledges(e, closed)
    BY <1>8
  <2>2. AckEffects(e, closed) /\ CoordStays
    BY <2>1 DEF Acknowledges
  <2>3. witness' \in WitnessType
    BY <1>2, <1>4, <2>2 DEF AckEffects, WitnessType
  <2>4. session' \in SessionType
    BY <1>1, <2>1 DEF Acknowledges, SessionType
  <2>5. coord' \in CoordType
    BY <1>3, <1>5, <2>2 DEF AckEffects
  <2>6. transport' \in Transports /\ UNCHANGED aborted /\ asleep' \subseteq {"coord", "client"}
    BY <1>1, <2>2 DEF AckEffects, Acks
  <2>. QED
    BY <1>6, <2>2, <2>3, <2>4, <2>5, <2>6
<1>9. CASE Submits
  <2>1. coord' \in CoordType
    BY <1>3, <1>5, <1>9 DEF Submits
  <2>. QED
    BY <1>1, <1>4, <1>6, <1>9, <2>1 DEF Submits
<1>10. CASE Releases
  <2>1. coord' \in CoordType
    BY <1>3, <1>5, <1>10 DEF Releases, ReleasePosts, ReleaseDirect
  <2>2. transport' \in Transports
    BY <1>1, <1>10 DEF Releases, ReleasePosts, ReleaseDirect, Posts
  <2>. QED
    BY <1>1, <1>4, <1>6, <1>10, <2>1, <2>2 DEF Releases
<1>11. CASE CoordRests
  <2>1. coord' \in CoordType
    BY <1>1, <1>3, <1>5, <1>11 DEF CoordRests
  <2>. QED
    BY <1>1, <1>4, <1>6, <1>11, <2>1 DEF CoordRests
<1>12. CASE \E last, next : Selects(last, next)
  <2>1. coord' \in CoordType
    BY <1>3, <1>5, <1>12 DEF Selects
  <2>. QED
    BY <1>1, <1>4, <1>6, <1>12, <2>1 DEF Selects
<1>13. CASE Encodes
  <2>1. coord' \in CoordType
    BY <1>3, <1>5, <1>13 DEF Encodes
  <2>2. session' \in SessionType
    BY <1>2, <1>4, <1>13 DEF Encodes, SessionType
  <2>. QED
    BY <1>1, <1>6, <1>13, <2>1, <2>2 DEF Encodes
<1>. QED
  BY <1>7, <1>8, <1>9, <1>10, <1>11, <1>12, <1>13 DEF CoordKind

\* The watermarks, in the clients' steps and in the background's.
LEMMA ClientMarks ==
  ASSUME SessionInv, ClientKind
  PROVE  Marks'
<1>1. /\ sources \in Seq(0 .. MaxChunk) /\ writing \in BOOLEAN
      /\ chunk \in 1 .. Larger(1, MaxChunk) /\ coveredRaw \in 0 .. MaxChunk
      /\ Len(sources) \in Nat /\ Len(sources) <= MaxSources
      /\ writing => Len(sources) < MaxSources
  BY DEF SessionInv, Marks
<1>2. /\ submitted \in Nat /\ completed \in Nat /\ reclaimed \in Nat /\ covered \in Nat
      /\ reclaimed <= completed /\ completed <= submitted
      /\ submitted <= covered /\ covered <= Len(sources)
  BY DEF SessionInv, Marks
<1>3. /\ \A i \in 1 .. Len(sources) : sources[i] <= chunk
      /\ session.raw <= chunk /\ session.raw \in Nat
      /\ transport.lastRaw <= chunk /\ transport.lastSeq <= Len(sources)
      /\ transport.lastRaw \in Nat /\ transport.lastSeq \in Nat
  BY Bounds DEF SessionInv, Marks, Types, Transports
<1>4. \A c \in 1 .. MaxChunk : c \in 1 .. Larger(1, MaxChunk) /\ c \in 0 .. MaxChunk
  BY Bounds DEF Larger
<1>5. chunk \in Nat
  BY <1>1, Bounds DEF Larger
<1>. DEFINE Input == /\ sources' \in Seq(0 .. MaxChunk) /\ writing' \in BOOLEAN
                     /\ chunk' \in 1 .. Larger(1, MaxChunk)
                     /\ Len(sources') \in Nat /\ Len(sources') <= MaxSources
                     /\ (writing' => Len(sources') < MaxSources)
                     /\ Len(sources) <= Len(sources')
                     /\ \A i \in 1 .. Len(sources') : sources'[i] <= chunk'
                     /\ chunk <= chunk' /\ chunk' \in Nat
            Output == /\ coveredRaw' \in 0 .. MaxChunk /\ UNCHANGED <<covered, submitted, session>>
                      /\ completed' \in Nat /\ reclaimed' \in Nat
                      /\ reclaimed' <= completed' /\ completed' <= submitted
            Fence == transport'.lastRaw <= chunk' /\ transport'.lastSeq <= Len(sources')
<1>6. ASSUME Input, Output, Fence
      PROVE  Marks'
  <2>1. covered' <= Len(sources') /\ session'.raw <= chunk'
    BY <1>1, <1>2, <1>3, <1>5, <1>6
  <2>. QED
    BY <1>2, <1>6, <2>1 DEF Marks
<1>7. ASSUME Input, UNCHANGED transport
      PROVE  Fence
  BY <1>1, <1>3, <1>5, <1>7
<1>8. ASSUME Marks, Grows, NEW c \in 1 .. MaxChunk, chunk <= c, chunk' = c \/ UNCHANGED chunk
      PROVE  Input
  <2>1. /\ sources' \in Seq(0 .. MaxChunk) /\ writing' \in BOOLEAN
        /\ Len(sources') \in 0 .. MaxSources /\ Len(sources) <= Len(sources')
        /\ (writing' => Len(sources') < MaxSources)
        /\ \A i \in 1 .. Len(sources') : sources'[i] <= chunk
    BY <1>8, GrowMarks
  <2>2. chunk' \in 1 .. Larger(1, MaxChunk) /\ chunk <= chunk' /\ chunk' \in Nat
    BY <1>1, <1>4, <1>5, <1>8
  <2>3. \A i \in 1 .. Len(sources') : sources'[i] \in Nat
    <3>. DEFINE R == 0 .. MaxChunk
    <3>1. sources' \in Seq(R) /\ R \subseteq Nat
      BY <2>1
    <3>. HIDE DEF R
    <3>2. \A i \in 1 .. Len(sources') : sources'[i] \in R
      BY <3>1
    <3>. QED
      BY <3>1, <3>2
  <2>4. \A i \in 1 .. Len(sources') : sources'[i] <= chunk'
    BY <1>5, <2>1, <2>2, <2>3
  <2>5. Len(sources') \in Nat /\ Len(sources') <= MaxSources
    BY <2>1, Bounds
  <2>. QED
    BY <2>1, <2>2, <2>4, <2>5
<1>9. Marks
  BY DEF SessionInv
<1>10. UNCHANGED <<completed, reclaimed, submitted, covered, session, coveredRaw>> => Output
  BY <1>1, <1>2
<1>11. UNCHANGED <<sources, writing, chunk>> => Input
  BY <1>1, <1>3, <1>5
<1>. HIDE DEF Input, Output, Fence
<1>12. CASE Publishes
  <2>1. Input
    <3>1. CASE UNCHANGED <<sources, chunk>> /\ writing' = TRUE
      BY <1>1, <1>3, <1>5, <1>12, <3>1 DEF Publishes, Input
    <3>2. CASE /\ UNCHANGED writing /\ ~ writing
               /\ \E c \in chunk .. MaxChunk : \E raw \in {0, c} :
                    chunk' = c /\ sources' = Append(sources, raw)
      <4>1. PICK c \in chunk .. MaxChunk : \E raw \in {0, c} :
                   chunk' = c /\ sources' = Append(sources, raw)
        BY <3>2
      <4>2. PICK raw \in {0, c} : chunk' = c /\ sources' = Append(sources, raw)
        BY <4>1
      <4>3. c \in 1 .. MaxChunk /\ chunk <= c /\ raw \in 0 .. MaxChunk /\ raw <= c
        BY <1>1, <1>5, Bounds DEF Larger
      <4>4. chunk' \in 1 .. Larger(1, MaxChunk) /\ chunk <= chunk' /\ chunk' \in Nat
        BY <1>4, <4>2, <4>3
      <4>5. Len(sources) < MaxSources
        BY <1>12 DEF Publishes
      <4>6. /\ sources' \in Seq(0 .. MaxChunk) /\ Len(sources') = Len(sources) + 1
            /\ \A i \in 1 .. Len(sources) : sources'[i] = sources[i]
            /\ sources'[Len(sources) + 1] = raw
        BY <1>1, <4>2, <4>3
      <4>7. \A i \in 1 .. Len(sources) : sources[i] \in Nat
        <5>. DEFINE R == 0 .. MaxChunk
        <5>1. sources \in Seq(R) /\ R \subseteq Nat
          BY <1>1
        <5>. HIDE DEF R
        <5>2. \A i \in 1 .. Len(sources) : sources[i] \in R
          BY <5>1
        <5>. QED
          BY <5>1, <5>2
      <4>8. \A i \in 1 .. Len(sources') : sources'[i] <= chunk'
        BY <1>1, <1>3, <1>5, <4>2, <4>3, <4>6, <4>7
      <4>9. Len(sources') \in Nat /\ Len(sources') <= MaxSources /\ Len(sources) <= Len(sources')
        BY <1>1, <4>5, <4>6, Bounds
      <4>10. writing' \in BOOLEAN /\ ~ writing'
        BY <1>1, <3>2
      <4>. QED
        BY <4>4, <4>6, <4>8, <4>9, <4>10 DEF Input
    <3>. QED
      BY <1>12, <3>1, <3>2 DEF Publishes
  <2>. QED
    BY <1>6, <1>7, <1>10, <1>12, <2>1 DEF Publishes, OthersStay
<1>13. CASE TeardownMoves
  <2>1. Input
    <3>1. /\ sources' \in Seq(0 .. MaxChunk) /\ writing' \in BOOLEAN
          /\ Len(sources') \in 0 .. MaxSources /\ Len(sources) <= Len(sources')
          /\ (writing' => Len(sources') < MaxSources)
          /\ \A i \in 1 .. Len(sources') : sources'[i] <= chunk
      BY <1>9, <1>13, GrowMarks DEF TeardownMoves
    <3>2. chunk' = chunk
      BY <1>13 DEF TeardownMoves
    <3>3. Len(sources') \in Nat /\ Len(sources') <= MaxSources
      BY <3>1, Bounds
    <3>. QED
      BY <1>1, <1>5, <3>1, <3>2, <3>3 DEF Input
  <2>2. Output
    BY <1>10, <1>13 DEF TeardownMoves
  <2>3. Fence
    <3>1. CASE TeardownRefused
      BY <1>7, <2>1, <3>1 DEF TeardownRefused
    <3>2. CASE TeardownPosts
      <4>1. transport'.lastRaw = transport.lastRaw /\ transport'.lastSeq = Len(sources')
        BY <3>2 DEF TeardownPosts
      <4>2. chunk' = chunk /\ Len(sources') \in Nat
        BY <1>13, <2>1 DEF TeardownMoves, Input
      <4>. QED
        BY <1>3, <4>1, <4>2 DEF Fence
    <3>. QED
      BY <1>13, <3>1, <3>2 DEF TeardownMoves
  <2>. QED
    BY <1>6, <2>1, <2>2, <2>3
<1>14. CASE ClientWaits
  BY <1>6, <1>7, <1>10, <1>11, <1>14 DEF ClientWaits, OthersStay
<1>15. CASE Background
  <2>1. Output
    BY <1>1, <1>15 DEF Background, OthersStay, Output
  <2>. QED
    BY <1>6, <1>7, <1>11, <1>15, <2>1 DEF Background
<1>16. CASE \E c \in 1 .. MaxChunk, action \in Actions : chunk <= c /\ ControlMoves(c, action)
  <2>1. PICK c \in 1 .. MaxChunk, action \in Actions : chunk <= c /\ ControlMoves(c, action)
    BY <1>16
  <2>2. Input
    BY <1>8, <1>9, <2>1 DEF ControlMoves
  <2>3. chunk' = c /\ Len(sources') \in Nat /\ c \in Nat
    BY <2>1, <2>2 DEF ControlMoves, Input
  <2>4. Output
    <3>1. coveredRaw' \in 0 .. MaxChunk
      <4>1. coveredRaw' = coveredRaw \/ coveredRaw' = Larger(coveredRaw, c)
        BY <2>1 DEF ControlMoves, ControlRefused, ControlReused, ControlPosts
      <4>2. Larger(coveredRaw, c) \in {coveredRaw, c} /\ c \in 0 .. MaxChunk
        BY <1>4 DEF Larger
      <4>. QED
        BY <1>1, <4>1, <4>2
    <3>. QED
      BY <1>2, <2>1, <3>1 DEF ControlMoves, Output
  <2>5. Fence
    <3>1. CASE UNCHANGED transport
      BY <1>7, <2>2, <3>1
    <3>2. CASE transport'.lastRaw = c /\ transport'.lastSeq = Len(sources')
      BY <2>3, <3>2 DEF Fence
    <3>. QED
      BY <2>1, <3>1, <3>2 DEF ControlMoves, ControlRefused, ControlReused, ControlPosts, Posts
  <2>. QED
    BY <1>6, <2>2, <2>4, <2>5
<1>. QED
  BY <1>12, <1>13, <1>14, <1>15, <1>16 DEF ClientKind

\* The watermarks, in the coordinator's steps.
LEMMA CoordMarks ==
  ASSUME SessionInv, CoordKind
  PROVE  Marks'
<1>1. Marks /\ Carried
  BY DEF SessionInv
<1>2. /\ submitted \in Nat /\ completed \in Nat /\ reclaimed \in Nat /\ covered \in Nat
      /\ reclaimed <= completed /\ completed <= submitted
      /\ submitted <= covered /\ covered <= Len(sources)
      /\ coveredRaw \in 0 .. MaxChunk /\ Len(sources) \in Nat /\ chunk \in Nat
  BY Bounds DEF SessionInv, Marks, Larger
<1>3. /\ session.raw <= chunk
      /\ transport.lastRaw <= chunk /\ transport.lastSeq <= Len(sources)
      /\ session.last \in Nat
  BY Bounds DEF SessionInv, Marks, Types
<1>4. ASSUME CoordStays, coveredRaw' \in 0 .. MaxChunk, submitted' \in Nat, covered' \in Nat,
             submitted <= submitted', submitted' <= covered', covered' <= Len(sources),
             session'.raw <= chunk, transport'.lastRaw <= chunk,
             transport'.lastSeq <= Len(sources)
      PROVE  Marks'
  <2>1. completed <= submitted'
    BY <1>2, <1>4
  <2>. QED
    BY <1>1, <1>4, <2>1 DEF Marks, CoordStays
<1>5. ASSUME CoordStays, UNCHANGED <<covered, coveredRaw, submitted, session, transport>>
      PROVE  Marks'
  BY <1>2, <1>3, <1>4, <1>5
<1>6. NoSession.raw <= chunk
  BY <1>2 DEF NoSession
<1>7. CASE Begins
  BY <1>5, <1>7 DEF Begins
<1>8. CASE \E e, closed : Acknowledges(e, closed)
  <2>1. PICK e, closed : Acknowledges(e, closed)
    BY <1>8
  <2>2. /\ coveredRaw' \in 0 .. MaxChunk /\ CoordStays /\ UNCHANGED <<covered, submitted>>
        /\ transport'.lastRaw = transport.lastRaw /\ transport'.lastSeq = transport.lastSeq
    BY <2>1 DEF Acknowledges, AckEffects, Acks
  <2>3. session'.raw = session.raw
    <3>1. session \in [last : 0 .. MaxSources, raw : 0 .. MaxChunk, pass : BOOLEAN]
      BY DEF SessionInv, Types
    <3>. QED
      BY <2>1, <3>1 DEF Acknowledges
  <2>. QED
    BY <1>2, <1>3, <1>4, <2>2, <2>3
<1>9. CASE Submits
  <2>1. session.last # 0
    BY <1>1, <1>9 DEF Carried, Submits
  <2>2. submitted < session.last /\ session.last <= covered
    BY <1>1, <2>1 DEF Carried
  <2>3. /\ CoordStays /\ UNCHANGED <<covered, coveredRaw, transport>>
        /\ submitted' = session.last /\ session' = NoSession
    BY <1>9 DEF Submits
  <2>. QED
    BY <1>2, <1>3, <1>4, <1>6, <2>2, <2>3
<1>10. CASE Releases
  <2>1. /\ CoordStays /\ UNCHANGED <<covered, coveredRaw, submitted, session>>
        /\ session.last = covered
    BY <1>10 DEF Releases
  <2>2. \/ UNCHANGED transport
        \/ transport'.lastRaw = session.raw /\ transport'.lastSeq = session.last
    BY <1>10 DEF Releases, ReleaseDirect, ReleasePosts, Posts
  <2>3. transport'.lastRaw <= chunk /\ transport'.lastSeq <= Len(sources)
    BY <1>2, <1>3, <2>1, <2>2
  <2>. QED
    BY <1>2, <1>3, <1>4, <2>1, <2>3
<1>11. CASE CoordRests
  BY <1>5, <1>11 DEF CoordRests
<1>12. CASE \E last, next : Selects(last, next)
  <2>1. PICK last, next : Selects(last, next)
    BY <1>12
  <2>2. /\ CoordStays /\ UNCHANGED <<submitted, session, transport>>
        /\ last \in covered + 1 .. Len(sources) /\ covered' = last
        /\ coveredRaw' \in 0 .. MaxChunk
    BY <2>1 DEF Selects
  <2>3. covered' \in Nat /\ submitted <= covered' /\ covered' <= Len(sources)
    BY <1>2, <2>2
  <2>. QED
    BY <1>2, <1>3, <1>4, <2>2, <2>3
<1>13. CASE Encodes
  <2>1. /\ CoordStays /\ UNCHANGED <<covered, coveredRaw, transport>>
        /\ submitted' = covered \/ submitted' = submitted
        /\ session'.raw <= chunk
    BY <1>6, <1>13 DEF Encodes
  <2>. QED
    BY <1>2, <1>3, <1>4, <2>1
<1>. QED
  BY <1>7, <1>8, <1>9, <1>10, <1>11, <1>12, <1>13 DEF CoordKind

\* The carried session.
LEMMA KeepsCarried ==
  ASSUME SessionInv, ClientKind \/ CoordKind
  PROVE  Carried'
<1>1. /\ session.last = 0 => session = NoSession
      /\ session.last # 0 => submitted < session.last /\ session.last <= covered
      /\ ~ Encoding => IF session.last = 0 THEN submitted = covered ELSE session.last = covered
      /\ coord.pc = "encode" => submitted < covered
      /\ coord.pc = "encodeAlone" => session.last = 0
      /\ coord.pc = "finalize" => session.last # 0
  BY DEF SessionInv, Carried
<1>2. /\ session \in [last : 0 .. MaxSources, raw : 0 .. MaxChunk, pass : BOOLEAN]
      /\ coord \in [pc : CoordPcs, rel : Events, then : {"top", "topOrExit", "exited", "ack"},
                    serial : BOOLEAN]
      /\ session.last \in Nat /\ submitted \in Nat /\ covered \in Nat /\ submitted <= covered
  BY Bounds DEF SessionInv, Types, Marks
<1>3. NoSession.last = 0
  BY DEF NoSession
<1>4. \A p : [AtTop EXCEPT !.pc = p].pc = p /\ [coord EXCEPT !.pc = p].pc = p
  BY <1>2 DEF AtTop
<1>5. ASSUME UNCHANGED <<session, submitted, covered>>, ~ Encoding,
             coord'.pc \notin {"encode", "encodeAlone"},
             coord'.pc = "finalize" => session.last # 0
      PROVE  Carried'
  BY <1>1, <1>5 DEF Carried, Encoding
<1>6. CASE ClientKind
  <2>1. UNCHANGED <<session, submitted, covered, coord>>
    BY <1>6 DEF ClientKind, Publishes, TeardownMoves, ClientWaits, Background, ControlMoves,
                OthersStay
  <2>. QED
    BY <1>1, <2>1 DEF Carried, Encoding
<1>7. CASE Begins
  <2>1. coord'.pc \in {"close", "finalize"}
    BY <1>7 DEF Begins, AtTop
  <2>2. session.last # 0 /\ ~ Encoding
    BY <1>1, <1>7 DEF Begins, Encoding
  <2>. QED
    BY <1>5, <1>7, <2>1, <2>2 DEF Begins
<1>8. CASE \E e, closed : Acknowledges(e, closed)
  <2>1. PICK e, closed : Acknowledges(e, closed)
    BY <1>8
  <2>2. coord'.pc \in {"exited", "top"} /\ UNCHANGED <<submitted, covered>> /\ ~ Encoding
    BY <2>1 DEF Acknowledges, AckEffects, AtTop, Encoding
  <2>3. session'.last = session.last /\ (session.last = 0 => session' = session)
    <3>1. session' = session \/ session' = [session EXCEPT !.pass = FALSE]
      BY <2>1 DEF Acknowledges
    <3>2. session.last = 0 => session = NoSession /\ [session EXCEPT !.pass = FALSE] = session
      BY <1>1 DEF NoSession
    <3>. QED
      BY <1>2, <3>1, <3>2
  <2>. QED
    BY <1>1, <1>2, <2>2, <2>3 DEF Carried, Encoding
<1>9. CASE Submits
  <2>1. coord'.pc \in {"top", "exited", "ack"} /\ ~ Encoding
    BY <1>4, <1>9 DEF Submits, Encoding
  <2>2. submitted' = session.last /\ session' = NoSession /\ covered' = covered
        /\ session.last # 0
    BY <1>1, <1>9 DEF Submits
  <2>. QED
    BY <1>1, <1>2, <1>3, <2>1, <2>2 DEF Carried, Encoding
<1>10. CASE Releases
  <2>1. coord'.pc \in {"top", "finalize"}
    BY <1>10 DEF Releases, ReleasePosts, ReleaseDirect, AtTop
  <2>2. UNCHANGED <<session, submitted, covered>> /\ ~ Encoding /\ session.last # 0
    BY <1>1, <1>10 DEF Releases, Encoding
  <2>. QED
    BY <1>5, <2>1, <2>2
<1>11. CASE CoordRests
  <2>1. UNCHANGED <<session, submitted, covered>> /\ ~ Encoding /\ coord.pc # "finalize"
    BY <1>11 DEF CoordRests, Encoding
  <2>2. \/ coord'.pc \in {"top", "park", "idle", "lease", "exited"}
        \/ coord'.pc = "finalize" /\ session # NoSession
    BY <1>11 DEF CoordRests, AtTop
  <2>. QED
    BY <1>1, <1>5, <2>1, <2>2
<1>12. CASE \E last, next : Selects(last, next)
  <2>1. PICK last, next : Selects(last, next)
    BY <1>12
  <2>2. /\ UNCHANGED <<submitted, session>> /\ last \in covered + 1 .. Len(sources)
        /\ covered' = last /\ next \in {"encode", "encodeAlone"} /\ coord'.pc = next
        /\ next = "encodeAlone" => session = NoSession
    BY <1>4, <2>1 DEF Selects
  <2>3. covered < covered' /\ covered' \in Nat
    BY <1>2, <2>2
  <2>. QED
    BY <1>1, <1>2, <1>3, <2>2, <2>3 DEF Carried, Encoding
<1>13. CASE Encodes
  <2>1. coord'.pc = "top" /\ covered' = covered
    BY <1>4, <1>13 DEF Encodes
  <2>2. CASE submitted' = covered /\ session' = NoSession
    BY <1>2, <1>3, <2>1, <2>2 DEF Carried, Encoding
  <2>3. CASE /\ coord.pc = "encode" /\ UNCHANGED submitted
             /\ session' \in [last : {covered}, raw : 0 .. MaxChunk, pass : BOOLEAN]
    <3>1. session'.last = covered /\ submitted < covered /\ covered # 0
      BY <1>1, <1>2, <2>3
    <3>. QED
      BY <1>2, <2>1, <2>3, <3>1 DEF Carried, Encoding
  <2>. QED
    BY <1>13, <2>2, <2>3 DEF Encodes
<1>. QED
  BY <1>6, <1>7, <1>8, <1>9, <1>10, <1>11, <1>12, <1>13 DEF CoordKind

\* The event being served.
LEMMA KeepsServing ==
  ASSUME SessionInv, ClientKind \/ CoordKind
  PROVE  Serving'
<1>1. /\ (coord.rel # NoEvent) = (coord.pc \in {"close", "ack"} \/
                                  (coord.pc = "finalize" /\ coord.then = "ack"))
      /\ coord.then = "ack" => coord.pc \in {"close", "finalize", "ack"} /\ coord.rel # NoEvent
      /\ coord.rel # NoEvent =>
           /\ coord.rel = NextOf(transport) /\ coord.rel.seq <= covered
           /\ (coord.pc = "close") = (coord.rel.action = "ClosePass")
           /\ coord.pc = "ack" => coord.rel.seq <= submitted
  BY DEF SessionInv, Serving
<1>2. /\ coord \in [pc : CoordPcs, rel : Events, then : {"top", "topOrExit", "exited", "ack"},
                    serial : BOOLEAN]
      /\ session.last \in Nat /\ submitted \in Nat /\ covered \in Nat /\ submitted <= covered
      /\ coord.rel.seq \in Nat
  BY Bounds DEF SessionInv, Types, Marks, Events
<1>3. FifoOf(transport) /\ transport \in Transports /\ Carried
  BY DEF SessionInv, Fifo, Types
<1>4. /\ \A p : /\ [AtTop EXCEPT !.pc = p].pc = p /\ [AtTop EXCEPT !.pc = p].rel = NoEvent
                /\ [AtTop EXCEPT !.pc = p].then = "top"
                /\ [coord EXCEPT !.pc = p].pc = p /\ [coord EXCEPT !.pc = p].rel = coord.rel
                /\ [coord EXCEPT !.pc = p].then = coord.then
      /\ \A n : /\ [AtTop EXCEPT !.pc = "finalize", !.then = n].pc = "finalize"
                /\ [AtTop EXCEPT !.pc = "finalize", !.then = n].rel = NoEvent
                /\ [AtTop EXCEPT !.pc = "finalize", !.then = n].then = n
      /\ [AtTop EXCEPT !.serial = TRUE].pc = "top"
      /\ [AtTop EXCEPT !.serial = TRUE].rel = NoEvent
      /\ [AtTop EXCEPT !.serial = TRUE].then = "top"
  BY <1>2 DEF AtTop
<1>5. ASSUME coord'.rel = NoEvent, coord'.then # "ack", coord'.pc \notin {"close", "ack"}
      PROVE  Serving'
  BY <1>5 DEF Serving
<1>6. ASSUME UNCHANGED <<coord, covered, submitted>>,
             NextOf(transport) # NoEvent => NextOf(transport') = NextOf(transport)
      PROVE  Serving'
  BY <1>1, <1>6 DEF Serving
<1>7. CASE ClientKind
  <2>1. UNCHANGED <<coord, covered, submitted>>
    BY <1>7 DEF ClientKind, Publishes, TeardownMoves, ClientWaits, Background, ControlMoves,
                OthersStay
  <2>2. CASE UNCHANGED transport
    BY <1>6, <2>1, <2>2
  <2>3. CASE TeardownPosts
    BY <1>6, <2>1, <2>3 DEF TeardownPosts
  <2>4. ASSUME NEW c \in 1 .. MaxChunk, NEW action \in Actions, ControlReused(c, action)
        PROVE  Serving'
    <3>1. NextOf(transport) = NoEvent
      BY <2>4 DEF ControlReused, NextOf
    <3>. QED
      BY <1>6, <2>1, <3>1
  <2>5. ASSUME NEW c \in 1 .. MaxChunk, NEW action \in Actions, ControlPosts(c, action)
        PROVE  Serving'
    <3>1. NextOf(transport) # NoEvent => NextOf(transport') = NextOf(transport)
      <4>1. /\ transport.terminal = NoEvent
            /\ transport.ordered # <<>> => NextOf(transport') = NextOf(transport)
        BY <2>5 DEF ControlPosts, Posts
      <4>2. transport.ordered = <<>> => NextOf(transport) = NoEvent
        BY <4>1 DEF NextOf
      <4>. QED
        BY <4>1, <4>2
    <3>. QED
      BY <1>6, <2>1, <3>1
  <2>. QED
    BY <1>7, <2>2, <2>3, <2>4, <2>5
       DEF ClientKind, Publishes, TeardownMoves, TeardownRefused, ClientWaits, Background,
           ControlMoves, ControlRefused
<1>8. CASE Begins
  <2>. DEFINE e == NextOf(transport)
  <2>1. /\ e # NoEvent /\ e.seq <= covered /\ UNCHANGED <<covered, transport>>
        /\ coord' = [AtTop EXCEPT !.pc = IF e.action = "ClosePass" THEN "close" ELSE "finalize",
                                  !.rel = e, !.then = "ack"]
    BY <1>8 DEF Begins
  <2>2. /\ coord'.rel = e /\ coord'.then = "ack"
        /\ coord'.pc = IF e.action = "ClosePass" THEN "close" ELSE "finalize"
    BY <2>1 DEF AtTop
  <2>3. NextOf(transport') = e
    BY <2>1
  <2>. HIDE DEF e
  <2>. QED
    BY <2>1, <2>2, <2>3 DEF Serving
<1>9. CASE \E e, closed : Acknowledges(e, closed)
  <2>1. coord' \in {[AtTop EXCEPT !.pc = "exited"], [AtTop EXCEPT !.pc = "top"]}
    BY <1>9 DEF Acknowledges, AckEffects
  <2>2. coord'.rel = NoEvent /\ coord'.then # "ack" /\ coord'.pc \notin {"close", "ack"}
    BY <2>1 DEF AtTop
  <2>. QED
    BY <1>5, <2>2
<1>10. CASE Submits
  <2>1. PICK p \in {"top", "exited", "ack"} : coord' = [coord EXCEPT !.pc = p]
    BY <1>10 DEF Submits
  <2>2. coord'.pc = p /\ coord'.rel = coord.rel /\ coord'.then = coord.then
    BY <1>4, <2>1
  <2>3. /\ UNCHANGED <<covered, transport>> /\ coord.pc = "finalize" /\ submitted' = session.last
        /\ (p = "ack") = (coord.then = "ack")
    BY <1>10, <2>2 DEF Submits
  <2>4. submitted' = covered
    BY <1>3, <2>3 DEF Carried, Encoding
  <2>5. CASE coord.then = "ack"
    BY <1>1, <1>2, <2>2, <2>3, <2>4, <2>5 DEF Serving
  <2>6. CASE coord.then # "ack"
    BY <1>1, <1>5, <2>2, <2>3, <2>6
  <2>. QED
    BY <2>5, <2>6
<1>11. CASE Releases
  <2>1. \/ coord' = [AtTop EXCEPT !.pc = "top"]
        \/ coord' = [AtTop EXCEPT !.pc = "finalize", !.then = "top"]
        \/ coord' = [AtTop EXCEPT !.pc = "finalize", !.then = "topOrExit"]
    BY <1>11 DEF Releases, ReleasePosts, ReleaseDirect
  <2>2. coord'.rel = NoEvent /\ coord'.then # "ack" /\ coord'.pc \notin {"close", "ack"}
    BY <2>1 DEF AtTop
  <2>. QED
    BY <1>5, <2>2
<1>12. CASE CoordRests
  <2>1. \/ coord' = coord /\ coord.pc \in {"top", "park", "idle", "lease"}
        \/ \E p \in {"top", "park", "idle", "lease", "exited"} : coord' = [AtTop EXCEPT !.pc = p]
        \/ coord' = [AtTop EXCEPT !.serial = TRUE]
        \/ coord' = [AtTop EXCEPT !.pc = "finalize", !.then = "exited"]
    BY <1>12 DEF CoordRests
  <2>2. CASE coord' = coord /\ coord.pc \in {"top", "park", "idle", "lease"}
    BY <1>1, <1>5, <2>2
  <2>3. CASE \/ \E p \in {"top", "park", "idle", "lease", "exited"} :
                  coord' = [AtTop EXCEPT !.pc = p]
             \/ coord' = [AtTop EXCEPT !.serial = TRUE]
             \/ coord' = [AtTop EXCEPT !.pc = "finalize", !.then = "exited"]
    <3>1. coord'.rel = NoEvent /\ coord'.then # "ack" /\ coord'.pc \notin {"close", "ack"}
      BY <2>3 DEF AtTop
    <3>. QED
      BY <1>5, <3>1
  <2>. QED
    BY <2>1, <2>2, <2>3
<1>13. CASE \E last, next : Selects(last, next)
  <2>1. \E p \in {"encode", "encodeAlone"} : coord' = [AtTop EXCEPT !.pc = p]
    BY <1>13 DEF Selects
  <2>2. coord'.rel = NoEvent /\ coord'.then # "ack" /\ coord'.pc \notin {"close", "ack"}
    BY <2>1 DEF AtTop
  <2>. QED
    BY <1>5, <2>2
<1>14. CASE Encodes
  <2>1. coord' = [AtTop EXCEPT !.pc = "top"]
    BY <1>14 DEF Encodes
  <2>2. coord'.rel = NoEvent /\ coord'.then # "ack" /\ coord'.pc \notin {"close", "ack"}
    BY <2>1 DEF AtTop
  <2>. QED
    BY <1>5, <2>2
<1>. QED
  BY <1>7, <1>8, <1>9, <1>10, <1>11, <1>12, <1>13, <1>14 DEF CoordKind

\* The receipt.
LEMMA KeepsWitnessed ==
  ASSUME SessionInv, ClientKind \/ CoordKind
  PROVE  Witnessed'
<1>1. witness # NoWitness =>
        witness.published <= covered /\ ~ session.pass /\ ~ Encoding
  BY DEF SessionInv, Witnessed
<1>2. /\ covered \in Nat /\ coord.pc \in CoordPcs
      /\ session \in [last : 0 .. MaxSources, raw : 0 .. MaxChunk, pass : BOOLEAN]
  BY DEF SessionInv, Types, Marks
<1>3. Carried
  BY DEF SessionInv
<1>4. CASE witness' = NoWitness
  BY <1>4 DEF Witnessed
<1>5. ASSUME witness' = witness, UNCHANGED <<covered, session>>,
             coord' = coord \/ coord'.pc \notin {"encode", "encodeAlone"}
      PROVE  Witnessed'
  BY <1>1, <1>5 DEF Witnessed, Encoding
<1>6. CASE ClientKind
  <2>1. UNCHANGED <<coord, covered, session>>
    BY <1>6 DEF ClientKind, Publishes, TeardownMoves, ClientWaits, Background, ControlMoves,
                OthersStay
  <2>2. CASE witness' = witness
    BY <1>5, <2>1, <2>2
  <2>3. ASSUME NEW c \in 1 .. MaxChunk, NEW action \in Actions, ControlReused(c, action)
        PROVE  Witnessed'
    <3>1. witness'.published = covered /\ ~ session.pass /\ ~ Encoding
      BY <1>1, <2>3 DEF ControlReused
    <3>. QED
      BY <1>2, <2>1, <3>1 DEF Witnessed, Encoding
  <2>. QED
    BY <1>4, <1>6, <2>2, <2>3
       DEF ClientKind, Publishes, TeardownMoves, ClientWaits, Background, ControlMoves,
           ControlRefused, ControlPosts
<1>7. CASE \E e, closed : Acknowledges(e, closed)
  <2>1. PICK e, closed : Acknowledges(e, closed)
    BY <1>7
  <2>2. CASE /\ closed /\ covered = Len(sources)
             /\ witness' \in [ordinal : Nat, raw : 0 .. MaxChunk, published : {Len(sources)}]
    <3>1. witness'.published = covered /\ covered' = covered
      BY <2>1, <2>2 DEF Acknowledges
    <3>2. session' = [session EXCEPT !.pass = FALSE]
      BY <2>1, <2>2 DEF Acknowledges
    <3>3. coord'.pc \in {"top", "exited"}
      BY <2>1 DEF Acknowledges, AckEffects, AtTop
    <3>4. session'.pass = FALSE
      BY <1>2, <3>2
    <3>. QED
      BY <1>2, <3>1, <3>3, <3>4 DEF Witnessed, Encoding
  <2>. QED
    BY <1>4, <2>1, <2>2 DEF Acknowledges, AckEffects
<1>8. CASE Releases
  <2>1. coord'.pc \in {"top", "finalize"}
    BY <1>8 DEF Releases, ReleasePosts, ReleaseDirect, AtTop
  <2>. QED
    BY <1>4, <1>5, <1>8, <2>1 DEF Releases
<1>9. CASE CoordRests
  <2>1. coord' = coord \/ coord'.pc \notin {"encode", "encodeAlone"}
    BY <1>9 DEF CoordRests, AtTop
  <2>. QED
    BY <1>4, <1>5, <1>9, <2>1 DEF CoordRests
<1>10. CASE Encodes
  <2>1. witness = NoWitness
    BY <1>1, <1>10 DEF Encodes
  <2>. QED
    BY <1>4, <1>10, <2>1 DEF Encodes
<1>11. CASE Begins \/ Submits \/ \E last, next : Selects(last, next)
  BY <1>4, <1>11 DEF Begins, Submits, Selects
<1>. QED
  BY <1>6, <1>7, <1>8, <1>9, <1>10, <1>11 DEF CoordKind

\* The acknowledgement is never refused.
LEMMA KeepsAccepted ==
  ASSUME SessionInv, ClientKind \/ CoordKind
  PROVE  ~ aborted'
<1>1. ~ aborted
  BY DEF SessionInv
<1>2. UNCHANGED aborted
  BY DEF ClientKind, CoordKind, Publishes, TeardownMoves, ClientWaits, Background, ControlMoves,
         OthersStay, Begins, Acknowledges, AckEffects, Submits, Releases, CoordRests, Selects,
         Encodes
<1>. QED
  BY <1>1, <1>2

\* The FIFO itself, whatever the step.
LEMMA KeepsFifo ==
  ASSUME SessionInv, ClientKind \/ CoordKind
  PROVE  FifoOf(transport')
<1>1. FifoOf(transport)
  BY DEF SessionInv, Fifo
<1>2. CASE UNCHANGED transport
  BY <1>1, <1>2
<1>3. CASE ClientKind
  BY <1>2, <1>3 DEF ClientKind, Publishes, TeardownMoves, TeardownRefused, TeardownPosts,
     ClientWaits, Background, ControlMoves, ControlRefused, ControlReused, ControlPosts, Posts
<1>4. CASE CoordKind
  BY <1>2, <1>4 DEF CoordKind, Begins, Acknowledges, AckEffects, Acks, Submits, Releases,
     ReleasePosts, ReleaseDirect, Posts, CoordRests, Selects, Encodes
<1>. QED
  BY <1>3, <1>4

\* The client's event, once posted, is what the next acknowledgement through its
\* ordinal acknowledges.
LEMMA PostedAcked ==
  ASSUME SessionInv, client.pc = "ackWait", transport.acked < client.ordinal,
         NEW e, Acks(e), e \in Events
  PROVE  \/ /\ client.ordinal = e.ordinal /\ client.action = e.action /\ client.seq = e.seq
         \/ transport'.acked < client.ordinal /\ Posted'
         \/ client' # client
<1>. SUFFICES ASSUME client' = client
              PROVE  \/ /\ client.ordinal = e.ordinal /\ client.action = e.action
                        /\ client.seq = e.seq
                     \/ transport'.acked < client.ordinal /\ Posted'
  OBVIOUS
<1>. DEFINE q == transport.ordered
<1>1. PICK i \in 1 .. Len(q) : /\ q[i].ordinal = client.ordinal
                               /\ q[i].action = client.action /\ q[i].seq = client.seq
  BY DEF SessionInv, Promised, Posted
<1>2. q \in Seq(Events) /\ Len(q) \in Nat
  BY DEF SessionInv, Types, Transports
<1>3. q # <<>> /\ 1 \in 1 .. Len(q)
  BY <1>1, <1>2
<1>4. e = q[1]
  BY <1>3 DEF Acks, NextOf
<1>5. transport'.ordered = Tail(q) /\ transport'.acked = e.ordinal
  BY <1>3 DEF Acks
<1>6. \A j, k \in 1 .. Len(q) : j < k => q[j].ordinal < q[k].ordinal
  BY DEF SessionInv, Fifo, FifoOf
<1>. HIDE DEF q
<1>7. CASE i = 1
  BY <1>1, <1>4, <1>7
<1>8. CASE i # 1
  <2>1. 1 < i /\ q[1].ordinal < q[i].ordinal
    BY <1>1, <1>3, <1>6, <1>8
  <2>2. i - 1 \in 1 .. Len(Tail(q)) /\ Tail(q)[i - 1] = q[i]
    BY <1>1, <1>2, <1>3, <1>8
  <2>3. Posted'
    BY <1>1, <1>5, <2>2 DEF Posted
  <2>. QED
    BY <1>1, <1>4, <1>5, <2>1, <2>3
<1>. QED
  BY <1>7, <1>8

\* What a post adds to the queue.
LEMMA PostsAppend ==
  ASSUME transport \in Transports, NEW action \in Actions, NEW raw, NEW seq,
         Posts(action, raw, seq)
  PROVE  /\ Len(transport.ordered) \in Nat
         /\ Len(transport'.ordered) = Len(transport.ordered) + 1
         /\ \A i \in 1 .. Len(transport.ordered) :
              transport'.ordered[i] = transport.ordered[i]
         /\ transport'.ordered[Len(transport.ordered) + 1] = Event(action, raw, seq)
<1>. DEFINE q == transport.ordered
            e == Event(action, raw, seq)
<1>1. q \in Seq(Events) /\ transport'.ordered = Append(q, e)
  BY DEF Transports, Posts
<1>. HIDE DEF q, e
<1>2. /\ Len(q) \in Nat /\ Len(Append(q, e)) = Len(q) + 1
      /\ \A i \in 1 .. Len(q) : Append(q, e)[i] = q[i]
      /\ Append(q, e)[Len(q) + 1] = e
  BY <1>1
<1>. QED
  BY <1>1, <1>2 DEF q, e

\* An acknowledgement shortens the queue.
LEMMA AcksShorten ==
  ASSUME transport \in Transports, NEW e, Acks(e), Len(transport.ordered) <= 2
  PROVE  Len(transport'.ordered) <= 1
<1>. DEFINE q == transport.ordered
<1>1. q \in Seq(Events) /\ (transport'.ordered = <<>> \/ (q # <<>> /\ transport'.ordered = Tail(q)))
  BY DEF Transports, Acks
<1>2. Len(q) <= 2 /\ Len(q) \in Nat
  BY <1>1
<1>. HIDE DEF q
<1>3. CASE transport'.ordered = <<>>
  BY <1>3
<1>4. CASE q # <<>> /\ transport'.ordered = Tail(q)
  <2>1. Len(Tail(q)) = Len(q) - 1
    BY <1>1, <1>4
  <2>. QED
    BY <1>2, <1>4, <2>1
<1>. QED
  BY <1>1, <1>3, <1>4

\* At most two events, the second one the replay thread's or the coordinator's.
LEMMA KeepsShort ==
  ASSUME SessionInv, ClientKind \/ CoordKind
  PROVE  Short'
<1>1. /\ transport \in Transports /\ client.ordinal \in Nat /\ transport.acked \in Nat
      /\ FifoOf(transport) /\ transport.ordered \in Seq(Events)
  BY DEF SessionInv, Types, Transports, Fifo
<1>2. /\ Len(transport.ordered) <= 2 /\ Len(transport.ordered) \in Nat
      /\ Len(transport.ordered) = 2 /\ ~ stop => client.pc = "ackWait" /\ Posted
  BY <1>1 DEF SessionInv, Fifo, Short
<1>3. ASSUME transport'.ordered = transport.ordered, client' = client, stop => stop'
      PROVE  Short'
  BY <1>2, <1>3 DEF Short, Posted
<1>4. ASSUME transport'.ordered = transport.ordered, ~ stop, client.pc # "ackWait"
      PROVE  Short'
  <2>1. Len(transport.ordered) # 2
    BY <1>2, <1>4
  <2>. QED
    BY <1>2, <1>4, <2>1 DEF Short
<1>5. ASSUME Len(transport'.ordered) <= 1
      PROVE  Short'
  <2>1. Len(transport'.ordered) # 2 /\ Len(transport'.ordered) <= 2
    <3>1. Len(transport'.ordered) \in Nat
      <4>1. transport' \in Transports
        BY ClientTypes, CoordTypes DEF Types
      <4>. QED
        BY <4>1 DEF Transports
    <3>. DEFINE n == Len(transport'.ordered)
    <3>2. n \in Nat /\ n <= 1
      BY <1>5, <3>1
    <3>. HIDE DEF n
    <3>3. n # 2 /\ n <= 2
      BY <3>2
    <3>. QED
      BY <3>3 DEF n
  <2>. QED
    BY <2>1 DEF Short
<1>6. Resting.pc # "ackWait"
  BY DEF Resting
<1>7. CASE Publishes \/ Background
  BY <1>3, <1>7 DEF Publishes, Background
<1>8. CASE TeardownMoves
  BY <1>4, <1>6, <1>8 DEF TeardownMoves, TeardownRefused, TeardownPosts
<1>9. CASE ClientWaits
  <2>1. UNCHANGED <<transport, stop>>
    BY <1>9 DEF ClientWaits
  <2>2. CASE client' = client
    BY <1>3, <2>1, <2>2
  <2>3. CASE stop
    <3>1. stop'
      BY <2>1, <2>3
    <3>. QED
      BY <1>2, <2>1, <3>1 DEF Short
  <2>4. CASE client.pc # "ackWait" /\ ~ stop
    BY <1>4, <2>1, <2>4
  <2>5. CASE client.pc = "ackWait" /\ client.ordinal <= transport.acked /\ ~ stop
    <3>1. ~ Posted
      <4>. SUFFICES ASSUME Posted
                    PROVE  FALSE
        OBVIOUS
      <4>1. PICK i \in 1 .. Len(transport.ordered) :
                   transport.ordered[i].ordinal = client.ordinal
        BY DEF Posted
      <4>2. transport.acked < transport.ordered[i].ordinal
        BY <1>1 DEF FifoOf
      <4>. QED
        BY <1>1, <2>5, <4>1, <4>2
    <3>2. Len(transport.ordered) # 2
      BY <1>2, <2>5, <3>1
    <3>. QED
      BY <1>2, <2>1, <3>2 DEF Short
  <2>. QED
    BY <1>9, <2>2, <2>3, <2>4, <2>5 DEF ClientWaits
<1>10. ASSUME NEW c \in 1 .. MaxChunk, NEW action \in Actions, ControlMoves(c, action)
       PROVE  Short'
  <2>1. client.pc # "ackWait" /\ ~ stop
    BY <1>6, <1>10 DEF ControlMoves
  <2>2. CASE ControlRefused(action)
    BY <1>4, <2>1, <2>2 DEF ControlRefused
  <2>3. CASE ControlReused(c, action)
    <3>1. Len(transport'.ordered) = 0
      BY <2>3 DEF ControlReused
    <3>. QED
      BY <1>5, <3>1
  <2>4. CASE ControlPosts(c, action)
    <3>1. Posts(action, c, Len(sources'))
      BY <2>4 DEF ControlPosts
    <3>2. /\ Len(transport'.ordered) = Len(transport.ordered) + 1
          /\ transport'.ordered[Len(transport.ordered) + 1] = Event(action, c, Len(sources'))
      BY <1>1, <3>1, PostsAppend
    <3>3. Len(transport.ordered) # 2
      BY <1>2, <2>1
    <3>4. /\ client'.pc = "ackWait" /\ client'.ordinal = transport.next
          /\ client'.action = action /\ client'.seq = Len(sources')
      BY <2>4 DEF ControlPosts
    <3>5. Len(transport.ordered) + 1 \in 1 .. Len(transport'.ordered)
      BY <1>2, <3>2
    <3>6. Posted'
      BY <3>2, <3>4, <3>5 DEF Posted, Event
    <3>7. Len(transport'.ordered) <= 2
      <4>1. Len(transport.ordered) \in Nat /\ Len(transport.ordered) <= 2
        BY <1>2
      <4>. DEFINE m == Len(transport.ordered)
                  n == Len(transport'.ordered)
      <4>2. n = m + 1 /\ m # 2 /\ m \in Nat /\ m <= 2
        BY <4>1, <3>2, <3>3
      <4>. HIDE DEF m, n
      <4>3. n <= 2
        BY <4>2
      <4>. QED
        BY <4>3 DEF n
    <3>. QED
      BY <3>4, <3>6, <3>7 DEF Short
  <2>. QED
    BY <1>10, <2>2, <2>3, <2>4 DEF ControlMoves
<1>11. CASE Begins \/ Submits \/ CoordRests \/ (\E last, next : Selects(last, next)) \/ Encodes
  BY <1>3, <1>11 DEF Begins, Submits, CoordRests, Selects, Encodes, CoordStays
<1>12. CASE \E e, closed : Acknowledges(e, closed)
  <2>1. PICK e, closed : Acknowledges(e, closed)
    BY <1>12
  <2>2. Acks(e)
    BY <2>1 DEF Acknowledges, AckEffects
  <2>. QED
    BY <1>1, <1>2, <1>5, <2>2, AcksShorten
<1>13. CASE Releases
  <2>1. CASE ReleasePosts
    <3>1. Posts("SubmitSession", session.raw, session.last) /\ transport.ordered = <<>>
          /\ "SubmitSession" \in Actions
      BY <2>1 DEF ReleasePosts, Actions
    <3>2. Len(transport'.ordered) = Len(transport.ordered) + 1
      BY <1>1, <3>1, PostsAppend
    <3>3. Len(transport'.ordered) <= 1
      BY <3>1, <3>2
    <3>. QED
      BY <1>5, <3>3
  <2>2. CASE UNCHANGED transport
    BY <1>3, <1>13, <2>2 DEF Releases, CoordStays
  <2>. QED
    BY <1>13, <2>1, <2>2 DEF Releases, ReleaseDirect
<1>. QED
  BY <1>7, <1>8, <1>9, <1>10, <1>11, <1>12, <1>13 DEF ClientKind, CoordKind

\* A client at rest promises nothing.
LEMMA RestingPromised ==
  ASSUME client' = Resting
  PROVE  Promised'
BY DEF Promised, Resting, Served

\* What the replay thread may rely on, through the clients' own steps.
LEMMA ClientPromised ==
  ASSUME SessionInv, ClientKind
  PROVE  Promised'
<1>1. /\ client.pc \in {"ackWait", "gpuWait"} => client.action \in Actions
      /\ client.pc \in {"terminalWait", "terminalGpuWait", "drainWait"} =>
           client.action = "Teardown"
      /\ client.pc # "run" => client.seq = Len(sources)
      /\ client.pc = "run" => client = Resting
      /\ client.pc = "ackWait" /\ transport.acked < client.ordinal => Posted
      /\ Served => /\ covered = client.seq
                   /\ client.action = "ClosePass" => ~ session.pass /\ ~ Encoding
                   /\ client.action # "ClosePass" => client.seq <= submitted
      /\ client.pc = "returned" =>
           IF client.ok
           THEN /\ client.action = "SubmitAndWait" => client.seq <= completed
                /\ client.action = "Teardown" => reclaimed = Len(sources)
           ELSE stop \/ transport.requested
  BY DEF SessionInv, Promised
<1>2. /\ client \in [pc : ClientPcs, action : Actions \cup {"none", "Teardown"},
                     ordinal : Nat, seq : 0 .. MaxSources, ok : BOOLEAN]
      /\ transport.acked \in Nat /\ transport.next \in Nat /\ transport.acked < transport.next
  BY DEF SessionInv, Types, Transports, Fifo, FifoOf
<1>3. /\ completed \in Nat /\ reclaimed \in Nat /\ submitted \in Nat /\ covered \in Nat
      /\ reclaimed <= completed /\ completed <= submitted
      /\ submitted <= covered /\ covered <= Len(sources)
      /\ Len(sources) \in Nat /\ client.seq \in Nat
  BY Bounds DEF SessionInv, Types, Marks
<1>4. UNCHANGED <<coord, covered, submitted, session>>
  BY DEF ClientKind, Publishes, TeardownMoves, ClientWaits, Background, ControlMoves, OthersStay
<1>5. CASE Publishes
  BY <1>5, RestingPromised DEF Publishes
<1>6. CASE TeardownMoves
  <2>1. CASE TeardownRefused
    <3>1. client' = Returned("Teardown", Len(sources'), FALSE) /\ transport'.requested
      BY <2>1 DEF TeardownRefused
    <3>. QED
      BY <3>1 DEF Promised, Served, Returned
  <2>2. CASE TeardownPosts
    <3>1. /\ client'.pc = "terminalWait" /\ client'.action = "Teardown"
          /\ client'.seq = Len(sources')
      BY <2>2 DEF TeardownPosts
    <3>. QED
      BY <3>1 DEF Promised, Served
  <2>. QED
    BY <1>6, <2>1, <2>2 DEF TeardownMoves
<1>7. CASE ClientWaits
  <2>1. UNCHANGED <<sources, transport, completed, reclaimed, stop>>
    BY <1>7 DEF ClientWaits
  <2>2. CASE client' = client
    BY <1>1, <1>4, <2>1, <2>2 DEF Promised, Served, Posted, Encoding
  <2>3. CASE /\ client.pc = "ackWait" /\ client.ordinal <= transport.acked
             /\ client' = [client EXCEPT !.pc = "gpuWait"]
    <3>1. /\ client'.pc = "gpuWait" /\ client'.action = client.action
          /\ client'.seq = client.seq
      BY <1>2, <2>3
    <3>2. Served
      BY <2>3 DEF Served
    <3>. QED
      BY <1>1, <1>4, <2>1, <2>3, <3>1, <3>2 DEF Promised, Encoding
  <2>4. CASE /\ client.pc \in {"ackWait", "gpuWait"} /\ stop
             /\ client' = Returned(client.action, client.seq, FALSE)
    <3>1. client'.pc = "returned" /\ client'.seq = client.seq /\ client'.ok = FALSE
      BY <2>4 DEF Returned
    <3>2. stop'
      BY <2>1, <2>4
    <3>. QED
      BY <1>1, <2>1, <2>4, <3>1, <3>2 DEF Promised, Served
  <2>5. CASE /\ \/ client.pc = "ackWait" /\ client.ordinal <= transport.acked
                \/ client.pc = "gpuWait"
             /\ client.action = "SubmitAndWait" => client.seq <= completed
             /\ client' = Returned(client.action, client.seq, TRUE)
    <3>1. /\ client'.pc = "returned" /\ client'.seq = client.seq /\ client'.ok = TRUE
          /\ client'.action = client.action
      BY <2>5 DEF Returned
    <3>2. Served
      BY <2>5 DEF Served
    <3>3. client.action \in Actions /\ client.action # "Teardown"
      BY <1>1, <2>5 DEF Actions
    <3>. QED
      BY <1>1, <1>4, <2>1, <2>5, <3>1, <3>2, <3>3 DEF Promised, Encoding
  <2>6. CASE client.pc = "returned" /\ client' = Resting
    BY <2>6, RestingPromised
  <2>7. CASE /\ client.pc \in {"terminalWait", "terminalGpuWait"}
             /\ \E next \in {"terminalGpuWait", "drainWait"} :
                  client' = [client EXCEPT !.pc = next]
    <3>1. /\ client'.pc \in {"terminalGpuWait", "drainWait"}
          /\ client'.action = client.action /\ client'.seq = client.seq
      BY <1>2, <2>7
    <3>. QED
      BY <1>1, <2>1, <2>7, <3>1 DEF Promised, Served
  <2>8. CASE /\ client.pc = "drainWait" /\ stop
             /\ client' = Returned("Teardown", client.seq, FALSE)
    <3>1. client'.pc = "returned" /\ client'.seq = client.seq /\ client'.ok = FALSE
      BY <2>8 DEF Returned
    <3>2. stop'
      BY <2>1, <2>8
    <3>. QED
      BY <1>1, <2>1, <2>8, <3>1, <3>2 DEF Promised, Served
  <2>9. CASE /\ client.pc = "drainWait" /\ reclaimed = Len(sources)
             /\ client' = Returned("Teardown", client.seq, TRUE)
    <3>1. /\ client'.pc = "returned" /\ client'.seq = client.seq /\ client'.ok = TRUE
          /\ client'.action = "Teardown"
      BY <2>9 DEF Returned
    <3>. QED
      BY <1>1, <2>1, <2>9, <3>1 DEF Promised, Served
  <2>. QED
    BY <1>7, <2>2, <2>3, <2>4, <2>5, <2>6, <2>7, <2>8, <2>9 DEF ClientWaits
<1>8. CASE Background
  <2>1. UNCHANGED <<sources, transport, client>> /\ (stop => stop')
    BY <1>8 DEF Background
  <2>2. client.seq <= completed => client.seq <= completed'
    BY <1>3, <1>8 DEF Background
  <2>3. reclaimed = Len(sources) => reclaimed' = Len(sources)
    <3>1. /\ reclaimed' \in Nat /\ completed' \in Nat /\ reclaimed <= reclaimed'
          /\ reclaimed' <= completed' /\ completed' <= submitted
      BY <1>8 DEF Background
    <3>. QED
      BY <1>3, <3>1
  <2>. QED
    BY <1>1, <1>4, <2>1, <2>2, <2>3 DEF Promised, Served, Posted, Encoding
<1>9. ASSUME NEW c \in 1 .. MaxChunk, NEW action \in Actions, ControlMoves(c, action)
      PROVE  Promised'
  <2>1. CASE ControlRefused(action)
    <3>1. client' = Returned(action, Len(sources'), FALSE) /\ transport'.requested
      BY <2>1 DEF ControlRefused
    <3>. QED
      BY <3>1 DEF Promised, Served, Returned
  <2>2. CASE ControlReused(c, action)
    <3>1. /\ client'.pc = "returned" /\ client'.seq = Len(sources') /\ client'.ok = TRUE
          /\ client'.action = "ClosePass"
      BY <2>2 DEF ControlReused, Returned
    <3>2. covered = Len(sources') /\ ~ session.pass /\ ~ Encoding
      BY <2>2 DEF ControlReused, SessionInv, Witnessed
    <3>. QED
      BY <1>4, <3>1, <3>2 DEF Promised, Served, Encoding
  <2>3. CASE ControlPosts(c, action)
    <3>1. Posts(action, c, Len(sources')) /\ transport \in Transports
      BY <2>3 DEF ControlPosts, SessionInv, Types
    <3>2. /\ client'.pc = "ackWait" /\ client'.ordinal = transport.next
          /\ client'.action = action /\ client'.seq = Len(sources')
      BY <2>3 DEF ControlPosts
    <3>3. /\ Len(transport.ordered) \in Nat
          /\ Len(transport'.ordered) = Len(transport.ordered) + 1
          /\ transport'.ordered[Len(transport.ordered) + 1] = Event(action, c, Len(sources'))
      BY <3>1, PostsAppend
    <3>4. Len(transport.ordered) + 1 \in 1 .. Len(transport'.ordered)
      BY <3>3
    <3>5. Posted'
      BY <3>2, <3>3, <3>4 DEF Posted, Event
    <3>6. transport'.acked = transport.acked
      BY <3>1 DEF Posts
    <3>7. ~ Served'
      BY <1>2, <3>2, <3>6 DEF Served
    <3>. QED
      BY <3>2, <3>5, <3>7 DEF Promised
  <2>. QED
    BY <1>9, <2>1, <2>2, <2>3 DEF ControlMoves
<1>. QED
  BY <1>5, <1>6, <1>7, <1>8, <1>9 DEF ClientKind

\* What the replay thread was promised survives a coordinator's step that keeps
\* the event and does not acknowledge it.
LEMMA KeptPromises ==
  ASSUME SessionInv, CoordStays, transport'.requested = transport.requested,
         transport'.acked = transport.acked, Posted => Posted',
         covered' = covered \/ (covered < Len(sources) /\ ~ Served),
         submitted <= submitted', submitted' \in Nat,
         session.pass = session'.pass \/ ~ session'.pass \/ Encoding,
         Encoding' => Encoding \/ ~ Served
  PROVE  Promised'
<1>1. /\ client.pc \in {"ackWait", "gpuWait"} => client.action \in Actions
      /\ client.pc \in {"terminalWait", "terminalGpuWait", "drainWait"} =>
           client.action = "Teardown"
      /\ client.pc # "run" => client.seq = Len(sources)
      /\ client.pc = "run" => client = Resting
      /\ client.pc = "ackWait" /\ transport.acked < client.ordinal => Posted
      /\ Served => /\ covered = client.seq
                   /\ client.action = "ClosePass" => ~ session.pass /\ ~ Encoding
                   /\ client.action # "ClosePass" => client.seq <= submitted
      /\ client.pc = "returned" =>
           IF client.ok
           THEN /\ client.action = "SubmitAndWait" => client.seq <= completed
                /\ client.action = "Teardown" => reclaimed = Len(sources)
           ELSE stop \/ transport.requested
  BY DEF SessionInv, Promised
<1>2. UNCHANGED <<sources, completed, reclaimed, client, stop>>
  BY DEF CoordStays
<1>3. Served' = Served
  BY <1>2 DEF Served
<1>4. submitted \in Nat /\ client.seq \in Nat
  BY Bounds DEF SessionInv, Marks, Types
<1>5. client.seq <= submitted => client.seq <= submitted'
  BY <1>4
<1>6. Served => /\ covered' = client.seq
                /\ client.action = "ClosePass" => ~ session'.pass /\ ~ Encoding'
                /\ client.action # "ClosePass" => client.seq <= submitted'
  BY <1>1, <1>5
<1>. QED
  BY <1>1, <1>2, <1>3, <1>6 DEF Promised

\* An acknowledgement keeps what was promised, and promises to the thread whose
\* event it acknowledges what the coordinator has just done.
LEMMA AckPromised ==
  ASSUME SessionInv, NEW e, NEW closed, Acknowledges(e, closed)
  PROVE  Promised'
<1>1. /\ client.pc \in {"ackWait", "gpuWait"} => client.action \in Actions
      /\ client.pc \in {"terminalWait", "terminalGpuWait", "drainWait"} =>
           client.action = "Teardown"
      /\ client.pc # "run" => client.seq = Len(sources)
      /\ client.pc = "run" => client = Resting
      /\ client.pc = "ackWait" /\ transport.acked < client.ordinal => Posted
      /\ Served => /\ covered = client.seq
                   /\ client.action = "ClosePass" => ~ session.pass /\ ~ Encoding
                   /\ client.action # "ClosePass" => client.seq <= submitted
      /\ client.pc = "returned" =>
           IF client.ok
           THEN /\ client.action = "SubmitAndWait" => client.seq <= completed
                /\ client.action = "Teardown" => reclaimed = Len(sources)
           ELSE stop \/ transport.requested
  BY DEF SessionInv, Promised
<1>2. /\ UNCHANGED <<sources, completed, reclaimed, client, stop, covered, submitted>>
      /\ Acks(e) /\ e \in Events /\ e # NoEvent /\ e.seq <= covered
      /\ e = NextOf(transport)
  BY DEF Acknowledges, AckEffects, CoordStays
<1>3. /\ transport'.acked = e.ordinal /\ transport'.requested = transport.requested
      /\ transport.acked < e.ordinal
  BY <1>2, NextFacts DEF Acks, SessionInv, Types, Fifo
<1>4. /\ covered \in Nat /\ Len(sources) \in Nat /\ covered <= Len(sources)
      /\ submitted \in Nat /\ submitted <= covered
      /\ e.ordinal \in Nat /\ e.seq \in Nat /\ client.ordinal \in Nat /\ transport.acked \in Nat
      /\ session \in [last : 0 .. MaxSources, raw : 0 .. MaxChunk, pass : BOOLEAN]
  BY <1>2, Bounds DEF SessionInv, Marks, Types, Transports, Events
<1>5. ~ Encoding' /\ ~ Encoding
  BY DEF Acknowledges, AckEffects, AtTop, Encoding
<1>6. session'.pass = session.pass \/ session'.pass = FALSE
  BY <1>4 DEF Acknowledges
<1>7. Served => Served'
  BY <1>2, <1>3, <1>4 DEF Served
<1>8. ASSUME Served
      PROVE  /\ covered = client.seq
             /\ client.action = "ClosePass" => ~ session'.pass
             /\ client.action # "ClosePass" => client.seq <= submitted
  BY <1>1, <1>6, <1>8
<1>9. ASSUME client.pc = "ackWait", transport.acked < client.ordinal,
             client.ordinal = e.ordinal, client.action = e.action, client.seq = e.seq
      PROVE  /\ covered = client.seq
             /\ client.action = "ClosePass" => ~ session'.pass
             /\ client.action # "ClosePass" => client.seq <= submitted
  <2>1. covered = client.seq
    <3>1. client.seq = Len(sources)
      BY <1>1, <1>9
    <3>. QED
      BY <1>2, <1>4, <1>9, <3>1
  <2>2. Serving /\ Carried
    BY DEF SessionInv
  <2>3. CASE coord.pc = "top" /\ session = NoSession /\ UNCHANGED session
    <3>1. submitted = covered
      BY <2>2, <2>3 DEF Carried, Encoding, NoSession
    <3>2. ~ session'.pass
      BY <2>3 DEF NoSession
    <3>3. client.seq <= submitted
      BY <1>4, <2>1, <3>1
    <3>. QED
      BY <2>1, <3>2, <3>3
  <2>4. CASE /\ coord.pc = "close" /\ coord.rel = e
             /\ session' = [session EXCEPT !.pass = FALSE]
    <3>1. e.action = "ClosePass"
      BY <1>2, <2>2, <2>4 DEF Serving
    <3>2. ~ session'.pass
      BY <1>4, <2>4
    <3>. QED
      BY <1>9, <2>1, <3>1, <3>2
  <2>5. CASE coord.pc = "ack" /\ coord.rel = e
    <3>1. e.action # "ClosePass" /\ e.seq <= submitted
      BY <1>2, <2>2, <2>5 DEF Serving
    <3>. QED
      BY <1>9, <2>1, <3>1
  <2>. QED
    BY <2>3, <2>4, <2>5 DEF Acknowledges
<1>10. ASSUME client.pc = "ackWait", transport.acked < client.ordinal
       PROVE  \/ /\ client.ordinal = e.ordinal /\ client.action = e.action
                 /\ client.seq = e.seq
              \/ transport'.acked < client.ordinal /\ Posted'
  BY <1>2, <1>10, PostedAcked
<1>11. ASSUME Served'
       PROVE  /\ covered = client.seq
              /\ client.action = "ClosePass" => ~ session'.pass
              /\ client.action # "ClosePass" => client.seq <= submitted
  <2>1. CASE Served
    BY <1>8, <2>1
  <2>2. CASE ~ Served
    <3>1. client.pc = "ackWait" /\ client.ordinal <= transport'.acked
          /\ transport.acked < client.ordinal
      BY <1>2, <1>4, <1>11, <2>2 DEF Served
    <3>2. ~ (transport'.acked < client.ordinal)
      BY <1>3, <1>4, <3>1
    <3>. QED
      BY <1>9, <1>10, <3>1, <3>2
  <2>. QED
    BY <2>1, <2>2
<1>12. ASSUME client.pc = "ackWait", transport'.acked < client.ordinal
       PROVE  Posted'
  <2>1. transport.acked < client.ordinal
    BY <1>3, <1>4, <1>12
  <2>2. client.ordinal # e.ordinal
    BY <1>3, <1>4, <1>12
  <2>. QED
    BY <1>10, <1>12, <2>1, <2>2
<1>. QED
  BY <1>1, <1>2, <1>3, <1>5, <1>11, <1>12 DEF Promised

\* What the replay thread may rely on, through the coordinator's steps.
LEMMA CoordPromised ==
  ASSUME SessionInv, CoordKind
  PROVE  Promised'
<1>1. /\ submitted \in Nat /\ covered \in Nat /\ submitted <= covered
      /\ covered <= Len(sources) /\ Len(sources) \in Nat
      /\ session.pass \in BOOLEAN /\ session.last \in Nat
  BY Bounds DEF SessionInv, Marks, Types
<1>2. Carried /\ Promised
  BY DEF SessionInv
<1>3. ASSUME CoordStays, UNCHANGED <<covered, transport>>, submitted <= submitted',
             submitted' \in Nat, session.pass = session'.pass \/ ~ session'.pass \/ Encoding,
             Encoding' => Encoding
      PROVE  Promised'
  <2>1. Posted => Posted'
    BY <1>3 DEF Posted, CoordStays
  <2>. QED
    BY <1>3, <2>1, KeptPromises
<1>4. CASE Begins
  <2>1. ~ Encoding'
    BY <1>4 DEF Begins, AtTop, Encoding
  <2>. QED
    BY <1>1, <1>3, <1>4, <2>1 DEF Begins
<1>5. CASE \E e, closed : Acknowledges(e, closed)
  BY <1>5, AckPromised
<1>6. CASE Submits
  <2>1. ~ Encoding'
    <3>1. coord \in [pc : CoordPcs, rel : Events,
                     then : {"top", "topOrExit", "exited", "ack"}, serial : BOOLEAN]
      BY DEF SessionInv, Types
    <3>. QED
      BY <1>6, <3>1 DEF Submits, Encoding
  <2>2. submitted' = session.last /\ session.last # 0 /\ session'.pass = FALSE
    BY <1>2, <1>6 DEF Submits, Carried, NoSession
  <2>3. submitted <= submitted' /\ submitted' \in Nat
    BY <1>1, <1>2, <2>2 DEF Carried
  <2>. QED
    BY <1>3, <1>6, <2>1, <2>2, <2>3 DEF Submits
<1>7. CASE Releases
  <2>1. ~ Encoding' /\ CoordStays /\ UNCHANGED <<covered, submitted, session>>
    BY <1>7 DEF Releases, ReleasePosts, ReleaseDirect, AtTop, Encoding
  <2>2. CASE ReleasePosts
    <3>1. Posts("SubmitSession", session.raw, session.last) /\ transport.ordered = <<>>
      BY <2>2 DEF ReleasePosts
    <3>2. ~ Posted
      BY <3>1 DEF Posted
    <3>3. transport'.acked = transport.acked /\ transport'.requested = transport.requested
      BY <3>1 DEF Posts
    <3>. QED
      BY <1>1, <2>1, <3>2, <3>3, KeptPromises
  <2>3. CASE UNCHANGED transport
    BY <1>1, <1>3, <2>1, <2>3
  <2>. QED
    BY <1>7, <2>2, <2>3 DEF Releases, ReleaseDirect
<1>8. CASE CoordRests
  <2>1. ~ Encoding'
    BY <1>8 DEF CoordRests, AtTop, Encoding
  <2>. QED
    BY <1>1, <1>3, <1>8, <2>1 DEF CoordRests
<1>9. CASE \E last, next : Selects(last, next)
  <2>1. /\ CoordStays /\ UNCHANGED <<submitted, session, transport>> /\ covered < Len(sources)
    BY <1>1, <1>9 DEF Selects
  <2>2. ~ Served
    <3>1. Served => client.seq = Len(sources) /\ covered = client.seq
      BY <1>2 DEF Promised, Served
    <3>. QED
      BY <1>1, <2>1, <3>1
  <2>3. Posted => Posted'
    BY <2>1 DEF Posted, CoordStays
  <2>. QED
    BY <1>1, <2>1, <2>2, <2>3, KeptPromises
<1>10. CASE Encodes
  <2>1. ~ Encoding' /\ Encoding
    BY <1>10 DEF Encodes, AtTop, Encoding
  <2>2. submitted <= submitted' /\ submitted' \in Nat
    BY <1>1, <1>10 DEF Encodes
  <2>. QED
    BY <1>3, <1>10, <2>1, <2>2 DEF Encodes
<1>. QED
  BY <1>4, <1>5, <1>6, <1>7, <1>8, <1>9, <1>10 DEF CoordKind

-----------------------------------------------------------------------------
(* The theorems. *)

\* Nothing is published, posted, carried or promised at the start.
LEMMA InitSession ==
  ASSUME Init
  PROVE  SessionInv
<1>1. /\ sources = <<>> /\ writing = FALSE /\ chunk = 1
      /\ covered = 0 /\ coveredRaw = 0 /\ submitted = 0 /\ completed = 0 /\ reclaimed = 0
      /\ session = NoSession /\ witness = NoWitness /\ coord = AtTop /\ client = Resting
      /\ waiter = 0 /\ target = 0 /\ stop = FALSE /\ asleep = {} /\ aborted = FALSE
  BY DEF Init
<1>2. transport = [ordered |-> <<>>, terminal |-> NoEvent, next |-> 1, acked |-> 0,
                   lastRaw |-> 0, lastSeq |-> 0, requested |-> FALSE]
  BY DEF Init
<1>3. /\ 0 \in 0 .. MaxSources /\ 0 \in 0 .. MaxChunk /\ 1 \in 1 .. Larger(1, MaxChunk)
      /\ Len(<<>>) = 0
  BY Bounds DEF Larger
<1>4. transport \in Transports
  <2>1. <<>> \in Seq(Events) /\ NoEvent \in Events /\ 1 \in Nat /\ 0 \in Nat
    BY RecordTypes
  <2>. QED
    BY <1>2, <1>3, <2>1 DEF Transports
<1>5. /\ transport.ordered = <<>> /\ transport.terminal = NoEvent /\ transport.next = 1
      /\ transport.acked = 0 /\ transport.lastRaw = 0 /\ transport.lastSeq = 0
  BY <1>2
<1>6. Types
  <2>1. coord \in [pc : CoordPcs, rel : Events, then : {"top", "topOrExit", "exited", "ack"},
                   serial : BOOLEAN]
    BY <1>1, RecordTypes, "top" \in CoordPcs DEF CoordPcs
  <2>. QED
    BY <1>1, <1>3, <1>4, <2>1, RecordTypes DEF Types
<1>7. Marks
  <2>1. session.raw = 0
    BY <1>1 DEF NoSession
  <2>2. sources \in Seq(0 .. MaxChunk) /\ Len(sources) = 0
    BY <1>1
  <2>3. Len(sources) <= MaxSources /\ 1 .. Len(sources) = {}
    BY <2>2, Bounds
  <2>4. /\ session.raw <= chunk /\ transport.lastRaw <= chunk
        /\ transport.lastSeq <= Len(sources) /\ covered <= Len(sources)
    BY <1>1, <1>5, <2>1, <2>2
  <2>5. /\ submitted \in Nat /\ completed \in Nat /\ reclaimed \in Nat /\ covered \in Nat
        /\ reclaimed <= completed /\ completed <= submitted /\ submitted <= covered
    BY <1>1
  <2>6. writing \in BOOLEAN /\ ~ writing /\ coveredRaw \in 0 .. MaxChunk
        /\ chunk \in 1 .. Larger(1, MaxChunk)
    BY <1>1, <1>3
  <2>. QED
    BY <2>2, <2>3, <2>4, <2>5, <2>6 DEF Marks
<1>8. Fifo
  <2>1. Len(transport.ordered) = 0
    BY <1>5
  <2>. QED
    BY <1>5, <2>1 DEF Fifo, FifoOf, Short
<1>9. Carried /\ Serving /\ Witnessed
  BY <1>1 DEF Carried, Serving, Witnessed, Encoding, AtTop, NoSession
<1>10. Promised
  BY <1>1 DEF Promised, Served, Resting
<1>. QED
  BY <1>1, <1>6, <1>7, <1>8, <1>9, <1>10 DEF SessionInv

\* Every step keeps the invariant.
LEMMA NextSession ==
  ASSUME SessionInv, [Next]_vars
  PROVE  SessionInv'
<1>1. CASE UNCHANGED vars
  BY <1>1 DEF vars, SessionInv, Types, Marks, Fifo, Short, Posted, Carried, Encoding, Serving,
              Witnessed, Promised, Served
<1>2. CASE Next
  <2>1. ClientKind \/ CoordKind
    BY <1>2, NextKinds
  <2>2. Types' /\ Marks'
    BY <2>1, ClientTypes, CoordTypes, ClientMarks, CoordMarks
  <2>3. Fifo'
    BY <2>1, KeepsFifo, KeepsShort DEF Fifo
  <2>4. Carried' /\ Serving' /\ Witnessed' /\ ~ aborted'
    BY <2>1, KeepsCarried, KeepsServing, KeepsWitnessed, KeepsAccepted
  <2>5. Promised'
    BY <2>1, ClientPromised, CoordPromised
  <2>. QED
    BY <2>2, <2>3, <2>4, <2>5 DEF SessionInv
<1>. QED
  BY <1>1, <1>2

\* The inductive invariant of the release protocol: the coordinator and the
\* threads that post to it (dxmt9_session_release.cpp).
THEOREM ReleaseInvariant == Spec => []SessionInv
<1>1. Init => SessionInv
  BY InitSession
<1>2. SessionInv /\ [Next]_vars => SessionInv'
  BY NextSession
<1>. QED
  BY <1>1, <1>2, PTL DEF Spec

\* acknowledge and acknowledgeClose, entered again after the mutex was released,
\* always find the event they served at the head of the transport and covered:
\* abortCpuReadySessionFailOpen is never reached.
THEOREM ReleaseAccepted == Spec => []AckNeverRejected
<1>1. SessionInv => AckNeverRejected
  BY DEF SessionInv, AckNeverRejected
<1>. QED
  BY <1>1, ReleaseInvariant, PTL

\* An ordered control or a teardown that returns successfully was given what it
\* asked for, and one is refused only by a stopped queue or after a teardown
\* (releaseCpuReadySessionBeforeOrderedControl, beginFinalWsiQuiescence).
THEOREM ReleaseCorrect == Spec => []ReleaseCovers
<1>1. SessionInv => ReleaseCovers
  <2>. SUFFICES ASSUME SessionInv, client.pc = "returned"
                PROVE  IF client.ok
                       THEN /\ covered >= client.seq
                            /\ client.action = "ClosePass" => ~ session.pass
                            /\ client.action = "SubmitSession" => submitted >= client.seq
                            /\ client.action = "SubmitAndWait" => completed >= client.seq
                            /\ client.action = "Teardown" => reclaimed = Published /\ ~ Open
                       ELSE stop \/ transport.requested
    BY DEF ReleaseCovers
  <2>1. /\ submitted \in Nat /\ completed \in Nat /\ reclaimed \in Nat /\ covered \in Nat
        /\ reclaimed <= completed /\ completed <= submitted
        /\ submitted <= covered /\ covered <= Len(sources) /\ Len(sources) \in Nat
        /\ client.seq \in Nat /\ session.last \in Nat
    BY Bounds DEF SessionInv, Marks, Types
  <2>2. CASE ~ client.ok
    BY <2>2 DEF SessionInv, Promised
  <2>3. CASE client.ok /\ client.action = "Teardown"
    <3>1. reclaimed = Len(sources) /\ client.seq = Len(sources)
      BY <2>3 DEF SessionInv, Promised
    <3>2. submitted = covered /\ covered = Len(sources)
      BY <2>1, <3>1
    <3>3. session = NoSession
      <4>1. session.last = 0
        BY <2>1, <3>2 DEF SessionInv, Carried
      <4>. QED
        BY <4>1 DEF SessionInv, Carried
    <3>. QED
      BY <2>1, <2>3, <3>1, <3>2, <3>3 DEF Published, Open
  <2>4. CASE client.ok /\ client.action # "Teardown"
    <3>1. Served
      BY <2>4 DEF Served
    <3>2. /\ covered = client.seq
          /\ client.action = "ClosePass" => ~ session.pass
          /\ client.action # "ClosePass" => client.seq <= submitted
          /\ client.action = "SubmitAndWait" => client.seq <= completed
      BY <2>4, <3>1 DEF SessionInv, Promised
    <3>. QED
      BY <2>1, <2>4, <3>2
  <2>. QED
    BY <2>2, <2>3, <2>4
<1>. QED
  BY <1>1, ReleaseInvariant, PTL

\* The fences of the pending events increase with their ordinals.
LEMMA PendingOrder ==
  ASSUME transport \in Transports, FifoOf(transport)
  PROVE  LET q == transport.ordered
             pending == {q[i] : i \in DOMAIN q} \cup ({transport.terminal} \ {NoEvent})
         IN  /\ \A e, f \in pending :
                  e.ordinal < f.ordinal => e.raw <= f.raw /\ e.seq <= f.seq
             /\ \A e \in pending : /\ transport.acked < e.ordinal
                                   /\ e.ordinal < transport.next
                                   /\ e.seq <= transport.lastSeq /\ e \in Events
<1>. DEFINE q == transport.ordered
            t == transport.terminal
            pending == {q[i] : i \in DOMAIN q} \cup ({t} \ {NoEvent})
<1>1. q \in Seq(Events) /\ t \in Events /\ DOMAIN q = 1 .. Len(q) /\ Len(q) \in Nat
  BY DEF Transports
<1>2. \A i \in 1 .. Len(q) :
        /\ transport.acked < q[i].ordinal /\ q[i].ordinal < transport.next
        /\ q[i].seq <= transport.lastSeq /\ q[i] \in Events
  BY <1>1 DEF FifoOf
<1>3. \A i, j \in 1 .. Len(q) : i < j =>
        /\ q[i].ordinal < q[j].ordinal
        /\ q[i].seq <= q[j].seq /\ q[i].raw <= q[j].raw
  BY DEF FifoOf
<1>4. t # NoEvent =>
        /\ transport.acked < t.ordinal /\ t.ordinal < transport.next
        /\ t.seq <= transport.lastSeq
        /\ \A i \in 1 .. Len(q) :
             q[i].ordinal < t.ordinal /\ q[i].seq <= t.seq /\ q[i].raw <= t.raw
  BY DEF FifoOf
<1>. HIDE DEF q, t
<1>5. \A e \in pending : (\E i \in 1 .. Len(q) : e = q[i]) \/ (e = t /\ t # NoEvent)
  BY <1>1
<1>6. \A e \in pending : /\ transport.acked < e.ordinal /\ e.ordinal < transport.next
                         /\ e.seq <= transport.lastSeq /\ e \in Events
  BY <1>1, <1>2, <1>4, <1>5
<1>7. ASSUME NEW e \in pending, NEW f \in pending, e.ordinal < f.ordinal
      PROVE  e.raw <= f.raw /\ e.seq <= f.seq
  <2>1. /\ e.ordinal \in Nat /\ f.ordinal \in Nat /\ e \in Events /\ f \in Events
    BY <1>6 DEF Events
  <2>2. CASE \E i \in 1 .. Len(q) : e = q[i]
    <3>1. PICK i \in 1 .. Len(q) : e = q[i]
      BY <2>2
    <3>2. CASE \E j \in 1 .. Len(q) : f = q[j]
      <4>1. PICK j \in 1 .. Len(q) : f = q[j]
        BY <3>2
      <4>2. ~ (j < i)
        BY <1>3, <1>7, <2>1, <3>1, <4>1
      <4>3. i # j
        BY <1>7, <2>1, <3>1, <4>1
      <4>4. i < j
        BY <1>1, <4>2, <4>3
      <4>. QED
        BY <1>3, <3>1, <4>1, <4>4
    <3>3. CASE f = t /\ t # NoEvent
      BY <1>4, <3>1, <3>3
    <3>. QED
      BY <1>5, <3>2, <3>3
  <2>3. CASE e = t /\ t # NoEvent
    <3>1. CASE \E j \in 1 .. Len(q) : f = q[j]
      <4>1. PICK j \in 1 .. Len(q) : f = q[j]
        BY <3>1
      <4>2. f.ordinal < e.ordinal
        BY <1>4, <2>3, <4>1
      <4>. QED
        BY <1>7, <2>1, <4>2
    <3>2. CASE f = t
      BY <1>7, <2>1, <2>3, <3>2
    <3>. QED
      BY <1>5, <3>1, <3>2
  <2>. QED
    BY <1>5, <2>2, <2>3
<1>. QED
  BY <1>6, <1>7 DEF q, t

\* The transport is a short FIFO of increasing fences, whose head is the event the
\* coordinator serves; the watermarks are ordered, and the carried session and the
\* receipt are what they stand for (SessionReleaseState, ClosedPrefixCoordinator).
THEOREM ReleaseFifo == Spec => []TransportExact
<1>1. SessionInv => TransportExact
  <2>. SUFFICES ASSUME SessionInv
                PROVE  TransportExact
    OBVIOUS
  <2>. DEFINE q == transport.ordered
              t == transport.terminal
              pending == {q[i] : i \in DOMAIN q} \cup ({t} \ {NoEvent})
  <2>1. /\ transport \in Transports /\ FifoOf(transport) /\ q \in Seq(Events) /\ t \in Events
        /\ DOMAIN q = 1 .. Len(q)
    BY DEF SessionInv, Types, Fifo, Transports
  <2>2. TypeOK
    <3>1. /\ sources \in Seq(0 .. MaxChunk) /\ writing \in BOOLEAN
          /\ chunk \in 1 .. Larger(1, MaxChunk) /\ coveredRaw \in 0 .. MaxChunk
      BY DEF SessionInv, Marks
    <3>2. /\ session \in [last : 0 .. MaxSources, raw : 0 .. MaxChunk, pass : BOOLEAN]
          /\ coord.rel \in Events /\ waiter \in 0 .. MaxSources /\ target \in 0 .. MaxSources
          /\ asleep \subseteq {"coord", "client"}
      BY DEF SessionInv, Types
    <3>3. \A i \in DOMAIN q : q[i] \in Events
      BY <2>1
    <3>. QED
      BY <2>1, <3>1, <3>2, <3>3 DEF TypeOK, Events
  <2>3. Len(q) <= 2
    BY DEF SessionInv, Fifo, Short
  <2>4. /\ \A e, f \in pending : e.ordinal < f.ordinal => e.raw <= f.raw /\ e.seq <= f.seq
        /\ \A e \in pending : /\ transport.acked < e.ordinal /\ e.ordinal < transport.next
                              /\ e.seq <= transport.lastSeq /\ e \in Events
    BY <2>1, PendingOrder
  <2>5. \A e \in pending : e.seq <= Published
    <3>1. /\ transport.lastSeq <= Len(sources) /\ transport.lastSeq \in Nat
          /\ Len(sources) \in Nat
      BY Bounds DEF SessionInv, Marks, Types, Transports
    <3>2. \A e \in pending : e.seq \in Nat /\ e.seq <= transport.lastSeq
      BY <2>4, Bounds DEF Events
    <3>. HIDE DEF pending
    <3>. QED
      BY <3>1, <3>2 DEF Published
  <2>6. \A i \in 1 .. Len(q) - 1 : q[i].ordinal < q[i + 1].ordinal
    <3>1. Len(q) \in Nat
      BY <2>1
    <3>2. \A i \in 1 .. Len(q) - 1 : i \in 1 .. Len(q) /\ i + 1 \in 1 .. Len(q) /\ i < i + 1
      BY <3>1
    <3>. QED
      BY <2>1, <3>2 DEF FifoOf
  <2>7. coord.rel # NoEvent => coord.rel = PeekNext
    BY <2>1, PeekIs DEF SessionInv, Serving
  <2>8. /\ reclaimed <= completed /\ completed <= submitted
        /\ submitted <= covered /\ covered <= Published
    BY DEF SessionInv, Marks, Published
  <2>9. (submitted < covered /\ coord.pc \notin {"encode", "encodeAlone"})
           => Open /\ session.last = covered
    <3>. SUFFICES ASSUME submitted < covered, coord.pc \notin {"encode", "encodeAlone"}
                  PROVE  Open /\ session.last = covered
      OBVIOUS
    <3>1. submitted \in Nat /\ covered \in Nat
      BY DEF SessionInv, Marks
    <3>2. IF session.last = 0 THEN submitted = covered ELSE session.last = covered
      BY DEF SessionInv, Carried, Encoding
    <3>3. session.last = covered /\ session.last # 0
      BY <3>1, <3>2
    <3>. QED
      BY <3>3 DEF Open, NoSession
  <2>10. witness # NoWitness =>
           /\ witness.published <= covered /\ ~ session.pass
           /\ coord.pc \notin {"encode", "encodeAlone"}
    BY DEF SessionInv, Witnessed, Encoding
  <2>. QED
    BY <2>2, <2>3, <2>4, <2>5, <2>6, <2>7, <2>8, <2>9, <2>10 DEF TransportExact
<1>. QED
  BY <1>1, ReleaseInvariant, PTL

===============================================================================

------------------------------ MODULE TracerProofs -----------------------------
(***************************************************************************)
(* Proofs about Tracer, for any number of workers and events and any       *)
(* capacities of ring buffer and channel: the types; that every event is   *)
(* in one place, that the places keep the kernel's order and that the      *)
(* counters tell where the events are; and that Stop cannot kill the       *)
(* process unless the poller had read an event before the reader was       *)
(* closed.                                                                 *)
(***************************************************************************)
EXTENDS Tracer, SequenceTheorems, FiniteSetTheorems, TLAPS

\* What is sent or handled is an event, and the buffers keep their capacities.
Holding ==
    /\ poller.pc = "send" => poller.event # NoEvent
    /\ \A c \in Consumers : consumer[c].pc = "handle" => consumer[c].event # NoEvent
    /\ Len(ring) <= RingSize
    /\ Len(eventChan) <= ChanSize

Inv == TypeOK /\ Holding

Poller == [pc : {"select", "read", "send", "count", "exited"}, event : {NoEvent} \cup Ids]
Consumer == [pc : {"select", "handle", "exited"}, event : {NoEvent} \cup Ids]

-----------------------------------------------------------------------------
\* The invariant holds at first.
LEMMA InvInit == Init => Inv
<1> SUFFICES ASSUME Init PROVE Inv
  OBVIOUS
<1>1. Len(<<>>) = 0 /\ 0 <= RingSize /\ 0 <= ChanSize /\ 0 \in 0..MaxEvents /\ 0 \in 0..MaxErrors
  BY SizeAssumption, MaxAssumption
<1>2. /\ ring = <<>> /\ eventChan = <<>> /\ poller = [pc |-> "select", event |-> NoEvent]
      /\ consumer = [c \in Consumers |-> [pc |-> "select", event |-> NoEvent]]
      /\ kernel = [total |-> 0, dropped |-> 0, sent |-> 0] /\ errors = 0
      /\ handled = {} /\ lost = {} /\ processedEvents = 0 /\ droppedEvents = 0
      /\ ctxDone = FALSE /\ stop = "no" /\ statsPoller = "waiting" /\ panicked = FALSE
  BY DEF Init
<1>3. kernel \in [total : 0..MaxEvents, dropped : Nat, sent : Nat] /\ errors \in 0..MaxErrors
  BY <1>1, <1>2
<1>4. poller \in Poller /\ consumer \in [Consumers -> Consumer]
  BY <1>2 DEF Poller, Consumer
<1>5. ring \in Seq(Ids) /\ eventChan \in Seq(Ids) /\ handled \subseteq Ids /\ lost \subseteq Ids
  BY <1>2
<1>6. TypeOK
  BY <1>2, <1>3, <1>4, <1>5 DEF TypeOK, Poller, Consumer
<1>7. Holding
  <2>1. \A c \in Consumers : consumer[c].pc = "select"
    BY <1>2
  <2> QED
    BY <1>1, <1>2, <2>1 DEF Holding
<1> QED
  BY <1>6, <1>7 DEF Inv

\* The kernel adds an event; the numbers of the earlier ones stay valid.
LEMMA SendEventInv ==
    ASSUME Inv, SendEvent
    PROVE  Inv'
<1>1. /\ kernel \in [total : 0..MaxEvents, dropped : Nat, sent : Nat]
      /\ kernel.total < MaxEvents
      /\ ring \in Seq(Ids) /\ eventChan \in Seq(Ids) /\ poller \in Poller
      /\ consumer \in [Consumers -> Consumer] /\ handled \subseteq Ids /\ lost \subseteq Ids
  BY DEF Inv, TypeOK, SendEvent, Poller, Consumer
<1>2. /\ kernel' \in [total : 0..MaxEvents, dropped : Nat, sent : Nat]
      /\ kernel'.total = kernel.total + 1
  <2>1. \/ kernel' = [kernel EXCEPT !.total = @ + 1, !.sent = @ + 1]
        \/ kernel' = [kernel EXCEPT !.total = @ + 1, !.dropped = @ + 1]
    BY DEF SendEvent
  <2>2. /\ kernel.total \in Nat /\ kernel.dropped \in Nat /\ kernel.sent \in Nat
        /\ kernel.total + 1 \in 0..MaxEvents
    BY <1>1, MaxAssumption
  <2>3. \/ kernel' = [total |-> kernel.total + 1, dropped |-> kernel.dropped, sent |-> kernel.sent + 1]
        \/ kernel' = [total |-> kernel.total + 1, dropped |-> kernel.dropped + 1, sent |-> kernel.sent]
    BY <1>1, <2>1
  <2> QED
    BY <2>2, <2>3
<1>3. Ids \subseteq Ids' /\ kernel.total + 1 \in Ids'
  BY <1>1, <1>2 DEF Ids
<1>4. /\ UNCHANGED <<eventChan, poller, consumer, handled, processedEvents,
                     droppedEvents, errors, ctxDone, stop, statsPoller, panicked>>
      /\ lost' \subseteq lost \cup {kernel.total + 1}
  BY DEF SendEvent
<1>5. ring \in Seq(Ids') /\ eventChan' \in Seq(Ids')
  BY <1>1, <1>3, <1>4, SeqMonotonic
<1>6. ring' \in Seq(Ids') /\ Len(ring') <= RingSize
  <2>1. CASE Len(ring) < RingSize /\ ring' = Append(ring, kernel.total + 1)
    BY <1>3, <1>5, <2>1, AppendProperties, LenProperties, SizeAssumption
  <2>2. CASE ring' = ring
    BY <1>5, <2>2 DEF Inv, Holding
  <2> QED
    BY <2>1, <2>2 DEF SendEvent
<1>7. poller' \in Poller' /\ consumer' \in [Consumers -> Consumer']
  BY <1>1, <1>3, <1>4 DEF Poller, Consumer
<1>8. handled' \subseteq Ids' /\ lost' \subseteq Ids'
  BY <1>1, <1>3, <1>4
<1>9. TypeOK'
  BY <1>2, <1>4, <1>5, <1>6, <1>7, <1>8 DEF Inv, TypeOK, Poller, Consumer
<1> QED
  BY <1>4, <1>5, <1>6, <1>9 DEF Inv, Holding

\* A step of the poller leaves the kernel's numbers alone, and what it reads, sends
\* or loses is an event.
LEMMA PollerInv ==
    ASSUME Inv, PollerStep
    PROVE  Inv'
<1>1. /\ kernel \in [total : 0..MaxEvents, dropped : Nat, sent : Nat]
      /\ ring \in Seq(Ids) /\ eventChan \in Seq(Ids) /\ poller \in Poller
      /\ handled \subseteq Ids /\ lost \subseteq Ids
      /\ droppedEvents \in Nat /\ processedEvents \in Nat /\ errors \in 0..MaxErrors
  BY DEF Inv, TypeOK, Poller
<1>2. /\ kernel' = kernel /\ Ids' = Ids
      /\ UNCHANGED <<consumer, handled, ctxDone, stop, statsPoller>>
  BY DEF PollerStep, PollSelect, PollRead, PollMalformed, PollError, PollClosed, PollSend,
         PollCount, Ids
<1>3. ASSUME ring' \in Seq(Ids), eventChan' \in Seq(Ids), poller' \in Poller, lost' \subseteq Ids,
             droppedEvents' \in Nat, processedEvents' \in Nat, errors' \in 0..MaxErrors,
             panicked' \in BOOLEAN, Len(ring') <= RingSize, Len(eventChan') <= ChanSize,
             poller'.pc = "send" => poller'.event # NoEvent
      PROVE  Inv'
  BY <1>2, <1>3 DEF Inv, TypeOK, Holding, Poller
<1>4. ring # <<>> => /\ Head(ring) \in Ids /\ Head(ring) # NoEvent /\ Tail(ring) \in Seq(Ids)
                     /\ Len(Tail(ring)) <= Len(ring)
  <2> SUFFICES ASSUME ring # <<>>
               PROVE  /\ Head(ring) \in Ids /\ Head(ring) # NoEvent /\ Tail(ring) \in Seq(Ids)
                      /\ Len(Tail(ring)) <= Len(ring)
    OBVIOUS
  <2>1. Head(ring) \in Ids /\ Tail(ring) \in Seq(Ids) /\ Len(Tail(ring)) = Len(ring) - 1
    BY <1>1, HeadTailProperties
  <2> QED
    BY <1>1, <2>1, LenProperties DEF Ids, NoEvent
<1>5. /\ Len(ring) \in Nat /\ Len(eventChan) \in Nat
      /\ Len(ring) <= RingSize /\ Len(eventChan) <= ChanSize
      /\ poller.pc = "send" => poller.event \in Ids
      /\ panicked \in BOOLEAN
  BY <1>1, LenProperties DEF Inv, TypeOK, Holding, Poller
<1>6. CASE PollSelect
  <2>1. poller' \in Poller /\ poller'.pc # "send"
    BY <1>1, <1>6 DEF PollSelect, Poller
  <2> QED
    BY <1>1, <1>3, <1>5, <1>6, <2>1 DEF PollSelect
<1>7. CASE PollRead
  <2>1. poller' = [pc |-> "send", event |-> Head(ring)] /\ ring' = Tail(ring) /\ ring # <<>>
    BY <1>7 DEF PollRead
  <2>2. poller' \in Poller /\ poller'.event # NoEvent
    BY <1>4, <2>1 DEF Poller
  <2>3. Len(ring') <= RingSize
    BY <1>1, <1>4, <1>5, <2>1, LenProperties, SizeAssumption
  <2> QED
    BY <1>1, <1>3, <1>4, <1>5, <1>7, <2>1, <2>2, <2>3 DEF PollRead
<1>8. CASE PollMalformed
  <2>1. poller' \in Poller /\ poller'.pc # "send"
    BY <1>1, <1>8 DEF PollMalformed, Poller
  <2>2. Len(ring') <= RingSize /\ ring' \in Seq(Ids) /\ lost' \subseteq Ids
    BY <1>1, <1>4, <1>5, <1>8, LenProperties, SizeAssumption DEF PollMalformed
  <2>3. errors' \in 0..MaxErrors /\ droppedEvents' \in Nat
    BY <1>1, <1>8, MaxAssumption DEF PollMalformed
  <2> QED
    BY <1>1, <1>3, <1>5, <1>8, <2>1, <2>2, <2>3 DEF PollMalformed
<1>9. ASSUME NEW temporary \in BOOLEAN, PollError(temporary) PROVE Inv'
  <2>1. poller' \in Poller /\ poller'.pc # "send"
    BY <1>1, <1>9 DEF PollError, Poller
  <2>2. errors' \in 0..MaxErrors /\ droppedEvents' \in Nat
    BY <1>1, <1>9, MaxAssumption DEF PollError
  <2> QED
    BY <1>1, <1>3, <1>5, <1>9, <2>1, <2>2 DEF PollError
<1>10. CASE PollClosed
  <2>1. poller' \in Poller /\ poller'.pc # "send" /\ droppedEvents' \in Nat
    BY <1>1, <1>10 DEF PollClosed, Poller
  <2> QED
    BY <1>1, <1>3, <1>5, <1>10, <2>1 DEF PollClosed
<1>11. CASE PollSend
  <2>1. poller.event \in Ids /\ UNCHANGED <<ring, errors>>
    BY <1>5, <1>11 DEF PollSend
  <2>2. /\ Append(eventChan, poller.event) \in Seq(Ids)
        /\ Len(Append(eventChan, poller.event)) = Len(eventChan) + 1
    BY <1>1, <2>1, AppendProperties
  <2>3. /\ [pc |-> "select", event |-> NoEvent] \in Poller
        /\ [pc |-> "count", event |-> NoEvent] \in Poller
        /\ processedEvents' = processedEvents
    BY <1>11 DEF Poller, PollSend
  <2>4. CASE panicked' = TRUE /\ UNCHANGED <<eventChan, poller, lost, droppedEvents>>
    BY <1>1, <1>3, <1>5, <2>1, <2>3, <2>4 DEF Inv, Holding
  <2>5. CASE /\ Len(eventChan) < ChanSize /\ eventChan' = Append(eventChan, poller.event)
             /\ poller' = [pc |-> "count", event |-> NoEvent]
             /\ UNCHANGED <<lost, droppedEvents, panicked>>
    <3>1. Len(eventChan') <= ChanSize
      BY <1>1, <1>5, <2>2, <2>5, SizeAssumption
    <3> QED
      BY <1>1, <1>3, <1>5, <2>1, <2>2, <2>3, <2>5, <3>1
  <2>6. CASE /\ lost' = lost \cup {poller.event} /\ droppedEvents' = droppedEvents + 1
             /\ poller' = [pc |-> "select", event |-> NoEvent]
             /\ UNCHANGED <<eventChan, panicked>>
    <3>1. droppedEvents' \in Nat /\ lost' \subseteq Ids
      BY <1>1, <2>1, <2>6
    <3> QED
      BY <1>1, <1>3, <1>5, <2>1, <2>3, <2>6, <3>1
  <2> QED
    BY <1>11, <2>4, <2>5, <2>6 DEF PollSend
<1>12. CASE PollCount
  <2>1. poller' \in Poller /\ poller'.pc # "send" /\ processedEvents' \in Nat
    BY <1>1, <1>12 DEF PollCount, Poller
  <2> QED
    BY <1>1, <1>3, <1>5, <1>12, <2>1 DEF PollCount
<1> QED
  BY <1>6, <1>7, <1>8, <1>9, <1>10, <1>11, <1>12 DEF PollerStep

\* What a consumer takes from the channel and handles is an event.
LEMMA ConsumerInv ==
    ASSUME Inv, NEW c \in Consumers, ConsumerStep(c)
    PROVE  Inv'
<1>1. /\ eventChan \in Seq(Ids) /\ consumer \in [Consumers -> Consumer] /\ handled \subseteq Ids
      /\ Len(eventChan) <= ChanSize
  BY DEF Inv, TypeOK, Holding, Consumer
<1>2. /\ kernel' = kernel /\ Ids' = Ids
      /\ UNCHANGED <<ring, poller, lost, processedEvents, droppedEvents, errors, ctxDone,
                     stop, statsPoller, panicked>>
  BY DEF ConsumerStep, Take, Handle, Exit, Ids
<1>3. ASSUME eventChan' \in Seq(Ids), Len(eventChan') <= ChanSize,
             consumer' \in [Consumers -> Consumer], handled' \subseteq Ids,
             \A d \in Consumers \ {c} : consumer'[d] = consumer[d],
             consumer'[c].pc = "handle" => consumer'[c].event # NoEvent
      PROVE  Inv'
  BY <1>2, <1>3 DEF Inv, TypeOK, Holding, Consumer
<1>4. CASE Take(c)
  <2>1. Head(eventChan) \in Ids /\ Tail(eventChan) \in Seq(Ids)
        /\ Len(Tail(eventChan)) = Len(eventChan) - 1
    BY <1>1, <1>4, HeadTailProperties DEF Take
  <2>2. [pc |-> "handle", event |-> Head(eventChan)] \in Consumer
    BY <2>1 DEF Consumer
  <2>3. consumer' \in [Consumers -> Consumer] /\ eventChan' = Tail(eventChan) /\ handled' = handled
    BY <1>1, <1>4, <2>2 DEF Take
  <2>4. Len(eventChan') <= ChanSize
    BY <1>1, <2>1, <2>3, LenProperties, SizeAssumption
  <2>5. /\ consumer'[c].event = Head(eventChan) /\ Head(eventChan) # NoEvent
        /\ \A d \in Consumers \ {c} : consumer'[d] = consumer[d]
    <3>1. Head(eventChan) # NoEvent
      BY <2>1 DEF Ids, NoEvent
    <3> QED
      BY <1>1, <1>4, <3>1 DEF Take
  <2> QED
    BY <1>1, <1>3, <2>1, <2>3, <2>4, <2>5
<1>5. CASE Handle(c)
  <2>1. [pc |-> "select", event |-> NoEvent] \in Consumer
    BY DEF Consumer
  <2>2. handled' \subseteq handled \cup {consumer[c].event}
    BY <1>5 DEF Handle
  <2>3. consumer[c].event \in {NoEvent} \cup Ids
    BY <1>1 DEF Consumer
  <2>4. consumer[c].event # NoEvent
    BY <1>5 DEF Inv, Holding, Handle
  <2>5. /\ consumer'[c].pc = "select" /\ consumer' \in [Consumers -> Consumer]
        /\ \A d \in Consumers \ {c} : consumer'[d] = consumer[d]
    BY <1>1, <1>5, <2>1 DEF Handle
  <2> QED
    BY <1>1, <1>3, <1>5, <2>2, <2>3, <2>4, <2>5 DEF Handle
<1>6. CASE Exit(c)
  <2>1. /\ consumer' \in [Consumers -> Consumer] /\ consumer'[c].pc = "exited"
        /\ \A d \in Consumers \ {c} : consumer'[d] = consumer[d]
    BY <1>1, <1>6 DEF Exit, Consumer
  <2> QED
    BY <1>1, <1>3, <1>6, <2>1 DEF Exit
<1> QED
  BY <1>4, <1>5, <1>6 DEF ConsumerStep

\* Every step keeps the invariant.
LEMMA InvNext == Inv /\ [Next]_vars => Inv'
<1> SUFFICES ASSUME Inv, [Next]_vars PROVE Inv'
  OBVIOUS
<1>1. CASE Cancel \/ StopStep \/ StatsStep
  <2>1. /\ UNCHANGED <<kernel, ring, eventChan, poller, consumer, handled, lost,
                       processedEvents, droppedEvents, errors, panicked>>
        /\ Ids' = Ids /\ ctxDone' \in BOOLEAN
        /\ stop' \in {"no", "signalled", "ringClosed", "done"}
        /\ statsPoller' \in {"waiting", "reading"}
    BY <1>1 DEF Cancel, StopStep, StatsStep, StatsTick, StatsRead, Inv, TypeOK, Ids
  <2> QED
    BY <2>1 DEF Inv, TypeOK, Holding
<1>2. CASE UNCHANGED vars
  BY <1>2 DEF vars, Inv, TypeOK, Holding, Ids
<1> QED
  BY <1>1, <1>2, SendEventInv, PollerInv, ConsumerInv DEF Next

-----------------------------------------------------------------------------
(* Sequences of events.                                                    *)

Increasing(q) == \A i, j \in DOMAIN q : i < j => q[i] < q[j]

\* What is taken from the front of an increasing sequence is below the rest.
LEMMA TakeFront ==
    ASSUME NEW S \in SUBSET Nat, NEW q \in Seq(S), q # <<>>
    PROVE  /\ Head(q) \in S /\ Tail(q) \in Seq(S)
           /\ Len(q) \in Nat /\ Len(Tail(q)) = Len(q) - 1
           /\ Elements(q) = {Head(q)} \cup Elements(Tail(q))
           /\ Increasing(q) => /\ Increasing(Tail(q))
                               /\ \A x \in Elements(Tail(q)) : Head(q) < x
<1>1. /\ Head(q) \in S /\ Tail(q) \in Seq(S) /\ Head(q) = q[1]
      /\ Len(Tail(q)) = Len(q) - 1
      /\ \A i \in 1..Len(Tail(q)) : Tail(q)[i] = q[i + 1]
  BY HeadTailProperties
<1>2. /\ Len(q) \in Nat /\ Len(q) > 0 /\ DOMAIN q = 1..Len(q)
      /\ DOMAIN Tail(q) = 1..(Len(q) - 1)
  BY <1>1, LenProperties, EmptySeq
<1>3. \A i \in DOMAIN Tail(q) : i + 1 \in DOMAIN q /\ Tail(q)[i] = q[i + 1]
  BY <1>1, <1>2
<1>4. \A i \in DOMAIN q : i = 1 \/ (i - 1 \in DOMAIN Tail(q) /\ q[i] = Tail(q)[i - 1])
  <2> SUFFICES ASSUME NEW i \in DOMAIN q, i # 1
               PROVE  i - 1 \in DOMAIN Tail(q) /\ q[i] = Tail(q)[i - 1]
    OBVIOUS
  <2>1. i - 1 \in DOMAIN Tail(q) /\ (i - 1) + 1 = i
    BY <1>2
  <2> QED
    BY <1>3, <2>1
<1>5. Elements(q) = {Head(q)} \cup Elements(Tail(q))
  <2>1. 1 \in DOMAIN q
    BY <1>2
  <2>2. ASSUME NEW x \in Elements(q) PROVE x \in {Head(q)} \cup Elements(Tail(q))
    <3>1. PICK i \in DOMAIN q : x = q[i]
      BY <2>2 DEF Elements
    <3>2. CASE i = 1
      BY <1>1, <3>1, <3>2
    <3>3. CASE i - 1 \in DOMAIN Tail(q) /\ q[i] = Tail(q)[i - 1]
      BY <3>1, <3>3 DEF Elements
    <3> QED
      BY <1>4, <3>2, <3>3
  <2>3. {Head(q)} \cup Elements(Tail(q)) \subseteq Elements(q)
    BY <1>1, <1>3, <2>1 DEF Elements
  <2> QED
    BY <2>2, <2>3
<1>6. ASSUME Increasing(q)
      PROVE  Increasing(Tail(q)) /\ \A x \in Elements(Tail(q)) : Head(q) < x
  <2>1. ASSUME NEW i \in DOMAIN Tail(q), NEW j \in DOMAIN Tail(q), i < j
        PROVE  Tail(q)[i] < Tail(q)[j]
    <3>1. i + 1 \in DOMAIN q /\ j + 1 \in DOMAIN q /\ i + 1 < j + 1
      BY <1>2, <1>3, <2>1
    <3> QED
      BY <1>3, <1>6, <3>1 DEF Increasing
  <2>2. ASSUME NEW i \in DOMAIN Tail(q) PROVE Head(q) < Tail(q)[i]
    <3>1. 1 \in DOMAIN q /\ i + 1 \in DOMAIN q /\ 1 < i + 1
      BY <1>2, <1>3
    <3> QED
      BY <1>1, <1>3, <1>6, <3>1 DEF Increasing
  <2> QED
    BY <2>1, <2>2 DEF Increasing, Elements
<1> QED
  BY <1>1, <1>2, <1>5, <1>6

\* What is added to the end of an increasing sequence is above the rest.
LEMMA AddBack ==
    ASSUME NEW S \in SUBSET Nat, NEW q \in Seq(S), NEW e \in S
    PROVE  /\ Append(q, e) \in Seq(S)
           /\ Len(q) \in Nat /\ Len(Append(q, e)) = Len(q) + 1
           /\ Elements(Append(q, e)) = Elements(q) \cup {e}
           /\ Increasing(q) /\ (\A x \in Elements(q) : x < e) => Increasing(Append(q, e))
<1>1. /\ Append(q, e) \in Seq(S)
      /\ Len(Append(q, e)) = Len(q) + 1
      /\ DOMAIN q = 1..Len(q) /\ Len(q) \in Nat
      /\ DOMAIN Append(q, e) = 1..(Len(q) + 1)
      /\ \A i \in 1..Len(q) : Append(q, e)[i] = q[i]
      /\ Append(q, e)[Len(q) + 1] = e
  BY LenProperties, AppendProperties
<1>2. Elements(Append(q, e)) = Elements(q) \cup {e}
  BY <1>1 DEF Elements
<1>3. ASSUME Increasing(q), \A x \in Elements(q) : x < e PROVE Increasing(Append(q, e))
  <2>1. \A i \in 1..Len(q) : q[i] < e
    BY <1>1, <1>3 DEF Elements
  <2> QED
    BY <1>1, <1>3, <2>1 DEF Increasing
<1> QED
  BY <1>1, <1>2, <1>3

\* What is above or below all of a set is not in it.
LEMMA Apart ==
    ASSUME NEW S \in SUBSET Nat, NEW e \in S, NEW E, E \subseteq S,
           (\A x \in E : x < e) \/ (\A x \in E : e < x)
    PROVE  e \notin E
<1>1. e \in Nat /\ ~(e < e)
  OBVIOUS
<1> QED
  BY <1>1

\* Increasing sequences, all of one below all of the other, make one.
LEMMA Joined ==
    ASSUME NEW S \in SUBSET Nat, NEW a \in Seq(S), NEW b \in Seq(S),
           Increasing(a), Increasing(b),
           \A x \in Elements(a), y \in Elements(b) : x < y
    PROVE  a \o b \in Seq(S) /\ Increasing(a \o b)
           /\ Elements(a \o b) \subseteq Elements(a) \cup Elements(b)
<1> DEFINE c == a \o b
<1>1. /\ Len(a) \in Nat /\ Len(b) \in Nat /\ DOMAIN a = 1..Len(a) /\ DOMAIN b = 1..Len(b)
      /\ c \in Seq(S) /\ DOMAIN c = 1..(Len(a) + Len(b))
      /\ \A i \in 1..(Len(a) + Len(b)) : c[i] = IF i <= Len(a) THEN a[i] ELSE b[i - Len(a)]
  BY LenProperties, ConcatProperties
<1> HIDE DEF c
<1>2. \A i \in DOMAIN c : \/ i \in DOMAIN a /\ c[i] = a[i]
                          \/ /\ i \notin DOMAIN a /\ i - Len(a) \in DOMAIN b
                             /\ c[i] = b[i - Len(a)]
  BY <1>1
<1>3. Increasing(c)
  <2> SUFFICES ASSUME NEW i \in DOMAIN c, NEW j \in DOMAIN c, i < j PROVE c[i] < c[j]
    BY DEF Increasing
  <2>1. CASE j \in DOMAIN a
    <3>1. i \in DOMAIN a /\ c[i] = a[i] /\ c[j] = a[j]
      BY <1>1, <1>2, <2>1
    <3> QED
      BY <2>1, <3>1 DEF Increasing
  <2>2. CASE i \in DOMAIN a /\ j \notin DOMAIN a
    <3>1. c[i] \in Elements(a) /\ c[j] \in Elements(b)
      BY <1>2, <2>2 DEF Elements
    <3> QED
      BY <3>1
  <2>3. CASE i \notin DOMAIN a /\ j \notin DOMAIN a
    <3>1. /\ i - Len(a) \in DOMAIN b /\ j - Len(a) \in DOMAIN b /\ i - Len(a) < j - Len(a)
          /\ c[i] = b[i - Len(a)] /\ c[j] = b[j - Len(a)]
      BY <1>1, <1>2, <2>3
    <3> QED
      BY <3>1 DEF Increasing
  <2> QED
    BY <2>1, <2>2, <2>3
<1>4. Elements(c) \subseteq Elements(a) \cup Elements(b)
  BY <1>2 DEF Elements
<1> QED
  BY <1>1, <1>3, <1>4 DEF c

-----------------------------------------------------------------------------
(* Where the events are.                                                   *)

InPoller == {poller.event} \ {NoEvent}
Waiting == Elements(ring) \cup Elements(eventChan) \cup InPoller
Hands == {consumer[c].event : c \in Consumers} \ {NoEvent}

\* Only who sends or handles has an event in hand.
HandsFull ==
    /\ poller.event # NoEvent => poller.pc = "send"
    /\ \A c \in Consumers : consumer[c].event # NoEvent => consumer[c].pc = "handle"

\* The channel is before the poller, and the poller before the ring.
Order ==
    /\ Increasing(eventChan) /\ Increasing(ring)
    /\ \A x \in Elements(eventChan), y \in Elements(ring) : x < y
    /\ \A x \in Elements(eventChan), e \in InPoller : x < e
    /\ \A e \in InPoller, y \in Elements(ring) : e < y

\* Waiting, in a consumer's hand, handled or lost.
Places ==
    /\ Ids = Waiting \cup Hands \cup handled \cup lost
    /\ Waiting \cap (Hands \cup handled \cup lost) = {}
    /\ Hands \cap (handled \cup lost) = {}
    /\ handled \cap lost = {}
    /\ \A c, d \in Consumers : c # d /\ consumer[c].event = consumer[d].event
                                 => consumer[c].event = NoEvent

PlaceInv == HandsFull /\ Order /\ Places

\* Everything is where it was.
LEMMA SamePlaces ==
    ASSUME PlaceInv, Ids' = Ids, UNCHANGED <<ring, eventChan, handled, lost>>,
           poller'.event = poller.event, poller.event = NoEvent \/ poller'.pc = "send",
           \A c \in Consumers : /\ consumer'[c].event = consumer[c].event
                                /\ consumer[c].event = NoEvent \/ consumer'[c].pc = "handle"
    PROVE  PlaceInv'
<1>1. InPoller' = InPoller /\ Waiting' = Waiting
  BY DEF InPoller, Waiting
<1>2. Hands' = Hands
  BY DEF Hands
<1>3. HandsFull'
  BY DEF HandsFull
<1>4. Order'
  BY <1>1 DEF PlaceInv, Order
<1>5. Places'
  BY <1>1, <1>2 DEF PlaceInv, Places
<1> QED
  BY <1>3, <1>4, <1>5 DEF PlaceInv

\* The numbers of the events that wait.
LEMMA WaitingTypes ==
    ASSUME Inv
    PROVE  /\ Ids \in SUBSET Nat /\ NoEvent \notin Ids
           /\ ring \in Seq(Ids) /\ eventChan \in Seq(Ids) /\ handled \subseteq Ids /\ lost \subseteq Ids
           /\ poller \in Poller /\ consumer \in [Consumers -> Consumer]
           /\ InPoller \subseteq Ids /\ Hands \subseteq Ids
<1>1. Ids \in SUBSET Nat /\ NoEvent \notin Ids
  BY DEF Ids, NoEvent
<1>2. /\ ring \in Seq(Ids) /\ eventChan \in Seq(Ids) /\ handled \subseteq Ids /\ lost \subseteq Ids
      /\ poller \in Poller /\ consumer \in [Consumers -> Consumer]
  BY DEF Inv, TypeOK, Poller, Consumer
<1>3. InPoller \subseteq Ids
  BY <1>2 DEF Poller, InPoller
<1>4. Hands \subseteq Ids
  BY <1>2 DEF Consumer, Hands
<1> QED
  BY <1>1, <1>2, <1>3, <1>4

\* A new event is above all others: the last of the ring, or lost.
LEMMA SendEventPlaces ==
    ASSUME Inv, PlaceInv, SendEvent
    PROVE  PlaceInv'
<1> DEFINE n == kernel.total + 1
<1>1. /\ Ids' = Ids \cup {n} /\ n \notin Ids /\ n \in Nat /\ \A x \in Ids : x < n
  <2>1. /\ kernel \in [total : 0..MaxEvents, dropped : Nat, sent : Nat]
        /\ \/ kernel' = [kernel EXCEPT !.total = @ + 1, !.sent = @ + 1]
           \/ kernel' = [kernel EXCEPT !.total = @ + 1, !.dropped = @ + 1]
    BY DEF Inv, TypeOK, SendEvent
  <2>2. kernel'.total = kernel.total + 1
    BY <2>1
  <2>3. kernel.total \in Nat
    BY <2>1, MaxAssumption
  <2>4. Ids = 1..kernel.total /\ Ids' = 1..kernel'.total
    BY DEF Ids
  <2> QED
    BY <2>2, <2>3, <2>4
<1>2. UNCHANGED <<eventChan, poller, consumer, handled>>
  BY DEF SendEvent
<1>3. /\ InPoller' = InPoller /\ Hands' = Hands /\ HandsFull'
  BY <1>2 DEF InPoller, Hands, HandsFull, PlaceInv
<1>4. /\ Ids \in SUBSET Nat /\ ring \in Seq(Ids) /\ eventChan \in Seq(Ids)
      /\ Ids' \in SUBSET Nat /\ ring \in Seq(Ids')
      /\ InPoller \subseteq Ids /\ handled \subseteq Ids /\ lost \subseteq Ids /\ Hands \subseteq Ids
      /\ Elements(eventChan) \subseteq Ids /\ Elements(ring) \subseteq Ids
  <2>1. /\ Ids \in SUBSET Nat /\ ring \in Seq(Ids) /\ eventChan \in Seq(Ids)
        /\ InPoller \subseteq Ids /\ handled \subseteq Ids /\ lost \subseteq Ids /\ Hands \subseteq Ids
    BY WaitingTypes
  <2>2. Ids' \in SUBSET Nat /\ ring \in Seq(Ids')
    BY <1>1, <2>1, SeqMonotonic
  <2>3. Elements(eventChan) \subseteq Ids /\ Elements(ring) \subseteq Ids
    BY DEF PlaceInv, Places, Waiting
  <2> QED
    BY <2>1, <2>2, <2>3
<1>5. \/ ring' = Append(ring, n) /\ lost' = lost
      \/ ring' = ring /\ lost' = lost \cup {n}
  BY DEF SendEvent
<1> HIDE DEF n
<1>6. CASE ring' = Append(ring, n) /\ lost' = lost
  <2>1. /\ Elements(ring') = Elements(ring) \cup {n}
        /\ Increasing(ring) /\ (\A x \in Elements(ring) : x < n) => Increasing(ring')
    BY <1>1, <1>4, <1>6, AddBack
  <2>2. Order'
    BY <1>1, <1>2, <1>3, <1>4, <2>1 DEF PlaceInv, Order
  <2>3. Waiting' = Waiting \cup {n}
    BY <1>2, <1>3, <2>1 DEF Waiting
  <2>4. Places'
    BY <1>1, <1>2, <1>3, <1>4, <1>6, <2>3 DEF PlaceInv, Places
  <2> QED
    BY <1>3, <2>2, <2>4 DEF PlaceInv
<1>7. CASE ring' = ring /\ lost' = lost \cup {n}
  <2>1. Order'
    BY <1>2, <1>3, <1>7 DEF PlaceInv, Order
  <2>2. Waiting' = Waiting /\ Waiting \subseteq Ids
    BY <1>2, <1>3, <1>4, <1>7 DEF Waiting
  <2>3. Places'
    BY <1>1, <1>2, <1>3, <1>4, <1>7, <2>2 DEF PlaceInv, Places
  <2> QED
    BY <1>3, <2>1, <2>3 DEF PlaceInv
<1> QED
  BY <1>5, <1>6, <1>7

\* The oldest record of the ring goes to the poller's hand, or is lost.
LEMMA PollReadPlaces ==
    ASSUME Inv, PlaceInv, PollRead \/ PollMalformed
    PROVE  PlaceInv'
<1> DEFINE h == Head(ring)
<1>1. /\ ring # <<>> /\ ring' = Tail(ring) /\ poller.event = NoEvent
      /\ UNCHANGED <<eventChan, consumer, handled>> /\ Ids' = Ids
      /\ \/ poller' = [pc |-> "send", event |-> h] /\ lost' = lost
         \/ poller' = [poller EXCEPT !.pc = "select"] /\ lost' = lost \cup {h}
  BY DEF PollRead, PollMalformed, PlaceInv, HandsFull, Ids
<1>2. /\ h \in Ids /\ h # NoEvent /\ Elements(ring) = {h} \cup Elements(ring')
      /\ Increasing(ring') /\ \A x \in Elements(ring') : h < x
      /\ h \notin Elements(ring')
  <2>1. Ids \in SUBSET Nat /\ NoEvent \notin Ids /\ ring \in Seq(Ids)
    BY WaitingTypes
  <2>2. Increasing(ring)
    BY DEF PlaceInv, Order
  <2>3. /\ h \in Ids /\ Elements(ring) = {h} \cup Elements(ring')
        /\ Increasing(ring') /\ \A x \in Elements(ring') : h < x
    BY <1>1, <2>1, <2>2, TakeFront
  <2>4. Elements(ring') \subseteq Ids
    BY <2>3, WaitingTypes DEF PlaceInv, Places, Waiting
  <2> HIDE DEF h
  <2>5. h \notin Elements(ring')
    BY <2>1, <2>3, <2>4, Apart
  <2>6. h # NoEvent
    BY <2>1, <2>3
  <2> QED
    BY <2>3, <2>5, <2>6
<1>3. InPoller = {} /\ Hands' = Hands
  BY <1>1 DEF InPoller, Hands
<1>4. h \notin Elements(eventChan) /\ \A x \in Elements(eventChan) : x < h
  <2>1. \A x \in Elements(eventChan) : x < h
    BY <1>2 DEF PlaceInv, Order
  <2>2. Elements(eventChan) \subseteq Ids /\ Ids \in SUBSET Nat
    BY WaitingTypes DEF PlaceInv, Places, Waiting
  <2> HIDE DEF h
  <2>3. h \notin Elements(eventChan)
    BY <1>2, <2>1, <2>2, Apart
  <2> QED
    BY <2>1, <2>3
<1> HIDE DEF h
<1>5. CASE poller' = [pc |-> "send", event |-> h] /\ lost' = lost
  <2>1. InPoller' = {h} /\ HandsFull'
    BY <1>1, <1>2, <1>5 DEF InPoller, HandsFull, PlaceInv
  <2>2. Waiting' = Waiting
    BY <1>1, <1>2, <1>3, <2>1 DEF Waiting
  <2>3. Order'
    BY <1>1, <1>2, <1>3, <1>4, <2>1 DEF PlaceInv, Order
  <2>4. Places'
    BY <1>1, <1>3, <1>5, <2>2 DEF PlaceInv, Places
  <2> QED
    BY <2>1, <2>3, <2>4 DEF PlaceInv
<1>6. CASE poller' = [poller EXCEPT !.pc = "select"] /\ lost' = lost \cup {h}
  <2>1. poller'.event = NoEvent
    BY <1>1, <1>6, WaitingTypes DEF Poller
  <2>2. InPoller' = {} /\ HandsFull'
    BY <1>1, <2>1 DEF InPoller, HandsFull, PlaceInv
  <2>3. Waiting = Waiting' \cup {h} /\ h \notin Waiting'
    BY <1>1, <1>2, <1>3, <1>4, <2>2 DEF Waiting
  <2>4. Order'
    BY <1>1, <1>2, <1>3, <2>2 DEF PlaceInv, Order
  <2>5. Places'
    BY <1>1, <1>3, <1>6, <2>3 DEF PlaceInv, Places
  <2> QED
    BY <2>2, <2>4, <2>5 DEF PlaceInv
<1> QED
  BY <1>1, <1>5, <1>6

\* The event in the poller's hand joins the end of the channel, or is lost.
LEMMA PollSendPlaces ==
    ASSUME Inv, PlaceInv, PollSend
    PROVE  PlaceInv'
<1> DEFINE e == poller.event
<1>1. /\ UNCHANGED <<ring, consumer, handled>> /\ Ids' = Ids /\ poller.pc = "send"
      /\ \/ UNCHANGED <<eventChan, poller, lost>>
         \/ /\ eventChan' = Append(eventChan, e) /\ lost' = lost
            /\ poller' = [pc |-> "count", event |-> NoEvent]
         \/ /\ eventChan' = eventChan /\ lost' = lost \cup {e}
            /\ poller' = [pc |-> "select", event |-> NoEvent]
  BY DEF PollSend, Ids
<1>2. e \in Ids /\ InPoller = {e} /\ Ids \in SUBSET Nat /\ eventChan \in Seq(Ids)
  <2>1. e # NoEvent
    BY <1>1 DEF Inv, Holding
  <2> QED
    BY <2>1, WaitingTypes DEF InPoller
<1>3. /\ e \notin Elements(eventChan) /\ \A x \in Elements(eventChan) : x < e
      /\ e \notin Elements(ring) /\ \A y \in Elements(ring) : e < y
  <2>1. /\ \A x \in Elements(eventChan) : x < e
        /\ \A y \in Elements(ring) : e < y
    BY <1>2 DEF PlaceInv, Order
  <2>2. Elements(eventChan) \subseteq Ids /\ Elements(ring) \subseteq Ids
    BY DEF PlaceInv, Places, Waiting
  <2> HIDE DEF e
  <2>3. e \notin Elements(eventChan)
    BY <1>2, <2>1, <2>2, Apart
  <2>4. e \notin Elements(ring)
    BY <1>2, <2>1, <2>2, Apart
  <2> QED
    BY <2>1, <2>3, <2>4
<1>4. Hands' = Hands
  BY <1>1 DEF Hands
<1>5. CASE UNCHANGED <<eventChan, poller, lost>>
  BY <1>1, <1>5, SamePlaces DEF PlaceInv, HandsFull
<1>6. ASSUME \/ poller' = [pc |-> "select", event |-> NoEvent]
             \/ poller' = [pc |-> "count", event |-> NoEvent]
      PROVE  InPoller' = {} /\ HandsFull'
  BY <1>1, <1>6 DEF InPoller, HandsFull, PlaceInv
<1> HIDE DEF e
<1>7. CASE /\ eventChan' = Append(eventChan, e) /\ lost' = lost
           /\ poller' = [pc |-> "count", event |-> NoEvent]
  <2>1. /\ Elements(eventChan') = Elements(eventChan) \cup {e}
        /\ Increasing(eventChan) => Increasing(eventChan')
    BY <1>2, <1>3, <1>7, AddBack
  <2>2. Waiting' = Waiting
    BY <1>1, <1>2, <1>6, <1>7, <2>1 DEF Waiting
  <2>3. Order'
    BY <1>1, <1>2, <1>3, <1>6, <1>7, <2>1 DEF PlaceInv, Order
  <2>4. Places'
    BY <1>1, <1>4, <1>7, <2>2 DEF PlaceInv, Places
  <2> QED
    BY <1>6, <1>7, <2>3, <2>4 DEF PlaceInv
<1>8. CASE /\ eventChan' = eventChan /\ lost' = lost \cup {e}
           /\ poller' = [pc |-> "select", event |-> NoEvent]
  <2>1. Waiting = Waiting' \cup {e} /\ e \notin Waiting'
    BY <1>1, <1>2, <1>3, <1>6, <1>8 DEF Waiting
  <2>2. Order'
    BY <1>1, <1>6, <1>8 DEF PlaceInv, Order
  <2>3. Places'
    BY <1>1, <1>4, <1>8, <2>1 DEF PlaceInv, Places
  <2> QED
    BY <1>6, <1>8, <2>2, <2>3 DEF PlaceInv
<1> QED
  BY <1>1, <1>5, <1>7, <1>8

\* The oldest event of the channel goes to one consumer's hand.
LEMMA TakePlaces ==
    ASSUME Inv, PlaceInv, NEW c \in Consumers, Take(c)
    PROVE  /\ PlaceInv'
           /\ consumer[c].event = NoEvent /\ consumer'[c].event # NoEvent
           /\ \A d \in Consumers \ {c} : consumer'[d] = consumer[d]
<1> DEFINE h == Head(eventChan)
<1>1. /\ eventChan # <<>> /\ eventChan' = Tail(eventChan)
      /\ consumer' = [consumer EXCEPT ![c] = [pc |-> "handle", event |-> h]]
      /\ UNCHANGED <<ring, poller, handled, lost>> /\ Ids' = Ids
      /\ consumer[c].event = NoEvent
  BY DEF Take, PlaceInv, HandsFull, Ids
<1>2. /\ h \in Ids /\ h # NoEvent /\ Elements(eventChan) = {h} \cup Elements(eventChan')
      /\ Increasing(eventChan') /\ h \notin Elements(eventChan')
  <2>1. Ids \in SUBSET Nat /\ NoEvent \notin Ids /\ eventChan \in Seq(Ids)
    BY WaitingTypes
  <2>2. Increasing(eventChan)
    BY DEF PlaceInv, Order
  <2>3. /\ h \in Ids /\ Elements(eventChan) = {h} \cup Elements(eventChan')
        /\ Increasing(eventChan') /\ \A x \in Elements(eventChan') : h < x
    BY <1>1, <2>1, <2>2, TakeFront
  <2>4. Elements(eventChan') \subseteq Ids
    BY <2>3, WaitingTypes DEF PlaceInv, Places, Waiting
  <2> HIDE DEF h
  <2>5. h \notin Elements(eventChan') /\ h # NoEvent
    BY <2>1, <2>3, <2>4, Apart
  <2> QED
    BY <2>3, <2>5
<1>3. /\ consumer'[c] = [pc |-> "handle", event |-> h]
      /\ \A d \in Consumers \ {c} : consumer'[d] = consumer[d]
  BY <1>1, WaitingTypes
<1> HIDE DEF h
<1>4. Hands' = Hands \cup {h}
  <2>1. Hands' \subseteq Hands \cup {h}
    BY <1>3 DEF Hands
  <2>2. h \in Hands'
    BY <1>2, <1>3 DEF Hands
  <2>3. ASSUME NEW x \in Hands PROVE x \in Hands'
    <3>1. PICK d \in Consumers : consumer[d].event = x /\ x # NoEvent
      BY <2>3 DEF Hands
    <3>2. consumer'[d].event = x
      BY <1>1, <1>3, <3>1
    <3> QED
      BY <3>1, <3>2 DEF Hands
  <2> QED
    BY <2>1, <2>2, <2>3
<1>5. InPoller' = InPoller
  BY <1>1 DEF InPoller
<1>6. Waiting = Waiting' \cup {h} /\ h \notin Waiting'
  <2>1. /\ \A y \in Elements(ring) : h < y
        /\ \A e \in InPoller : h < e
    BY <1>2 DEF PlaceInv, Order
  <2>2. Elements(ring) \subseteq Ids /\ InPoller \subseteq Ids /\ Ids \in SUBSET Nat
    BY WaitingTypes DEF PlaceInv, Places, Waiting
  <2>3. h \notin Elements(ring) /\ h \notin InPoller
    BY <1>2, <2>1, <2>2
  <2> QED
    BY <1>1, <1>2, <1>5, <2>3 DEF Waiting
<1>7. HandsFull'
  BY <1>1, <1>3 DEF PlaceInv, HandsFull
<1>8. Order'
  BY <1>1, <1>2, <1>5 DEF PlaceInv, Order
<1>9. ASSUME NEW d \in Consumers, NEW f \in Consumers, d # f,
             consumer'[d].event = consumer'[f].event
      PROVE  consumer'[d].event = NoEvent
  <2>1. \A b \in Consumers : consumer[b].event # h
    <3>1. h \notin Hands
      BY <1>6 DEF PlaceInv, Places
    <3> QED
      BY <1>2, <3>1 DEF Hands
  <2> QED
    BY <1>3, <1>9, <2>1 DEF PlaceInv, Places
<1>10. Places'
  BY <1>1, <1>4, <1>6, <1>9 DEF PlaceInv, Places
<1> QED
  BY <1>1, <1>2, <1>3, <1>7, <1>8, <1>10 DEF PlaceInv

\* The event in a consumer's hand is handled.
LEMMA HandlePlaces ==
    ASSUME Inv, PlaceInv, NEW c \in Consumers, Handle(c)
    PROVE  /\ PlaceInv'
           /\ handled' = handled \cup {consumer[c].event} /\ consumer[c].event \notin handled
           /\ consumer[c].event # NoEvent /\ consumer'[c].event = NoEvent
           /\ \A d \in Consumers \ {c} : consumer'[d] = consumer[d]
<1> DEFINE e == consumer[c].event
<1>1. /\ handled' = handled \cup {e}
      /\ consumer' = [consumer EXCEPT ![c] = [pc |-> "select", event |-> NoEvent]]
      /\ UNCHANGED <<ring, eventChan, poller, lost>> /\ Ids' = Ids
      /\ e # NoEvent
  BY DEF Handle, Ids, Inv, Holding
<1>2. /\ consumer'[c] = [pc |-> "select", event |-> NoEvent]
      /\ \A d \in Consumers \ {c} : consumer'[d] = consumer[d]
  BY <1>1, WaitingTypes
<1>3. \A d \in Consumers \ {c} : consumer[d].event # e
  BY <1>1 DEF PlaceInv, Places
<1>4. Hands = Hands' \cup {e} /\ e \notin Hands'
  <2>1. e \in Hands
    BY <1>1 DEF Hands
  <2>2. e \notin Hands'
    BY <1>1, <1>2, <1>3 DEF Hands
  <2>3. Hands' \subseteq Hands
    BY <1>2 DEF Hands
  <2>4. Hands \subseteq Hands' \cup {e}
    BY <1>2 DEF Hands
  <2> QED
    BY <2>1, <2>2, <2>3, <2>4
<1> HIDE DEF e
<1>5. InPoller' = InPoller /\ Waiting' = Waiting
  BY <1>1 DEF InPoller, Waiting
<1>6. HandsFull'
  BY <1>1, <1>2 DEF PlaceInv, HandsFull
<1>7. Order'
  BY <1>1, <1>5 DEF PlaceInv, Order
<1>8. \A d, f \in Consumers : d # f /\ consumer'[d].event = consumer'[f].event
                                => consumer'[d].event = NoEvent
  BY <1>2 DEF PlaceInv, Places
<1>9. Places'
  BY <1>1, <1>4, <1>5, <1>8 DEF PlaceInv, Places
<1>10. e \notin handled
  BY <1>4 DEF PlaceInv, Places
<1> QED
  BY <1>1, <1>2, <1>6, <1>7, <1>9, <1>10 DEF PlaceInv, e

\* Nothing waits at first.
LEMMA PlacesInit == Init => PlaceInv
<1> SUFFICES ASSUME Init PROVE PlaceInv
  OBVIOUS
<1>1. /\ kernel.total = 0 /\ ring = <<>> /\ eventChan = <<>> /\ poller.event = NoEvent
      /\ handled = {} /\ lost = {} /\ \A c \in Consumers : consumer[c].event = NoEvent
  BY DEF Init
<1>2. Ids = {} /\ Elements(ring) = {} /\ Elements(eventChan) = {}
  BY <1>1 DEF Ids, Elements
<1>3. InPoller = {} /\ Hands = {} /\ Waiting = {}
  BY <1>1, <1>2 DEF InPoller, Hands, Waiting
<1>4. Increasing(ring) /\ Increasing(eventChan)
  BY <1>1 DEF Increasing
<1>5. HandsFull
  BY <1>1 DEF HandsFull
<1>6. Order
  BY <1>2, <1>3, <1>4 DEF Order
<1>7. Places
  BY <1>1, <1>2, <1>3 DEF Places
<1> QED
  BY <1>5, <1>6, <1>7 DEF PlaceInv

\* Every step keeps every event in one place and the places in order.
LEMMA PlacesNext == Inv /\ PlaceInv /\ [Next]_vars => PlaceInv'
<1> SUFFICES ASSUME Inv, PlaceInv, [Next]_vars PROVE PlaceInv'
  OBVIOUS
<1>1. CASE \/ PollSelect \/ PollClosed \/ PollCount
           \/ \E temporary \in BOOLEAN : PollError(temporary)
  <2>1. /\ UNCHANGED <<ring, eventChan, consumer, handled, lost>> /\ Ids' = Ids
        /\ poller'.event = poller.event /\ poller.pc # "send"
    BY <1>1, WaitingTypes DEF PollSelect, PollClosed, PollCount, PollError, Ids, Poller
  <2> QED
    BY <2>1, SamePlaces DEF PlaceInv, HandsFull
<1>2. ASSUME NEW c \in Consumers, Exit(c) PROVE PlaceInv'
  <2>1. /\ UNCHANGED <<ring, eventChan, poller, handled, lost>> /\ Ids' = Ids
        /\ consumer[c].pc = "select"
        /\ consumer' = [consumer EXCEPT ![c].pc = "exited"]
    BY <1>2 DEF Exit, Ids
  <2>2. \A d \in Consumers : /\ consumer'[d].event = consumer[d].event
                             /\ consumer[d].event = NoEvent \/ consumer'[d].pc = "handle"
    BY <2>1, WaitingTypes DEF PlaceInv, HandsFull, Consumer
  <2> QED
    BY <2>1, <2>2, SamePlaces DEF PlaceInv, HandsFull
<1>3. CASE Cancel \/ StopStep \/ StatsStep \/ UNCHANGED vars
  <2>1. /\ UNCHANGED <<ring, eventChan, poller, consumer, handled, lost>> /\ Ids' = Ids
    BY <1>3 DEF Cancel, StopStep, StatsStep, StatsTick, StatsRead, vars, Ids
  <2> QED
    BY <2>1, SamePlaces DEF PlaceInv, HandsFull
<1> QED
  BY <1>1, <1>2, <1>3, SendEventPlaces, PollReadPlaces, PollSendPlaces, TakePlaces,
     HandlePlaces DEF Next, PollerStep, ConsumerStep

\* The ring, the poller and the channel have nothing in common: one is below the other.
LEMMA WaitingApart ==
    ASSUME Inv, PlaceInv
    PROVE  /\ Elements(ring) \cap Elements(eventChan) = {}
           /\ Elements(ring) \cap InPoller = {}
           /\ Elements(eventChan) \cap InPoller = {}
<1>1. /\ \A x \in Elements(eventChan), y \in Elements(ring) : x < y
      /\ \A x \in Elements(eventChan), e \in InPoller : x < e
      /\ \A e \in InPoller, y \in Elements(ring) : e < y
  BY DEF PlaceInv, Order
<1>2. /\ Ids \in SUBSET Nat
      /\ Elements(ring) \subseteq Ids /\ Elements(eventChan) \subseteq Ids /\ InPoller \subseteq Ids
  BY WaitingTypes DEF PlaceInv, Places, Waiting
<1>3. ASSUME NEW x \in Elements(eventChan) PROVE x \notin Elements(ring) /\ x \notin InPoller
  <2>1. x \notin Elements(ring)
    <3>1. x \in Ids /\ \A y \in Elements(ring) : x < y
      BY <1>1, <1>2
    <3> QED
      BY <1>2, <3>1, Apart
  <2>2. x \notin InPoller
    <3>1. x \in Ids /\ \A e \in InPoller : x < e
      BY <1>1, <1>2
    <3> QED
      BY <1>2, <3>1, Apart
  <2> QED
    BY <2>1, <2>2
<1>4. ASSUME NEW e \in InPoller PROVE e \notin Elements(ring)
  <2>1. e \in Ids /\ \A y \in Elements(ring) : e < y
    BY <1>1, <1>2
  <2> QED
    BY <1>2, <2>1, Apart
<1> QED
  BY <1>3, <1>4

\* The invariant of the places is what EventInOnePlace says.
LEMMA PlacesImply ==
    ASSUME Inv, PlaceInv
    PROVE  EventInOnePlace
<1> DEFINE places == <<Elements(ring), Elements(eventChan), {poller.event} \ {NoEvent},
                       handled, lost>>
           hands == [c \in Consumers |-> {consumer[c].event} \ {NoEvent}]
<1>1. /\ Ids = Waiting \cup Hands \cup handled \cup lost
      /\ Waiting \cap (Hands \cup handled \cup lost) = {}
      /\ Hands \cap (handled \cup lost) = {}
      /\ handled \cap lost = {}
      /\ \A c, d \in Consumers : c # d /\ consumer[c].event = consumer[d].event
                                   => consumer[c].event = NoEvent
  BY DEF PlaceInv, Places
<1>2. /\ DOMAIN places = 1..5
      /\ places[1] = Elements(ring) /\ places[2] = Elements(eventChan) /\ places[3] = InPoller
      /\ places[4] = handled /\ places[5] = lost
  BY DEF InPoller
<1>3. \A c \in Consumers : hands[c] = {consumer[c].event} \ {NoEvent}
  OBVIOUS
<1>4. UNION {hands[c] : c \in Consumers} = Hands
  <2>1. ASSUME NEW x \in UNION {hands[c] : c \in Consumers} PROVE x \in Hands
    <3>1. PICK c \in Consumers : x \in hands[c]
      BY <2>1
    <3> QED
      BY <1>3, <3>1 DEF Hands
  <2>2. ASSUME NEW x \in Hands PROVE x \in UNION {hands[c] : c \in Consumers}
    <3>1. PICK c \in Consumers : x = consumer[c].event /\ x # NoEvent
      BY <2>2 DEF Hands
    <3> QED
      BY <1>3, <3>1
  <2> QED
    BY <2>1, <2>2
<1> HIDE DEF places, hands
<1>5. /\ \A i \in 1..5 : i = 1 \/ i = 2 \/ i = 3 \/ i = 4 \/ i = 5
      /\ 1 \in 1..5 /\ 2 \in 1..5 /\ 3 \in 1..5 /\ 4 \in 1..5 /\ 5 \in 1..5
  OBVIOUS
<1>6. UNION {places[i] : i \in DOMAIN places} = Waiting \cup handled \cup lost
  <2>1. \A i \in DOMAIN places : places[i] \subseteq Waiting \cup handled \cup lost
    BY <1>2, <1>5 DEF Waiting
  <2>2. ASSUME NEW x \in Waiting \cup handled \cup lost
        PROVE  \E i \in DOMAIN places : x \in places[i]
    BY <1>2, <1>5 DEF Waiting
  <2> QED
    BY <2>1, <2>2
<1>7. ASSUME NEW i \in DOMAIN places, NEW j \in DOMAIN places, i # j
      PROVE  places[i] \cap places[j] = {}
  <2>1. /\ places[1] \cap places[2] = {} /\ places[1] \cap places[3] = {}
        /\ places[2] \cap places[3] = {}
    BY <1>2, WaitingApart
  <2>2. /\ places[1] \cup places[2] \cup places[3] = Waiting
        /\ places[4] \cap places[5] = {}
    BY <1>1, <1>2 DEF Waiting
  <2>3. \A k \in {1, 2, 3}, m \in {4, 5} : places[k] \cap places[m] = {}
    BY <1>1, <1>2, <2>2
  <2> QED
    BY <1>2, <1>5, <1>7, <2>1, <2>2, <2>3
<1>8. \A c, d \in Consumers : c # d => hands[c] \cap hands[d] = {}
  BY <1>1, <1>3
<1>9. ASSUME NEW c \in Consumers, NEW i \in DOMAIN places PROVE hands[c] \cap places[i] = {}
  <2>1. hands[c] \subseteq Hands /\ Hands \cap (Waiting \cup handled \cup lost) = {}
    BY <1>1, <1>4
  <2>2. places[i] \subseteq Waiting \cup handled \cup lost
    BY <1>6
  <2> QED
    BY <2>1, <2>2
<1>10. Ids = (UNION {places[i] : i \in DOMAIN places}) \cup (UNION {hands[c] : c \in Consumers})
  BY <1>1, <1>4, <1>6
<1> QED
  BY <1>7, <1>8, <1>9, <1>10 DEF EventInOnePlace, places, hands

\* Channel, poller and ring, one behind the other, are an increasing sequence.
LEMMA OrderImplies ==
    ASSUME Inv, PlaceInv
    PROVE  KernelOrder
<1> DEFINE p == IF poller.event = NoEvent THEN <<>> ELSE <<poller.event>>
<1>1. Ids \in SUBSET Nat /\ ring \in Seq(Ids) /\ eventChan \in Seq(Ids)
  BY WaitingTypes
<1>2. /\ Increasing(eventChan) /\ Increasing(ring)
      /\ \A x \in Elements(eventChan), y \in Elements(ring) : x < y
      /\ \A x \in Elements(eventChan), e \in InPoller : x < e
      /\ \A e \in InPoller, y \in Elements(ring) : e < y
  BY DEF PlaceInv, Order
<1>3. p \in Seq(Ids) /\ Increasing(p) /\ Elements(p) = InPoller
  <2>1. CASE poller.event = NoEvent
    BY <2>1 DEF InPoller, Increasing, Elements
  <2>2. CASE poller.event # NoEvent
    <3>1. poller.event \in Ids
      BY <2>2, WaitingTypes DEF InPoller
    <3>2. p = <<poller.event>> /\ p \in Seq(Ids) /\ DOMAIN p = {1} /\ p[1] = poller.event
      BY <2>2, <3>1
    <3> QED
      BY <2>2, <3>2 DEF InPoller, Increasing, Elements
  <2> QED
    BY <2>1, <2>2
<1>4. \A x \in Elements(eventChan), y \in Elements(p) : x < y
  BY <1>2, <1>3
<1> HIDE DEF p
<1>5. /\ eventChan \o p \in Seq(Ids) /\ Increasing(eventChan \o p)
      /\ Elements(eventChan \o p) \subseteq Elements(eventChan) \cup Elements(p)
  BY <1>1, <1>2, <1>3, <1>4, Joined
<1>6. \A x \in Elements(eventChan \o p), y \in Elements(ring) : x < y
  BY <1>2, <1>3, <1>5
<1>7. Increasing((eventChan \o p) \o ring)
  BY <1>1, <1>2, <1>5, <1>6, Joined
<1> QED
  BY <1>7 DEF KernelOrder, Increasing, p

-----------------------------------------------------------------------------
(* The counters.                                                           *)

Busy == {c \in Consumers : consumer[c].event # NoEvent}

\* The event the poller has sent and not yet counted, and the error of the closed
\* reader.
Pending == IF poller.pc = "count" THEN 1 ELSE 0
Closing == IF RingOpen THEN 0 ELSE 1

\* CountersAgree in two parts: what entered the channel, and what was discarded.
Entered == processedEvents + Pending = Len(eventChan) + Cardinality(handled) + Cardinality(Busy)
Discarded ==
    /\ kernel.dropped + droppedEvents >= Cardinality(lost)
    /\ kernel.dropped + droppedEvents <= Cardinality(lost) + errors + Closing

\* The error of the closed reader is counted only by a poller that will see stopChan
\* next: it is counted once.
NotYetCounted == kernel.dropped + droppedEvents <= Cardinality(lost) + errors
CountedOnce ==
    /\ ~RingOpen /\ poller.pc \in {"select", "exited"}
    /\ kernel.dropped + droppedEvents <= Cardinality(lost) + errors + 1

CountersInv ==
    /\ Entered
    /\ kernel.dropped + droppedEvents >= Cardinality(lost)
    /\ NotYetCounted \/ CountedOnce

\* What is counted is finite.
LEMMA Countable ==
    ASSUME Inv
    PROVE  /\ IsFiniteSet(handled) /\ IsFiniteSet(lost) /\ IsFiniteSet(Busy)
           /\ Cardinality(handled) \in Nat /\ Cardinality(lost) \in Nat /\ Cardinality(Busy) \in Nat
           /\ Len(eventChan) \in Nat /\ Len(ring) \in Nat /\ errors \in Nat
           /\ processedEvents \in Nat /\ droppedEvents \in Nat
           /\ kernel.total \in Nat /\ kernel.sent \in Nat /\ kernel.dropped \in Nat
<1>1. /\ processedEvents \in Nat /\ droppedEvents \in Nat /\ errors \in Nat
      /\ kernel.total \in Nat /\ kernel.sent \in Nat /\ kernel.dropped \in Nat
  <2>1. /\ processedEvents \in Nat /\ droppedEvents \in Nat /\ errors \in 0..MaxErrors
        /\ kernel \in [total : 0..MaxEvents, dropped : Nat, sent : Nat]
    BY DEF Inv, TypeOK
  <2> QED
    BY <2>1, MaxAssumption
<1>2. IsFiniteSet(Ids)
  <2>1. 1 \in Int /\ kernel.total \in Int
    BY <1>1
  <2> QED
    BY <2>1, FS_Interval DEF Ids
<1>3. IsFiniteSet(handled) /\ IsFiniteSet(lost)
  BY <1>2, FS_Subset, WaitingTypes
<1>4. IsFiniteSet(Consumers)
  BY WorkersAssumption, FS_AddElement DEF Consumers
<1>5. IsFiniteSet(Busy)
  BY <1>4, FS_Subset DEF Busy
<1>6. Len(eventChan) \in Nat /\ Len(ring) \in Nat
  BY WaitingTypes, LenProperties
<1> QED
  BY <1>1, <1>3, <1>5, <1>6, FS_CardinalityType

\* The invariant implies the property.
LEMMA CountersImply ==
    ASSUME Inv, CountersInv
    PROVE  CountersAgree
<1>1. /\ Cardinality(lost) \in Nat /\ errors \in Nat /\ droppedEvents \in Nat
      /\ kernel.dropped \in Nat
  BY Countable
<1>2. Discarded
  BY <1>1 DEF CountersInv, NotYetCounted, CountedOnce, Discarded, Closing
<1> QED
  BY <1>2 DEF CountersInv, Entered, Discarded, Pending, Closing, Busy, CountersAgree

\* The counters at first.
LEMMA CountersInit == Init => CountersInv
<1> SUFFICES ASSUME Init PROVE CountersInv
  OBVIOUS
<1>1. /\ processedEvents = 0 /\ eventChan = <<>> /\ handled = {} /\ lost = {} /\ errors = 0
      /\ kernel.dropped = 0 /\ droppedEvents = 0 /\ poller.pc = "select"
      /\ \A c \in Consumers : consumer[c].event = NoEvent
  BY DEF Init
<1>2. Cardinality(handled) = 0 /\ Cardinality(lost) = 0 /\ Len(eventChan) = 0
  BY <1>1, FS_EmptySet
<1>3. Cardinality(Busy) = 0
  <2>1. Busy = {}
    BY <1>1 DEF Busy
  <2> QED
    BY <2>1, FS_EmptySet
<1> QED
  BY <1>1, <1>2, <1>3 DEF CountersInv, Entered, Pending, NotYetCounted

\* A discarded event had not been discarded before, and is counted.
LEMMA LoseCounters ==
    ASSUME Inv, NEW e, e \notin lost, lost' = lost \cup {e}
    PROVE  Cardinality(lost') = Cardinality(lost) + 1
  BY Countable, FS_AddElement

\* The counters d and x stay between the number l of the lost and that with the
\* number e of the errors.
LEMMA Slack ==
    ASSUME NEW d \in Nat, NEW x \in Nat, NEW l \in Nat, NEW e \in Nat,
           d + x >= l, d + x <= l + e
    PROVE  /\ (d + 1) + x >= l + 1 /\ (d + 1) + x <= (l + 1) + e
           /\ d + (x + 1) >= l + 1 /\ d + (x + 1) <= (l + 1) + e
           /\ d + (x + 1) <= (l + 1) + (e + 1)
           /\ d + x <= l + (e + 1)
           /\ d + (x + 1) >= l /\ d + (x + 1) <= l + (e + 1)
  OBVIOUS

\* While the poller is past its select, nothing of a closed reader is counted.
LEMMA BeforeClosing ==
    ASSUME CountersInv, RingOpen \/ poller.pc \notin {"select", "exited"}
    PROVE  NotYetCounted
  BY DEF CountersInv, CountedOnce

\* The kernel counts what it drops.
LEMMA SendEventCounters ==
    ASSUME Inv, PlaceInv, CountersInv, SendEvent
    PROVE  CountersInv'
<1> DEFINE n == kernel.total + 1
<1>1. /\ UNCHANGED <<eventChan, poller, handled, consumer, processedEvents, droppedEvents, errors>>
      /\ kernel \in [total : 0..MaxEvents, dropped : Nat, sent : Nat] /\ stop = "no"
  BY DEF SendEvent, Inv, TypeOK
<1>2. Entered'
  BY <1>1 DEF CountersInv, Entered, Busy, Pending
<1>3. /\ kernel.dropped + droppedEvents >= Cardinality(lost)
      /\ kernel.dropped + droppedEvents <= Cardinality(lost) + errors
  BY <1>1, BeforeClosing DEF RingOpen, CountersInv, NotYetCounted
<1>4. CASE lost' = lost /\ kernel' = [kernel EXCEPT !.total = @ + 1, !.sent = @ + 1]
  <2>1. kernel'.dropped = kernel.dropped
    BY <1>1, <1>4
  <2> QED
    BY <1>1, <1>2, <1>3, <1>4, <2>1 DEF CountersInv, NotYetCounted
<1>5. CASE lost' = lost \cup {n} /\ kernel' = [kernel EXCEPT !.total = @ + 1, !.dropped = @ + 1]
  <2>1. kernel'.dropped = kernel.dropped + 1
    BY <1>1, <1>5
  <2>2. n \notin lost
    <3>1. lost \subseteq 1..kernel.total
      BY WaitingTypes DEF Ids
    <3>2. n \notin 1..kernel.total
      BY Countable
    <3> QED
      BY <3>1, <3>2
  <2>3. Cardinality(lost') = Cardinality(lost) + 1
    BY <1>5, <2>2, LoseCounters
  <2>4. (kernel.dropped + 1) + droppedEvents >= Cardinality(lost) + 1
        /\ (kernel.dropped + 1) + droppedEvents <= (Cardinality(lost) + 1) + errors
    BY <1>3, Countable, Slack
  <2> QED
    BY <1>1, <1>2, <2>1, <2>3, <2>4 DEF CountersInv, NotYetCounted
<1> QED
  BY <1>4, <1>5 DEF SendEvent

\* The poller counts what it discards, and an error once more.
LEMMA PollerCounters ==
    ASSUME Inv, PlaceInv, CountersInv,
           PollMalformed \/ PollSend \/ \E temporary \in BOOLEAN : PollError(temporary)
    PROVE  CountersInv'
<1>1. UNCHANGED <<kernel, handled, consumer, processedEvents>> /\ poller.pc \in {"read", "send"}
  BY DEF PollMalformed, PollError, PollSend
<1>0. /\ kernel.dropped + droppedEvents >= Cardinality(lost)
      /\ kernel.dropped + droppedEvents <= Cardinality(lost) + errors
  BY <1>1, BeforeClosing DEF CountersInv, NotYetCounted
<1>2. ASSUME Entered',
             \/ /\ Cardinality(lost') = Cardinality(lost) + 1
                /\ droppedEvents' = droppedEvents + 1
                /\ errors' = errors \/ errors' = errors + 1
             \/ /\ lost' = lost
                /\ droppedEvents' = droppedEvents \/ droppedEvents' = droppedEvents + 1
                /\ errors' = errors + 1
             \/ UNCHANGED <<lost, droppedEvents, errors>>
      PROVE  CountersInv'
  <2>4. CASE Cardinality(lost') = Cardinality(lost) + 1 /\ droppedEvents' = droppedEvents + 1
    <3>1. /\ kernel.dropped + (droppedEvents + 1) >= Cardinality(lost) + 1
          /\ kernel.dropped + (droppedEvents + 1) <= (Cardinality(lost) + 1) + errors
          /\ kernel.dropped + (droppedEvents + 1) <= (Cardinality(lost) + 1) + (errors + 1)
      BY <1>0, Countable, Slack
    <3>2. errors' = errors \/ errors' = errors + 1
      BY <1>2, <2>4
    <3> QED
      BY <1>1, <1>2, <2>4, <3>1, <3>2 DEF CountersInv, NotYetCounted
  <2>5. CASE lost' = lost /\ errors' = errors + 1
    <3>1. /\ kernel.dropped + droppedEvents <= Cardinality(lost) + (errors + 1)
          /\ kernel.dropped + (droppedEvents + 1) >= Cardinality(lost)
          /\ kernel.dropped + (droppedEvents + 1) <= Cardinality(lost) + (errors + 1)
      BY <1>0, Countable, Slack
    <3>2. droppedEvents' = droppedEvents \/ droppedEvents' = droppedEvents + 1
      BY <1>2, <2>5
    <3> QED
      BY <1>0, <1>1, <1>2, <2>5, <3>1, <3>2 DEF CountersInv, NotYetCounted
  <2>6. CASE UNCHANGED <<lost, droppedEvents, errors>>
    BY <1>0, <1>1, <1>2, <2>6 DEF CountersInv, NotYetCounted
  <2> QED
    BY <1>2, <2>4, <2>5, <2>6
<1>6. ASSUME eventChan' = eventChan, poller.pc # "count", poller'.pc # "count"
      PROVE  Entered'
  BY <1>1, <1>6 DEF CountersInv, Entered, Busy, Pending
<1>3. CASE PollMalformed
  <2>1. /\ ring # <<>> /\ lost' = lost \cup {Head(ring)} /\ droppedEvents' = droppedEvents + 1
        /\ errors' = errors + 1 /\ eventChan' = eventChan
    BY <1>3 DEF PollMalformed
  <2>2. Head(ring) \in Elements(ring)
    BY <2>1, TakeFront, WaitingTypes
  <2>3. Head(ring) \notin lost
    BY <2>2 DEF PlaceInv, Places, Waiting
  <2>4. poller'.pc # "count"
    BY <1>3, WaitingTypes DEF PollMalformed, Poller
  <2> QED
    BY <1>1, <1>2, <1>6, <2>1, <2>3, <2>4, LoseCounters
<1>4. ASSUME NEW temporary \in BOOLEAN, PollError(temporary) PROVE CountersInv'
  <2>1. /\ UNCHANGED <<eventChan, lost>> /\ errors' = errors + 1
        /\ droppedEvents' = droppedEvents \/ droppedEvents' = droppedEvents + 1
    BY <1>4 DEF PollError
  <2>2. poller'.pc # "count"
    BY <1>4, WaitingTypes DEF PollError, Poller
  <2> QED
    BY <1>1, <1>2, <1>6, <2>1, <2>2
<1>5. CASE PollSend
  <2>1. /\ poller.pc = "send" /\ errors' = errors
        /\ \/ UNCHANGED <<eventChan, poller, lost, droppedEvents>>
           \/ /\ eventChan' = Append(eventChan, poller.event)
              /\ poller'.pc = "count" /\ UNCHANGED <<lost, droppedEvents>>
           \/ /\ lost' = lost \cup {poller.event} /\ droppedEvents' = droppedEvents + 1
              /\ eventChan' = eventChan /\ poller'.pc = "select"
    BY <1>5 DEF PollSend
  <2>2. poller.event \in Ids /\ poller.event \in InPoller
    <3>1. poller.event # NoEvent
      BY <2>1 DEF Inv, Holding
    <3> QED
      BY <3>1, WaitingTypes DEF InPoller
  <2>3. CASE UNCHANGED <<eventChan, poller, lost, droppedEvents>>
    BY <1>2, <1>6, <2>1, <2>3
  <2>4. CASE /\ eventChan' = Append(eventChan, poller.event)
             /\ poller'.pc = "count" /\ UNCHANGED <<lost, droppedEvents>>
    <3>1. Len(eventChan') = Len(eventChan) + 1
      BY <2>2, <2>4, AddBack, WaitingTypes
    <3>2. Busy' = Busy /\ Pending = 0 /\ Pending' = 1
      BY <1>1, <2>1, <2>4 DEF Busy, Pending
    <3>3. Entered'
      BY <1>1, <2>4, <3>1, <3>2, Countable DEF CountersInv, Entered
    <3> QED
      BY <1>2, <2>1, <2>4, <3>3
  <2>5. CASE /\ lost' = lost \cup {poller.event} /\ droppedEvents' = droppedEvents + 1
             /\ eventChan' = eventChan /\ poller'.pc = "select"
    <3>1. poller.event \notin lost
      BY <2>2 DEF PlaceInv, Places, Waiting
    <3> QED
      BY <1>2, <1>6, <2>1, <2>5, <3>1, LoseCounters
  <2> QED
    BY <2>1, <2>3, <2>4, <2>5
<1> QED
  BY <1>3, <1>4, <1>5

\* The error of the closed reader is counted, and then the event that was sent.
LEMMA PollerOtherCounters ==
    ASSUME Inv, CountersInv, PollSelect \/ PollRead \/ PollClosed \/ PollCount
    PROVE  CountersInv'
<1>1. /\ UNCHANGED <<kernel, eventChan, consumer, handled, lost, errors, stop>>
      /\ Busy' = Busy /\ RingOpen' = RingOpen /\ poller \in Poller
  BY WaitingTypes DEF PollSelect, PollRead, PollClosed, PollCount, Busy, RingOpen
<1>2. /\ Cardinality(lost) \in Nat /\ errors \in Nat /\ droppedEvents \in Nat
      /\ kernel.dropped \in Nat /\ processedEvents \in Nat
  BY Countable
<1>3. /\ kernel.dropped + droppedEvents >= Cardinality(lost)
      /\ NotYetCounted \/ CountedOnce
      /\ Entered
  BY DEF CountersInv
<1>4. CASE PollSelect
  <2>1. /\ poller.pc = "select" /\ poller'.pc \in {"read", "exited"}
        /\ UNCHANGED <<processedEvents, droppedEvents>>
        /\ stop # "no" => poller'.pc = "exited"
    BY <1>1, <1>4 DEF PollSelect, Poller
  <2>2. Entered'
    BY <1>1, <1>3, <2>1 DEF Entered, Pending
  <2>3. CountedOnce => CountedOnce'
    BY <1>1, <2>1 DEF CountedOnce, RingOpen
  <2> QED
    BY <1>1, <1>3, <2>1, <2>2, <2>3 DEF CountersInv, NotYetCounted
<1>5. CASE PollRead
  <2>1. /\ poller.pc = "read" /\ poller'.pc = "send"
        /\ UNCHANGED <<processedEvents, droppedEvents>>
    BY <1>5 DEF PollRead
  <2>2. Entered' /\ NotYetCounted
    BY <1>1, <1>3, <2>1, BeforeClosing DEF Entered, Pending
  <2> QED
    BY <1>1, <1>3, <2>1, <2>2 DEF CountersInv, NotYetCounted
<1>6. CASE PollClosed
  <2>1. /\ poller.pc = "read" /\ poller'.pc = "select" /\ ~RingOpen
        /\ processedEvents' = processedEvents /\ droppedEvents' = droppedEvents + 1
    BY <1>1, <1>6 DEF PollClosed, Poller
  <2>2. Entered' /\ NotYetCounted
    BY <1>1, <1>3, <2>1, BeforeClosing DEF Entered, Pending
  <2>3. /\ kernel.dropped + (droppedEvents + 1) >= Cardinality(lost)
        /\ kernel.dropped + (droppedEvents + 1) <= Cardinality(lost) + errors + 1
    BY <1>2, <1>3, <2>2 DEF NotYetCounted
  <2>4. CountedOnce'
    BY <1>1, <2>1, <2>3 DEF CountedOnce
  <2> QED
    BY <1>1, <2>1, <2>2, <2>3, <2>4 DEF CountersInv
<1>7. CASE PollCount
  <2>1. /\ poller.pc = "count" /\ poller'.pc = "select"
        /\ processedEvents' = processedEvents + 1 /\ droppedEvents' = droppedEvents
    BY <1>1, <1>7 DEF PollCount, Poller
  <2>2. Pending = 1 /\ Pending' = 0
    BY <2>1 DEF Pending
  <2>3. Entered' /\ NotYetCounted
    BY <1>1, <1>2, <1>3, <2>1, <2>2, BeforeClosing DEF Entered
  <2> QED
    BY <1>1, <1>3, <2>1, <2>3 DEF CountersInv, NotYetCounted
<1> QED
  BY <1>4, <1>5, <1>6, <1>7

\* What the poller does not do leaves its own part of the account alone.
LEMMA OthersCounters ==
    ASSUME CountersInv, Entered',
           UNCHANGED <<kernel, lost, droppedEvents, errors, poller>>,
           RingOpen' => RingOpen
    PROVE  CountersInv'
  BY DEF CountersInv, NotYetCounted, CountedOnce

\* What leaves the channel makes one consumer busy.
LEMMA TakeCounters ==
    ASSUME Inv, PlaceInv, CountersInv, NEW c \in Consumers, Take(c)
    PROVE  CountersInv'
<1>1. /\ UNCHANGED <<kernel, poller, handled, lost, processedEvents, droppedEvents, errors, stop>>
      /\ eventChan # <<>> /\ eventChan' = Tail(eventChan)
      /\ RingOpen' => RingOpen /\ Pending' = Pending
  BY DEF Take, RingOpen, Pending
<1>2. Len(eventChan') = Len(eventChan) - 1
  BY <1>1, TakeFront, WaitingTypes
<1>3. Busy' = Busy \cup {c} /\ c \notin Busy
  BY TakePlaces DEF Busy
<1>4. Cardinality(Busy') = Cardinality(Busy) + 1
  BY <1>3, Countable, FS_AddElement
<1>5. Entered'
  <2>1. Pending \in Nat
    BY DEF Pending
  <2>2. Entered
    BY DEF CountersInv
  <2>3. /\ Len(eventChan) \in Nat /\ Cardinality(handled) \in Nat
        /\ Cardinality(Busy) \in Nat /\ processedEvents \in Nat
    BY Countable
  <2>4. processedEvents' = processedEvents /\ Pending' = Pending
    BY <1>1 DEF Pending
  <2>5. Cardinality(handled') = Cardinality(handled)
    BY <1>1
  <2> QED
    BY ONLY <1>4, <2>1, <2>2, <2>3, <2>4, <2>5, <1>2 DEF Entered
<1> QED
  BY <1>1, <1>5, OthersCounters

\* Who has handled an event is not busy any more.
LEMMA HandleCounters ==
    ASSUME Inv, PlaceInv, CountersInv, NEW c \in Consumers, Handle(c)
    PROVE  CountersInv'
<1>1. /\ UNCHANGED <<kernel, poller, eventChan, lost, processedEvents, droppedEvents, errors, stop>>
      /\ RingOpen' => RingOpen /\ Pending' = Pending
  BY DEF Handle, RingOpen, Pending
<1>2. Cardinality(handled') = Cardinality(handled) + 1
  BY HandlePlaces, Countable, FS_AddElement
<1>3. Busy' = Busy \ {c} /\ c \in Busy
  BY HandlePlaces DEF Busy
<1>4. Cardinality(Busy') = Cardinality(Busy) - 1
  BY <1>3, Countable, FS_RemoveElement
<1>5. Entered'
  <2>1. Pending \in Nat
    BY DEF Pending
  <2>2. Entered
    BY DEF CountersInv
  <2>3. /\ Len(eventChan) \in Nat /\ Cardinality(handled) \in Nat
        /\ Cardinality(Busy) \in Nat /\ processedEvents \in Nat
    BY Countable
  <2>4. processedEvents' = processedEvents /\ Pending' = Pending
    BY <1>1 DEF Pending
  <2>5. Len(eventChan') = Len(eventChan)
    BY <1>1
  <2> QED
    BY ONLY <1>4, <2>1, <2>2, <2>3, <2>4, <2>5, <1>2 DEF Entered
<1> QED
  BY <1>1, <1>5, OthersCounters

\* The counters agree after every step.
LEMMA CountersNext == Inv /\ PlaceInv /\ CountersInv /\ [Next]_vars => CountersInv'
<1> SUFFICES ASSUME Inv, PlaceInv, CountersInv, [Next]_vars PROVE CountersInv'
  OBVIOUS
<1>1. CASE Cancel \/ StopStep \/ StatsStep \/ UNCHANGED vars
  <2>1. /\ UNCHANGED <<kernel, eventChan, poller, consumer, handled, lost, processedEvents,
                       droppedEvents, errors>>
        /\ RingOpen' => RingOpen
    BY <1>1 DEF Cancel, StopStep, StatsStep, StatsTick, StatsRead, vars, RingOpen
  <2>2. Entered'
    BY <2>1 DEF CountersInv, Entered, Busy, Pending
  <2> QED
    BY <2>1, <2>2, OthersCounters
<1>2. ASSUME NEW c \in Consumers, Exit(c) PROVE CountersInv'
  <2>1. /\ UNCHANGED <<kernel, eventChan, poller, handled, lost, processedEvents, droppedEvents,
                       errors>>
        /\ consumer' = [consumer EXCEPT ![c].pc = "exited"]
        /\ RingOpen' => RingOpen
    BY <1>2 DEF Exit, RingOpen
  <2>2. \A d \in Consumers : consumer'[d].event = consumer[d].event
    BY <2>1, WaitingTypes DEF Consumer
  <2>3. Busy' = Busy
    BY <2>2 DEF Busy
  <2>4. Entered'
    BY <2>1, <2>3 DEF CountersInv, Entered, Pending
  <2> QED
    BY <2>1, <2>4, OthersCounters
<1> QED
  BY <1>1, <1>2, SendEventCounters, PollerCounters, PollerOtherCounters, TakeCounters,
     HandleCounters DEF Next, PollerStep, ConsumerStep

-----------------------------------------------------------------------------
(* The theorems.                                                           *)

\* Every reachable state satisfies the invariant (pollEvents, eventWorker, Stop).
THEOREM TracerInvariant == Spec => []Inv
<1> QED
  BY InvInit, InvNext, PTL DEF Spec

\* The tracer's variables keep their types, and ring buffer and channel their
\* capacities, for any number of workers and events.
THEOREM TypeCorrect == Spec => [](TypeOK /\ Holding)
<1>1. Inv => TypeOK /\ Holding
  BY DEF Inv
<1> QED
  BY <1>1, TracerInvariant, PTL

\* Every event is in one place and only one, for any number of workers and events
\* (send_event, pollEvents, eventWorker, eventLoop).
THEOREM NothingVanishes == Spec => []EventInOnePlace
<1>1. Inv /\ PlaceInv => EventInOnePlace
  BY PlacesImply
<1> QED
  BY <1>1, InvInit, InvNext, PlacesInit, PlacesNext, PTL DEF Spec

\* What waits in the channel, with the poller and in the ring keeps the kernel's
\* order (pollEvents).
THEOREM OrderKept == Spec => []KernelOrder
<1>1. Inv /\ PlaceInv => KernelOrder
  BY OrderImplies
<1> QED
  BY <1>1, InvInit, InvNext, PlacesInit, PlacesNext, PTL DEF Spec

\* The counters tell where the events are, up to the one event that has entered the
\* channel and is not counted yet, the read errors, and the one error of the closed
\* reader, for any number of workers and events (send_event, pollEvents).
THEOREM CountersFollow == Spec => []CountersAgree
<1>1. Spec => []CountersInv
  BY InvInit, InvNext, PlacesInit, PlacesNext, CountersInit, CountersNext, PTL DEF Spec
<1> QED
  BY <1>1, CountersImply, TracerInvariant, PTL

\* Once Stop has closed the channel, a poller that has nothing in hand gets nothing
\* more, and the process lives on (pollEvents, Stop).
THEOREM EmptyHandedStopIsSafe == Spec => StopSafeWhenEmptyHanded
<1> DEFINE Safe == stop = "done" /\ poller.event = NoEvent
                     => poller'.event = NoEvent /\ ~panicked'
<1>1. Inv /\ [Next]_vars => [Safe]_vars
  <2> SUFFICES ASSUME Inv, Next, stop = "done", poller.event = NoEvent
               PROVE  poller'.event = NoEvent /\ ~panicked'
    OBVIOUS
  <2>1. poller \in Poller /\ poller.pc # "send" /\ ~RingOpen
    BY DEF Inv, TypeOK, Holding, Poller, RingOpen
  <2>2. CASE PollerStep
    <3>1. PollSelect \/ PollClosed \/ PollCount
      BY <2>1, <2>2 DEF PollerStep, PollRead, PollMalformed, PollError, PollSend
    <3> QED
      BY <2>1, <3>1 DEF PollSelect, PollClosed, PollCount, Poller
  <2>3. CASE \/ SendEvent \/ Cancel \/ StopStep \/ StatsStep
             \/ \E c \in Consumers : ConsumerStep(c)
    BY <2>3 DEF SendEvent, Cancel, StopStep, StatsStep, StatsTick, StatsRead, ConsumerStep,
                Take, Handle, Exit
  <2> QED
    BY <2>2, <2>3 DEF Next
<1>2. [][Safe]_vars => StopSafeWhenEmptyHanded
  BY DEF StopSafeWhenEmptyHanded
<1> QED
  BY <1>1, <1>2, TracerInvariant, PTL DEF Spec
=============================================================================

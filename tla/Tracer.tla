-------------------------------- MODULE Tracer --------------------------------
(***************************************************************************)
(* The way of an event from the kernel to the correlator: the BPF program  *)
(* puts it into the ring buffer (bpf/network_trace.bpf.c, send_event), the *)
(* poller goroutine of pkg/ebpf/tracer.go reads it and offers it to the    *)
(* bounded channel eventChan, and the tracer's event workers and the       *)
(* application's eventLoop (cmd/main.go) take it from there and call       *)
(* ProcessEvent.  Shutdown is part of it: main cancels the context and     *)
(* then, while the goroutines may still be running, calls Stop, which      *)
(* closes stopChan, the ring buffer reader and at last eventChan.  A       *)
(* goroutine of its own, statsPoller, reads the kernel's counters whenever *)
(* its ticker fires, and nothing ends it.                                  *)
(*                                                                         *)
(* Events are numbered in the order the kernel produces them.  A panic     *)
(* ends the process: no action is possible after it.                       *)
(***************************************************************************)
EXTENDS Integers, Sequences, FiniteSets

CONSTANTS
    Workers,     \* the tracer's event workers
    Loop,        \* the application's event loop, one more consumer
    RingSize,    \* records the ring buffer has room for
    ChanSize,    \* capacity of eventChan
    MaxEvents,   \* bound on the number of events the kernel produces
    MaxErrors    \* bound on the number of read errors

ASSUME WorkersAssumption == IsFiniteSet(Workers) /\ Loop \notin Workers
ASSUME SizeAssumption == RingSize \in Nat \ {0} /\ ChanSize \in Nat \ {0}
ASSUME MaxAssumption == MaxEvents \in Nat /\ MaxErrors \in Nat

Consumers == Workers \cup {Loop}

VARIABLES
    kernel,      \* the BPF statistics: events total, dropped and sent
    ring,        \* the ring buffer
    eventChan,   \* the channel
    poller,      \* where the poller is, and the event it has read
    consumer,    \* where each consumer is, and the event it is processing
    handled,     \* events ProcessEvent returned for
    lost,        \* events discarded by the kernel or by the poller
    processedEvents,
    droppedEvents,
    errors,      \* read errors so far
    ctxDone,     \* the application's context is cancelled
    stop,        \* how far Stop has come
    statsPoller, \* whether statsPoller waits for its ticker or reads the counters
    panicked     \* the process died of a send on a closed channel

vars == <<kernel, ring, eventChan, poller, consumer, handled, lost, processedEvents,
          droppedEvents, errors, ctxDone, stop, statsPoller, panicked>>

NoEvent == 0
Ids == 1..kernel.total
Elements(q) == {q[i] : i \in DOMAIN q}

\* Every variable has its type.
TypeOK ==
    /\ kernel \in [total : 0..MaxEvents, dropped : Nat, sent : Nat]
    /\ ring \in Seq(Ids)
    /\ eventChan \in Seq(Ids)
    /\ poller \in [pc : {"select", "read", "send", "count", "exited"},
                  event : {NoEvent} \cup Ids]
    /\ consumer \in [Consumers -> [pc : {"select", "handle", "exited"},
                                   event : {NoEvent} \cup Ids]]
    /\ handled \subseteq Ids
    /\ lost \subseteq Ids
    /\ processedEvents \in Nat
    /\ droppedEvents \in Nat
    /\ errors \in 0..MaxErrors
    /\ ctxDone \in BOOLEAN
    /\ stop \in {"no", "signalled", "ringClosed", "done"}
    /\ statsPoller \in {"waiting", "reading"}
    /\ panicked \in BOOLEAN

\* NewTracer and Start.
Init ==
    /\ kernel = [total |-> 0, dropped |-> 0, sent |-> 0]
    /\ ring = <<>>
    /\ eventChan = <<>>
    /\ poller = [pc |-> "select", event |-> NoEvent]
    /\ consumer = [c \in Consumers |-> [pc |-> "select", event |-> NoEvent]]
    /\ handled = {}
    /\ lost = {}
    /\ processedEvents = 0
    /\ droppedEvents = 0
    /\ errors = 0
    /\ ctxDone = FALSE
    /\ stop = "no"
    /\ statsPoller = "waiting"
    /\ panicked = FALSE

-----------------------------------------------------------------------------
(* The kernel.                                                             *)

\* Mutant: a record without room is not counted as dropped.
SendEventUncounted ==
    /\ ~panicked
    /\ stop = "no"
    /\ kernel.total < MaxEvents
    /\ kernel' = [kernel EXCEPT !.total = @ + 1,
                                !.sent = IF Len(ring) < RingSize THEN @ + 1 ELSE @]
    /\ ring' = IF Len(ring) < RingSize THEN Append(ring, kernel.total + 1) ELSE ring
    /\ lost' = IF Len(ring) < RingSize THEN lost ELSE lost \cup {kernel.total + 1}
    /\ UNCHANGED <<eventChan, poller, consumer, handled, processedEvents,
                   droppedEvents, errors, ctxDone, stop, statsPoller, panicked>>

\* send_event: the record goes into the ring buffer, or is counted as dropped.
\* Stop closes the links of the probes, after which no event is produced.
SendEvent ==
    /\ ~panicked
    /\ stop = "no"
    /\ kernel.total < MaxEvents
    /\ \/ /\ Len(ring) < RingSize
          /\ ring' = Append(ring, kernel.total + 1)
          /\ kernel' = [kernel EXCEPT !.total = @ + 1, !.sent = @ + 1]
          /\ UNCHANGED lost
       \/ /\ Len(ring) >= RingSize
          /\ kernel' = [kernel EXCEPT !.total = @ + 1, !.dropped = @ + 1]
          /\ lost' = lost \cup {kernel.total + 1}
          /\ UNCHANGED ring
    /\ UNCHANGED <<eventChan, poller, consumer, handled, processedEvents,
                   droppedEvents, errors, ctxDone, stop, statsPoller, panicked>>

-----------------------------------------------------------------------------
(* pollEvents.                                                             *)

\* The select at the head of the loop.
PollSelect ==
    /\ ~panicked
    /\ poller.pc = "select"
    /\ poller' = [poller EXCEPT !.pc = IF ctxDone \/ stop # "no" THEN "exited" ELSE "read"]
    /\ UNCHANGED <<kernel, ring, eventChan, consumer, handled, lost, processedEvents,
                   droppedEvents, errors, ctxDone, stop, statsPoller, panicked>>

\* Mutant: Stop does not close the reader.
RingNeverClosed == TRUE

\* A closed reader only returns errors; until then Read waits for a record.
RingOpen == stop \in {"no", "signalled"}

\* Mutant: the newest record is read first.
PollReadNewest ==
    /\ ~panicked
    /\ poller.pc = "read"
    /\ RingOpen
    /\ ring # <<>>
    /\ poller' = [pc |-> "send", event |-> ring[Len(ring)]]
    /\ ring' = SubSeq(ring, 1, Len(ring) - 1)
    /\ UNCHANGED <<kernel, eventChan, consumer, handled, lost, processedEvents,
                   droppedEvents, errors, ctxDone, stop, statsPoller, panicked>>

\* Read returns a record that parseRawEvent accepts.
PollRead ==
    /\ ~panicked
    /\ poller.pc = "read"
    /\ RingOpen
    /\ ring # <<>>
    /\ poller' = [pc |-> "send", event |-> Head(ring)]
    /\ ring' = Tail(ring)
    /\ UNCHANGED <<kernel, eventChan, consumer, handled, lost, processedEvents,
                   droppedEvents, errors, ctxDone, stop, statsPoller, panicked>>

\* Read returns a record that parseRawEvent refuses.
PollMalformed ==
    /\ ~panicked
    /\ poller.pc = "read"
    /\ RingOpen
    /\ ring # <<>>
    /\ errors < MaxErrors
    /\ errors' = errors + 1
    /\ lost' = lost \cup {Head(ring)}
    /\ ring' = Tail(ring)
    /\ droppedEvents' = droppedEvents + 1
    /\ poller' = [poller EXCEPT !.pc = "select"]
    /\ UNCHANGED <<kernel, eventChan, consumer, handled, processedEvents, ctxDone,
                   stop, statsPoller, panicked>>

\* Mutant: an error ends the loop.
PollErrorExits(temporary) ==
    /\ ~panicked
    /\ poller.pc = "read"
    /\ RingOpen
    /\ errors < MaxErrors
    /\ errors' = errors + 1
    /\ droppedEvents' = IF temporary THEN droppedEvents ELSE droppedEvents + 1
    /\ poller' = [poller EXCEPT !.pc = "exited"]
    /\ UNCHANGED <<kernel, ring, eventChan, consumer, handled, lost, processedEvents,
                   ctxDone, stop, statsPoller, panicked>>

\* Read fails, for good (counted as a dropped event) or temporarily.
PollError(temporary) ==
    /\ ~panicked
    /\ poller.pc = "read"
    /\ RingOpen
    /\ errors < MaxErrors
    /\ errors' = errors + 1
    /\ droppedEvents' = IF temporary THEN droppedEvents ELSE droppedEvents + 1
    /\ poller' = [poller EXCEPT !.pc = "select"]
    /\ UNCHANGED <<kernel, ring, eventChan, consumer, handled, lost, processedEvents,
                   ctxDone, stop, statsPoller, panicked>>

\* Read fails because Stop has closed the reader. The error wraps ErrClosed and
\* is not ErrClosed itself, so that the comparison at the head of the error path
\* misses it: it is counted as a dropped event, and the loop goes on to its
\* select.
PollClosed ==
    /\ ~panicked
    /\ poller.pc = "read"
    /\ ~RingOpen
    /\ droppedEvents' = droppedEvents + 1
    /\ poller' = [poller EXCEPT !.pc = "select"]
    /\ UNCHANGED <<kernel, ring, eventChan, consumer, handled, lost, processedEvents,
                   errors, ctxDone, stop, statsPoller, panicked>>

\* Mutant: an event that does not fit is counted like one that was sent.
PollSendCountsAll ==
    /\ ~panicked
    /\ poller.pc = "send"
    /\ \/ /\ stop = "done"
          /\ panicked' = TRUE
          /\ UNCHANGED <<eventChan, poller, lost>>
       \/ /\ stop # "done"
          /\ poller' = [pc |-> "count", event |-> NoEvent]
          /\ eventChan' = IF Len(eventChan) < ChanSize
                          THEN Append(eventChan, poller.event) ELSE eventChan
          /\ lost' = IF Len(eventChan) < ChanSize THEN lost ELSE lost \cup {poller.event}
          /\ UNCHANGED panicked
    /\ UNCHANGED <<kernel, ring, consumer, handled, processedEvents, droppedEvents, errors,
                   ctxDone, stop, statsPoller>>

\* The event is offered to the channel: taken, dropped when the channel is full,
\* and a panic when Stop has closed the channel meanwhile.
PollSend ==
    /\ ~panicked
    /\ poller.pc = "send"
    /\ \/ /\ stop = "done"
          /\ panicked' = TRUE
          /\ UNCHANGED <<eventChan, poller, lost, droppedEvents>>
       \/ /\ stop # "done"
          /\ Len(eventChan) < ChanSize
          /\ eventChan' = Append(eventChan, poller.event)
          /\ poller' = [pc |-> "count", event |-> NoEvent]
          /\ UNCHANGED <<lost, droppedEvents, panicked>>
       \/ /\ stop # "done"
          /\ Len(eventChan) >= ChanSize
          /\ lost' = lost \cup {poller.event}
          /\ droppedEvents' = droppedEvents + 1
          /\ poller' = [pc |-> "select", event |-> NoEvent]
          /\ UNCHANGED <<eventChan, panicked>>
    /\ UNCHANGED <<kernel, ring, consumer, handled, processedEvents, errors, ctxDone,
                   stop, statsPoller>>

\* The event that was sent, and may be handled by now, is counted.
PollCount ==
    /\ ~panicked
    /\ poller.pc = "count"
    /\ processedEvents' = processedEvents + 1
    /\ poller' = [poller EXCEPT !.pc = "select"]
    /\ UNCHANGED <<kernel, ring, eventChan, consumer, handled, lost, droppedEvents,
                   errors, ctxDone, stop, statsPoller, panicked>>

-----------------------------------------------------------------------------
(* eventWorker and App.eventLoop.                                          *)

\* Mutant: the event stays in the channel.
TakeCopies(c) ==
    /\ ~panicked
    /\ consumer[c].pc = "select"
    /\ eventChan # <<>>
    /\ consumer' = [consumer EXCEPT ![c] = [pc |-> "handle", event |-> Head(eventChan)]]
    /\ UNCHANGED <<kernel, ring, eventChan, poller, handled, lost, processedEvents,
                   droppedEvents, errors, ctxDone, stop, statsPoller, panicked>>

\* An event is received; also from the closed channel, while it has any.
Take(c) ==
    /\ ~panicked
    /\ consumer[c].pc = "select"
    /\ eventChan # <<>>
    /\ consumer' = [consumer EXCEPT ![c] = [pc |-> "handle", event |-> Head(eventChan)]]
    /\ eventChan' = Tail(eventChan)
    /\ UNCHANGED <<kernel, ring, poller, handled, lost, processedEvents, droppedEvents,
                   errors, ctxDone, stop, statsPoller, panicked>>

\* ProcessEvent returns.
Handle(c) ==
    /\ ~panicked
    /\ consumer[c].pc = "handle"
    /\ handled' = handled \cup {consumer[c].event}
    /\ consumer' = [consumer EXCEPT ![c] = [pc |-> "select", event |-> NoEvent]]
    /\ UNCHANGED <<kernel, ring, eventChan, poller, lost, processedEvents, droppedEvents,
                   errors, ctxDone, stop, statsPoller, panicked>>

\* The context is done, the channel closed and empty or, for a worker,
\* stopChan closed.  The event loop does not look at stopChan.
Exit(c) ==
    /\ ~panicked
    /\ consumer[c].pc = "select"
    /\ \/ ctxDone
       \/ stop = "done" /\ eventChan = <<>>
       \/ stop # "no" /\ c \in Workers
    /\ consumer' = [consumer EXCEPT ![c].pc = "exited"]
    /\ UNCHANGED <<kernel, ring, eventChan, poller, handled, lost, processedEvents,
                   droppedEvents, errors, ctxDone, stop, statsPoller, panicked>>

-----------------------------------------------------------------------------
(* statsPoller.                                                            *)

\* The ticker fires.
StatsTick ==
    /\ ~panicked
    /\ statsPoller = "waiting"
    /\ statsPoller' = "reading"
    /\ UNCHANGED <<kernel, ring, eventChan, poller, consumer, handled, lost,
                   processedEvents, droppedEvents, errors, ctxDone, stop, panicked>>

\* readBPFStats returns, with whatever the maps, open or closed, let it read.
StatsRead ==
    /\ ~panicked
    /\ statsPoller = "reading"
    /\ statsPoller' = "waiting"
    /\ UNCHANGED <<kernel, ring, eventChan, poller, consumer, handled, lost,
                   processedEvents, droppedEvents, errors, ctxDone, stop, panicked>>

-----------------------------------------------------------------------------
(* The shutdown in cmd/main.go.                                            *)

\* A signal arrives and main cancels the context.
Cancel ==
    /\ ~panicked
    /\ ~ctxDone
    /\ ctxDone' = TRUE
    /\ UNCHANGED <<kernel, ring, eventChan, poller, consumer, handled, lost,
                   processedEvents, droppedEvents, errors, stop, statsPoller, panicked>>

\* Stop closes stopChan and the links, then the reader, then eventChan.
StopStep ==
    /\ ~panicked
    /\ \/ stop = "no" /\ ctxDone /\ stop' = "signalled"
       \/ stop = "signalled" /\ stop' = "ringClosed"
       \/ stop = "ringClosed" /\ stop' = "done"
    /\ UNCHANGED <<kernel, ring, eventChan, poller, consumer, handled, lost,
                   processedEvents, droppedEvents, errors, ctxDone, statsPoller, panicked>>

PollerStep ==
    \/ PollSelect
    \/ PollRead
    \/ PollMalformed
    \/ \E temporary \in BOOLEAN : PollError(temporary)
    \/ PollClosed
    \/ PollSend
    \/ PollCount

ConsumerStep(c) == Take(c) \/ Handle(c) \/ Exit(c)

StatsStep == StatsTick \/ StatsRead

Next ==
    \/ SendEvent
    \/ PollerStep
    \/ \E c \in Consumers : ConsumerStep(c)
    \/ StatsStep
    \/ Cancel
    \/ StopStep

Spec == Init /\ [][Next]_vars

(***************************************************************************)
(* Every goroutine that can run runs, and main goes on once it has begun   *)
(* to stop.  Nothing obliges anyone to send a signal.                      *)
(***************************************************************************)
Fairness ==
    /\ WF_vars(PollerStep)
    /\ \A c \in Consumers : WF_vars(ConsumerStep(c)) /\ SF_vars(Exit(c))
    /\ WF_vars(StatsStep)
    /\ WF_vars(StopStep)

FairSpec == Spec /\ Fairness

-----------------------------------------------------------------------------
(* Properties.                                                             *)

\* Every event the kernel produced is in one place and only one: the ring, the
\* poller, the channel, one consumer, handled or lost.  No shutdown, error or
\* competing consumer makes one vanish or be processed twice.
EventInOnePlace ==
    LET places == <<Elements(ring), Elements(eventChan), {poller.event} \ {NoEvent},
                    handled, lost>>
        hands == [c \in Consumers |-> {consumer[c].event} \ {NoEvent}]
    IN  /\ Ids = (UNION {places[i] : i \in DOMAIN places}) \cup (UNION {hands[c] : c \in Consumers})
        /\ \A i, j \in DOMAIN places : i # j => places[i] \cap places[j] = {}
        /\ \A c, d \in Consumers : c # d => hands[c] \cap hands[d] = {}
        /\ \A c \in Consumers, i \in DOMAIN places : hands[c] \cap places[i] = {}

\* What waits keeps the kernel's order, across the ring, the poller and the
\* channel.
KernelOrder ==
    LET q == eventChan \o (IF poller.event = NoEvent THEN <<>> ELSE <<poller.event>>) \o ring
    IN  \A i, j \in DOMAIN q : i < j => q[i] < q[j]

\* The counters are as exact as the order of the poller's steps lets them be. An
\* event that has entered the channel is counted as processed after that, when a
\* consumer may have handled it already: the counter is behind by the one event
\* the poller is about to count, and never by more. What the kernel or the poller
\* discarded is counted as dropped; so is a read error, although it lost nothing,
\* and once more the error with which the closed reader answers.
CountersAgree ==
    /\ processedEvents + (IF poller.pc = "count" THEN 1 ELSE 0) =
         Len(eventChan) + Cardinality(handled)
           + Cardinality({c \in Consumers : consumer[c].event # NoEvent})
    /\ kernel.dropped + droppedEvents >= Cardinality(lost)
    /\ kernel.dropped + droppedEvents
         <= Cardinality(lost) + errors + (IF RingOpen THEN 0 ELSE 1)

\* The process can only die of an event that the poller had read when Stop had
\* not closed the reader: if the poller has nothing in hand when the channel is
\* closed, it never sends again.
StopSafeWhenEmptyHanded ==
    [][stop = "done" /\ poller.event = NoEvent => poller'.event = NoEvent /\ ~panicked']_vars

\* As long as no shutdown begins, every event in the ring is handled or counted
\* as dropped.
EventsHandled ==
    \A e \in 1..MaxEvents :
        e \in Elements(ring) ~> (ctxDone \/ e \in handled \cup lost)

\* After a signal the goroutines that move events, pollEvents, the event workers
\* and eventLoop, return, unless the process dies before. (statsPoller does not.)
GoroutinesExit ==
    ctxDone ~>
        \/ panicked
        \/ poller.pc = "exited" /\ \A c \in Consumers : consumer[c].pc = "exited"

\* Stop ends with the message "eBPF tracer stopped", and main with a plain
\* return: stopping does not kill the process.
StopsCleanly == ~panicked

\* After the message "eBPF tracer stopped" the tracer's goroutines come to rest:
\* statsPoller no longer reads the maps that Stop has closed. Not a property of the
\* code: TLC refutes it with MCTracerPolls.cfg.
StopEndsPolling == stop = "done" ~> (panicked \/ [](statsPoller = "waiting"))
=============================================================================

------------------------------ MODULE Correlator ------------------------------
(***************************************************************************)
(* The correlator of pkg/trace/correlator.go.  Several goroutines call     *)
(* ProcessEvent concurrently (the tracer's event workers and the           *)
(* application's event loop drain one channel), and a cleanup goroutine    *)
(* expires what they left behind.  They share                              *)
(*   - connections, the map from a normalised connection key to the        *)
(*     ConnectionFlow in use for it (connMutex);                           *)
(*   - in every flow, inflightReqs, the FIFO of requests that wait for a   *)
(*     response (inflightMutex);                                           *)
(*   - pendingRequests, the spans that have no trace id (pendingMutex);    *)
(*   - the counters of CorrelatorStats (atomic operations, no lock).       *)
(*                                                                         *)
(* One action is one stretch of code between two points where another      *)
(* goroutine can interfere in a way that matters: a critical section with  *)
(* the unshared work around it.  A worker keeps the pointer to a flow      *)
(* across such points, also when the flow has meanwhile left the map.      *)
(*                                                                         *)
(* Spans are numbered in the order ProcessEvent receives them and flows in *)
(* the order they are allocated; the numbers stand for the Go pointers.    *)
(***************************************************************************)
EXTENDS Integers, Sequences, FiniteSets

CONSTANTS
    Workers,      \* the goroutines that call ProcessEvent
    Pids,         \* process ids
    Endpoints,    \* <<ip, port>> pairs; numbers keep the order of the strings
    Events,       \* the raw events that may arrive
    ZeroID,       \* the trace id of an event without a header (33 NUL bytes)
    EmptyID,      \* "", the trace id an empty x-trace-id header leaves
    HeaderIDs,    \* trace ids carried by headers
    maxInflight,  \* bound of inflightReqs (1000 in NewCorrelator)
    Timeout,      \* the correlator's timeout, in ticks of the clock
    CtrMod,       \* 2^w for the width w of the uint64 counters
    MaxEvents     \* bound on the number of events processed

-----------------------------------------------------------------------------
Kinds  == {"connect", "accept", "send", "recv", "close"}
Bodies == {"request", "response", "other"}

RawEvent == [kind : Kinds, pid : Pids, src : Endpoints, dst : Endpoints,
             body : Bodies, hdr : {ZeroID, EmptyID} \cup HeaderIDs]

ASSUME WorkersAssumption == IsFiniteSet(Workers)
ASSUME EndpointsAssumption == Endpoints \subseteq Nat \X Nat
ASSUME EventsAssumption == Events \subseteq RawEvent
ASSUME BoundAssumption == /\ maxInflight \in Nat \ {0}
                          /\ Timeout \in Nat
                          /\ CtrMod \in Nat \ {0}
                          /\ MaxEvents \in Nat
\* The identifiers are told apart from each other and from generated ones.
ASSUME IDAssumption == /\ ZeroID # EmptyID
                       /\ EmptyID \notin HeaderIDs
                       /\ ({ZeroID, EmptyID} \cup HeaderIDs) \cap Nat = {}

TraceIDs == {ZeroID, EmptyID} \cup HeaderIDs \cup Nat

\* getConnectionKey: both directions of a connection get the same key.
Above(a, b) == \/ a[1] > b[1]
               \/ a[1] = b[1] /\ a[2] > b[2]

\* Mutant: the key leaves the process out.
ConnKeyNoPid(e) == IF Above(e.src, e.dst) THEN <<CHOOSE p \in Pids : TRUE, e.dst, e.src>>
                                            ELSE <<CHOOSE p \in Pids : TRUE, e.src, e.dst>>

ConnKey(e) == IF Above(e.src, e.dst) THEN <<e.pid, e.dst, e.src>>
                                     ELSE <<e.pid, e.src, e.dst>>
Keys == Pids \X Endpoints \X Endpoints

\* generateDeterministicTraceID: a digest of the span's identity, which the
\* number of the span stands for.
GeneratedID(s) == s

IsRequest(e)  == e.kind = "send" /\ e.body = "request"
IsResponse(e) == e.kind = "recv" /\ e.body = "response"

\* Addition to an unsigned counter.
Add(n, d) == (n + d) % CtrMod

-----------------------------------------------------------------------------
VARIABLES
    total,        \* stats.TotalEvents, the number of spans so far
    spans,        \* every span ProcessEvent made
    flowCount,    \* number of flows allocated so far
    flows,        \* every ConnectionFlow allocated
    connections,  \* the flow in use for a key, NoFlow when there is none
    worker,       \* where each worker is, and its local variables
    cleaner,      \* where the cleanup goroutine is, and its local variables
    stats         \* the other counters of CorrelatorStats

vars == <<total, spans, flowCount, flows, connections, worker, cleaner, stats>>

NoSpan == 0
NoFlow == 0
NotPending == -1
Expired == Timeout + 1   \* an age at which now.Sub(...) > timeout

SpanIds == 1..total
FlowIds == 1..flowCount

(***************************************************************************)
(* A span.  parent is the request a response was matched with (the code    *)
(* stores its SpanID), seq the request's number in its flow and flow that  *)
(* flow (0 while it is not in one), handled the number of times            *)
(* spanHandler was called with it, pend its age in pendingRequests, and    *)
(* timedOut its "timeout" tag.                                             *)
(***************************************************************************)
Span == [ev : Events, traceID : TraceIDs, parent : Nat, seq : Nat, flow : Nat,
         handled : Nat, pend : NotPending..Expired, timedOut : BOOLEAN]

\* idle is the time since the later one of LastSend and LastRecv.
Flow == [key : Keys, reqs : Seq(Nat), seqCounter : Nat, idle : 0..Expired]

PCs == {"idle", "open", "lookup", "create", "body", "pop", "count", "close",
        "finish", "unpend"}

\* retry is TRUE inside tryCorrelate, FALSE inside the handlers.
Worker == [pc : PCs, span : Nat, flow : Nat, retry : BOOLEAN]

Cleaner == [pc : {"idle", "pending", "settle", "conns"}, span : Nat,
            gen : BOOLEAN]

Stats == [processed : 0..(CtrMod - 1), dropped : 0..(CtrMod - 1),
          inflight : 0..(CtrMod - 1), active : 0..(CtrMod - 1)]

\* Every variable has its type.
TypeOK ==
    /\ total \in 0..MaxEvents
    /\ spans \in [SpanIds -> Span]
    /\ flowCount \in Nat
    /\ flows \in [FlowIds -> Flow]
    /\ connections \in [Keys -> {NoFlow} \cup FlowIds]
    /\ worker \in [Workers -> Worker]
    /\ cleaner \in Cleaner
    /\ stats \in Stats
    /\ \A w \in Workers :
         /\ worker[w].pc # "idle" => worker[w].span \in SpanIds
         /\ worker[w].pc \in {"body", "pop"} => worker[w].flow \in FlowIds
    /\ cleaner.pc = "settle" => cleaner.span \in SpanIds
    /\ \A f \in FlowIds : \A i \in 1..Len(flows[f].reqs) : flows[f].reqs[i] \in SpanIds

IdleWorker == [pc |-> "idle", span |-> NoSpan, flow |-> NoFlow, retry |-> FALSE]

\* NewCorrelator.
Init ==
    /\ total = 0
    /\ spans = [s \in {} |-> 0]
    /\ flowCount = 0
    /\ flows = [f \in {} |-> 0]
    /\ connections = [k \in Keys |-> NoFlow]
    /\ worker = [w \in Workers |-> IdleWorker]
    /\ cleaner = [pc |-> "idle", span |-> NoSpan, gen |-> FALSE]
    /\ stats = [processed |-> 0, dropped |-> 0, inflight |-> 0, active |-> 0]

-----------------------------------------------------------------------------
(* Helpers.                                                                *)

\* The function f on 1..n extended by n + 1 |-> x.
Extend(f, n, x) == [i \in 1..(n + 1) |-> IF i = n + 1 THEN x ELSE f[i]]

Event(w) == spans[worker[w].span].ev
Key(w) == ConnKey(Event(w))

NewFlow(k) == [key |-> k, reqs |-> <<>>, seqCounter |-> 0, idle |-> Expired]

\* The trace id of span s, generated if it has none.
EnsuredID(s) == IF spans[s].traceID = EmptyID THEN GeneratedID(s) ELSE spans[s].traceID

\* A new ConnectionFlow becomes the one in use for key k; the one it replaces,
\* if any, stays reachable only from the workers that hold it.
InstallFlow(k) ==
    /\ flows' = Extend(flows, flowCount, NewFlow(k))
    /\ flowCount' = flowCount + 1
    /\ connections' = [connections EXCEPT ![k] = flowCount + 1]
    /\ stats' = [stats EXCEPT !.active = Add(@, 1)]

Live == {f \in FlowIds : \E k \in Keys : connections[k] = f}

Elements(q) == {q[i] : i \in 1..Len(q)}

\* spanHandler is called for every span of S.
Handled(sp, S) ==
    [s \in DOMAIN sp |->
        IF s \in S THEN [sp[s] EXCEPT !.handled = @ + 1] ELSE sp[s]]

\* Mutant: the flows stay in the map.
SweepKeepsFlows(K) ==
    LET waiting == UNION {Elements(flows[connections[k]].reqs) : k \in K}
    IN  /\ spans' = Handled(spans, waiting)
        /\ stats' = [stats EXCEPT !.inflight = Add(@, -Cardinality(waiting)),
                                  !.processed = Add(@, Cardinality(waiting))]
        /\ UNCHANGED connections

\* The flows in use for the keys of K leave the map.  Every request waiting in
\* one is reported; the list itself keeps its elements.
Sweep(K) ==
    LET F == {connections[k] : k \in K}
        waiting == UNION {Elements(flows[f].reqs) : f \in F}
    IN  /\ spans' = Handled(spans, waiting)
        /\ stats' = [stats EXCEPT
                        !.inflight = Add(@, -Cardinality(waiting)),
                        !.active = Add(@, -Cardinality(F)),
                        !.processed = Add(@, Cardinality(waiting))]
        /\ connections' = [k \in Keys |-> IF k \in K THEN NoFlow ELSE connections[k]]

\* The pending list is locked for as long as the cleaner walks it.
PendingUnlocked == cleaner.pc \notin {"pending", "settle"}

-----------------------------------------------------------------------------
(* ProcessEvent and the handlers it calls.                                 *)

\* TotalEvents is counted, the event converted and parsed (the trace id is
\* ZeroID unless a header replaces it), and the handler of its kind entered.
Receive(w, e) ==
    /\ worker[w].pc = "idle"
    /\ total < MaxEvents
    /\ total' = total + 1
    /\ spans' = Extend(spans, total,
                  [ev |-> e, traceID |-> e.hdr, parent |-> NoSpan, seq |-> 0,
                   flow |-> NoFlow, handled |-> 0, pend |-> NotPending,
                   timedOut |-> FALSE])
    /\ worker' = [worker EXCEPT ![w] =
                    [pc |-> CASE e.kind \in {"connect", "accept"} -> "open"
                              [] e.kind \in {"send", "recv"} -> "lookup"
                              [] e.kind = "close" -> "close",
                     span |-> total + 1, flow |-> NoFlow, retry |-> FALSE]]
    /\ UNCHANGED <<flowCount, flows, connections, cleaner, stats>>

\* handleConnect and handleAccept: the flow in use for the key, if there is
\* one, is replaced without looking at it.
HandleOpen(w) ==
    /\ worker[w].pc = "open"
    /\ InstallFlow(Key(w))
    /\ worker' = [worker EXCEPT ![w].pc = "finish"]
    /\ UNCHANGED <<total, spans, cleaner>>

\* getOrCreateFlow, the look under the read lock.
LookupFlow(w) ==
    /\ worker[w].pc = "lookup"
    /\ worker' = [worker EXCEPT ![w] = [@ EXCEPT
                    !.flow = connections[Key(w)],
                    !.pc = IF connections[Key(w)] = NoFlow THEN "create" ELSE "body"]]
    /\ UNCHANGED <<total, spans, flowCount, flows, connections, cleaner, stats>>

\* getOrCreateFlow, the second look and the creation under the write lock.
CreateFlow(w) ==
    /\ worker[w].pc = "create"
    /\ \/ /\ connections[Key(w)] = NoFlow
          /\ InstallFlow(Key(w))
          /\ worker' = [worker EXCEPT ![w] = [@ EXCEPT !.flow = flowCount + 1, !.pc = "body"]]
       \/ /\ connections[Key(w)] # NoFlow
          /\ worker' = [worker EXCEPT ![w] = [@ EXCEPT !.flow = connections[Key(w)], !.pc = "body"]]
          /\ UNCHANGED <<flowCount, flows, connections, stats>>
    /\ UNCHANGED <<total, spans, cleaner>>

\* Mutant: the newest request makes room.
RoomFromEnd(q) == IF Len(q) >= maxInflight THEN SubSeq(q, 1, Len(q) - 1) ELSE q

\* The list a request joins: when it is full its oldest element makes room.
Room(q) == IF Len(q) >= maxInflight THEN Tail(q) ELSE q
Oldest(q) == IF Len(q) >= maxInflight THEN {Head(q)} ELSE {}

\* handleSend for a request payload: the flow is touched, the span gets a trace
\* id if it has none, and joins the list with the next number of the flow.
SendRequest(w) ==
    LET s == worker[w].span
        f == worker[w].flow
        q == flows[f].reqs
    IN  /\ worker[w].pc = "body" /\ ~worker[w].retry
        /\ IsRequest(Event(w))
        /\ spans' = [Handled(spans, Oldest(q)) EXCEPT ![s] = [@ EXCEPT
                        !.traceID = EnsuredID(s),
                        !.seq = flows[f].seqCounter + 1,
                        !.flow = f]]
        /\ flows' = [flows EXCEPT ![f] = [@ EXCEPT !.reqs = Append(Room(q), s),
                                                   !.seqCounter = flows[f].seqCounter + 1,
                                                   !.idle = 0]]
        /\ stats' = [stats EXCEPT !.dropped = Add(@, Cardinality(Oldest(q))),
                                  !.processed = Add(@, Cardinality(Oldest(q)))]
        /\ worker' = [worker EXCEPT ![w].pc = "count"]
        /\ UNCHANGED <<total, flowCount, connections, cleaner>>

\* Mutant: the gauge is forgotten.
CountInflightMissing(w) ==
    /\ worker[w].pc = "count"
    /\ worker' = [worker EXCEPT ![w].pc = "finish"]
    /\ UNCHANGED <<total, spans, flowCount, flows, connections, cleaner, stats>>

\* handleSend after the unlock: the gauge of waiting requests goes up.
CountInflight(w) ==
    /\ worker[w].pc = "count"
    /\ stats' = [stats EXCEPT !.inflight = Add(@, 1)]
    /\ worker' = [worker EXCEPT ![w].pc = "finish"]
    /\ UNCHANGED <<total, spans, flowCount, flows, connections, cleaner>>

\* handleSend and handleRecv for any other payload only touch the flow.
Touch(w) ==
    /\ worker[w].pc = "body" /\ ~worker[w].retry
    /\ ~IsRequest(Event(w)) /\ ~IsResponse(Event(w))
    /\ flows' = [flows EXCEPT ![worker[w].flow].idle = 0]
    /\ worker' = [worker EXCEPT ![w].pc = "finish"]
    /\ UNCHANGED <<total, spans, flowCount, connections, cleaner, stats>>

\* An unmatched response is an orphan with a trace id of its own.
Orphan(s) ==
    spans' = [spans EXCEPT ![s].traceID = EnsuredID(s)]

\* handleRecv for a response payload: the flow is touched and the first look at
\* the list taken.
RecvPeek(w) ==
    LET f == worker[w].flow
    IN  /\ worker[w].pc = "body" /\ ~worker[w].retry
        /\ IsResponse(Event(w))
        /\ flows' = [flows EXCEPT ![f].idle = 0]
        /\ \/ /\ flows[f].reqs = <<>>
              /\ Orphan(worker[w].span)
              /\ worker' = [worker EXCEPT ![w].pc = "finish"]
           \/ /\ flows[f].reqs # <<>>
              /\ worker' = [worker EXCEPT ![w].pc = "pop"]
              /\ UNCHANGED spans
        /\ UNCHANGED <<total, flowCount, connections, cleaner, stats>>

\* Mutant: the oldest request is looked at and not removed.
MatchWithoutPop(w) ==
    LET r == Head(flows[worker[w].flow].reqs)
    IN  /\ flows[worker[w].flow].reqs # <<>>
        /\ spans' = [Handled(spans, {r, worker[w].span}) EXCEPT ![worker[w].span] = [@ EXCEPT
                        !.parent = r,
                        !.traceID = spans[r].traceID]]
        /\ stats' = [stats EXCEPT !.inflight = Add(@, -1), !.processed = Add(@, 2)]
        /\ UNCHANGED flows

\* Mutant: the response keeps its own trace id.
MatchOwnTrace(w) ==
    LET r == Head(flows[worker[w].flow].reqs)
    IN  /\ flows[worker[w].flow].reqs # <<>>
        /\ flows' = [flows EXCEPT ![worker[w].flow].reqs = Tail(@)]
        /\ spans' = [Handled(spans, {r, worker[w].span}) EXCEPT ![worker[w].span].parent = r]
        /\ stats' = [stats EXCEPT !.inflight = Add(@, -1), !.processed = Add(@, 2)]

\* The span of worker w becomes the response of the oldest waiting request;
\* both are reported.
Match(w) ==
    LET s == worker[w].span
        f == worker[w].flow
        r == Head(flows[f].reqs)
    IN  /\ flows[f].reqs # <<>>
        /\ flows' = [flows EXCEPT ![f].reqs = Tail(@)]
        /\ spans' = [Handled(spans, {r, s}) EXCEPT ![s] = [@ EXCEPT
                        !.parent = r,
                        !.traceID = spans[r].traceID]]
        /\ stats' = [stats EXCEPT !.inflight = Add(@, -1),
                                  !.processed = Add(@, 2)]

\* handleRecv, the second look: the oldest request is taken off the list and
\* matched, or the list was emptied meanwhile and the response is an orphan.
RecvPop(w) ==
    /\ worker[w].pc = "pop" /\ ~worker[w].retry
    /\ \/ Match(w)
       \/ /\ flows[worker[w].flow].reqs = <<>>
          /\ Orphan(worker[w].span)
          /\ UNCHANGED <<flows, stats>>
    /\ worker' = [worker EXCEPT ![w].pc = "finish"]
    /\ UNCHANGED <<total, flowCount, connections, cleaner>>

\* handleClose: the flow in use for the key, if any, is swept.
HandleClose(w) ==
    /\ worker[w].pc = "close"
    /\ \/ /\ connections[Key(w)] # NoFlow
          /\ Sweep({Key(w)})
       \/ /\ connections[Key(w)] = NoFlow
          /\ UNCHANGED <<spans, connections, stats>>
    /\ worker' = [worker EXCEPT ![w].pc = "finish"]
    /\ UNCHANGED <<total, flowCount, flows, cleaner>>

\* The end of ProcessEvent: a span with a trace id is reported, one without
\* goes to the pending list and tryCorrelate is called for it.
Finish(w) ==
    LET s == worker[w].span
    IN  /\ worker[w].pc = "finish"
        /\ \/ /\ spans[s].traceID # EmptyID
              /\ spans' = Handled(spans, {s})
              /\ stats' = [stats EXCEPT !.processed = Add(@, 1)]
              /\ worker' = [worker EXCEPT ![w] = IdleWorker]
           \/ /\ spans[s].traceID = EmptyID
              /\ PendingUnlocked
              /\ spans' = [spans EXCEPT ![s].pend = 0]
              /\ worker' = [worker EXCEPT ![w] = [@ EXCEPT !.pc = "lookup", !.retry = TRUE]]
              /\ UNCHANGED stats
        /\ UNCHANGED <<total, flowCount, flows, connections, cleaner>>

\* tryCorrelate, the first look; only a received span goes on.
TryPeek(w) ==
    /\ worker[w].pc = "body" /\ worker[w].retry
    /\ worker' = [worker EXCEPT ![w] =
                    IF Event(w).kind = "recv" /\ flows[worker[w].flow].reqs # <<>>
                    THEN [@ EXCEPT !.pc = "pop"] ELSE IdleWorker]
    /\ UNCHANGED <<total, spans, flowCount, flows, connections, cleaner, stats>>

\* tryCorrelate, the second look and the match.
TryPop(w) ==
    /\ worker[w].pc = "pop" /\ worker[w].retry
    /\ \/ /\ Match(w)
          /\ worker' = [worker EXCEPT ![w].pc = "unpend"]
       \/ /\ flows[worker[w].flow].reqs = <<>>
          /\ worker' = [worker EXCEPT ![w] = IdleWorker]
          /\ UNCHANGED <<spans, flows, stats>>
    /\ UNCHANGED <<total, flowCount, connections, cleaner>>

\* removeFromPending for the request and for the span itself.
Unpend(w) ==
    LET s == worker[w].span
    IN  /\ worker[w].pc = "unpend"
        /\ PendingUnlocked
        /\ spans' = [spans EXCEPT ![s].pend = NotPending,
                                  ![spans[s].parent].pend = NotPending]
        /\ worker' = [worker EXCEPT ![w] = IdleWorker]
        /\ UNCHANGED <<total, flowCount, flows, connections, cleaner, stats>>

-----------------------------------------------------------------------------
(* cleanupExpired, run once a second by cleanupLoop.                       *)

ExpiredPending == {s \in SpanIds : spans[s].pend = Expired}

\* now is read and the pending list locked.
CleanStart ==
    /\ cleaner.pc = "idle"
    /\ cleaner' = [cleaner EXCEPT !.pc = "pending"]
    /\ UNCHANGED <<total, spans, flowCount, flows, connections, worker, stats>>

\* An expired span is met and its trace id read, without a lock on the span.
CleanMeet(s) ==
    /\ cleaner.pc = "pending"
    /\ s \in ExpiredPending
    /\ cleaner' = [pc |-> "settle", span |-> s, gen |-> spans[s].traceID = EmptyID]
    /\ UNCHANGED <<total, spans, flowCount, flows, connections, worker, stats>>

\* Mutant: an expired span is removed without a report.
CleanSettleSilent ==
    /\ cleaner.pc = "settle"
    /\ spans' = [spans EXCEPT ![cleaner.span].pend = NotPending]
    /\ cleaner' = [pc |-> "pending", span |-> NoSpan, gen |-> FALSE]
    /\ UNCHANGED <<total, flowCount, flows, connections, worker, stats>>

\* It gets a trace id if it had none, is tagged, reported and removed.
CleanSettle ==
    LET s == cleaner.span
    IN  /\ cleaner.pc = "settle"
        /\ spans' = [Handled(spans, {s}) EXCEPT ![s] = [@ EXCEPT
                        !.traceID = IF cleaner.gen THEN GeneratedID(s) ELSE spans[s].traceID,
                        !.pend = NotPending,
                        !.timedOut = TRUE]]
        /\ stats' = [stats EXCEPT !.processed = Add(@, 1)]
        /\ cleaner' = [pc |-> "pending", span |-> NoSpan, gen |-> FALSE]
        /\ UNCHANGED <<total, flowCount, flows, connections, worker>>

\* Mutant: the list is not unlocked.
CleanPendingLocked ==
    /\ cleaner.pc = "pending"
    /\ ExpiredPending = {}
    /\ UNCHANGED vars

\* No expired span is left; the list is unlocked.
CleanPendingDone ==
    /\ cleaner.pc = "pending"
    /\ ExpiredPending = {}
    /\ cleaner' = [cleaner EXCEPT !.pc = "conns"]
    /\ UNCHANGED <<total, spans, flowCount, flows, connections, worker, stats>>

\* Every connection idle for longer than the timeout is swept.
CleanConns ==
    /\ cleaner.pc = "conns"
    /\ Sweep({k \in Keys : connections[k] # NoFlow /\ flows[connections[k]].idle = Expired})
    /\ cleaner' = [cleaner EXCEPT !.pc = "idle"]
    /\ UNCHANGED <<total, flowCount, flows, worker>>

-----------------------------------------------------------------------------
\* Mutant: an age never exceeds the timeout.
OlderUpToTimeout(n) == IF n < Timeout THEN n + 1 ELSE n

(***************************************************************************)
(* Time passes.  cleanupExpired compares with the time it read when it     *)
(* started, so that ages do not grow while it runs.                        *)
(***************************************************************************)
Older(n) == IF n < Expired THEN n + 1 ELSE n

Tick ==
    /\ cleaner.pc = "idle"
    /\ spans' = [s \in SpanIds |->
                    [spans[s] EXCEPT !.pend = IF @ = NotPending THEN @ ELSE Older(@)]]
    /\ flows' = [f \in FlowIds |-> [flows[f] EXCEPT !.idle = Older(@)]]
    /\ UNCHANGED <<total, flowCount, connections, worker, cleaner, stats>>

WorkerStep(w) ==
    \/ HandleOpen(w)
    \/ LookupFlow(w)
    \/ CreateFlow(w)
    \/ SendRequest(w)
    \/ CountInflight(w)
    \/ Touch(w)
    \/ RecvPeek(w)
    \/ RecvPop(w)
    \/ HandleClose(w)
    \/ Finish(w)
    \/ TryPeek(w)
    \/ TryPop(w)
    \/ Unpend(w)

CleanerStep ==
    \/ CleanStart
    \/ \E s \in SpanIds : CleanMeet(s)
    \/ CleanSettle
    \/ CleanPendingDone
    \/ CleanConns

Next ==
    \/ \E w \in Workers, e \in Events : Receive(w, e)
    \/ \E w \in Workers : WorkerStep(w)
    \/ CleanerStep
    \/ Tick

Spec == Init /\ [][Next]_vars

(***************************************************************************)
(* The Go scheduler runs every goroutine that can run, and its mutexes do  *)
(* not starve a waiter.  The cleaner starts anew every second, and between *)
(* two of its runs time passes: hence strong fairness for Tick.            *)
(***************************************************************************)
Fairness ==
    /\ \A w \in Workers : WF_vars(WorkerStep(w)) /\ SF_vars(Finish(w)) /\ SF_vars(Unpend(w))
    /\ WF_vars(CleanerStep)
    /\ SF_vars(Tick)

FairSpec == Spec /\ Fairness

-----------------------------------------------------------------------------
(* Properties.                                                             *)

InHand(s) == \E w \in Workers : worker[w].pc # "idle" /\ worker[w].span = s

Waiting(f) == Elements(flows[f].reqs)

\* How often a request was reported as matched, dropped or swept, that is,
\* apart from the report at the end of its own ProcessEvent.
Settlements(s) == spans[s].handled - (IF InHand(s) THEN 0 ELSE 1)

Requests == {s \in SpanIds : spans[s].seq > 0}

AtRest == \A w \in Workers : worker[w].pc = "idle"

\* A flow never holds more than maxInflight requests, however many senders push
\* into it (the length test of handleSend, under inflightMutex).
InflightBounded == \A f \in FlowIds : Len(flows[f].reqs) <= maxInflight

\* The requests waiting in a flow are the last ones sent on it, in the order of
\* their numbers and without a gap: concurrent sends, matches and drops neither
\* reorder nor skip a request (handleSend, handleRecv, tryCorrelate).
FIFOOrder ==
    \A f \in FlowIds : \A i \in 1..Len(flows[f].reqs) :
        LET r == spans[flows[f].reqs[i]]
        IN  /\ r.flow = f
            /\ r.seq = flows[f].seqCounter - Len(flows[f].reqs) + i

\* No request is the parent of two responses, although two workers may both
\* have seen it at the front of the list (the second look of handleRecv and
\* tryCorrelate).
MatchedOnce ==
    \A s, t \in SpanIds :
        spans[s].parent # NoSpan /\ spans[s].parent = spans[t].parent => s = t

\* A response is matched with a request of its own process between the same two
\* endpoints, and the requests still waiting on that flow were sent after the
\* matched one (getConnectionKey, handleRecv, tryCorrelate).
MatchedInOrder ==
    \A s \in SpanIds : spans[s].parent # NoSpan =>
        LET r == spans[s].parent
        IN  /\ r \in Requests
            /\ spans[s].ev.kind = "recv"
            /\ spans[r].ev.pid = spans[s].ev.pid
            /\ {spans[r].ev.src, spans[r].ev.dst} = {spans[s].ev.src, spans[s].ev.dst}
            /\ \A t \in Waiting(spans[r].flow) : spans[t].seq > spans[r].seq

\* A matched response carries the trace id of its request, unless the cleanup
\* timed it out while its worker was still in tryCorrelate and overwrote the
\* id (cleanupExpired reads and writes TraceID without a lock on the span).  The
\* request has an id by then: no response inherits the empty one.
MatchedSharesTrace ==
    \A s \in SpanIds : spans[s].parent # NoSpan =>
        /\ spans[spans[s].parent].traceID # EmptyID
        /\ spans[s].traceID = spans[spans[s].parent].traceID \/ spans[s].timedOut

\* No span is forgotten: it is in a worker's hand, or on the pending list, or
\* was reported at least once.
NoSpanLost ==
    \A s \in SpanIds : InHand(s) \/ spans[s].pend # NotPending \/ spans[s].handled > 0

\* A request is settled at most twice, and twice only when its flow left the
\* map while a worker still held it; any other span is reported at most twice,
\* and twice only when it was matched.
SettledAtMostTwice ==
    \A s \in SpanIds :
        IF s \in Requests
        THEN /\ Settlements(s) <= 2
             /\ Settlements(s) = 2 => spans[s].flow \notin Live
        ELSE /\ spans[s].handled <= 2
             /\ spans[s].handled = 2 => spans[s].parent # NoSpan

\* What the gauges show when no worker is active.  InflightRequests: the requests
\* not settled, one more for each one dropped from a full list (handleSend does
\* not take it off the gauge), one less for each one settled twice, modulo 2^w.
\* ActiveConnections: never fewer connections than the map has; a reconnection
\* makes it show more (handleConnect replaces the flow and counts).
GaugeAtRest ==
    AtRest =>
        LET open  == {s \in Requests : Settlements(s) = 0}
            twice == {s \in Requests : Settlements(s) = 2}
        IN  /\ stats.inflight = Add(stats.dropped, Cardinality(open) - Cardinality(twice))
            /\ stats.active >= Cardinality(Live)

\* A span on the pending list is eventually reported: matched by tryCorrelate,
\* or timed out by the cleanup.
PendingReported ==
    \A s \in 1..MaxEvents :
        (s \in SpanIds /\ spans[s].pend # NotPending) ~>
            (s \in SpanIds /\ spans[s].pend = NotPending /\ spans[s].handled > 0)

\* Every call of ProcessEvent returns: no worker waits for ever on a mutex.
WorkersReturn == \A w \in Workers : worker[w].pc # "idle" ~> worker[w].pc = "idle"

\* A connection without traffic is eventually swept from the map, with the
\* requests that still wait on it.
IdleFlowSwept ==
    \A k \in Keys : connections[k] # NoFlow ~> connections[k] = NoFlow
=============================================================================

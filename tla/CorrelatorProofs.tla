--------------------------- MODULE CorrelatorProofs ---------------------------
(***************************************************************************)
(* Theorems about Correlator, for every value of its constants.  Every     *)
(* variable has its type; the lists of waiting requests are bounded, in    *)
(* order and without gaps, and no request is matched twice; no span is     *)
(* lost, and a response carries the trace id of its request.  A response   *)
(* is matched with an earlier request of its own connection, nothing is    *)
(* reported more often than the code's races allow, and the gauges of      *)
(* CorrelatorStats show what they should when nothing happens.             *)
(***************************************************************************)
EXTENDS Correlator, TLAPS, FiniteSetTheorems

-----------------------------------------------------------------------------
(* Lemmas about the helpers.                                               *)

\* The sum of two integers modulo the width of a counter is a counter value.
LEMMA AddType ==
    ASSUME NEW n \in Int, NEW d \in Int
    PROVE  Add(n, d) \in 0..(CtrMod - 1)
  BY BoundAssumption DEF Add

\* getConnectionKey yields a key, whichever endpoint is the source.
LEMMA ConnKeyType ==
    ASSUME NEW e \in RawEvent
    PROVE  ConnKey(e) \in Keys
  BY DEF ConnKey, Keys, RawEvent

\* getConnectionKey gives both directions of a connection the same key.
LEMMA ConnKeySymmetric ==
    ASSUME NEW e \in RawEvent, NEW g \in RawEvent,
           e.pid = g.pid, e.src = g.dst, e.dst = g.src
    PROVE  ConnKey(e) = ConnKey(g)
  <1>1. e.src \in Nat \X Nat /\ e.dst \in Nat \X Nat
    BY EndpointsAssumption DEF RawEvent
  <1>2. PICK a \in Nat, b \in Nat : e.src = <<a, b>>
    BY <1>1
  <1>3. PICK c \in Nat, d \in Nat : e.dst = <<c, d>>
    BY <1>1
  <1> QED
    BY <1>2, <1>3 DEF ConnKey, Above

\* A set of spans or of flows is finite and has a natural number of elements.
LEMMA SubsetCardinality ==
    ASSUME TypeOK, NEW S, S \subseteq SpanIds \/ S \subseteq FlowIds
    PROVE  Cardinality(S) \in Nat
  <1>1. total \in Int /\ flowCount \in Int
    BY BoundAssumption DEF TypeOK
  <1>2. IsFiniteSet(SpanIds) /\ IsFiniteSet(FlowIds)
    BY <1>1, FS_Interval DEF SpanIds, FlowIds
  <1>3. IsFiniteSet(S)
    BY <1>2, FS_Subset
  <1> QED
    BY <1>3, FS_CardinalityType

\* Handled keeps the domain and the other fields of the spans.
LEMMA HandledType ==
    ASSUME NEW sp \in [SpanIds -> Span], NEW S
    PROVE  /\ Handled(sp, S) \in [SpanIds -> Span]
           /\ \A s \in SpanIds :
                /\ s \in S => Handled(sp, S)[s] = [sp[s] EXCEPT !.handled = @ + 1]
                /\ s \notin S => Handled(sp, S)[s] = sp[s]
  BY DEF Handled, Span

-----------------------------------------------------------------------------
(* Type correctness.                                                       *)

\* The connection key of an event is a key of the connections map.
LEMMA KeyType ==
    ASSUME TypeOK, NEW w \in Workers, worker[w].pc # "idle"
    PROVE  /\ worker[w].span \in SpanIds
           /\ Event(w) \in RawEvent
           /\ Key(w) \in Keys
  <1>1. worker[w].span \in SpanIds
    BY DEF TypeOK
  <1>2. Event(w) \in Events
    BY <1>1 DEF TypeOK, Event, Span
  <1> QED
    BY <1>1, <1>2, EventsAssumption, ConnKeyType DEF Key

\* Installing a flow keeps the types of what it changes.
LEMMA InstallFlowType ==
    ASSUME TypeOK, NEW k \in Keys, InstallFlow(k), total' = total
    PROVE  /\ flowCount' \in Nat
           /\ flows' \in [FlowIds' -> Flow]
           /\ connections' \in [Keys -> {NoFlow} \cup FlowIds']
           /\ stats' \in Stats
           /\ \A f \in FlowIds' : \A i \in 1..Len(flows'[f].reqs) : flows'[f].reqs[i] \in SpanIds
           /\ FlowIds \subseteq FlowIds'
           /\ flowCount + 1 \in FlowIds'
  <1>1. flowCount' = flowCount + 1 /\ flowCount \in Nat /\ flowCount + 1 \in FlowIds' /\ FlowIds \subseteq FlowIds'
    BY DEF InstallFlow, TypeOK, FlowIds
  <1>2. NewFlow(k) \in Flow /\ NewFlow(k).reqs = <<>>
    BY BoundAssumption DEF NewFlow, Flow, Expired
  <1>3. flows' = [f \in 1..(flowCount + 1) |-> IF f = flowCount + 1 THEN NewFlow(k) ELSE flows[f]]
    BY DEF InstallFlow, Extend
  <1>4. flows' \in [FlowIds' -> Flow]
    BY <1>1, <1>2, <1>3 DEF TypeOK, FlowIds
  <1>5. connections' \in [Keys -> {NoFlow} \cup FlowIds']
    BY <1>1 DEF InstallFlow, TypeOK
  <1>6. stats' \in Stats
    BY AddType, BoundAssumption DEF InstallFlow, TypeOK, Stats
  <1>7. \A f \in FlowIds' : \A i \in 1..Len(flows'[f].reqs) : flows'[f].reqs[i] \in SpanIds
    <2>1. SUFFICES ASSUME NEW f \in FlowIds', NEW i \in 1..Len(flows'[f].reqs)
                   PROVE  flows'[f].reqs[i] \in SpanIds
      OBVIOUS
    <2>2. CASE f = flowCount + 1
      BY <2>2, <1>1, <1>2, <1>3 DEF FlowIds
    <2>3. CASE f # flowCount + 1
      BY <2>3, <1>1, <1>3 DEF FlowIds, TypeOK
    <2> QED
      BY <2>2, <2>3
  <1> QED
    BY <1>1, <1>4, <1>5, <1>6, <1>7

\* Sweeping keeps the types of what it changes.
LEMMA SweepType ==
    ASSUME TypeOK, NEW K \in SUBSET Keys, \A k \in K : connections[k] # NoFlow,
           Sweep(K), total' = total
    PROVE  /\ spans' \in [SpanIds' -> Span]
           /\ connections' \in [Keys -> {NoFlow} \cup FlowIds]
           /\ stats' \in Stats
  <1> DEFINE F == {connections[k] : k \in K}
             waiting == UNION {Elements(flows[f].reqs) : f \in F}
  <1>1. F \subseteq FlowIds
    BY DEF TypeOK
  <1>2. waiting \subseteq SpanIds
    BY <1>1 DEF TypeOK, Elements, Flow
  <1>3. total \in Nat /\ flowCount \in Nat
    BY BoundAssumption DEF TypeOK
  <1>4. Cardinality(waiting) \in Nat /\ Cardinality(F) \in Nat
    BY <1>1, <1>2, SubsetCardinality
  <1>5. spans' = Handled(spans, waiting)
    BY DEF Sweep
  <1>6. spans' \in [SpanIds' -> Span]
    BY <1>5, HandledType DEF TypeOK, SpanIds
  <1>7. stats' \in Stats
    <2>1. stats' = [stats EXCEPT !.inflight = Add(@, -Cardinality(waiting)),
                                 !.active = Add(@, -Cardinality(F)),
                                 !.processed = Add(@, Cardinality(waiting))]
      BY DEF Sweep
    <2>2. /\ Add(stats.inflight, -Cardinality(waiting)) \in 0..(CtrMod - 1)
          /\ Add(stats.active, -Cardinality(F)) \in 0..(CtrMod - 1)
          /\ Add(stats.processed, Cardinality(waiting)) \in 0..(CtrMod - 1)
      <3> HIDE DEF F, waiting
      <3>1. stats.inflight \in Int /\ stats.active \in Int /\ stats.processed \in Int
        BY BoundAssumption DEF TypeOK, Stats
      <3>2. -Cardinality(waiting) \in Int /\ -Cardinality(F) \in Int /\ Cardinality(waiting) \in Int
        BY <1>4
      <3> QED
        BY <3>1, <3>2, AddType
    <2> QED
      BY <2>1, <2>2 DEF TypeOK, Stats
  <1>8. connections' \in [Keys -> {NoFlow} \cup FlowIds]
    BY DEF Sweep, TypeOK
  <1> QED
    BY <1>6, <1>7, <1>8

\* Counting in one of the statistics keeps their type.
LEMMA CountType ==
    ASSUME TypeOK, NEW d \in Int
    PROVE  /\ Add(stats.processed, d) \in 0..(CtrMod - 1)
           /\ Add(stats.dropped, d) \in 0..(CtrMod - 1)
           /\ Add(stats.inflight, d) \in 0..(CtrMod - 1)
           /\ Add(stats.active, d) \in 0..(CtrMod - 1)
  <1>1. /\ stats.processed \in Int /\ stats.dropped \in Int
        /\ stats.inflight \in Int /\ stats.active \in Int
    BY BoundAssumption DEF TypeOK, Stats
  <1> QED
    BY <1>1, AddType

\* The oldest request of a full list, if any, is one span.
LEMMA OldestType ==
    ASSUME TypeOK, NEW f \in FlowIds
    PROVE  /\ Oldest(flows[f].reqs) \subseteq SpanIds
           /\ Cardinality(Oldest(flows[f].reqs)) \in Nat
           /\ Room(flows[f].reqs) \in Seq(Nat)
           /\ \A i \in 1..Len(Room(flows[f].reqs)) : Room(flows[f].reqs)[i] \in SpanIds
  <1> DEFINE q == flows[f].reqs
  <1>1. q \in Seq(Nat) /\ Len(q) \in Nat /\ \A i \in 1..Len(q) : q[i] \in SpanIds
    BY DEF TypeOK, Flow
  <1> HIDE DEF q
  <1>2. Len(q) >= maxInflight => q # <<>> /\ Len(q) >= 1
    BY <1>1, BoundAssumption
  <1>3. Oldest(q) \subseteq SpanIds
    BY <1>1, <1>2 DEF Oldest
  <1>4. Room(q) \in Seq(Nat)
    BY <1>1, <1>2 DEF Room
  <1>5. \A i \in 1..Len(Room(q)) : Room(q)[i] \in SpanIds
    BY <1>1, <1>2 DEF Room
  <1> QED
    BY <1>3, <1>4, <1>5, SubsetCardinality DEF q

\* ProcessEvent's start, which numbers the span, keeps the types.
LEMMA ReceiveType ==
    ASSUME TypeOK, NEW w \in Workers, NEW e \in Events, Receive(w, e)
    PROVE  TypeOK'
  <1>1. total \in Nat /\ total' = total + 1 /\ total' \in 0..MaxEvents
        /\ SpanIds' = 1..(total + 1) /\ SpanIds \subseteq SpanIds' /\ total + 1 \in SpanIds'
    BY BoundAssumption DEF Receive, TypeOK, SpanIds
  <1> DEFINE new == [ev |-> e, traceID |-> e.hdr, parent |-> NoSpan, seq |-> 0,
                     flow |-> NoFlow, handled |-> 0, pend |-> NotPending,
                     timedOut |-> FALSE]
  <1>2. e \in RawEvent
    BY EventsAssumption
  <1>3. new \in Span
    BY <1>2, BoundAssumption DEF Span, RawEvent, TraceIDs, NoSpan, NoFlow, NotPending, Expired
  <1>4. spans' = [i \in 1..(total + 1) |-> IF i = total + 1 THEN new ELSE spans[i]]
    BY DEF Receive, Extend
  <1>5. spans' \in [SpanIds' -> Span]
    <2> HIDE DEF new
    <2> QED BY <1>1, <1>3, <1>4 DEF TypeOK, SpanIds
  <1>6. UNCHANGED <<flowCount, flows, connections, cleaner, stats>>
    BY DEF Receive
  <1>7. e.kind \in Kinds
    BY <1>2 DEF RawEvent
  <1>8. PICK p \in {"open", "lookup", "close"} :
            worker' = [worker EXCEPT ![w] = [pc |-> p, span |-> total + 1, flow |-> NoFlow, retry |-> FALSE]]
    BY <1>7 DEF Receive, Kinds
  <1>9. worker' \in [Workers -> Worker]
    BY <1>1, <1>8 DEF TypeOK, Worker, PCs, NoFlow
  <1>10. \A v \in Workers : /\ worker'[v].pc # "idle" => worker'[v].span \in SpanIds'
                            /\ worker'[v].pc \in {"body", "pop"} => worker'[v].flow \in FlowIds'
    BY <1>1, <1>6, <1>8 DEF TypeOK, FlowIds
  <1>11. \A f \in FlowIds' : \A i \in 1..Len(flows'[f].reqs) : flows'[f].reqs[i] \in SpanIds'
    BY <1>1, <1>6 DEF TypeOK, FlowIds
  <1> QED
    BY <1>1, <1>5, <1>6, <1>9, <1>10, <1>11 DEF TypeOK, FlowIds

\* What remains to be shown of a step that neither receives nor allocates.
LEMMA QuietType ==
    ASSUME TypeOK, UNCHANGED <<total, flowCount>>,
           spans' \in [SpanIds -> Span],
           flows' \in [FlowIds -> Flow],
           \A f \in FlowIds : \A i \in 1..Len(flows'[f].reqs) : flows'[f].reqs[i] \in SpanIds,
           connections' \in [Keys -> {NoFlow} \cup FlowIds],
           worker' \in [Workers -> Worker],
           \A v \in Workers : /\ worker'[v].pc # "idle" => worker'[v].span \in SpanIds
                              /\ worker'[v].pc \in {"body", "pop"} => worker'[v].flow \in FlowIds,
           cleaner' \in Cleaner,
           cleaner'.pc = "settle" => cleaner'.span \in SpanIds,
           stats' \in Stats
    PROVE  TypeOK'
  BY DEF TypeOK, SpanIds, FlowIds

\* A worker moves on, keeping its span and its flow or becoming idle.
LEMMA MoveType ==
    ASSUME TypeOK, NEW w \in Workers, worker[w].pc # "idle", NEW p \in PCs,
           p = "pop" => worker[w].pc = "body",
           p # "body",
           \/ worker' = [worker EXCEPT ![w].pc = p]
           \/ worker' = [worker EXCEPT ![w] = [@ EXCEPT !.pc = p, !.retry = TRUE]]
           \/ worker' = [worker EXCEPT ![w] = IdleWorker]
    PROVE  /\ worker' \in [Workers -> Worker]
           /\ \A v \in Workers : /\ worker'[v].pc # "idle" => worker'[v].span \in SpanIds
                                 /\ worker'[v].pc \in {"body", "pop"} => worker'[v].flow \in FlowIds
  <1>1. worker \in [Workers -> Worker] /\ worker[w].span \in SpanIds
        /\ (p = "pop" => worker[w].flow \in FlowIds)
    BY DEF TypeOK
  <1>2. worker[w] \in Worker
    BY <1>1
  <1>3. /\ worker'[w] \in Worker
        /\ worker'[w].pc # "idle" => worker'[w].span = worker[w].span
        /\ worker'[w].pc # "body"
        /\ worker'[w].pc = "pop" => p = "pop" /\ worker'[w].flow = worker[w].flow
    <2>1. CASE worker' = [worker EXCEPT ![w].pc = p]
      <3>1. worker'[w] = [worker[w] EXCEPT !.pc = p]
        BY <1>1, <2>1
      <3> QED
        BY <3>1, <1>2 DEF Worker
    <2>2. CASE worker' = [worker EXCEPT ![w] = [@ EXCEPT !.pc = p, !.retry = TRUE]]
      <3>1. worker'[w] = [worker[w] EXCEPT !.pc = p, !.retry = TRUE]
        BY <1>1, <2>2
      <3> QED
        BY <3>1, <1>2 DEF Worker
    <2>3. CASE worker' = [worker EXCEPT ![w] = IdleWorker]
      <3>1. worker'[w] = IdleWorker
        BY <1>1, <2>3
      <3> QED
        BY <3>1 DEF Worker, PCs, IdleWorker, NoSpan, NoFlow
    <2> QED
      BY <2>1, <2>2, <2>3
  <1>4. \E x : worker' = [worker EXCEPT ![w] = x]
    OBVIOUS
  <1>5. /\ DOMAIN worker' = Workers
        /\ worker' = [v \in Workers |-> worker'[v]]
        /\ \A v \in Workers : v # w => worker'[v] = worker[v]
    BY <1>1, <1>4
  <1>6. worker' \in [Workers -> Worker]
    BY <1>1, <1>3, <1>5
  <1>7. ASSUME NEW v \in Workers
        PROVE  /\ worker'[v].pc # "idle" => worker'[v].span \in SpanIds
               /\ worker'[v].pc \in {"body", "pop"} => worker'[v].flow \in FlowIds
    <2>1. CASE v = w
      BY <1>1, <1>3, <2>1 DEF TypeOK
    <2>2. CASE v # w
      BY <1>5, <2>2 DEF TypeOK
    <2> QED
      BY <2>1, <2>2
  <1> QED
    BY <1>6, <1>7

\* A worker finds or makes its flow, and goes on.
LEMMA LookType ==
    ASSUME TypeOK, NEW w \in Workers, worker[w].span \in SpanIds, NEW c \in Nat,
           NEW p \in PCs, NEW F, FlowIds \subseteq F, p \in {"body", "pop"} => c \in F,
           worker' = [worker EXCEPT ![w] = [@ EXCEPT !.flow = c, !.pc = p]]
    PROVE  /\ worker' \in [Workers -> Worker]
           /\ \A v \in Workers : /\ worker'[v].pc # "idle" => worker'[v].span \in SpanIds
                                 /\ worker'[v].pc \in {"body", "pop"} => worker'[v].flow \in F
  <1>1. worker \in [Workers -> Worker] /\ worker[w] \in Worker
    BY DEF TypeOK
  <1> DEFINE new == [worker[w] EXCEPT !.flow = c, !.pc = p]
  <1>2. new \in Worker /\ new.span = worker[w].span /\ new.pc = p /\ new.flow = c
    BY <1>1 DEF Worker
  <1>3. worker' = [worker EXCEPT ![w] = new]
    OBVIOUS
  <1> HIDE DEF new
  <1>4. worker' \in [Workers -> Worker]
    BY <1>1, <1>2, <1>3
  <1>5. worker'[w] = new /\ \A v \in Workers : v # w => worker'[v] = worker[v]
    BY <1>1, <1>3
  <1>6. ASSUME NEW v \in Workers
        PROVE  /\ worker'[v].pc # "idle" => worker'[v].span \in SpanIds
               /\ worker'[v].pc \in {"body", "pop"} => worker'[v].flow \in F
    <2>1. CASE v = w
      BY <1>2, <1>5, <2>1
    <2>2. CASE v # w
      BY <1>5, <2>2 DEF TypeOK
    <2> QED
      BY <2>1, <2>2
  <1> QED
    BY <1>4, <1>6

\* Types of the values a match writes.
LEMMA MatchType ==
    ASSUME TypeOK, NEW w \in Workers, worker[w].pc = "pop", Match(w)
    PROVE  /\ spans' \in [SpanIds -> Span]
           /\ flows' \in [FlowIds -> Flow]
           /\ \A f \in FlowIds : \A i \in 1..Len(flows'[f].reqs) : flows'[f].reqs[i] \in SpanIds
           /\ stats' \in Stats
  <1> DEFINE s == worker[w].span
             g == worker[w].flow
             q == flows[g].reqs
             r == Head(q)
  <1>1. s \in SpanIds /\ g \in FlowIds
    BY DEF TypeOK
  <1>2. q \in Seq(Nat) /\ \A i \in 1..Len(q) : q[i] \in SpanIds
    BY <1>1 DEF TypeOK, Flow
  <1>3. q # <<>>
    BY DEF Match
  <1>4. r \in SpanIds /\ Tail(q) \in Seq(Nat) /\ \A i \in 1..Len(Tail(q)) : Tail(q)[i] \in SpanIds
    <2> HIDE DEF q
    <2> QED BY <1>2, <1>3
  <1>5. flows' = [flows EXCEPT ![g].reqs = Tail(q)]
    BY DEF Match
  <1>6. spans' = [Handled(spans, {r, s}) EXCEPT ![s] = [@ EXCEPT
                        !.parent = r, !.traceID = spans[r].traceID]]
    BY DEF Match
  <1>7. stats' = [stats EXCEPT !.inflight = Add(@, -1), !.processed = Add(@, 2)]
    BY DEF Match
  <1>8. flows' \in [FlowIds -> Flow]
    <2> HIDE DEF q
    <2> QED BY <1>1, <1>4, <1>5 DEF TypeOK, Flow
  <1>9. \A f \in FlowIds : \A i \in 1..Len(flows'[f].reqs) : flows'[f].reqs[i] \in SpanIds
    <2> HIDE DEF q
    <2>1. flows \in [FlowIds -> Flow]
      BY DEF TypeOK
    <2>2. flows'[g].reqs = Tail(q)
      BY <1>1, <1>5, <2>1 DEF Flow
    <2>3. \A f \in FlowIds : f # g => flows'[f] = flows[f]
      BY <1>5, <2>1
    <2> QED BY <1>4, <2>2, <2>3 DEF TypeOK
  <1>10. spans' \in [SpanIds -> Span]
    <2> HIDE DEF s, r
    <2>1. Handled(spans, {r, s}) \in [SpanIds -> Span] /\ spans \in [SpanIds -> Span]
      BY HandledType DEF TypeOK
    <2>2. r \in Nat /\ spans[r].traceID \in TraceIDs
      BY <1>4, <2>1 DEF SpanIds, Span
    <2> QED BY <1>1, <1>6, <2>1, <2>2 DEF Span
  <1>11. stats' \in Stats
    <2>1. Add(stats.inflight, -1) \in 0..(CtrMod - 1) /\ Add(stats.processed, 2) \in 0..(CtrMod - 1)
      BY CountType
    <2> QED BY <1>7, <2>1 DEF TypeOK, Stats
  <1> QED
    BY <1>8, <1>9, <1>10, <1>11

\* A generated trace id is one.
LEMMA EnsuredType ==
    ASSUME TypeOK, NEW s \in SpanIds
    PROVE  EnsuredID(s) \in TraceIDs
  BY DEF TypeOK, EnsuredID, GeneratedID, TraceIDs, SpanIds, Span

\* An orphan's span keeps its type.
LEMMA OrphanType ==
    ASSUME TypeOK, NEW s \in SpanIds, Orphan(s)
    PROVE  spans' \in [SpanIds -> Span]
  <1>1. EnsuredID(s) \in TraceIDs
    BY EnsuredType
  <1> QED
    BY <1>1 DEF TypeOK, Orphan, Span

\* Every step of a worker keeps the types.
LEMMA WorkerType ==
    ASSUME TypeOK, NEW w \in Workers, WorkerStep(w)
    PROVE  TypeOK'
  <1> DEFINE s == worker[w].span
             g == worker[w].flow
  <1>0. /\ spans \in [SpanIds -> Span]
        /\ flows \in [FlowIds -> Flow]
        /\ connections \in [Keys -> {NoFlow} \cup FlowIds]
        /\ worker \in [Workers -> Worker]
        /\ cleaner \in Cleaner
        /\ cleaner.pc = "settle" => cleaner.span \in SpanIds
        /\ stats \in Stats
        /\ \A f \in FlowIds : \A i \in 1..Len(flows[f].reqs) : flows[f].reqs[i] \in SpanIds
    BY DEF TypeOK
  <1>1. CASE HandleOpen(w)
    <2>1. worker[w].pc = "open" /\ InstallFlow(Key(w)) /\ UNCHANGED <<total, spans, cleaner>>
          /\ worker' = [worker EXCEPT ![w].pc = "finish"]
      BY <1>1 DEF HandleOpen
    <2>2. Key(w) \in Keys
      BY <2>1, KeyType
    <2>3. /\ flowCount' \in Nat
          /\ flows' \in [FlowIds' -> Flow]
          /\ connections' \in [Keys -> {NoFlow} \cup FlowIds']
          /\ stats' \in Stats
          /\ \A f \in FlowIds' : \A i \in 1..Len(flows'[f].reqs) : flows'[f].reqs[i] \in SpanIds
          /\ FlowIds \subseteq FlowIds'
      BY <2>1, <2>2, InstallFlowType
    <2>4. /\ worker' \in [Workers -> Worker]
          /\ \A v \in Workers : /\ worker'[v].pc # "idle" => worker'[v].span \in SpanIds
                                /\ worker'[v].pc \in {"body", "pop"} => worker'[v].flow \in FlowIds
      BY <2>1, MoveType DEF PCs
    <2> QED
      BY <2>1, <2>3, <2>4 DEF TypeOK, SpanIds
  <1>2. CASE LookupFlow(w)
    <2>1. worker[w].pc = "lookup" /\ UNCHANGED <<total, spans, flowCount, flows, connections, cleaner, stats>>
      BY <1>2 DEF LookupFlow
    <2>2. Key(w) \in Keys /\ s \in SpanIds
      BY <2>1, KeyType
    <2>3. PICK c \in {NoFlow} \cup FlowIds : c = connections[Key(w)]
      BY <2>2 DEF TypeOK
    <2>4. worker' = [worker EXCEPT ![w] = [@ EXCEPT !.flow = c, !.pc = IF c = NoFlow THEN "create" ELSE "body"]]
      BY <1>2, <2>3 DEF LookupFlow
    <2>5. c \in Nat
      BY DEF FlowIds, NoFlow
    <2>6. /\ worker' \in [Workers -> Worker]
          /\ \A v \in Workers : /\ worker'[v].pc # "idle" => worker'[v].span \in SpanIds
                                /\ worker'[v].pc \in {"body", "pop"} => worker'[v].flow \in FlowIds
      <3>1. PICK p \in {"create", "body"} : /\ p = "body" => c \in FlowIds
                                            /\ worker' = [worker EXCEPT ![w] = [@ EXCEPT !.flow = c, !.pc = p]]
        BY <2>3, <2>4
      <3>2. p \in PCs
        BY DEF PCs
      <3> QED
        BY <2>2, <2>5, <3>1, <3>2, LookType
    <2> QED
      BY <1>0, <2>1, <2>6, QuietType
  <1>3. CASE CreateFlow(w)
    <2>1. worker[w].pc = "create" /\ UNCHANGED <<total, spans, cleaner>>
      BY <1>3 DEF CreateFlow
    <2>2. Key(w) \in Keys /\ s \in SpanIds
      BY <2>1, KeyType
    <2>3. CASE /\ InstallFlow(Key(w))
               /\ worker' = [worker EXCEPT ![w] = [@ EXCEPT !.flow = flowCount + 1, !.pc = "body"]]
      <3>1. /\ flowCount' \in Nat
            /\ flows' \in [FlowIds' -> Flow]
            /\ connections' \in [Keys -> {NoFlow} \cup FlowIds']
            /\ stats' \in Stats
            /\ \A f \in FlowIds' : \A i \in 1..Len(flows'[f].reqs) : flows'[f].reqs[i] \in SpanIds
            /\ FlowIds \subseteq FlowIds'
            /\ flowCount + 1 \in FlowIds'
        BY <2>1, <2>2, <2>3, InstallFlowType
      <3>2. flowCount + 1 \in Nat
        BY <3>1 DEF FlowIds
      <3>3. /\ worker' \in [Workers -> Worker]
            /\ \A v \in Workers : /\ worker'[v].pc # "idle" => worker'[v].span \in SpanIds
                                  /\ worker'[v].pc \in {"body", "pop"} => worker'[v].flow \in FlowIds'
        <4>1. "body" \in PCs
          BY DEF PCs
        <4> QED
          <5> DEFINE G == FlowIds'
                     c == flowCount + 1
          <5>1. FlowIds \subseteq G /\ c \in G /\ c \in Nat /\ worker[w].span \in SpanIds
            BY <2>2, <3>1, <3>2
          <5>2. worker' = [worker EXCEPT ![w] = [@ EXCEPT !.flow = c, !.pc = "body"]]
            BY <2>3
          <5> HIDE DEF G, c
          <5>3. /\ worker' \in [Workers -> Worker]
                /\ \A v \in Workers : /\ worker'[v].pc # "idle" => worker'[v].span \in SpanIds
                                      /\ worker'[v].pc \in {"body", "pop"} => worker'[v].flow \in G
            BY <4>1, <5>1, <5>2, LookType
          <5> QED
            BY <5>3 DEF G
      <3> QED
        BY <2>1, <3>1, <3>3 DEF TypeOK, SpanIds
    <2>4. CASE /\ connections[Key(w)] # NoFlow
               /\ worker' = [worker EXCEPT ![w] = [@ EXCEPT !.flow = connections[Key(w)], !.pc = "body"]]
               /\ UNCHANGED <<flowCount, flows, connections, stats>>
      <3>1. connections[Key(w)] \in FlowIds /\ connections[Key(w)] \in Nat
        BY <2>2, <2>4 DEF TypeOK, FlowIds
      <3>2. /\ worker' \in [Workers -> Worker]
            /\ \A v \in Workers : /\ worker'[v].pc # "idle" => worker'[v].span \in SpanIds
                                  /\ worker'[v].pc \in {"body", "pop"} => worker'[v].flow \in FlowIds
        <4>1. "body" \in PCs
          BY DEF PCs
        <4> DEFINE c == connections[Key(w)]
        <4>2. c \in FlowIds /\ c \in Nat /\ worker[w].span \in SpanIds
          BY <2>2, <3>1
        <4>3. worker' = [worker EXCEPT ![w] = [@ EXCEPT !.flow = c, !.pc = "body"]]
          BY <2>4
        <4> HIDE DEF c
        <4> QED
          BY <4>1, <4>2, <4>3, LookType
      <3> QED
        BY <1>0, <2>1, <2>4, <3>2, QuietType
    <2> QED
      BY <1>3, <2>3, <2>4 DEF CreateFlow
  <1>4. CASE SendRequest(w)
    <2> DEFINE q == flows[g].reqs
    <2>1. /\ worker[w].pc = "body"
          /\ worker' = [worker EXCEPT ![w].pc = "count"]
          /\ UNCHANGED <<total, flowCount, connections, cleaner>>
          /\ spans' = [Handled(spans, Oldest(q)) EXCEPT ![s] = [@ EXCEPT
                        !.traceID = EnsuredID(s),
                        !.seq = flows[g].seqCounter + 1,
                        !.flow = g]]
          /\ flows' = [flows EXCEPT ![g] = [@ EXCEPT !.reqs = Append(Room(q), s),
                                                   !.seqCounter = flows[g].seqCounter + 1,
                                                   !.idle = 0]]
          /\ stats' = [stats EXCEPT !.dropped = Add(@, Cardinality(Oldest(q))),
                                    !.processed = Add(@, Cardinality(Oldest(q)))]
      BY <1>4 DEF SendRequest
    <2>2. s \in SpanIds /\ s \in Nat /\ g \in FlowIds /\ g \in Nat
      BY <2>1 DEF TypeOK, SpanIds, FlowIds
    <2>3. /\ Oldest(q) \subseteq SpanIds
          /\ Cardinality(Oldest(q)) \in Nat
          /\ Room(q) \in Seq(Nat)
          /\ \A i \in 1..Len(Room(q)) : Room(q)[i] \in SpanIds
      BY <2>2, OldestType
    <2>4. flows[g].seqCounter \in Nat
      BY <2>2 DEF TypeOK, Flow
    <2> HIDE DEF q
    <2>5. spans' \in [SpanIds -> Span]
      <3>1. Handled(spans, Oldest(q)) \in [SpanIds -> Span]
        BY HandledType DEF TypeOK
      <3>2. EnsuredID(s) \in TraceIDs
        BY <2>2, EnsuredType
      <3> DEFINE old == Handled(spans, Oldest(q))[s]
                 id == EnsuredID(s)
                 n == flows[g].seqCounter + 1
                 new == [old EXCEPT !.traceID = id, !.seq = n, !.flow = g]
      <3>3. spans' = [Handled(spans, Oldest(q)) EXCEPT ![s] = new]
        BY <2>1
      <3>4. old \in Span /\ n \in Nat
        BY <2>2, <2>4, <3>1
      <3>5. id \in TraceIDs
        BY <3>2
      <3>6. new \in Span
        <4> HIDE DEF old, id, n, g
        <4> QED BY <2>2, <3>4, <3>5 DEF Span
      <3> HIDE DEF new, s
      <3> QED
        BY <2>2, <3>1, <3>3, <3>6
    <2>6. Append(Room(q), s) \in Seq(Nat) /\ \A i \in 1..Len(Append(Room(q), s)) : Append(Room(q), s)[i] \in SpanIds
      <3> HIDE DEF s
      <3> QED BY <2>2, <2>3
    <2>7. flows' \in [FlowIds -> Flow]
      <3> DEFINE l == Append(Room(q), s)
                 n == flows[g].seqCounter + 1
                 new == [flows[g] EXCEPT !.reqs = l, !.seqCounter = n, !.idle = 0]
      <3>1. flows' = [flows EXCEPT ![g] = new]
        BY <2>1
      <3>2. n \in Nat /\ l \in Seq(Nat) /\ flows[g] \in Flow /\ 0 \in 0..Expired
        BY <1>0, <2>2, <2>4, <2>6, BoundAssumption DEF Expired
      <3>3. new \in Flow
        <4> HIDE DEF l, n, g
        <4> QED BY <3>2 DEF Flow
      <3> HIDE DEF new, g
      <3> QED BY <1>0, <2>2, <3>1, <3>3
    <2>8. \A f \in FlowIds : \A i \in 1..Len(flows'[f].reqs) : flows'[f].reqs[i] \in SpanIds
      <3> HIDE DEF s, g
      <3>1. flows'[g].reqs = Append(Room(q), s)
        BY <1>0, <2>1, <2>2 DEF Flow
      <3>2. \A f \in FlowIds : f # g => flows'[f] = flows[f]
        BY <1>0, <2>1
      <3> QED
        BY <1>0, <2>6, <3>1, <3>2
    <2>9. stats' \in Stats
      <3> DEFINE n == Cardinality(Oldest(q))
      <3>1. stats' = [stats EXCEPT !.dropped = Add(@, n), !.processed = Add(@, n)]
        BY <2>1
      <3>2. n \in Int
        BY <2>3
      <3> HIDE DEF n
      <3>3. Add(stats.dropped, n) \in 0..(CtrMod - 1) /\ Add(stats.processed, n) \in 0..(CtrMod - 1)
        BY <3>2, CountType
      <3> QED BY <3>1, <3>3 DEF TypeOK, Stats
    <2>10. /\ worker' \in [Workers -> Worker]
           /\ \A v \in Workers : /\ worker'[v].pc # "idle" => worker'[v].span \in SpanIds
                                 /\ worker'[v].pc \in {"body", "pop"} => worker'[v].flow \in FlowIds
      BY <2>1, MoveType DEF PCs
    <2> QED
      BY <1>0, <2>1, <2>5, <2>7, <2>8, <2>9, <2>10, QuietType
  <1>5. CASE CountInflight(w)
    <2>1. worker[w].pc = "count" /\ worker' = [worker EXCEPT ![w].pc = "finish"]
          /\ UNCHANGED <<total, spans, flowCount, flows, connections, cleaner>>
          /\ stats' = [stats EXCEPT !.inflight = Add(@, 1)]
      BY <1>5 DEF CountInflight
    <2>2. stats' \in Stats
      BY <2>1, CountType DEF TypeOK, Stats
    <2>3. /\ worker' \in [Workers -> Worker]
          /\ \A v \in Workers : /\ worker'[v].pc # "idle" => worker'[v].span \in SpanIds
                                /\ worker'[v].pc \in {"body", "pop"} => worker'[v].flow \in FlowIds
      BY <2>1, MoveType DEF PCs
    <2> QED
      BY <1>0, <2>1, <2>2, <2>3, QuietType
  <1>6. ASSUME Touch(w) \/ RecvPeek(w) PROVE TypeOK'
    <2>1. /\ worker[w].pc = "body"
          /\ flows' = [flows EXCEPT ![g].idle = 0]
          /\ worker' = [worker EXCEPT ![w].pc = "finish"] \/ worker' = [worker EXCEPT ![w].pc = "pop"]
          /\ UNCHANGED <<total, flowCount, connections, cleaner, stats>>
          /\ spans' = spans \/ Orphan(s)
      BY <1>6 DEF Touch, RecvPeek
    <2>2. s \in SpanIds /\ g \in FlowIds
      BY <2>1 DEF TypeOK
    <2>3. spans' \in [SpanIds -> Span]
      BY <1>0, <2>1, <2>2, OrphanType
    <2>4. flows' \in [FlowIds -> Flow] /\ \A f \in FlowIds : flows'[f].reqs = flows[f].reqs
      <3>1. flows[g] \in Flow /\ 0 \in 0..Expired
        BY <1>0, <2>2, BoundAssumption DEF Expired
      <3>2. [flows[g] EXCEPT !.idle = 0] \in Flow /\ [flows[g] EXCEPT !.idle = 0].reqs = flows[g].reqs
        BY <3>1 DEF Flow
      <3>3. flows' = [flows EXCEPT ![g] = [flows[g] EXCEPT !.idle = 0]]
        BY <2>1
      <3> QED BY <1>0, <2>2, <3>2, <3>3
    <2>5. /\ worker' \in [Workers -> Worker]
          /\ \A v \in Workers : /\ worker'[v].pc # "idle" => worker'[v].span \in SpanIds
                                /\ worker'[v].pc \in {"body", "pop"} => worker'[v].flow \in FlowIds
      BY <2>1, MoveType DEF PCs
    <2> QED
      BY <1>0, <2>1, <2>3, <2>4, <2>5, QuietType
  <1>7. ASSUME RecvPop(w) \/ TryPop(w) PROVE TypeOK'
    <2>1. /\ worker[w].pc = "pop"
          /\ \/ worker' = [worker EXCEPT ![w].pc = "finish"]
             \/ worker' = [worker EXCEPT ![w].pc = "unpend"]
             \/ worker' = [worker EXCEPT ![w] = IdleWorker]
          /\ UNCHANGED <<total, flowCount, connections, cleaner>>
          /\ \/ Match(w)
             \/ Orphan(s) /\ UNCHANGED <<flows, stats>>
             \/ UNCHANGED <<spans, flows, stats>>
      BY <1>7 DEF RecvPop, TryPop
    <2>2. s \in SpanIds
      BY <2>1 DEF TypeOK
    <2>3. /\ spans' \in [SpanIds -> Span]
          /\ flows' \in [FlowIds -> Flow]
          /\ \A f \in FlowIds : \A i \in 1..Len(flows'[f].reqs) : flows'[f].reqs[i] \in SpanIds
          /\ stats' \in Stats
      <3>1. CASE Match(w)
        BY <2>1, <3>1, MatchType
      <3>2. CASE Orphan(s) /\ UNCHANGED <<flows, stats>>
        <4>1. spans' \in [SpanIds -> Span]
          BY <2>2, <3>2, OrphanType
        <4> QED BY <1>0, <3>2, <4>1
      <3>3. CASE UNCHANGED <<spans, flows, stats>>
        BY <1>0, <3>3
      <3> QED BY <2>1, <3>1, <3>2, <3>3
    <2>4. /\ worker' \in [Workers -> Worker]
          /\ \A v \in Workers : /\ worker'[v].pc # "idle" => worker'[v].span \in SpanIds
                                /\ worker'[v].pc \in {"body", "pop"} => worker'[v].flow \in FlowIds
      BY <2>1, MoveType DEF PCs
    <2> QED
      BY <1>0, <2>1, <2>3, <2>4, QuietType
  <1>8. CASE HandleClose(w)
    <2>1. /\ worker[w].pc = "close"
          /\ worker' = [worker EXCEPT ![w].pc = "finish"]
          /\ UNCHANGED <<total, flowCount, flows, cleaner>>
          /\ \/ connections[Key(w)] # NoFlow /\ Sweep({Key(w)})
             \/ UNCHANGED <<spans, connections, stats>>
      BY <1>8 DEF HandleClose
    <2>2. Key(w) \in Keys
      BY <2>1, KeyType
    <2>3. /\ spans' \in [SpanIds -> Span]
          /\ connections' \in [Keys -> {NoFlow} \cup FlowIds]
          /\ stats' \in Stats
      <3>1. CASE connections[Key(w)] # NoFlow /\ Sweep({Key(w)})
        BY <2>1, <2>2, <3>1, SweepType DEF SpanIds
      <3>2. CASE UNCHANGED <<spans, connections, stats>>
        BY <1>0, <3>2
      <3> QED BY <2>1, <3>1, <3>2
    <2>4. /\ worker' \in [Workers -> Worker]
          /\ \A v \in Workers : /\ worker'[v].pc # "idle" => worker'[v].span \in SpanIds
                                /\ worker'[v].pc \in {"body", "pop"} => worker'[v].flow \in FlowIds
      BY <2>1, MoveType DEF PCs
    <2> QED
      BY <1>0, <2>1, <2>3, <2>4, QuietType
  <1>9. CASE Finish(w)
    <2>1. /\ worker[w].pc = "finish"
          /\ UNCHANGED <<total, flowCount, flows, connections, cleaner>>
          /\ \/ worker' = [worker EXCEPT ![w] = IdleWorker]
             \/ worker' = [worker EXCEPT ![w] = [@ EXCEPT !.pc = "lookup", !.retry = TRUE]]
          /\ spans' = Handled(spans, {s}) \/ spans' = [spans EXCEPT ![s].pend = 0]
          /\ stats' = [stats EXCEPT !.processed = Add(@, 1)] \/ stats' = stats
      BY <1>9 DEF Finish
    <2>2. s \in SpanIds
      BY <2>1 DEF TypeOK
    <2>3. spans' \in [SpanIds -> Span]
      <3>1. Handled(spans, {s}) \in [SpanIds -> Span]
        BY <1>0, HandledType
      <3>2. 0 \in NotPending..Expired
        BY BoundAssumption DEF NotPending, Expired
      <3>3. [spans[s] EXCEPT !.pend = 0] \in Span
        BY <1>0, <2>2, <3>2 DEF Span
      <3>4. [spans EXCEPT ![s].pend = 0] \in [SpanIds -> Span]
        BY <1>0, <2>2, <3>3
      <3> QED BY <2>1, <3>1, <3>4
    <2>4. stats' \in Stats
      BY <2>1, CountType DEF TypeOK, Stats
    <2>5. /\ worker' \in [Workers -> Worker]
          /\ \A v \in Workers : /\ worker'[v].pc # "idle" => worker'[v].span \in SpanIds
                                /\ worker'[v].pc \in {"body", "pop"} => worker'[v].flow \in FlowIds
      BY <2>1, MoveType DEF PCs
    <2> QED
      BY <1>0, <2>1, <2>3, <2>4, <2>5, QuietType
  <1>10. CASE TryPeek(w)
    <2>1. /\ worker[w].pc = "body"
          /\ UNCHANGED <<total, spans, flowCount, flows, connections, cleaner, stats>>
          /\ \/ worker' = [worker EXCEPT ![w] = IdleWorker]
             \/ worker' = [worker EXCEPT ![w].pc = "pop"]
      BY <1>10 DEF TryPeek
    <2>2. /\ worker' \in [Workers -> Worker]
          /\ \A v \in Workers : /\ worker'[v].pc # "idle" => worker'[v].span \in SpanIds
                                /\ worker'[v].pc \in {"body", "pop"} => worker'[v].flow \in FlowIds
      BY <2>1, MoveType DEF PCs
    <2> QED
      BY <1>0, <2>1, <2>2, QuietType
  <1>11. CASE Unpend(w)
    <2>1. /\ worker[w].pc = "unpend"
          /\ UNCHANGED <<total, flowCount, flows, connections, cleaner, stats>>
          /\ worker' = [worker EXCEPT ![w] = IdleWorker]
          /\ spans' = [spans EXCEPT ![s].pend = NotPending, ![spans[s].parent].pend = NotPending]
      BY <1>11 DEF Unpend
    <2>2. NotPending \in NotPending..Expired
      BY BoundAssumption DEF NotPending, Expired
    <2>3. spans' \in [SpanIds -> Span]
      <3> DEFINE u == spans[s].parent
      <3>1. spans' = [spans EXCEPT ![s].pend = NotPending, ![u].pend = NotPending]
        BY <2>1
      <3> HIDE DEF u, s
      <3> DEFINE once == [spans EXCEPT ![s].pend = NotPending]
      <3>2. once \in [SpanIds -> Span]
        BY <1>0, <2>2 DEF Span
      <3>3. spans' = [once EXCEPT ![u].pend = NotPending]
        BY <3>1
      <3> HIDE DEF once
      <3> QED
        BY <2>2, <3>2, <3>3 DEF Span
    <2>4. /\ worker' \in [Workers -> Worker]
          /\ \A v \in Workers : /\ worker'[v].pc # "idle" => worker'[v].span \in SpanIds
                                /\ worker'[v].pc \in {"body", "pop"} => worker'[v].flow \in FlowIds
      BY <2>1, MoveType DEF PCs
    <2> QED
      BY <1>0, <2>1, <2>3, <2>4, QuietType
  <1> QED
    BY <1>1, <1>2, <1>3, <1>4, <1>5, <1>6, <1>7, <1>8, <1>9, <1>10, <1>11 DEF WorkerStep

\* Every step of the cleanup keeps the types.
LEMMA CleanerType ==
    ASSUME TypeOK, CleanerStep
    PROVE  TypeOK'
  <1>0. /\ spans \in [SpanIds -> Span]
        /\ flows \in [FlowIds -> Flow]
        /\ connections \in [Keys -> {NoFlow} \cup FlowIds]
        /\ worker \in [Workers -> Worker]
        /\ \A v \in Workers : /\ worker[v].pc # "idle" => worker[v].span \in SpanIds
                              /\ worker[v].pc \in {"body", "pop"} => worker[v].flow \in FlowIds
        /\ cleaner \in Cleaner
        /\ cleaner.pc = "settle" => cleaner.span \in SpanIds
        /\ stats \in Stats
        /\ \A f \in FlowIds : \A i \in 1..Len(flows[f].reqs) : flows[f].reqs[i] \in SpanIds
    BY DEF TypeOK
  <1>1. ASSUME CleanStart \/ CleanPendingDone PROVE TypeOK'
    <2>1. UNCHANGED <<total, spans, flowCount, flows, connections, worker, stats>>
          /\ (cleaner' = [cleaner EXCEPT !.pc = "pending"] \/ cleaner' = [cleaner EXCEPT !.pc = "conns"])
      BY <1>1 DEF CleanStart, CleanPendingDone
    <2>2. cleaner' \in Cleaner /\ cleaner'.pc # "settle"
      BY <1>0, <2>1 DEF Cleaner
    <2> QED BY <1>0, <2>1, <2>2, QuietType
  <1>2. ASSUME NEW s \in SpanIds, CleanMeet(s) PROVE TypeOK'
    <2>1. UNCHANGED <<total, spans, flowCount, flows, connections, worker, stats>>
          /\ cleaner' = [pc |-> "settle", span |-> s, gen |-> spans[s].traceID = EmptyID]
      BY <1>2 DEF CleanMeet
    <2>2. s \in Nat
      BY DEF SpanIds
    <2>3. cleaner' \in Cleaner /\ cleaner'.span \in SpanIds
      BY <2>1, <2>2 DEF Cleaner
    <2> QED BY <1>0, <2>1, <2>3, QuietType
  <1>3. CASE CleanSettle
    <2> DEFINE s == cleaner.span
               id == IF cleaner.gen THEN GeneratedID(s) ELSE spans[s].traceID
               old == Handled(spans, {s})[s]
               new == [old EXCEPT !.traceID = id, !.pend = NotPending, !.timedOut = TRUE]
    <2>1. /\ cleaner.pc = "settle"
          /\ UNCHANGED <<total, flowCount, flows, connections, worker>>
          /\ cleaner' = [pc |-> "pending", span |-> NoSpan, gen |-> FALSE]
          /\ stats' = [stats EXCEPT !.processed = Add(@, 1)]
          /\ spans' = [Handled(spans, {s}) EXCEPT ![s] = new]
      BY <1>3 DEF CleanSettle
    <2>2. s \in SpanIds /\ s \in Nat
      BY <1>0, <2>1 DEF SpanIds
    <2>3. Handled(spans, {s}) \in [SpanIds -> Span]
      BY <1>0, HandledType
    <2>4. old \in Span /\ NotPending \in NotPending..Expired
      <3>1. old \in Span
        BY <2>2, <2>3
      <3>2. NotPending \in NotPending..Expired
        BY BoundAssumption DEF NotPending, Expired
      <3> QED BY <3>1, <3>2
    <2>5. id \in TraceIDs
      BY <1>0, <2>2 DEF GeneratedID, TraceIDs, Span
    <2>6. new \in Span
      <3> HIDE DEF old, id
      <3> QED BY <2>4, <2>5 DEF Span
    <2>7. spans' \in [SpanIds -> Span]
      <3> HIDE DEF new, s
      <3> QED BY <2>1, <2>2, <2>3, <2>6
    <2>8. stats' \in Stats
      <3>1. Add(stats.processed, 1) \in 0..(CtrMod - 1)
        BY CountType
      <3> QED BY <1>0, <2>1, <3>1 DEF Stats
    <2>9. cleaner' \in Cleaner /\ cleaner'.pc # "settle"
      BY <2>1 DEF Cleaner, NoSpan
    <2> QED
      <3> HIDE DEF new, s
      <3> QED BY <1>0, <2>1, <2>7, <2>8, <2>9, QuietType
  <1>4. CASE CleanConns
    <2> DEFINE K == {k \in Keys : connections[k] # NoFlow /\ flows[connections[k]].idle = Expired}
    <2>1. /\ Sweep(K)
          /\ UNCHANGED <<total, flowCount, flows, worker>>
          /\ cleaner' = [cleaner EXCEPT !.pc = "idle"]
      BY <1>4 DEF CleanConns
    <2>2. K \in SUBSET Keys /\ \A k \in K : connections[k] # NoFlow
      OBVIOUS
    <2> HIDE DEF K
    <2>3. /\ spans' \in [SpanIds -> Span]
          /\ connections' \in [Keys -> {NoFlow} \cup FlowIds]
          /\ stats' \in Stats
      BY <2>1, <2>2, SweepType DEF SpanIds
    <2>4. cleaner' \in Cleaner /\ cleaner'.pc # "settle"
      BY <1>0, <2>1 DEF Cleaner
    <2> QED BY <1>0, <2>1, <2>3, <2>4, QuietType
  <1> QED
    BY <1>1, <1>2, <1>3, <1>4 DEF CleanerStep

\* The passing of time keeps the types.
LEMMA TickType ==
    ASSUME TypeOK, Tick
    PROVE  TypeOK'
  <1>1. /\ UNCHANGED <<total, flowCount, connections, worker, cleaner, stats>>
        /\ spans' = [s \in SpanIds |->
                    [spans[s] EXCEPT !.pend = IF @ = NotPending THEN @ ELSE Older(@)]]
        /\ flows' = [f \in FlowIds |-> [flows[f] EXCEPT !.idle = Older(@)]]
    BY DEF Tick
  <1>2. \A n \in 0..Expired : Older(n) \in 0..Expired
    BY BoundAssumption DEF Older, Expired
  <1>3. spans' \in [SpanIds -> Span]
    <2>1. \A s \in SpanIds : spans[s] \in Span
      BY DEF TypeOK
    <2>2. \A n \in NotPending..Expired : (IF n = NotPending THEN n ELSE Older(n)) \in NotPending..Expired
      BY BoundAssumption DEF Older, Expired, NotPending
    <2>3. \A s \in SpanIds : [spans[s] EXCEPT !.pend = IF @ = NotPending THEN @ ELSE Older(@)] \in Span
      BY <2>1, <2>2 DEF Span
    <2> QED BY <1>1, <2>3
  <1>4. flows' \in [FlowIds -> Flow] /\ \A f \in FlowIds : flows'[f].reqs = flows[f].reqs
    <2>1. \A f \in FlowIds : flows[f] \in Flow
      BY DEF TypeOK
    <2>2. \A f \in FlowIds : /\ [flows[f] EXCEPT !.idle = Older(@)] \in Flow
                             /\ [flows[f] EXCEPT !.idle = Older(@)].reqs = flows[f].reqs
      BY <2>1, <1>2 DEF Flow
    <2> QED BY <1>1, <2>2
  <1> QED
    BY <1>1, <1>3, <1>4, QuietType DEF TypeOK

\* The initial state has the types.
LEMMA InitType == Init => TypeOK
  <1> SUFFICES ASSUME Init PROVE TypeOK
    OBVIOUS
  <1>1. SpanIds = {} /\ FlowIds = {}
    BY DEF Init, SpanIds, FlowIds
  <1>2. total \in 0..MaxEvents /\ flowCount \in Nat
    BY BoundAssumption DEF Init
  <1>3. worker \in [Workers -> Worker] /\ \A w \in Workers : worker[w].pc = "idle"
    BY DEF Init, Worker, PCs, IdleWorker, NoSpan, NoFlow
  <1>4. cleaner \in Cleaner /\ cleaner.pc # "settle"
    BY DEF Init, Cleaner, NoSpan
  <1>5. stats \in Stats
    BY BoundAssumption DEF Init, Stats
  <1> QED
    BY <1>1, <1>2, <1>3, <1>4, <1>5 DEF Init, TypeOK

\* Every step keeps them.
LEMMA NextType == TypeOK /\ [Next]_vars => TypeOK'
  <1> SUFFICES ASSUME TypeOK, [Next]_vars PROVE TypeOK'
    OBVIOUS
  <1>1. ASSUME NEW w \in Workers, NEW e \in Events, Receive(w, e) PROVE TypeOK'
    BY <1>1, ReceiveType
  <1>2. ASSUME NEW w \in Workers, WorkerStep(w) PROVE TypeOK'
    BY <1>2, WorkerType
  <1>3. CASE CleanerStep
    BY <1>3, CleanerType
  <1>4. CASE Tick
    BY <1>4, TickType
  <1>5. CASE UNCHANGED vars
    BY <1>5 DEF vars, TypeOK, SpanIds, FlowIds
  <1> QED
    BY <1>1, <1>2, <1>3, <1>4, <1>5 DEF Next

\* Every variable of the correlator keeps its type: in particular no worker and
\* no cleanup ever follows a span or a flow that was not allocated, and no list
\* holds one (ProcessEvent, its handlers and cleanupExpired).
THEOREM TypeCorrect == Spec => []TypeOK
  BY InitType, NextType, PTL DEF Spec

-----------------------------------------------------------------------------
(* The lists: the inductive invariant.                                     *)

\* Two active workers never hold the same span.
DistinctHands ==
    \A v, w \in Workers :
        v # w /\ worker[v].pc # "idle" /\ worker[w].pc # "idle"
            => worker[v].span # worker[w].span

\* The span of a worker that has not yet reached the body of its handler is in
\* no flow and has no number.
FreshHands ==
    \A w \in Workers :
        worker[w].pc \in {"lookup", "create", "body"} /\ ~worker[w].retry
            => spans[worker[w].span].flow = NoFlow /\ spans[worker[w].span].seq = 0

\* A request that was matched is in no list.
MatchedGone ==
    \A s \in SpanIds : spans[s].parent # NoSpan =>
        /\ spans[s].parent \in SpanIds
        /\ spans[spans[s].parent].seq > 0
        /\ \A f \in FlowIds : \A i \in 1..Len(flows[f].reqs) :
               flows[f].reqs[i] # spans[s].parent

\* A request in a list has a number.
ListedNumbered ==
    \A f \in FlowIds : \A i \in 1..Len(flows[f].reqs) : spans[flows[f].reqs[i]].seq > 0

Lists == InflightBounded /\ FIFOOrder /\ ListedNumbered /\ MatchedGone /\ MatchedOnce

IndInv == TypeOK /\ DistinctHands /\ FreshHands /\ Lists

-----------------------------------------------------------------------------
(* Steps that leave the lists alone.                                       *)

\* No span changes its place in a flow or its parent.
SpansKept ==
    /\ total' = total
    /\ \A s \in SpanIds : /\ spans'[s].flow = spans[s].flow
                          /\ spans'[s].seq = spans[s].seq
                          /\ spans'[s].parent = spans[s].parent

\* No list changes, and a flow that is added has an empty one.
FlowsKept ==
    /\ FlowIds \subseteq FlowIds'
    /\ \A f \in FlowIds : /\ flows'[f].reqs = flows[f].reqs
                          /\ flows'[f].seqCounter = flows[f].seqCounter
    /\ \A f \in FlowIds' : f \notin FlowIds => flows'[f].reqs = <<>>

\* Only worker w moves: it ends or keeps its span, and does not go back to the
\* steps before the body of its handler.
MovesOn(w) ==
    /\ worker[w].pc # "idle"
    /\ \A v \in Workers : v # w => worker'[v] = worker[v]
    /\ \/ worker'[w].pc = "idle"
       \/ worker'[w].span = worker[w].span
    /\ worker'[w].pc \in {"lookup", "create", "body"} /\ ~worker'[w].retry
         => worker[w].pc \in {"lookup", "create", "body"} /\ ~worker[w].retry

\* If neither spans nor flows change in that sense the lists stay as they should.
LEMMA KeptLists ==
    ASSUME TypeOK, Lists, SpansKept, FlowsKept
    PROVE  Lists'
  <1>1. SpanIds' = SpanIds
    BY DEF SpansKept, SpanIds
  <1>2. \A f \in FlowIds' : f \notin FlowIds => Len(flows'[f].reqs) = 0
    BY DEF FlowsKept
  <1>3. InflightBounded'
    <2> SUFFICES ASSUME NEW f \in FlowIds' PROVE Len(flows'[f].reqs) <= maxInflight
      BY DEF InflightBounded
    <2>1. CASE f \in FlowIds
      BY <2>1 DEF Lists, InflightBounded, FlowsKept
    <2>2. CASE f \notin FlowIds
      BY <2>2, <1>2, BoundAssumption
    <2> QED BY <2>1, <2>2
  <1>4. FIFOOrder'
    <2> SUFFICES ASSUME NEW f \in FlowIds', NEW i \in 1..Len(flows'[f].reqs)
                 PROVE  /\ spans'[flows'[f].reqs[i]].flow = f
                        /\ spans'[flows'[f].reqs[i]].seq = flows'[f].seqCounter - Len(flows'[f].reqs) + i
      BY DEF FIFOOrder
    <2>1. f \in FlowIds
      BY <1>2
    <2>2. flows'[f].reqs = flows[f].reqs /\ flows'[f].seqCounter = flows[f].seqCounter
      BY <2>1 DEF FlowsKept
    <2>3. flows[f].reqs[i] \in SpanIds
      BY <2>1, <2>2 DEF TypeOK
    <2>4. /\ spans[flows[f].reqs[i]].flow = f
          /\ spans[flows[f].reqs[i]].seq = flows[f].seqCounter - Len(flows[f].reqs) + i
      BY <2>1, <2>2 DEF Lists, FIFOOrder
    <2> QED
      BY <2>2, <2>3, <2>4 DEF SpansKept
  <1>7. ListedNumbered'
    <2> SUFFICES ASSUME NEW f \in FlowIds', NEW i \in 1..Len(flows'[f].reqs)
                 PROVE  spans'[flows'[f].reqs[i]].seq > 0
      BY DEF ListedNumbered
    <2>1. f \in FlowIds
      BY <1>2
    <2>2. flows'[f].reqs = flows[f].reqs
      BY <2>1 DEF FlowsKept
    <2> QED
      BY <2>1, <2>2 DEF Lists, ListedNumbered, TypeOK, SpansKept
  <1>5. MatchedGone'
    <2> SUFFICES ASSUME NEW s \in SpanIds, spans'[s].parent # NoSpan
                 PROVE  /\ spans'[s].parent \in SpanIds
                        /\ spans'[spans'[s].parent].seq > 0
                        /\ \A f \in FlowIds' : \A i \in 1..Len(flows'[f].reqs) :
                              flows'[f].reqs[i] # spans'[s].parent
      BY <1>1 DEF MatchedGone
    <2>1. spans'[s].parent = spans[s].parent
      BY DEF SpansKept
    <2>2. /\ spans[s].parent \in SpanIds
          /\ spans[spans[s].parent].seq > 0
          /\ \A f \in FlowIds : \A i \in 1..Len(flows[f].reqs) : flows[f].reqs[i] # spans[s].parent
      BY <2>1 DEF Lists, MatchedGone
    <2>3. spans'[spans[s].parent].seq > 0
      BY <2>2 DEF SpansKept
    <2>4. ASSUME NEW f \in FlowIds', NEW i \in 1..Len(flows'[f].reqs)
          PROVE  flows'[f].reqs[i] # spans[s].parent
      <3>1. f \in FlowIds
        BY <1>2, <2>4
      <3> QED BY <2>2, <2>4, <3>1 DEF FlowsKept
    <2> QED
      BY <2>1, <2>2, <2>3, <2>4
  <1>6. MatchedOnce'
    BY <1>1 DEF Lists, MatchedOnce, SpansKept
  <1> QED
    BY <1>3, <1>4, <1>5, <1>6, <1>7 DEF Lists

\* A worker that moves on keeps the hands distinct, and fresh if the span is.
LEMMA KeptHands ==
    ASSUME TypeOK, DistinctHands, FreshHands, NEW w \in Workers, MovesOn(w),
           \A s \in SpanIds : s # worker[w].span =>
               spans'[s].flow = spans[s].flow /\ spans'[s].seq = spans[s].seq,
           worker'[w].pc \in {"lookup", "create", "body"} /\ ~worker'[w].retry =>
               /\ spans'[worker[w].span].flow = spans[worker[w].span].flow
               /\ spans'[worker[w].span].seq = spans[worker[w].span].seq
    PROVE  DistinctHands' /\ FreshHands'
  <1>1. DistinctHands'
    <2> SUFFICES ASSUME NEW v \in Workers, NEW u \in Workers, v # u,
                        worker'[v].pc # "idle", worker'[u].pc # "idle"
                 PROVE  worker'[v].span # worker'[u].span
      BY DEF DistinctHands
    <2> QED
      BY DEF DistinctHands, MovesOn
  <1>2. FreshHands'
    <2> SUFFICES ASSUME NEW v \in Workers, worker'[v].pc \in {"lookup", "create", "body"},
                        ~worker'[v].retry
                 PROVE  spans'[worker'[v].span].flow = NoFlow /\ spans'[worker'[v].span].seq = 0
      BY DEF FreshHands
    <2>1. CASE v = w
      BY <2>1 DEF FreshHands, MovesOn
    <2>2. CASE v # w
      <3>1. worker'[v] = worker[v] /\ worker[v].pc # "idle"
        BY <2>2 DEF MovesOn
      <3>2. worker[v].span # worker[w].span /\ worker[v].span \in SpanIds
        BY <2>2, <3>1 DEF DistinctHands, MovesOn, TypeOK
      <3> QED
        BY <3>1, <3>2 DEF FreshHands
    <2> QED BY <2>1, <2>2
  <1> QED BY <1>1, <1>2

\* A step of no worker keeps the hands when it keeps the spans.
LEMMA KeptHandsNoWorker ==
    ASSUME TypeOK, DistinctHands, FreshHands, worker' = worker, SpansKept
    PROVE  DistinctHands' /\ FreshHands'
  <1>1. DistinctHands'
    BY DEF DistinctHands
  <1>2. FreshHands'
    BY DEF FreshHands, SpansKept, TypeOK
  <1> QED BY <1>1, <1>2

-----------------------------------------------------------------------------
(* Which steps those are.                                                  *)

\* Reporting spans does not move them.
LEMMA HandledKept ==
    ASSUME TypeOK, NEW S, spans' = Handled(spans, S), total' = total
    PROVE  SpansKept
  <1>1. \A s \in SpanIds : spans[s] \in Span
    BY DEF TypeOK
  <1>2. \A s \in SpanIds : spans'[s] = [spans[s] EXCEPT !.handled = @ + 1] \/ spans'[s] = spans[s]
    BY HandledType DEF TypeOK
  <1> QED
    BY <1>1, <1>2 DEF SpansKept, Span

\* Putting a new, empty flow into the map keeps the lists of all flows.
LEMMA InstallKept ==
    ASSUME TypeOK, NEW k \in Keys, InstallFlow(k)
    PROVE  FlowsKept
  <1>1. flowCount \in Nat /\ flowCount' = flowCount + 1
    BY DEF TypeOK, InstallFlow
  <1>2. flows' = [f \in 1..(flowCount + 1) |-> IF f = flowCount + 1 THEN NewFlow(k) ELSE flows[f]]
    BY DEF InstallFlow, Extend
  <1>3. NewFlow(k).reqs = <<>>
    BY DEF NewFlow
  <1>4. FlowIds = 1..flowCount /\ FlowIds' = 1..(flowCount + 1)
    BY <1>1 DEF FlowIds
  <1>5. \A f \in FlowIds : flows'[f] = flows[f]
    BY <1>1, <1>2, <1>4
  <1>6. \A f \in FlowIds' : f \notin FlowIds => flows'[f] = NewFlow(k)
    BY <1>1, <1>2, <1>4
  <1> QED
    BY <1>1, <1>3, <1>4, <1>5, <1>6 DEF FlowsKept

\* An assignment to the program counter of w moves it on.
LEMMA PcMoves ==
    ASSUME TypeOK, NEW w \in Workers, worker[w].pc # "idle", NEW p \in PCs,
           p \notin {"lookup", "create", "body"},
           \/ worker' = [worker EXCEPT ![w].pc = p]
           \/ worker' = [worker EXCEPT ![w] = IdleWorker]
    PROVE  MovesOn(w)
  <1>1. worker \in [Workers -> Worker]
    BY DEF TypeOK
  <1>2. CASE worker' = [worker EXCEPT ![w].pc = p]
    BY <1>1, <1>2 DEF MovesOn, Worker
  <1>3. CASE worker' = [worker EXCEPT ![w] = IdleWorker]
    BY <1>1, <1>3 DEF MovesOn, IdleWorker
  <1> QED BY <1>2, <1>3

\* The steps of a worker that neither send a request nor match one.
QuietStep(w) ==
    \/ HandleOpen(w) \/ LookupFlow(w) \/ CreateFlow(w) \/ CountInflight(w)
    \/ Touch(w) \/ RecvPeek(w) \/ HandleClose(w) \/ Finish(w) \/ TryPeek(w) \/ Unpend(w)
    \/ (RecvPop(w) /\ flows[worker[w].flow].reqs = <<>>)
    \/ (TryPop(w) /\ flows[worker[w].flow].reqs = <<>>)

\* A quiet step keeps what the lists depend on of the spans and the flows, and
\* moves only its own worker.
LEMMA QuietKept ==
    ASSUME TypeOK, NEW w \in Workers, QuietStep(w)
    PROVE  SpansKept /\ FlowsKept /\ MovesOn(w)
  <1> DEFINE s == worker[w].span
             g == worker[w].flow
  <1>0. /\ \A u \in SpanIds : spans[u] \in Span
        /\ spans \in [SpanIds -> Span]
        /\ flows \in [FlowIds -> Flow]
        /\ worker \in [Workers -> Worker]
        /\ flowCount \in Nat
    BY DEF TypeOK
  <1>a. ASSUME UNCHANGED <<flows, flowCount>> PROVE FlowsKept
    BY <1>a DEF FlowsKept, FlowIds
  <1>b. ASSUME UNCHANGED <<spans, total>> PROVE SpansKept
    BY <1>b DEF SpansKept
  <1>c. ASSUME Orphan(s), total' = total PROVE SpansKept
    BY <1>0, <1>c DEF SpansKept, Orphan, Span
  <1>d. ASSUME flows' = [flows EXCEPT ![g].idle = 0], flowCount' = flowCount, g \in FlowIds
        PROVE  FlowsKept
    <2>1. \A f \in FlowIds : flows'[f].reqs = flows[f].reqs /\ flows'[f].seqCounter = flows[f].seqCounter
      BY <1>0, <1>d DEF Flow
    <2> QED BY <1>d, <2>1 DEF FlowsKept, FlowIds
  <1>1. CASE HandleOpen(w)
    <2>1. Key(w) \in Keys
      BY <1>1, KeyType DEF HandleOpen
    <2>2. FlowsKept
      BY <1>1, <2>1, InstallKept DEF HandleOpen
    <2>3. MovesOn(w)
      BY <1>1, PcMoves DEF HandleOpen, PCs
    <2> QED BY <1>1, <1>b, <2>2, <2>3 DEF HandleOpen
  <1>2. CASE LookupFlow(w)
    <2>1. MovesOn(w)
      BY <1>0, <1>2 DEF LookupFlow, MovesOn, Worker
    <2> QED BY <1>2, <1>a, <1>b, <2>1 DEF LookupFlow
  <1>3. CASE CreateFlow(w)
    <2>1. Key(w) \in Keys
      BY <1>3, KeyType DEF CreateFlow
    <2>2. FlowsKept
      BY <1>3, <1>a, <2>1, InstallKept DEF CreateFlow
    <2>3. MovesOn(w)
      <3>1. \E c : worker' = [worker EXCEPT ![w] = [@ EXCEPT !.flow = c, !.pc = "body"]]
        BY <1>3 DEF CreateFlow
      <3>2. PICK c : worker' = [worker EXCEPT ![w] = [@ EXCEPT !.flow = c, !.pc = "body"]]
        BY <3>1
      <3>3. worker[w].pc = "create"
        BY <1>3 DEF CreateFlow
      <3> QED BY <1>0, <3>2, <3>3 DEF MovesOn, Worker
    <2> QED BY <1>3, <1>b, <2>2, <2>3 DEF CreateFlow
  <1>4. CASE CountInflight(w)
    <2>1. MovesOn(w)
      BY <1>4, PcMoves DEF CountInflight, PCs
    <2> QED BY <1>4, <1>a, <1>b, <2>1 DEF CountInflight
  <1>5. CASE Touch(w)
    <2>1. MovesOn(w)
      BY <1>5, PcMoves DEF Touch, PCs
    <2>2. FlowsKept
      BY <1>5, <1>d DEF Touch, TypeOK
    <2> QED BY <1>5, <1>b, <2>1, <2>2 DEF Touch
  <1>6. CASE RecvPeek(w)
    <2>1. MovesOn(w)
      BY <1>6, PcMoves DEF RecvPeek, PCs
    <2>2. FlowsKept
      BY <1>6, <1>d DEF RecvPeek, TypeOK
    <2> QED BY <1>6, <1>b, <1>c, <2>1, <2>2 DEF RecvPeek
  <1>7. CASE HandleClose(w)
    <2>1. MovesOn(w)
      BY <1>7, PcMoves DEF HandleClose, PCs
    <2>2. SpansKept
      <3>1. CASE Sweep({Key(w)})
        BY <1>7, <3>1, HandledKept DEF Sweep, HandleClose
      <3>2. CASE UNCHANGED spans
        BY <1>7, <1>b, <3>2 DEF HandleClose
      <3> QED BY <1>7, <3>1, <3>2 DEF HandleClose
    <2> QED BY <1>7, <1>a, <2>1, <2>2 DEF HandleClose
  <1>8. CASE Finish(w)
    <2>1. FlowsKept
      BY <1>8, <1>a DEF Finish
    <2>2. CASE spans' = Handled(spans, {s}) /\ worker' = [worker EXCEPT ![w] = IdleWorker]
      <3>1. MovesOn(w)
        BY <1>8, <2>2, PcMoves DEF Finish, PCs
      <3>2. SpansKept
        BY <1>8, <2>2, HandledKept DEF Finish
      <3> QED BY <2>1, <3>1, <3>2
    <2>3. CASE /\ spans' = [spans EXCEPT ![s].pend = 0]
               /\ worker' = [worker EXCEPT ![w] = [@ EXCEPT !.pc = "lookup", !.retry = TRUE]]
      <3>1. worker[w].pc = "finish" /\ total' = total
        BY <1>8 DEF Finish
      <3>2. MovesOn(w)
        BY <1>0, <2>3, <3>1 DEF MovesOn, Worker
      <3>3. SpansKept
        BY <1>0, <2>3, <3>1 DEF SpansKept, Span
      <3> QED BY <2>1, <3>2, <3>3
    <2> QED BY <1>8, <2>2, <2>3 DEF Finish
  <1>9. CASE TryPeek(w)
    <2>1. worker' = [worker EXCEPT ![w] = IdleWorker] \/ worker' = [worker EXCEPT ![w].pc = "pop"]
      BY <1>9 DEF TryPeek
    <2>2. MovesOn(w)
      BY <1>9, <2>1, PcMoves DEF TryPeek, PCs
    <2> QED BY <1>9, <1>a, <1>b, <2>2 DEF TryPeek
  <1>10. CASE Unpend(w)
    <2>1. MovesOn(w)
      BY <1>10, PcMoves DEF Unpend, PCs
    <2>2. SpansKept
      <3> DEFINE u == spans[s].parent
      <3>1. spans' = [spans EXCEPT ![s].pend = NotPending, ![u].pend = NotPending] /\ total' = total
        BY <1>10 DEF Unpend
      <3> HIDE DEF u, s
      <3> QED BY <1>0, <3>1 DEF SpansKept, Span
    <2> QED BY <1>10, <1>a, <2>1, <2>2 DEF Unpend
  <1>11. CASE RecvPop(w) /\ flows[worker[w].flow].reqs = <<>>
    <2>1. Orphan(s) /\ UNCHANGED <<flows, flowCount, total>>
      BY <1>11 DEF RecvPop, Match
    <2>2. MovesOn(w)
      BY <1>11, PcMoves DEF RecvPop, PCs
    <2> QED BY <1>a, <1>c, <2>1, <2>2
  <1>12. CASE TryPop(w) /\ flows[worker[w].flow].reqs = <<>>
    <2>1. /\ UNCHANGED <<spans, flows, flowCount, total>>
          /\ worker' = [worker EXCEPT ![w] = IdleWorker]
          /\ worker[w].pc = "pop"
      BY <1>12 DEF TryPop, Match
    <2>2. MovesOn(w)
      BY <2>1, PcMoves DEF PCs
    <2> QED BY <1>a, <1>b, <2>1, <2>2
  <1> QED
    BY <1>1, <1>2, <1>3, <1>4, <1>5, <1>6, <1>7, <1>8, <1>9, <1>10, <1>11, <1>12 DEF QuietStep

\* The cleanup and the clock.
LEMMA CleanerKept ==
    ASSUME TypeOK, CleanerStep \/ Tick
    PROVE  SpansKept /\ FlowsKept /\ worker' = worker
  <1>0. /\ \A u \in SpanIds : spans[u] \in Span
        /\ spans \in [SpanIds -> Span]
        /\ flows \in [FlowIds -> Flow]
    BY DEF TypeOK
  <1>1. worker' = worker /\ flowCount' = flowCount /\ total' = total
    BY DEF CleanerStep, CleanStart, CleanMeet, CleanSettle, CleanPendingDone, CleanConns, Tick
  <1>2. FlowsKept
    <2>1. CASE flows' = flows
      BY <1>1, <2>1 DEF FlowsKept, FlowIds
    <2>2. CASE Tick
      <3>1. flows' = [f \in FlowIds |-> [flows[f] EXCEPT !.idle = Older(@)]]
        BY <2>2 DEF Tick
      <3>2. \A f \in FlowIds : flows'[f].reqs = flows[f].reqs /\ flows'[f].seqCounter = flows[f].seqCounter
        BY <1>0, <3>1 DEF Flow
      <3> QED BY <1>1, <3>2 DEF FlowsKept, FlowIds
    <2> QED
      BY <2>1, <2>2 DEF CleanerStep, CleanStart, CleanMeet, CleanSettle, CleanPendingDone, CleanConns
  <1>3. SpansKept
    <2>1. CASE spans' = spans
      BY <1>1, <2>1 DEF SpansKept
    <2>2. CASE CleanSettle
      <3> DEFINE c == cleaner.span
                 h == Handled(spans, {c})
      <3>1. PICK id : spans' = [h EXCEPT ![c] = [@ EXCEPT !.traceID = id, !.pend = NotPending, !.timedOut = TRUE]]
        BY <2>2 DEF CleanSettle
      <3>2. h \in [SpanIds -> Span]
        BY <1>0, HandledType
      <3>3. \A u \in SpanIds : h[u].flow = spans[u].flow /\ h[u].seq = spans[u].seq /\ h[u].parent = spans[u].parent
        <4>1. \A u \in SpanIds : h[u] = [spans[u] EXCEPT !.handled = @ + 1] \/ h[u] = spans[u]
          BY <1>0, HandledType
        <4> HIDE DEF h
        <4> QED BY <1>0, <4>1 DEF Span
      <3> HIDE DEF h, c
      <3>4. \A u \in SpanIds : spans'[u].flow = h[u].flow /\ spans'[u].seq = h[u].seq /\ spans'[u].parent = h[u].parent
        BY <3>1, <3>2 DEF Span
      <3> QED BY <1>1, <3>3, <3>4 DEF SpansKept
    <2>3. CASE CleanConns
      BY <1>1, <2>3, HandledKept DEF CleanConns, Sweep
    <2>4. CASE Tick
      BY <1>0, <1>1, <2>4 DEF Tick, SpansKept, Span
    <2> QED
      BY <2>1, <2>2, <2>3, <2>4 DEF CleanerStep, CleanStart, CleanMeet, CleanPendingDone
  <1> QED BY <1>1, <1>2, <1>3

-----------------------------------------------------------------------------
(* The three steps that do change them.                                    *)

\* Receiving an event, which numbers a new span, keeps the lists.
LEMMA ReceiveLists ==
    ASSUME IndInv, NEW w \in Workers, NEW e \in Events, Receive(w, e)
    PROVE  DistinctHands' /\ FreshHands' /\ Lists'
  <1> USE DEF IndInv
  <1>1. /\ total \in Nat /\ total' = total + 1
        /\ SpanIds = 1..total /\ SpanIds' = 1..(total + 1)
        /\ FlowIds' = FlowIds /\ flows' = flows
        /\ worker[w].pc = "idle"
        /\ worker \in [Workers -> Worker]
    BY BoundAssumption DEF Receive, TypeOK, SpanIds, FlowIds
  <1> DEFINE n == total + 1
             new == [ev |-> e, traceID |-> e.hdr, parent |-> NoSpan, seq |-> 0,
                     flow |-> NoFlow, handled |-> 0, pend |-> NotPending,
                     timedOut |-> FALSE]
  <1>2. spans' = [i \in 1..(total + 1) |-> IF i = total + 1 THEN new ELSE spans[i]]
    BY DEF Receive, Extend
  <1>3. spans'[n].parent = NoSpan /\ spans'[n].seq = 0 /\ spans'[n].flow = NoFlow
    BY <1>1, <1>2
  <1>4. \A s \in SpanIds : spans'[s] = spans[s] /\ s # n
    <2> HIDE DEF new
    <2> QED BY <1>1, <1>2
  <1>5. SpanIds' = SpanIds \cup {n}
    BY <1>1
  <1>6. worker'[w].span = n /\ \A v \in Workers : v # w => worker'[v] = worker[v]
    BY <1>1 DEF Receive
  <1> HIDE DEF n
  <1>7. \A v \in Workers : worker[v].pc # "idle" => worker[v].span \in SpanIds
    BY DEF TypeOK
  <1>8. DistinctHands'
    BY <1>4, <1>6, <1>7 DEF DistinctHands
  <1>9. FreshHands'
    <2> SUFFICES ASSUME NEW v \in Workers, worker'[v].pc \in {"lookup", "create", "body"},
                        ~worker'[v].retry
                 PROVE  spans'[worker'[v].span].flow = NoFlow /\ spans'[worker'[v].span].seq = 0
      BY DEF FreshHands
    <2>1. CASE v = w
      BY <1>3, <1>6, <2>1
    <2>2. CASE v # w
      BY <1>4, <1>6, <1>7, <2>2 DEF FreshHands
    <2> QED BY <2>1, <2>2
  <1>10. InflightBounded'
    BY <1>1 DEF Lists, InflightBounded
  <1>11. FIFOOrder'
    BY <1>1, <1>4 DEF Lists, FIFOOrder, TypeOK
  <1>12. MatchedGone'
    <2> SUFFICES ASSUME NEW s \in SpanIds', spans'[s].parent # NoSpan
                 PROVE  /\ spans'[s].parent \in SpanIds'
                        /\ spans'[spans'[s].parent].seq > 0
                        /\ \A f \in FlowIds : \A i \in 1..Len(flows[f].reqs) :
                              flows[f].reqs[i] # spans'[s].parent
      BY <1>1 DEF MatchedGone
    <2>1. s \in SpanIds
      BY <1>3, <1>5
    <2> QED
      BY <1>4, <1>5, <2>1 DEF Lists, MatchedGone
  <1>13. MatchedOnce'
    BY <1>3, <1>4, <1>5 DEF Lists, MatchedOnce
  <1>14. ListedNumbered'
    BY <1>1, <1>4 DEF Lists, ListedNumbered, TypeOK
  <1> QED
    BY <1>8, <1>9, <1>10, <1>11, <1>12, <1>13, <1>14 DEF Lists

\* The list after room was made is not full: it is the old one, from its first
\* or its second element on.
LEMMA RoomOrder ==
    ASSUME NEW q \in Seq(Nat), Len(q) <= maxInflight
    PROVE  /\ Room(q) \in Seq(Nat)
           /\ \E d \in {0, 1} : /\ Len(Room(q)) = Len(q) - d
                                /\ Len(q) - d < maxInflight
                                /\ \A i \in 1..Len(Room(q)) :
                                     /\ i + d \in 1..Len(q)
                                     /\ Room(q)[i] = q[i + d]
  <1>1. Len(q) \in Nat /\ maxInflight \in Nat /\ maxInflight > 0
    BY BoundAssumption
  <1>2. CASE Len(q) >= maxInflight
    <2>1. q # <<>> /\ Room(q) = Tail(q)
      BY <1>1, <1>2 DEF Room
    <2>2. Tail(q) \in Seq(Nat) /\ Len(Tail(q)) = Len(q) - 1 /\ \A i \in 1..(Len(q) - 1) : Tail(q)[i] = q[i + 1]
      BY <2>1
    <2>3. \A i \in 1..(Len(q) - 1) : i + 1 \in 1..Len(q)
      BY <1>1
    <2>4. Len(q) - 1 < maxInflight
      BY <1>1
    <2> QED BY <2>1, <2>2, <2>3, <2>4
  <1>3. CASE Len(q) < maxInflight
    <2>1. Room(q) = q
      BY <1>1, <1>3 DEF Room
    <2>2. /\ Len(Room(q)) = Len(q) - 0 /\ Len(q) - 0 < maxInflight
          /\ \A i \in 1..Len(q) : i + 0 \in 1..Len(q) /\ q[i] = q[i + 0]
      BY <1>1, <1>3, <2>1
    <2> QED BY <2>1, <2>2
  <1> QED BY <1>1, <1>2, <1>3

\* A span is at one place of one list.
LEMMA OnePlace ==
    ASSUME TypeOK, FIFOOrder, NEW f \in FlowIds, NEW g \in FlowIds,
           NEW i \in 1..Len(flows[f].reqs), NEW j \in 1..Len(flows[g].reqs),
           flows[f].reqs[i] = flows[g].reqs[j]
    PROVE  f = g /\ i = j
  <1>1. f = g
    BY DEF FIFOOrder
  <1>2. flows[f].seqCounter \in Nat /\ Len(flows[f].reqs) \in Nat
    BY DEF TypeOK, Flow
  <1>3. flows[f].seqCounter - Len(flows[f].reqs) + i = flows[f].seqCounter - Len(flows[f].reqs) + j
    BY <1>1 DEF FIFOOrder
  <1> QED BY <1>1, <1>2, <1>3

\* What SendRequest changes: the list grows at its end, after room was made, and
\* only the span that joins it gets a place.
LEMMA SendEffect ==
    ASSUME TypeOK, NEW w \in Workers, SendRequest(w)
    PROVE  LET s == worker[w].span
               g == worker[w].flow
           IN  /\ s \in SpanIds /\ g \in FlowIds
               /\ UNCHANGED <<total, flowCount>>
               /\ flows'[g].reqs = Append(Room(flows[g].reqs), s)
               /\ flows'[g].seqCounter = flows[g].seqCounter + 1
               /\ \A f \in FlowIds : f # g => flows'[f] = flows[f]
               /\ spans'[s].flow = g /\ spans'[s].seq = flows[g].seqCounter + 1
               /\ \A u \in SpanIds : /\ spans'[u].parent = spans[u].parent
                                     /\ u # s => /\ spans'[u].flow = spans[u].flow
                                                 /\ spans'[u].seq = spans[u].seq
  <1> DEFINE s == worker[w].span
             g == worker[w].flow
             q == flows[g].reqs
             h == Handled(spans, Oldest(q))
             c == flows[g].seqCounter
             a == Append(Room(q), s)
             id == EnsuredID(s)
  <1>1. s \in SpanIds /\ g \in FlowIds
    BY DEF SendRequest, TypeOK
  <1>2. spans \in [SpanIds -> Span] /\ flows \in [FlowIds -> Flow]
    BY DEF TypeOK
  <1>3. /\ spans' = [h EXCEPT ![s] = [@ EXCEPT !.traceID = id, !.seq = c + 1, !.flow = g]]
        /\ flows' = [flows EXCEPT ![g] = [@ EXCEPT !.reqs = a, !.seqCounter = c + 1, !.idle = 0]]
        /\ UNCHANGED <<total, flowCount>>
    BY DEF SendRequest
  <1>4. h \in [SpanIds -> Span]
    BY <1>2, HandledType
  <1>5. \A u \in SpanIds : h[u].flow = spans[u].flow /\ h[u].seq = spans[u].seq /\ h[u].parent = spans[u].parent
    <2>1. \A u \in SpanIds : h[u] = [spans[u] EXCEPT !.handled = @ + 1] \/ h[u] = spans[u]
      BY <1>2, HandledType
    <2> HIDE DEF h
    <2> QED BY <1>2, <2>1 DEF Span
  <1> HIDE DEF a, id, h, c, s, g, q
  <1>6. flows'[g].reqs = a /\ flows'[g].seqCounter = c + 1 /\ \A f \in FlowIds : f # g => flows'[f] = flows[f]
    BY <1>1, <1>2, <1>3 DEF Flow
  <1>7. /\ spans'[s].flow = g /\ spans'[s].seq = c + 1
        /\ \A u \in SpanIds : /\ spans'[u].parent = h[u].parent
                              /\ u # s => spans'[u].flow = h[u].flow /\ spans'[u].seq = h[u].seq
    BY <1>1, <1>3, <1>4 DEF Span
  <1> QED
    BY <1>1, <1>3, <1>5, <1>6, <1>7 DEF a, c, s, g, q

\* A request that is sent joins the end of one list, without a gap.
LEMMA SendLists ==
    ASSUME IndInv, NEW w \in Workers, SendRequest(w)
    PROVE  DistinctHands' /\ FreshHands' /\ Lists'
  <1> USE DEF IndInv
  <1> DEFINE s == worker[w].span
             g == worker[w].flow
             q == flows[g].reqs
             c == flows[g].seqCounter
  <1>1. /\ s \in SpanIds /\ g \in FlowIds
        /\ UNCHANGED <<total, flowCount>>
        /\ flows'[g].reqs = Append(Room(q), s)
        /\ flows'[g].seqCounter = c + 1
        /\ \A f \in FlowIds : f # g => flows'[f] = flows[f]
        /\ spans'[s].flow = g /\ spans'[s].seq = c + 1
        /\ \A u \in SpanIds : /\ spans'[u].parent = spans[u].parent
                              /\ u # s => /\ spans'[u].flow = spans[u].flow
                                          /\ spans'[u].seq = spans[u].seq
    BY SendEffect
  <1>2. SpanIds' = SpanIds /\ FlowIds' = FlowIds
    BY <1>1 DEF SpanIds, FlowIds
  <1>3. spans[s].flow = NoFlow /\ spans[s].seq = 0
    BY DEF SendRequest, FreshHands
  <1>4. \A f \in FlowIds : \A i \in 1..Len(flows[f].reqs) :
            flows[f].reqs[i] \in SpanIds /\ flows[f].reqs[i] # s
    <2>1. \A f \in FlowIds : f # NoFlow
      BY DEF FlowIds, NoFlow
    <2>2. \A f \in FlowIds : \A i \in 1..Len(flows[f].reqs) : flows[f].reqs[i] \in SpanIds
      BY DEF TypeOK
    <2>3. \A f \in FlowIds : \A i \in 1..Len(flows[f].reqs) : spans[flows[f].reqs[i]].flow = f
      BY DEF Lists, FIFOOrder
    <2> QED BY <1>3, <2>1, <2>2, <2>3
  <1>5. q \in Seq(Nat) /\ c \in Nat /\ Len(q) \in Nat /\ Len(q) <= maxInflight /\ maxInflight \in Nat
    BY <1>1, BoundAssumption DEF TypeOK, Flow, Lists, InflightBounded
  <1>6. Room(q) \in Seq(Nat)
    BY <1>5, RoomOrder
  <1>7. PICK d \in {0, 1} : /\ Len(Room(q)) = Len(q) - d
                            /\ Len(q) - d < maxInflight
                            /\ \A i \in 1..Len(Room(q)) :
                                 i + d \in 1..Len(q) /\ Room(q)[i] = q[i + d]
    BY <1>5, RoomOrder
  <1>8. s \in Nat
    BY <1>1 DEF SpanIds, TypeOK
  <1>9. /\ Len(flows'[g].reqs) = Len(q) - d + 1
        /\ \A i \in 1..(Len(q) - d) : i + d \in 1..Len(q) /\ flows'[g].reqs[i] = q[i + d]
        /\ flows'[g].reqs[Len(q) - d + 1] = s
    <2> DEFINE m == Room(q)
    <2>1. m \in Seq(Nat) /\ Len(m) = Len(q) - d
      BY <1>6, <1>7
    <2>2. flows'[g].reqs = Append(m, s)
      BY <1>1
    <2>3. \A i \in 1..Len(m) : i + d \in 1..Len(q) /\ m[i] = q[i + d]
      BY <1>7
    <2> HIDE DEF m, s, q, g
    <2> QED BY <1>8, <2>1, <2>2, <2>3
  <1> HIDE DEF s, q, g, c
  <1>10. \A i \in 1..(Len(q) - d + 1) : i \in 1..(Len(q) - d) \/ i = Len(q) - d + 1
    BY <1>5
  <1>11. q = flows[g].reqs /\ c = flows[g].seqCounter
    BY DEF q, g, c
  <1>12. \A i \in 1..(Len(q) - d) :
            /\ i + d \in 1..Len(q) /\ flows'[g].reqs[i] = q[i + d]
            /\ q[i + d] \in SpanIds /\ q[i + d] # s
            /\ spans[q[i + d]].flow = g /\ spans[q[i + d]].seq = c - Len(q) + (i + d)
            /\ spans[q[i + d]].seq > 0
    BY <1>1, <1>4, <1>9, <1>11 DEF Lists, FIFOOrder, ListedNumbered
  <1>13. InflightBounded'
    <2> SUFFICES ASSUME NEW f \in FlowIds PROVE Len(flows'[f].reqs) <= maxInflight
      BY <1>2 DEF InflightBounded
    <2>1. CASE f = g
      BY <1>5, <1>7, <1>9, <2>1
    <2>2. CASE f # g
      BY <1>1, <2>2 DEF Lists, InflightBounded
    <2> QED BY <2>1, <2>2
  <1>14. FIFOOrder'
    <2> SUFFICES ASSUME NEW f \in FlowIds, NEW i \in 1..Len(flows'[f].reqs)
                 PROVE  /\ spans'[flows'[f].reqs[i]].flow = f
                        /\ spans'[flows'[f].reqs[i]].seq = flows'[f].seqCounter - Len(flows'[f].reqs) + i
      BY <1>2 DEF FIFOOrder
    <2>1. CASE f # g
      <3>1. flows'[f] = flows[f]
        BY <1>1, <2>1
      <3>2. i \in 1..Len(flows[f].reqs)
        BY <3>1
      <3> DEFINE x == flows[f].reqs[i]
      <3>3. /\ spans[x].flow = f
            /\ spans[x].seq = flows[f].seqCounter - Len(flows[f].reqs) + i
        BY <3>2 DEF Lists, FIFOOrder
      <3>4. x \in SpanIds /\ x # s
        BY <1>4, <2>1, <3>2
      <3> HIDE DEF x
      <3>5. spans'[x].flow = spans[x].flow /\ spans'[x].seq = spans[x].seq
        BY <1>1, <3>4
      <3>6. flows'[f].reqs[i] = x
        BY <3>1 DEF x
      <3> QED
        BY ONLY <3>1, <3>3, <3>5, <3>6, Zenon
    <2>2. CASE f = g /\ i = Len(q) - d + 1
      <3>1. flows'[f].reqs[i] = s /\ Len(flows'[f].reqs) = i /\ flows'[f].seqCounter = c + 1
        BY <1>1, <1>9, <2>2
      <3>2. (c + 1) - i + i = c + 1
        BY <1>5, <2>2
      <3>3. spans'[flows'[f].reqs[i]].flow = g /\ spans'[flows'[f].reqs[i]].seq = c + 1
        BY <1>1, <3>1
      <3>4. flows'[f].seqCounter - Len(flows'[f].reqs) + i = c + 1
        BY ONLY <3>1, <3>2, Zenon
      <3> QED BY <2>2, <3>3, <3>4
    <2>3. CASE f = g /\ i \in 1..(Len(q) - d)
      <3> DEFINE x == q[i + d]
      <3>0. /\ flows'[f].reqs[i] = x /\ x \in SpanIds /\ x # s
            /\ spans[x].flow = g /\ spans[x].seq = c - Len(q) + (i + d)
        BY <1>12, <2>3
      <3> HIDE DEF x
      <3>1. spans'[flows'[f].reqs[i]].flow = g /\ spans'[flows'[f].reqs[i]].seq = c - Len(q) + (i + d)
        BY <1>1, <3>0
      <3>2. Len(flows'[f].reqs) = Len(q) - d + 1 /\ flows'[f].seqCounter = c + 1
        BY <1>1, <1>9, <2>3
      <3>3. c - Len(q) + (i + d) = (c + 1) - (Len(q) - d + 1) + i
        BY <1>5, <2>3
      <3> QED BY <2>3, <3>1, <3>2, <3>3
    <2> QED BY <1>9, <1>10, <2>1, <2>2, <2>3
  <1>15. ListedNumbered'
    <2> SUFFICES ASSUME NEW f \in FlowIds, NEW i \in 1..Len(flows'[f].reqs)
                 PROVE  spans'[flows'[f].reqs[i]].seq > 0
      BY <1>2 DEF ListedNumbered
    <2>1. CASE f # g
      BY <1>1, <1>4, <2>1 DEF Lists, ListedNumbered
    <2>2. CASE f = g /\ i = Len(q) - d + 1
      BY <1>1, <1>5, <1>9, <2>2
    <2>3. CASE f = g /\ i \in 1..(Len(q) - d)
      <3> DEFINE x == q[i + d]
      <3>1. flows'[f].reqs[i] = x /\ x \in SpanIds /\ x # s /\ spans[x].seq > 0
        BY <1>12, <2>3
      <3> HIDE DEF x
      <3>2. spans'[x].seq = spans[x].seq
        BY <1>1, <3>1
      <3> QED BY <3>1, <3>2
    <2> QED BY <1>9, <1>10, <2>1, <2>2, <2>3
  <1>16. MatchedGone'
    <2> SUFFICES ASSUME NEW u \in SpanIds, spans'[u].parent # NoSpan
                 PROVE  /\ spans'[u].parent \in SpanIds
                        /\ spans'[spans'[u].parent].seq > 0
                        /\ \A f \in FlowIds : \A i \in 1..Len(flows'[f].reqs) :
                              flows'[f].reqs[i] # spans'[u].parent
      BY <1>2 DEF MatchedGone
    <2> DEFINE p == spans[u].parent
    <2>1. spans'[u].parent = p
      BY <1>1
    <2>2. /\ p \in SpanIds /\ spans[p].seq > 0
          /\ \A f \in FlowIds : \A i \in 1..Len(flows[f].reqs) : flows[f].reqs[i] # p
      BY <2>1 DEF Lists, MatchedGone
    <2> HIDE DEF p
    <2>3. p # s
      BY <1>3, <2>2 DEF s
    <2>4. ASSUME NEW f \in FlowIds, NEW i \in 1..Len(flows'[f].reqs)
          PROVE  flows'[f].reqs[i] # p
      <3>1. CASE f # g
        BY <1>1, <2>2, <2>4, <3>1
      <3>2. CASE f = g /\ i = Len(q) - d + 1
        BY <1>9, <2>3, <3>2
      <3>3. CASE f = g /\ i \in 1..(Len(q) - d)
        <4>1. flows'[f].reqs[i] = q[i + d] /\ i + d \in 1..Len(q)
          BY <1>12, <3>3
        <4>2. \A j \in 1..Len(q) : q[j] # p
          BY <1>1, <1>11, <2>2
        <4> QED BY <4>1, <4>2
      <3> QED BY <1>9, <1>10, <2>4, <3>1, <3>2, <3>3
    <2> QED BY <1>1, <2>1, <2>2, <2>3, <2>4
  <1>17. MatchedOnce'
    BY <1>1, <1>2 DEF Lists, MatchedOnce
  <1>18. DistinctHands' /\ FreshHands'
    <2>1. MovesOn(w)
      BY PcMoves DEF SendRequest, PCs
    <2>2. worker'[w].pc = "count"
      BY DEF SendRequest, TypeOK, Worker
    <2> QED BY <1>1, <2>1, <2>2, KeptHands DEF s
  <1> QED
    BY <1>13, <1>14, <1>15, <1>16, <1>17, <1>18 DEF Lists

\* What a match changes: the head leaves the list and becomes the parent of the
\* worker's span.
LEMMA MatchEffect ==
    ASSUME TypeOK, NEW w \in Workers, worker[w].pc = "pop", Match(w)
    PROVE  LET s == worker[w].span
               g == worker[w].flow
           IN  /\ s \in SpanIds /\ g \in FlowIds
               /\ flows[g].reqs \in Seq(Nat) /\ flows[g].reqs # <<>>
               /\ flows'[g].reqs = Tail(flows[g].reqs)
               /\ flows'[g].seqCounter = flows[g].seqCounter
               /\ \A f \in FlowIds : f # g => flows'[f] = flows[f]
               /\ spans'[s].parent = Head(flows[g].reqs)
               /\ \A u \in SpanIds : /\ u # s => spans'[u].parent = spans[u].parent
                                     /\ spans'[u].flow = spans[u].flow
                                     /\ spans'[u].seq = spans[u].seq
  <1> DEFINE s == worker[w].span
             g == worker[w].flow
             q == flows[g].reqs
             r == Head(q)
             h == Handled(spans, {r, s})
             id == spans[r].traceID
             a == Tail(q)
  <1>1. s \in SpanIds /\ g \in FlowIds
    BY DEF TypeOK
  <1>2. spans \in [SpanIds -> Span] /\ flows \in [FlowIds -> Flow]
    BY DEF TypeOK
  <1>3. /\ spans' = [h EXCEPT ![s] = [@ EXCEPT !.parent = r, !.traceID = id]]
        /\ flows' = [flows EXCEPT ![g].reqs = a]
        /\ q # <<>>
    BY DEF Match
  <1>4. h \in [SpanIds -> Span]
    BY <1>2, HandledType
  <1>5. \A u \in SpanIds : h[u].flow = spans[u].flow /\ h[u].seq = spans[u].seq /\ h[u].parent = spans[u].parent
    <2>1. \A u \in SpanIds : h[u] = [spans[u] EXCEPT !.handled = @ + 1] \/ h[u] = spans[u]
      BY <1>2, HandledType
    <2> HIDE DEF h
    <2> QED BY <1>2, <2>1 DEF Span
  <1>6. q \in Seq(Nat)
    BY <1>1, <1>2 DEF Flow
  <1> HIDE DEF a, id, h, s, g, q, r
  <1>7. flows'[g].reqs = a /\ flows'[g].seqCounter = flows[g].seqCounter
        /\ \A f \in FlowIds : f # g => flows'[f] = flows[f]
    BY <1>1, <1>2, <1>3 DEF Flow
  <1>8. /\ spans'[s].parent = r
        /\ \A u \in SpanIds : /\ u # s => spans'[u].parent = h[u].parent
                              /\ spans'[u].flow = h[u].flow /\ spans'[u].seq = h[u].seq
    BY <1>1, <1>3, <1>4 DEF Span
  <1> QED
    BY <1>1, <1>3, <1>5, <1>6, <1>7, <1>8 DEF a, s, g, q, r

\* A match takes one request off one list and makes it the parent of one span.
LEMMA MatchLists ==
    ASSUME IndInv, NEW w \in Workers, worker[w].pc = "pop", Match(w),
           UNCHANGED <<total, flowCount>>
    PROVE  /\ Lists'
           /\ \A u \in SpanIds : spans'[u].flow = spans[u].flow /\ spans'[u].seq = spans[u].seq
  <1> USE DEF IndInv
  <1> DEFINE s == worker[w].span
             g == worker[w].flow
             q == flows[g].reqs
             r == Head(q)
  <1>1. /\ s \in SpanIds /\ g \in FlowIds
        /\ q \in Seq(Nat) /\ q # <<>>
        /\ flows'[g].reqs = Tail(q)
        /\ flows'[g].seqCounter = flows[g].seqCounter
        /\ \A f \in FlowIds : f # g => flows'[f] = flows[f]
        /\ spans'[s].parent = r
        /\ \A u \in SpanIds : /\ u # s => spans'[u].parent = spans[u].parent
                              /\ spans'[u].flow = spans[u].flow
                              /\ spans'[u].seq = spans[u].seq
    BY MatchEffect
  <1>2. SpanIds' = SpanIds /\ FlowIds' = FlowIds
    BY DEF SpanIds, FlowIds
  <1>3. q = flows[g].reqs /\ flows[g].seqCounter \in Nat
    BY <1>1 DEF TypeOK, Flow
  <1> HIDE DEF s, g, q
  <1>4. /\ Len(q) \in Nat /\ 1 \in 1..Len(q) /\ r = q[1]
        /\ Len(flows'[g].reqs) = Len(q) - 1
        /\ \A i \in 1..(Len(q) - 1) : i + 1 \in 1..Len(q) /\ flows'[g].reqs[i] = q[i + 1]
    BY <1>1
  <1> HIDE DEF r
  <1>5. \A f \in FlowIds : \A i \in 1..Len(flows[f].reqs) : flows[f].reqs[i] \in SpanIds
    BY DEF TypeOK
  <1>6. r \in SpanIds /\ spans[r].seq > 0
    BY <1>1, <1>3, <1>4, <1>5 DEF Lists, ListedNumbered
  <1>7. \A f \in FlowIds : \A i \in 1..Len(flows'[f].reqs) :
            \E j \in 1..Len(flows[f].reqs) :
                /\ flows'[f].reqs[i] = flows[f].reqs[j]
                /\ flows'[f].seqCounter - Len(flows'[f].reqs) + i
                     = flows[f].seqCounter - Len(flows[f].reqs) + j
                /\ f = g => j # 1
    <2> SUFFICES ASSUME NEW f \in FlowIds, NEW i \in 1..Len(flows'[f].reqs)
                 PROVE  \E j \in 1..Len(flows[f].reqs) :
                            /\ flows'[f].reqs[i] = flows[f].reqs[j]
                            /\ flows'[f].seqCounter - Len(flows'[f].reqs) + i
                                 = flows[f].seqCounter - Len(flows[f].reqs) + j
                            /\ f = g => j # 1
      OBVIOUS
    <2>1. CASE f # g
      BY <1>1, <2>1
    <2>2. CASE f = g
      <3>1. i \in 1..(Len(q) - 1) /\ i + 1 \in 1..Len(q) /\ i + 1 # 1
        BY <1>4, <2>2
      <3>a. \A x, y, z \in Int : x - (y - 1) + z = x - y + (z + 1)
        OBVIOUS
      <3>b. flows[g].seqCounter \in Int /\ Len(q) \in Int /\ i \in Int
        BY <1>3, <1>4, <3>1
      <3>2. flows[g].seqCounter - (Len(q) - 1) + i = flows[g].seqCounter - Len(q) + (i + 1)
        BY <3>a, <3>b, Zenon
      <3>3. flows'[f].reqs[i] = flows[f].reqs[i + 1]
        BY <1>3, <1>4, <2>2, <3>1
      <3>4. flows'[f].seqCounter - Len(flows'[f].reqs) + i = flows[f].seqCounter - Len(flows[f].reqs) + (i + 1)
        BY <1>1, <1>3, <1>4, <2>2, <3>2, Zenon
      <3>5. i + 1 \in 1..Len(flows[f].reqs)
        BY <1>3, <2>2, <3>1
      <3> QED BY <3>1, <3>3, <3>4, <3>5, Zenon
    <2> QED BY <2>1, <2>2
  <1>8. InflightBounded'
    <2> SUFFICES ASSUME NEW f \in FlowIds PROVE Len(flows'[f].reqs) <= maxInflight
      BY <1>2 DEF InflightBounded
    <2>1. CASE f = g
      <3>1. Len(q) <= maxInflight
        BY <1>1, <1>3 DEF Lists, InflightBounded
      <3> QED BY <1>4, <2>1, <3>1, BoundAssumption
    <2>2. CASE f # g
      BY <1>1, <2>2 DEF Lists, InflightBounded
    <2> QED BY <2>1, <2>2
  <1>9. FIFOOrder'
    <2> SUFFICES ASSUME NEW f \in FlowIds, NEW i \in 1..Len(flows'[f].reqs)
                 PROVE  /\ spans'[flows'[f].reqs[i]].flow = f
                        /\ spans'[flows'[f].reqs[i]].seq = flows'[f].seqCounter - Len(flows'[f].reqs) + i
      BY <1>2 DEF FIFOOrder
    <2>1. PICK j \in 1..Len(flows[f].reqs) :
                /\ flows'[f].reqs[i] = flows[f].reqs[j]
                /\ flows'[f].seqCounter - Len(flows'[f].reqs) + i
                     = flows[f].seqCounter - Len(flows[f].reqs) + j
      BY <1>7
    <2>2. /\ spans[flows[f].reqs[j]].flow = f
          /\ spans[flows[f].reqs[j]].seq = flows[f].seqCounter - Len(flows[f].reqs) + j
      BY DEF Lists, FIFOOrder
    <2> QED BY <1>1, <1>5, <2>1, <2>2
  <1>10. ListedNumbered'
    <2> SUFFICES ASSUME NEW f \in FlowIds, NEW i \in 1..Len(flows'[f].reqs)
                 PROVE  spans'[flows'[f].reqs[i]].seq > 0
      BY <1>2 DEF ListedNumbered
    <2>1. PICK j \in 1..Len(flows[f].reqs) : flows'[f].reqs[i] = flows[f].reqs[j]
      BY <1>7
    <2>2. flows[f].reqs[j] \in SpanIds /\ spans[flows[f].reqs[j]].seq > 0
      BY <1>5 DEF Lists, ListedNumbered
    <2>3. spans'[flows[f].reqs[j]].seq = spans[flows[f].reqs[j]].seq
      BY <1>1, <2>2
    <2> QED BY <2>1, <2>2, <2>3
  <1>11. \A f \in FlowIds : \A i \in 1..Len(flows'[f].reqs) : flows'[f].reqs[i] # r
    <2> SUFFICES ASSUME NEW f \in FlowIds, NEW i \in 1..Len(flows'[f].reqs), flows'[f].reqs[i] = r
                 PROVE  FALSE
      OBVIOUS
    <2>1. PICK j \in 1..Len(flows[f].reqs) : flows'[f].reqs[i] = flows[f].reqs[j] /\ (f = g => j # 1)
      BY <1>7
    <2>2. flows[f].reqs[j] = flows[g].reqs[1] /\ 1 \in 1..Len(flows[g].reqs)
      BY <1>3, <1>4, <2>1
    <2>3. f = g /\ j = 1
      BY <1>1, <2>2, OnePlace DEF Lists
    <2> QED BY <2>1, <2>3
  <1>12. \A u \in SpanIds : u # s /\ spans[u].parent # NoSpan => spans[u].parent # r
    BY <1>1, <1>3, <1>4 DEF Lists, MatchedGone
  <1>13. MatchedGone'
    <2> SUFFICES ASSUME NEW u \in SpanIds, spans'[u].parent # NoSpan
                 PROVE  /\ spans'[u].parent \in SpanIds
                        /\ spans'[spans'[u].parent].seq > 0
                        /\ \A f \in FlowIds : \A i \in 1..Len(flows'[f].reqs) :
                              flows'[f].reqs[i] # spans'[u].parent
      BY <1>2 DEF MatchedGone
    <2>1. CASE u = s
      BY <1>1, <1>6, <1>11, <2>1
    <2>2. CASE u # s
      <3>1. spans'[u].parent = spans[u].parent
        BY <1>1, <2>2
      <3>2. /\ spans[u].parent \in SpanIds /\ spans[spans[u].parent].seq > 0
            /\ \A f \in FlowIds : \A i \in 1..Len(flows[f].reqs) : flows[f].reqs[i] # spans[u].parent
        BY <3>1 DEF Lists, MatchedGone
      <3> QED BY <1>1, <1>7, <3>1, <3>2
    <2> QED BY <2>1, <2>2
  <1>14. MatchedOnce'
    <2> SUFFICES ASSUME NEW u \in SpanIds, NEW v \in SpanIds, spans'[u].parent # NoSpan,
                        spans'[u].parent = spans'[v].parent
                 PROVE  u = v
      BY <1>2 DEF MatchedOnce
    <2> QED
      BY <1>1, <1>12 DEF Lists, MatchedOnce
  <1> QED
    BY <1>1, <1>8, <1>9, <1>10, <1>13, <1>14 DEF Lists

-----------------------------------------------------------------------------
(* The theorems about the lists.                                           *)

\* IndInv is an inductive invariant of the correlator.
THEOREM ListsInductive == Spec => []IndInv
  <1>1. Init => IndInv
    <2> SUFFICES ASSUME Init PROVE DistinctHands /\ FreshHands /\ Lists
      BY InitType DEF IndInv
    <2>1. SpanIds = {} /\ FlowIds = {} /\ \A w \in Workers : worker[w].pc = "idle"
      BY DEF Init, SpanIds, FlowIds, IdleWorker
    <2> QED
      BY <2>1 DEF DistinctHands, FreshHands, Lists, InflightBounded, FIFOOrder,
                  ListedNumbered, MatchedGone, MatchedOnce
  <1>2. IndInv /\ [Next]_vars => IndInv'
    <2> SUFFICES ASSUME IndInv, [Next]_vars PROVE IndInv'
      OBVIOUS
    <2>0. TypeOK'
      BY NextType DEF IndInv
    <2> SUFFICES DistinctHands' /\ FreshHands' /\ Lists'
      BY <2>0 DEF IndInv
    <2>1. CASE UNCHANGED vars
      BY <2>1 DEF vars, IndInv, DistinctHands, FreshHands, Lists, InflightBounded, FIFOOrder,
                  ListedNumbered, MatchedGone, MatchedOnce, SpanIds, FlowIds
    <2>2. ASSUME NEW w \in Workers, NEW e \in Events, Receive(w, e)
          PROVE  DistinctHands' /\ FreshHands' /\ Lists'
      BY <2>2, ReceiveLists
    <2>3. ASSUME NEW w \in Workers, QuietStep(w)
          PROVE  DistinctHands' /\ FreshHands' /\ Lists'
      <3>1. SpansKept /\ FlowsKept /\ MovesOn(w)
        BY <2>3, QuietKept DEF IndInv
      <3>2. Lists'
        BY <3>1, KeptLists DEF IndInv
      <3>3. worker[w].span \in SpanIds
        BY <3>1 DEF IndInv, TypeOK, MovesOn
      <3> QED
        BY <3>1, <3>2, <3>3, KeptHands DEF IndInv, SpansKept
    <2>4. ASSUME NEW w \in Workers, SendRequest(w)
          PROVE  DistinctHands' /\ FreshHands' /\ Lists'
      BY <2>4, SendLists
    <2>5. ASSUME NEW w \in Workers, RecvPop(w) \/ TryPop(w), Match(w)
          PROVE  DistinctHands' /\ FreshHands' /\ Lists'
      <3>1. /\ worker[w].pc = "pop" /\ UNCHANGED <<total, flowCount>>
            /\ flows[worker[w].flow].reqs # <<>>
        BY <2>5 DEF RecvPop, TryPop, Match
      <3>2. /\ Lists'
            /\ \A u \in SpanIds : spans'[u].flow = spans[u].flow /\ spans'[u].seq = spans[u].seq
        BY <2>5, <3>1, MatchLists
      <3>3. \E p \in {"finish", "unpend"} : worker' = [worker EXCEPT ![w].pc = p]
        BY <2>5, <3>1 DEF RecvPop, TryPop
      <3>4. MovesOn(w)
        BY <3>1, <3>3, PcMoves DEF IndInv, PCs
      <3>5. worker[w].span \in SpanIds
        BY <3>1 DEF IndInv, TypeOK
      <3> QED
        BY <3>2, <3>4, <3>5, KeptHands DEF IndInv
    <2>6. CASE CleanerStep \/ Tick
      <3>1. SpansKept /\ FlowsKept /\ worker' = worker
        BY <2>6, CleanerKept DEF IndInv
      <3> QED
        BY <3>1, KeptLists, KeptHandsNoWorker DEF IndInv
    <2>7. ASSUME NEW w \in Workers, WorkerStep(w)
          PROVE  QuietStep(w) \/ SendRequest(w) \/ ((RecvPop(w) \/ TryPop(w)) /\ Match(w))
      BY <2>7 DEF WorkerStep, QuietStep, RecvPop, TryPop
    <2> QED
      BY <2>1, <2>2, <2>3, <2>4, <2>5, <2>6, <2>7 DEF Next
  <1> QED
    BY <1>1, <1>2, PTL DEF Spec

\* However many senders push into a flow, it never holds more than maxInflight
\* requests (handleSend).
THEOREM BoundedLists == Spec => []InflightBounded
  BY ListsInductive, PTL DEF IndInv, Lists

\* The requests waiting in a flow are the last ones sent on it, in order and
\* without a gap (handleSend, handleRecv, tryCorrelate).
THEOREM OrderedLists == Spec => []FIFOOrder
  BY ListsInductive, PTL DEF IndInv, Lists

\* No request is the parent of two responses, whatever two workers saw at the
\* front of the list (handleRecv, tryCorrelate).
THEOREM MatchedAtMostOnce == Spec => []MatchedOnce
  BY ListsInductive, PTL DEF IndInv, Lists

-----------------------------------------------------------------------------
(* What becomes of a span: the inductive invariants.                       *)

\* The span is on the pending list.
Pended(s) == spans[s].pend # NotPending

\* The span is in the hand of a worker that has not yet put it on the pending list.
Fresh(s) == \E w \in Workers : /\ worker[w].pc # "idle" /\ worker[w].span = s
                               /\ ~worker[w].retry

\* The steps before a span can be matched.
Early == {"lookup", "create", "body", "pop"}

\* A worker in tryCorrelate holds a span that was never sent as a request; it has matched
\* the span only when it is about to take it off the pending list.
Retrying ==
    \A w \in Workers :
        /\ worker[w].pc # "idle" /\ worker[w].retry =>
              worker[w].pc \in Early \cup {"unpend"} /\ spans[worker[w].span].seq = 0
        /\ worker[w].pc = "unpend" => worker[w].retry /\ spans[worker[w].span].parent # NoSpan
        /\ worker[w].pc \in Early => spans[worker[w].span].parent = NoSpan
        /\ worker[w].pc = "pop" => spans[worker[w].span].ev.kind = "recv"

\* Requests and matched responses have a trace id, and are not the same spans.
Named ==
    \A s \in SpanIds :
        /\ spans[s].seq > 0 => spans[s].traceID # EmptyID /\ spans[s].ev.kind = "send"
        /\ spans[s].parent # NoSpan => spans[s].traceID # EmptyID /\ spans[s].ev.kind = "recv"

\* No request is on the pending list, nor a span whose worker has still to put it there; the
\* cleanup settles only what is there.
Pending ==
    /\ \A s \in SpanIds : Pended(s) => spans[s].seq = 0 /\ ~Fresh(s)
    /\ cleaner.pc = "settle" => Pended(cleaner.span)

HandInv == Retrying /\ Named /\ Pending

\* A span that tryCorrelate holds is on the pending list or was reported by the cleanup, and
\* both spans of a match were reported.
Reported ==
    /\ \A w \in Workers : worker[w].pc # "idle" /\ worker[w].retry =>
           Pended(worker[w].span) \/ spans[worker[w].span].handled > 0
    /\ \A s \in SpanIds : spans[s].parent # NoSpan =>
           spans[s].handled > 0 /\ spans[spans[s].parent].handled > 0

LostInv == NoSpanLost /\ Reported /\ MatchedSharesTrace

-----------------------------------------------------------------------------
(* Steps that match nothing, send no request and put nothing on the        *)
(* pending list.                                                           *)

\* What such a step may do to a span: report it, name it, time it out, or take it off
\* the pending list when it was reported.
SpanCalm(u) ==
    /\ spans'[u].ev = spans[u].ev /\ spans'[u].seq = spans[u].seq
    /\ spans'[u].flow = spans[u].flow /\ spans'[u].parent = spans[u].parent
    /\ \/ spans'[u].traceID = spans[u].traceID
       \/ /\ spans'[u].traceID # EmptyID /\ spans[u].seq = 0
          /\ spans[u].parent = NoSpan \/ spans'[u].timedOut
    /\ spans[u].timedOut => spans'[u].timedOut
    /\ spans[u].handled > 0 => spans'[u].handled > 0
    /\ spans'[u].pend # NotPending => spans[u].pend # NotPending
    /\ spans'[u].pend = NotPending /\ spans[u].pend # NotPending => spans'[u].handled > 0

\* And what it may do to a worker: end its call, or move it on with the same span.
WorkerCalm(v) ==
    \/ worker'[v] = worker[v]
    \/ /\ worker[v].pc # "idle" /\ worker'[v].pc = "idle"
       /\ spans'[worker[v].span].handled > 0 \/ spans'[worker[v].span].pend # NotPending
    \/ /\ worker[v].pc # "idle" /\ worker'[v].pc \notin {"idle", "unpend"}
       /\ worker'[v].span = worker[v].span /\ worker'[v].retry = worker[v].retry
       /\ worker'[v].pc \in Early => worker[v].pc \in Early
       /\ worker'[v].pc = "pop" => spans[worker[v].span].ev.kind = "recv"
       /\ worker[v].retry => worker'[v].pc \in Early

Calm ==
    /\ total' = total
    /\ \A u \in SpanIds : SpanCalm(u)
    /\ \A v \in Workers : WorkerCalm(v)
    /\ cleaner'.pc = "settle" =>
           cleaner'.span \in SpanIds /\ spans'[cleaner'.span].pend # NotPending

\* Such a step keeps who holds which span.
LEMMA CalmHands ==
    ASSUME TypeOK, HandInv, Calm
    PROVE  HandInv'
<1>1. /\ SpanIds' = SpanIds /\ Retrying /\ Named /\ Pending
      /\ \A u \in SpanIds : SpanCalm(u)
      /\ \A v \in Workers : WorkerCalm(v)
      /\ \A v \in Workers : worker[v].pc # "idle" => worker[v].span \in SpanIds
      /\ \A u \in SpanIds : spans[u].seq \in Nat
  BY DEF HandInv, Calm, SpanIds, TypeOK, Span
<1>2. Retrying'
  <2> SUFFICES ASSUME NEW v \in Workers, worker'[v].pc # "idle"
               PROVE  /\ worker'[v].retry => worker'[v].pc \in Early \cup {"unpend"}
                                             /\ spans'[worker'[v].span].seq = 0
                      /\ worker'[v].pc = "unpend" => /\ worker'[v].retry
                                                     /\ spans'[worker'[v].span].parent # NoSpan
                      /\ worker'[v].pc \in Early => spans'[worker'[v].span].parent = NoSpan
                      /\ worker'[v].pc = "pop" => spans'[worker'[v].span].ev.kind = "recv"
    BY DEF Retrying, Early
  <2>1. /\ worker[v].pc # "idle" /\ worker'[v].span = worker[v].span
        /\ worker'[v].retry = worker[v].retry /\ worker[v].span \in SpanIds
    BY <1>1 DEF WorkerCalm
  <2>2. /\ spans'[worker[v].span].seq = spans[worker[v].span].seq
        /\ spans'[worker[v].span].parent = spans[worker[v].span].parent
        /\ spans'[worker[v].span].ev = spans[worker[v].span].ev
    BY <1>1, <2>1 DEF SpanCalm
  <2> QED
    BY <1>1, <2>1, <2>2 DEF Retrying, WorkerCalm
<1>3. Named'
  BY <1>1 DEF Named, SpanCalm
<1>4. Pending'
  <2>1. \A u \in SpanIds : Fresh(u)' => Fresh(u)
    BY <1>1 DEF Fresh, WorkerCalm
  <2>2. \A u \in SpanIds : Pended(u)' => spans'[u].seq = 0 /\ ~Fresh(u)'
    BY <1>1, <2>1 DEF Pending, Pended, SpanCalm
  <2>3. cleaner'.pc = "settle" => spans'[cleaner'.span].pend # NotPending
    BY DEF Calm
  <2> QED
    BY <1>1, <2>2, <2>3 DEF Pending, Pended
<1> QED
  BY <1>2, <1>3, <1>4 DEF HandInv

\* It loses no span, and a match keeps its trace id.
LEMMA CalmReports ==
    ASSUME TypeOK, MatchedGone, LostInv, Calm
    PROVE  LostInv'
<1>1. /\ SpanIds' = SpanIds /\ NoSpanLost /\ Reported /\ MatchedSharesTrace
      /\ \A u \in SpanIds : SpanCalm(u)
      /\ \A v \in Workers : WorkerCalm(v)
      /\ \A v \in Workers : worker[v].pc # "idle" => worker[v].span \in SpanIds
      /\ \A s \in SpanIds : spans[s].parent # NoSpan =>
             spans[s].parent \in SpanIds /\ spans[spans[s].parent].seq > 0
  BY DEF LostInv, Calm, SpanIds, TypeOK, MatchedGone
<1>2. \A u \in SpanIds :
          /\ spans'[u].parent = spans[u].parent
          /\ spans[u].handled > 0 => spans'[u].handled > 0
          /\ spans[u].pend # NotPending => spans'[u].pend # NotPending \/ spans'[u].handled > 0
  BY <1>1 DEF SpanCalm
<1>3. NoSpanLost'
  <2> SUFFICES ASSUME NEW s \in SpanIds
               PROVE  InHand(s)' \/ spans'[s].pend # NotPending \/ spans'[s].handled > 0
    BY <1>1 DEF NoSpanLost
  <2>1. CASE InHand(s)
    <3>1. PICK v \in Workers : worker[v].pc # "idle" /\ worker[v].span = s
      BY <2>1 DEF InHand
    <3>2. WorkerCalm(v)
      BY <1>1
    <3> QED
      BY <3>1, <3>2 DEF InHand, WorkerCalm
  <2>2. CASE ~InHand(s)
    BY <1>1, <1>2, <2>2 DEF NoSpanLost
  <2> QED
    BY <2>1, <2>2
<1>4. Reported'
  <2>1. ASSUME NEW v \in Workers, worker'[v].pc # "idle", worker'[v].retry
        PROVE  spans'[worker'[v].span].pend # NotPending \/ spans'[worker'[v].span].handled > 0
    <3>1. /\ worker[v].pc # "idle" /\ worker[v].retry /\ worker'[v].span = worker[v].span
          /\ worker[v].span \in SpanIds
      BY <1>1, <2>1 DEF WorkerCalm
    <3>2. spans[worker[v].span].pend # NotPending \/ spans[worker[v].span].handled > 0
      BY <1>1, <3>1 DEF Reported, Pended
    <3> QED
      BY <1>2, <3>1, <3>2
  <2>2. \A s \in SpanIds : spans'[s].parent # NoSpan =>
            spans'[s].handled > 0 /\ spans'[spans'[s].parent].handled > 0
    BY <1>1, <1>2 DEF Reported
  <2> QED
    BY <1>1, <2>1, <2>2 DEF Reported, Pended
<1>5. MatchedSharesTrace'
  <2> SUFFICES ASSUME NEW s \in SpanIds, spans'[s].parent # NoSpan
               PROVE  /\ spans'[spans'[s].parent].traceID # EmptyID
                      /\ spans'[s].traceID = spans'[spans'[s].parent].traceID \/ spans'[s].timedOut
    BY <1>1 DEF MatchedSharesTrace
  <2> DEFINE r == spans[s].parent
  <2>1. /\ spans'[s].parent = r /\ spans[s].parent # NoSpan
        /\ r \in SpanIds /\ spans[r].seq > 0
    BY <1>1, <1>2
  <2>2. /\ spans[r].traceID # EmptyID
        /\ spans[s].traceID = spans[r].traceID \/ spans[s].timedOut
    BY <1>1, <2>1 DEF MatchedSharesTrace
  <2> HIDE DEF r
  <2>3. SpanCalm(r) /\ SpanCalm(s)
    BY <1>1, <2>1
  <2>4. spans'[r].traceID = spans[r].traceID
    BY <2>1, <2>3 DEF SpanCalm
  <2>5. spans'[s].traceID = spans[s].traceID \/ spans'[s].timedOut
    BY <2>1, <2>3 DEF SpanCalm
  <2>6. spans[s].timedOut => spans'[s].timedOut
    BY <2>3 DEF SpanCalm
  <2>7. CASE spans'[s].timedOut
    BY <2>1, <2>2, <2>4, <2>7
  <2>8. CASE ~spans'[s].timedOut
    BY <2>1, <2>2, <2>4, <2>5, <2>6, <2>8
  <2> QED
    BY <2>7, <2>8
<1> QED
  BY <1>3, <1>4, <1>5 DEF LostInv

\* Reporting spans is calm.
LEMMA HandledCalm ==
    ASSUME TypeOK, NEW S, spans' = Handled(spans, S)
    PROVE  \A u \in SpanIds : /\ SpanCalm(u) /\ spans'[u].pend = spans[u].pend
                              /\ u \in S => spans'[u].handled > 0
<1> SUFFICES ASSUME NEW u \in SpanIds
             PROVE  /\ SpanCalm(u) /\ spans'[u].pend = spans[u].pend
                    /\ u \in S => spans'[u].handled > 0
  OBVIOUS
<1>1. spans[u] \in Span /\ DOMAIN spans = SpanIds
  BY DEF TypeOK
<1>2. spans'[u] = IF u \in S THEN [spans[u] EXCEPT !.handled = @ + 1] ELSE spans[u]
  BY <1>1 DEF Handled
<1>3. CASE u \in S
  <2>1. spans'[u] = [spans[u] EXCEPT !.handled = @ + 1]
    BY <1>2, <1>3
  <2> QED
    BY <1>1, <2>1 DEF SpanCalm, Span
<1>4. CASE u \notin S
  BY <1>2, <1>4 DEF SpanCalm
<1> QED
  BY <1>3, <1>4

\* Giving an unmatched span that was not sent a trace id if it has none is calm.
LEMMA OrphanCalm ==
    ASSUME TypeOK, NEW s \in SpanIds, Orphan(s), spans[s].seq = 0, spans[s].parent = NoSpan
    PROVE  \A u \in SpanIds : SpanCalm(u) /\ spans'[u].pend = spans[u].pend
<1>1. spans \in [SpanIds -> Span] /\ SpanIds \subseteq Nat
  BY DEF TypeOK, SpanIds
<1>2. EnsuredID(s) # EmptyID
  BY <1>1, IDAssumption DEF EnsuredID, GeneratedID
<1>3. EnsuredID(s) = spans[s].traceID \/ spans[s].traceID = EmptyID
  BY DEF EnsuredID
<1>4. \A u \in SpanIds : u # s => spans'[u] = spans[u]
  BY <1>1 DEF Orphan
<1>5. spans'[s] = [spans[s] EXCEPT !.traceID = EnsuredID(s)]
  BY <1>1 DEF Orphan
<1>6. SpanCalm(s) /\ spans'[s].pend = spans[s].pend
  BY <1>1, <1>2, <1>5 DEF SpanCalm, Span
<1>7. \A u \in SpanIds : u # s => SpanCalm(u) /\ spans'[u].pend = spans[u].pend
  BY <1>4 DEF SpanCalm
<1> QED
  BY <1>6, <1>7

\* A worker that moves to a step after the body of its handler moves calmly.
LEMMA FinishCalm ==
    ASSUME TypeOK, Retrying, NEW w \in Workers, NEW p \in {"finish", "pop"},
           \/ worker[w].pc \notin Early \cup {"idle", "unpend"}
           \/ worker[w].pc \in {"body", "pop"} /\ ~worker[w].retry
           \/ worker[w].pc = "body" /\ p = "pop",
           p = "pop" => worker[w].pc = "body" /\ Event(w).kind = "recv",
           worker' = [worker EXCEPT ![w].pc = p]
    PROVE  \A v \in Workers : WorkerCalm(v)
<1>1. worker \in [Workers -> Worker]
  BY DEF TypeOK
<1>2. /\ worker'[w].pc = p /\ worker'[w].span = worker[w].span
      /\ worker'[w].retry = worker[w].retry
  BY <1>1 DEF Worker
<1>3. worker[w].pc # "idle"
  BY DEF Early
<1>4. worker[w].retry => p = "pop"
  BY <1>3 DEF Retrying, Early
<1>5. WorkerCalm(w)
  BY <1>2, <1>3, <1>4 DEF WorkerCalm, Early, Event
<1>6. \A v \in Workers : v # w => WorkerCalm(v)
  BY <1>1 DEF WorkerCalm
<1> QED
  BY <1>5, <1>6

\* A worker that ends its call moves calmly when its span was reported or is on the list.
LEMMA IdleCalm ==
    ASSUME TypeOK, NEW w \in Workers, worker[w].pc # "idle",
           spans'[worker[w].span].handled > 0 \/ spans'[worker[w].span].pend # NotPending,
           worker' = [worker EXCEPT ![w] = IdleWorker]
    PROVE  \A v \in Workers : WorkerCalm(v)
<1>1. worker \in [Workers -> Worker]
  BY DEF TypeOK
<1>2. worker'[w].pc = "idle" /\ \A v \in Workers : v # w => worker'[v] = worker[v]
  BY <1>1 DEF IdleWorker
<1>3. WorkerCalm(w)
  BY <1>2, Zenon DEF WorkerCalm
<1>4. \A v \in Workers : v # w => WorkerCalm(v)
  BY <1>2 DEF WorkerCalm
<1> QED
  BY <1>3, <1>4

\* What the worker w holds, and the facts its steps rest on.
LEMMA HeldSpan ==
    ASSUME TypeOK, NEW w \in Workers, worker[w].pc # "idle"
    PROVE  /\ worker[w].span \in SpanIds /\ spans[worker[w].span] \in Span
           /\ worker \in [Workers -> Worker] /\ spans \in [SpanIds -> Span]
BY DEF TypeOK

\* A response that finds no waiting request is made an orphan calmly.
LEMMA ResponseOrphanCalm ==
    ASSUME TypeOK, FreshHands, Retrying, Named, NEW w \in Workers,
           worker[w].pc \in {"body", "pop"}, ~worker[w].retry, Orphan(worker[w].span)
    PROVE  \A u \in SpanIds : SpanCalm(u) /\ spans'[u].pend = spans[u].pend
<1>1. worker[w].span \in SpanIds /\ spans[worker[w].span].seq \in Nat
  BY HeldSpan DEF Span
<1>2. spans[worker[w].span].parent = NoSpan
  BY DEF Retrying, Early
<1>3. spans[worker[w].span].seq = 0
  <2>1. CASE worker[w].pc = "body"
    BY <2>1 DEF FreshHands
  <2>2. CASE worker[w].pc = "pop"
    BY <1>1, <2>2 DEF Retrying, Named
  <2> QED
    BY <2>1, <2>2
<1> QED
  BY <1>1, <1>2, <1>3, OrphanCalm

\* The quiet steps but for the one that puts a span on the pending list.
CalmStep(w) == QuietStep(w) /\ ~(worker[w].pc = "finish" /\ spans[worker[w].span].traceID = EmptyID)

\* They are calm.
LEMMA WorkerStepsCalm ==
    ASSUME IndInv, HandInv, LostInv, NEW w \in Workers, CalmStep(w)
    PROVE  Calm
<1> DEFINE s == worker[w].span
<1>0. /\ TypeOK /\ FreshHands /\ Retrying /\ Named /\ Pending /\ Reported
      /\ total' = total /\ cleaner' = cleaner /\ worker[w].pc # "idle"
  BY DEF IndInv, HandInv, LostInv, CalmStep, QuietStep, HandleOpen, LookupFlow, CreateFlow,
         CountInflight, Touch, RecvPeek, HandleClose, Finish, TryPeek, Unpend, RecvPop, TryPop
<1>1. s \in SpanIds /\ spans[s] \in Span /\ worker \in [Workers -> Worker]
      /\ spans \in [SpanIds -> Span]
  BY <1>0, HeldSpan
<1> SUFFICES /\ \A u \in SpanIds : SpanCalm(u)
             /\ cleaner.pc = "settle" => \A u \in SpanIds : spans'[u].pend = spans[u].pend
             /\ \A v \in Workers : WorkerCalm(v)
  <2>1. cleaner.pc = "settle" => cleaner.span \in SpanIds /\ spans[cleaner.span].pend # NotPending
    BY <1>0 DEF TypeOK, Pending, Pended
  <2> QED
    BY <1>0, <2>1 DEF Calm
<1>a. ASSUME spans' = spans PROVE \A u \in SpanIds : SpanCalm(u) /\ spans'[u].pend = spans[u].pend
  BY <1>a DEF SpanCalm
<1>b. ASSUME spans' = spans, worker[w].retry, worker' = [worker EXCEPT ![w] = IdleWorker]
      PROVE  \A v \in Workers : WorkerCalm(v)
  <2>1. spans[s].pend # NotPending \/ spans[s].handled > 0
    BY <1>0, <1>b DEF Reported, Pended
  <2> QED
    BY <1>0, <1>b, <2>1, IdleCalm
<1>2. CASE HandleOpen(w)
  BY <1>0, <1>2, <1>a, FinishCalm DEF HandleOpen, Early
<1>3. CASE LookupFlow(w) \/ CreateFlow(w)
  <2>1. \E p \in {"create", "body"} : \E c :
            worker' = [worker EXCEPT ![w] = [@ EXCEPT !.flow = c, !.pc = p]]
    BY <1>3 DEF LookupFlow, CreateFlow
  <2>p. PICK p \in {"create", "body"} : \E c :
            worker' = [worker EXCEPT ![w] = [@ EXCEPT !.flow = c, !.pc = p]]
    BY <2>1
  <2>2. PICK c : worker' = [worker EXCEPT ![w] = [@ EXCEPT !.flow = c, !.pc = p]]
    BY <2>p
  <2>3. /\ worker'[w].pc = p /\ worker'[w].span = worker[w].span
        /\ worker'[w].retry = worker[w].retry
        /\ \A v \in Workers : v # w => worker'[v] = worker[v]
    BY <1>1, <2>2 DEF Worker
  <2>4. worker[w].pc \in Early
    BY <1>3 DEF LookupFlow, CreateFlow, Early
  <2>5. WorkerCalm(w)
    <3>1. worker'[w].pc \in Early /\ worker'[w].pc \notin {"idle", "unpend", "pop"}
      BY <2>3 DEF Early
    <3> QED
      BY <1>0, <2>3, <2>4, <3>1, Zenon DEF WorkerCalm
  <2>6. \A v \in Workers : v # w => WorkerCalm(v)
    BY <2>3 DEF WorkerCalm
  <2>7. spans' = spans
    BY <1>3 DEF LookupFlow, CreateFlow
  <2> QED
    BY <1>a, <2>5, <2>6, <2>7
<1>4. CASE CountInflight(w)
  BY <1>0, <1>4, <1>a, FinishCalm DEF CountInflight, Early
<1>5. CASE Touch(w)
  BY <1>0, <1>5, <1>a, FinishCalm DEF Touch
<1>6. CASE RecvPeek(w)
  <2>1. \A u \in SpanIds : SpanCalm(u) /\ spans'[u].pend = spans[u].pend
    BY <1>0, <1>6, <1>a, ResponseOrphanCalm DEF RecvPeek
  <2>2. \A v \in Workers : WorkerCalm(v)
    BY <1>0, <1>6, FinishCalm DEF RecvPeek, IsResponse
  <2> QED
    BY <2>1, <2>2
<1>7. CASE HandleClose(w)
  <2>1. \A u \in SpanIds : SpanCalm(u) /\ spans'[u].pend = spans[u].pend
    BY <1>0, <1>7, <1>a, HandledCalm DEF HandleClose, Sweep
  <2> QED
    BY <1>0, <1>7, <2>1, FinishCalm DEF HandleClose, Early
<1>8. CASE Finish(w)
  <2>1. spans' = Handled(spans, {s}) /\ worker' = [worker EXCEPT ![w] = IdleWorker]
    BY <1>8 DEF Finish, CalmStep
  <2>2. \A u \in SpanIds : SpanCalm(u) /\ spans'[u].pend = spans[u].pend
    BY <1>0, <2>1, HandledCalm
  <2>3. spans'[s].handled > 0
    BY <1>0, <1>1, <2>1, HandledCalm
  <2> QED
    BY <1>0, <2>1, <2>2, <2>3, IdleCalm
<1>9. CASE TryPeek(w)
  <2>1. CASE worker' = [worker EXCEPT ![w] = IdleWorker]
    BY <1>9, <1>a, <1>b, <2>1 DEF TryPeek
  <2>2. CASE worker' = [worker EXCEPT ![w].pc = "pop"] /\ Event(w).kind = "recv"
    <3>1. \A v \in Workers : WorkerCalm(v)
      BY <1>0, <1>9, <2>2, FinishCalm DEF TryPeek
    <3> QED
      BY <1>9, <1>a, <3>1 DEF TryPeek
  <2> QED
    BY <1>9, <2>1, <2>2 DEF TryPeek
<1>10. CASE Unpend(w)
  <2> DEFINE r == spans[s].parent
  <2>1. /\ spans' = [spans EXCEPT ![s].pend = NotPending, ![r].pend = NotPending]
        /\ worker' = [worker EXCEPT ![w] = IdleWorker] /\ cleaner.pc # "settle"
    BY <1>10 DEF Unpend, PendingUnlocked
  <2>2. spans[s].handled > 0 /\ spans[r].handled > 0
    BY <1>0, <1>1, <1>10 DEF Unpend, Retrying, Reported
  <2> HIDE DEF r
  <2>3. \A u \in SpanIds :
            \/ spans'[u] = spans[u]
            \/ spans'[u] = [spans[u] EXCEPT !.pend = NotPending] /\ spans[u].handled > 0
    BY <1>1, <2>1, <2>2
  <2>4. \A u \in SpanIds : spans[u] \in Span
    BY <1>1
  <2>5. \A u \in SpanIds : SpanCalm(u) /\ spans'[u].handled = spans[u].handled
    <3> SUFFICES ASSUME NEW u \in SpanIds
                 PROVE  SpanCalm(u) /\ spans'[u].handled = spans[u].handled
      OBVIOUS
    <3>1. CASE spans'[u] = spans[u]
      BY <3>1 DEF SpanCalm
    <3>2. CASE spans'[u] = [spans[u] EXCEPT !.pend = NotPending] /\ spans[u].handled > 0
      BY <2>4, <3>2 DEF SpanCalm, Span
    <3> QED
      BY <2>3, <3>1, <3>2
  <2>6. spans'[s].handled > 0
    BY <1>1, <2>2, <2>5
  <2> QED
    BY <1>0, <2>1, <2>5, <2>6, IdleCalm
<1>11. CASE RecvPop(w) /\ flows[worker[w].flow].reqs = <<>>
  <2>1. Orphan(s) /\ worker[w].pc = "pop" /\ ~worker[w].retry
        /\ worker' = [worker EXCEPT ![w].pc = "finish"]
    BY <1>11 DEF RecvPop, Match
  <2> QED
    BY <1>0, <2>1, ResponseOrphanCalm, FinishCalm
<1>12. CASE TryPop(w) /\ flows[worker[w].flow].reqs = <<>>
  <2>1. spans' = spans /\ worker[w].retry /\ worker' = [worker EXCEPT ![w] = IdleWorker]
    BY <1>12 DEF TryPop, Match
  <2> QED
    BY <1>a, <1>b, <2>1
<1> QED
  BY <1>2, <1>3, <1>4, <1>5, <1>6, <1>7, <1>8, <1>9, <1>10, <1>11, <1>12 DEF CalmStep, QuietStep

\* The steps of the cleanup goroutine and of the clock are calm.
LEMMA CleanerStepsCalm ==
    ASSUME TypeOK, HandInv, CleanerStep \/ Tick \/ UNCHANGED vars
    PROVE  Calm
<1>0. Pending /\ spans \in [SpanIds -> Span] /\ (\A u \in SpanIds : spans[u] \in Span)
  BY DEF HandInv, TypeOK
<1>1. total' = total /\ \A v \in Workers : WorkerCalm(v)
  BY DEF CleanerStep, CleanStart, CleanMeet, CleanSettle, CleanPendingDone, CleanConns, Tick, vars,
         WorkerCalm
<1>a. ASSUME spans' = spans PROVE \A u \in SpanIds : SpanCalm(u)
  BY <1>a DEF SpanCalm
<1>2. CASE CleanStart \/ CleanPendingDone
  <2>1. cleaner'.pc # "settle"
    BY <1>2 DEF CleanStart, CleanPendingDone, TypeOK, Cleaner
  <2> QED
    BY <1>1, <1>2, <1>a, <2>1 DEF Calm, CleanStart, CleanPendingDone
<1>3. ASSUME NEW s \in SpanIds, CleanMeet(s) PROVE Calm
  <2>1. spans[s].pend = Timeout + 1 /\ Timeout \in Nat
    BY <1>3, BoundAssumption DEF CleanMeet, ExpiredPending, Expired
  <2>2. spans[s].pend # NotPending
    BY <2>1 DEF NotPending
  <2>3. spans' = spans /\ cleaner'.span = s
    BY <1>3 DEF CleanMeet
  <2> QED
    BY <1>1, <1>a, <2>2, <2>3 DEF Calm
<1>4. CASE CleanSettle
  <2> DEFINE s == cleaner.span
             h == Handled(spans, {s})
             id == IF cleaner.gen THEN GeneratedID(s) ELSE spans[s].traceID
  <2>1. s \in SpanIds /\ spans[s].seq = 0 /\ s \in Nat
    BY <1>0, <1>4 DEF CleanSettle, TypeOK, Pending, Pended, SpanIds
  <2>2. /\ spans' = [h EXCEPT ![s] = [@ EXCEPT !.traceID = id, !.pend = NotPending,
                                               !.timedOut = TRUE]]
        /\ cleaner'.pc # "settle"
    BY <1>4 DEF CleanSettle
  <2>3. id = spans[s].traceID \/ id # EmptyID
    BY <2>1, IDAssumption DEF GeneratedID
  <2>4. /\ h \in [SpanIds -> Span]
        /\ h[s] = [spans[s] EXCEPT !.handled = @ + 1]
        /\ \A u \in SpanIds : u # s => h[u] = spans[u]
    BY <1>0, <2>1 DEF Handled, Span
  <2> HIDE DEF h, id
  <2>5. /\ spans'[s] = [h[s] EXCEPT !.traceID = id, !.pend = NotPending, !.timedOut = TRUE]
        /\ \A u \in SpanIds : u # s => spans'[u] = spans[u]
    BY <2>1, <2>2, <2>4
  <2>6. /\ h[s].ev = spans[s].ev /\ h[s].seq = spans[s].seq /\ h[s].flow = spans[s].flow
        /\ h[s].parent = spans[s].parent /\ h[s].handled > 0 /\ h[s] \in Span
    BY <1>0, <2>1, <2>4 DEF Span
  <2> HIDE DEF s
  <2>7. /\ spans'[s].ev = spans[s].ev /\ spans'[s].seq = spans[s].seq
        /\ spans'[s].flow = spans[s].flow /\ spans'[s].parent = spans[s].parent
        /\ spans'[s].traceID = id /\ spans'[s].timedOut = TRUE
        /\ spans'[s].handled > 0 /\ spans'[s].pend = NotPending
    BY <2>5, <2>6 DEF Span
  <2>8. SpanCalm(s)
    BY <2>1, <2>3, <2>7 DEF SpanCalm
  <2>9. \A u \in SpanIds : u # s => SpanCalm(u)
    BY <2>5 DEF SpanCalm
  <2> QED
    BY <1>1, <2>2, <2>8, <2>9 DEF Calm
<1>5. CASE CleanConns
  <2>1. \A u \in SpanIds : SpanCalm(u)
    BY <1>5, HandledCalm DEF CleanConns, Sweep
  <2>2. cleaner'.pc # "settle"
    BY <1>5 DEF CleanConns, TypeOK, Cleaner
  <2> QED
    BY <1>1, <2>1, <2>2 DEF Calm
<1>6. CASE Tick
  <2>1. cleaner'.pc # "settle"
    BY <1>6 DEF Tick
  <2>2. ASSUME NEW u \in SpanIds PROVE SpanCalm(u)
    <3> DEFINE a == IF spans[u].pend = NotPending THEN spans[u].pend ELSE Older(spans[u].pend)
    <3>1. spans'[u] = [spans[u] EXCEPT !.pend = a]
      BY <1>6 DEF Tick
    <3>2. spans[u].pend \in NotPending..Expired
      BY <1>0 DEF Span
    <3>3. a = NotPending <=> spans[u].pend = NotPending
      BY <3>2, BoundAssumption DEF Older, Expired, NotPending
    <3> HIDE DEF a
    <3> QED
      BY <1>0, <3>1, <3>3 DEF SpanCalm, Span
  <2> QED
    BY <1>1, <2>1, <2>2 DEF Calm
<1>7. CASE UNCHANGED vars
  <2>1. spans' = spans /\ cleaner' = cleaner
    BY <1>7 DEF vars
  <2>2. cleaner.pc = "settle" => cleaner.span \in SpanIds /\ spans[cleaner.span].pend # NotPending
    BY <1>0 DEF TypeOK, Pending, Pended
  <2> QED
    BY <1>1, <1>a, <2>1, <2>2 DEF Calm
<1> QED
  BY <1>2, <1>3, <1>4, <1>5, <1>6, <1>7 DEF CleanerStep

-----------------------------------------------------------------------------
(* Steps that change one span in another way.                              *)

\* Worker w sends, matches, or puts on the pending list the span s it holds, which was
\* neither sent nor matched; every other span is treated calmly.
OneSpan(w, s) ==
    /\ total' = total /\ cleaner' = cleaner
    /\ worker[w].pc # "idle" /\ worker[w].span = s
    /\ worker'[w].pc # "idle" /\ worker'[w].span = s
    /\ \A v \in Workers : v # w => worker'[v] = worker[v]
    /\ \A u \in SpanIds : u # s => SpanCalm(u) /\ spans'[u].pend = spans[u].pend
    /\ spans[s].seq = 0 /\ spans[s].parent = NoSpan
    /\ spans'[s].ev = spans[s].ev

\* What is then to be shown of s and w.
OneSpanGood(w, s) ==
    /\ worker'[w].retry => /\ worker'[w].pc \in Early \cup {"unpend"} /\ spans'[s].seq = 0
                           /\ spans'[s].pend # NotPending \/ spans'[s].handled > 0
    /\ worker'[w].pc = "unpend" => worker'[w].retry /\ spans'[s].parent # NoSpan
    /\ worker'[w].pc \in Early => spans'[s].parent = NoSpan
    /\ worker'[w].pc = "pop" => spans'[s].ev.kind = "recv"
    /\ worker[w].retry => worker'[w].retry
    /\ spans'[s].seq > 0 => spans'[s].traceID # EmptyID /\ spans'[s].ev.kind = "send"
    /\ spans'[s].pend # NotPending => worker'[w].retry /\ spans'[s].seq = 0
    /\ spans[s].pend # NotPending => spans'[s].pend # NotPending
    /\ spans'[s].parent # NoSpan =>
         /\ spans'[s].ev.kind = "recv" /\ spans'[s].traceID # EmptyID /\ spans'[s].handled > 0
         /\ spans'[s].parent \in SpanIds /\ spans'[s].parent # s
         /\ spans'[spans'[s].parent].handled > 0
         /\ spans'[s].traceID = spans'[spans'[s].parent].traceID

\* It is enough.
LEMMA OneSpanReports ==
    ASSUME TypeOK, DistinctHands, MatchedGone, HandInv, LostInv,
           NEW w \in Workers, NEW s \in SpanIds, OneSpan(w, s), OneSpanGood(w, s)
    PROVE  HandInv' /\ LostInv'
<1>1. /\ SpanIds' = SpanIds /\ Retrying /\ Named /\ Pending
      /\ NoSpanLost /\ Reported /\ MatchedSharesTrace
      /\ \A u \in SpanIds : u # s => SpanCalm(u) /\ spans'[u].pend = spans[u].pend
      /\ \A v \in Workers : v # w => worker'[v] = worker[v]
      /\ \A v \in Workers : worker[v].pc # "idle" => worker[v].span \in SpanIds
      /\ \A u \in SpanIds : spans[u].seq \in Nat
      /\ \A u \in SpanIds : spans[u].parent # NoSpan =>
             spans[u].parent \in SpanIds /\ spans[spans[u].parent].seq > 0
  BY DEF HandInv, LostInv, OneSpan, SpanIds, TypeOK, Span, MatchedGone
<1>2. /\ worker[w].pc # "idle" /\ worker[w].span = s
      /\ worker'[w].pc # "idle" /\ worker'[w].span = s
      /\ spans[s].seq = 0 /\ spans[s].parent = NoSpan /\ spans'[s].ev = spans[s].ev
      /\ cleaner' = cleaner
  BY DEF OneSpan
<1>3. \A v \in Workers : v # w /\ worker[v].pc # "idle" => worker[v].span # s
  BY <1>2 DEF DistinctHands
<1>4. \A u \in SpanIds : u # s => /\ spans'[u].parent = spans[u].parent
                                  /\ spans'[u].seq = spans[u].seq /\ spans'[u].ev = spans[u].ev
                                  /\ spans[u].handled > 0 => spans'[u].handled > 0
  BY <1>1 DEF SpanCalm
<1>5. Retrying'
  <2> SUFFICES ASSUME NEW v \in Workers, worker'[v].pc # "idle"
               PROVE  /\ worker'[v].retry => worker'[v].pc \in Early \cup {"unpend"}
                                             /\ spans'[worker'[v].span].seq = 0
                      /\ worker'[v].pc = "unpend" => /\ worker'[v].retry
                                                     /\ spans'[worker'[v].span].parent # NoSpan
                      /\ worker'[v].pc \in Early => spans'[worker'[v].span].parent = NoSpan
                      /\ worker'[v].pc = "pop" => spans'[worker'[v].span].ev.kind = "recv"
    BY DEF Retrying, Early
  <2>1. CASE v = w
    BY <1>2, <2>1 DEF OneSpanGood
  <2>2. CASE v # w
    <3>1. worker'[v] = worker[v] /\ worker[v].span \in SpanIds /\ worker[v].span # s
      BY <1>1, <1>3, <2>2
    <3> QED
      BY <1>1, <1>4, <3>1 DEF Retrying
  <2> QED
    BY <2>1, <2>2
<1>6. Named'
  <2>1. \A u \in SpanIds : u # s /\ spans[u].seq > 0 => spans'[u].traceID # EmptyID
    BY <1>1 DEF Named, SpanCalm
  <2>2. \A u \in SpanIds : u # s /\ spans[u].parent # NoSpan => spans'[u].traceID # EmptyID
    BY <1>1 DEF Named, SpanCalm
  <2> QED
    BY <1>1, <1>4, <2>1, <2>2 DEF Named, OneSpanGood
<1>7. Pending'
  <2>1. ASSUME NEW u \in SpanIds, spans'[u].pend # NotPending
        PROVE  spans'[u].seq = 0 /\ ~Fresh(u)'
    <3>1. CASE u = s
      BY <1>1, <1>2, <1>3, <2>1, <3>1 DEF OneSpanGood, Fresh
    <3>2. CASE u # s
      <4>1. spans[u].seq = 0 /\ ~Fresh(u)
        BY <1>1, <2>1, <3>2 DEF Pending, Pended
      <4> QED
        BY <1>1, <1>2, <1>4, <3>2, <4>1 DEF Fresh
    <3> QED
      BY <3>1, <3>2
  <2>2. cleaner.pc = "settle" => cleaner.span \in SpanIds /\ spans[cleaner.span].pend # NotPending
    BY <1>1 DEF Pending, Pended, TypeOK
  <2>3. cleaner.pc = "settle" => spans'[cleaner.span].pend # NotPending
    BY <1>1, <2>2 DEF OneSpanGood
  <2> QED
    BY <1>1, <1>2, <2>1, <2>3 DEF Pending, Pended
<1>8. NoSpanLost'
  <2>1. InHand(s)'
    BY <1>2 DEF InHand
  <2>2. \A u \in SpanIds : u # s /\ InHand(u) => InHand(u)'
    BY <1>1, <1>2 DEF InHand
  <2> QED
    BY <1>1, <1>4, <2>1, <2>2 DEF NoSpanLost
<1>9. Reported'
  <2>1. ASSUME NEW v \in Workers, worker'[v].pc # "idle", worker'[v].retry
        PROVE  spans'[worker'[v].span].pend # NotPending \/ spans'[worker'[v].span].handled > 0
    <3>1. CASE v = w
      BY <1>2, <2>1, <3>1 DEF OneSpanGood
    <3>2. CASE v # w
      <4>1. worker'[v] = worker[v] /\ worker[v].span \in SpanIds /\ worker[v].span # s
        BY <1>1, <1>3, <2>1, <3>2
      <4> QED
        BY <1>1, <1>4, <2>1, <4>1 DEF Reported, Pended
    <3> QED
      BY <3>1, <3>2
  <2>2. ASSUME NEW u \in SpanIds, spans'[u].parent # NoSpan
        PROVE  spans'[u].handled > 0 /\ spans'[spans'[u].parent].handled > 0
    <3>1. CASE u = s
      BY <2>2, <3>1 DEF OneSpanGood
    <3>2. CASE u # s
      <4>1. /\ spans'[u].parent = spans[u].parent /\ spans[u].parent \in SpanIds
            /\ spans[u].parent # s
        BY <1>1, <1>2, <1>4, <2>2, <3>2
      <4>2. spans[u].handled > 0 /\ spans[spans[u].parent].handled > 0
        BY <1>1, <2>2, <4>1 DEF Reported
      <4> QED
        BY <1>4, <3>2, <4>1, <4>2
    <3> QED
      BY <3>1, <3>2
  <2> QED
    BY <1>1, <2>1, <2>2 DEF Reported, Pended
<1>10. MatchedSharesTrace'
  <2> SUFFICES ASSUME NEW u \in SpanIds, spans'[u].parent # NoSpan
               PROVE  /\ spans'[spans'[u].parent].traceID # EmptyID
                      /\ spans'[u].traceID = spans'[spans'[u].parent].traceID \/ spans'[u].timedOut
    BY <1>1 DEF MatchedSharesTrace
  <2>1. CASE u = s
    BY <2>1 DEF OneSpanGood
  <2>2. CASE u # s
    <3> DEFINE r == spans[u].parent
    <3>1. /\ spans'[u].parent = r /\ spans[u].parent # NoSpan
          /\ r \in SpanIds /\ spans[r].seq > 0 /\ r # s
      BY <1>1, <1>2, <1>4, <2>2
    <3>2. /\ spans[r].traceID # EmptyID
          /\ spans[u].traceID = spans[r].traceID \/ spans[u].timedOut
      BY <1>1, <3>1 DEF MatchedSharesTrace
    <3> HIDE DEF r
    <3>3. SpanCalm(r) /\ SpanCalm(u)
      BY <1>1, <2>2, <3>1
    <3>4. spans'[r].traceID = spans[r].traceID
      BY <3>1, <3>3 DEF SpanCalm
    <3>5. spans'[u].traceID = spans[u].traceID \/ spans'[u].timedOut
      BY <3>1, <3>3 DEF SpanCalm
    <3>6. spans[u].timedOut => spans'[u].timedOut
      BY <3>3 DEF SpanCalm
    <3>7. CASE spans'[u].timedOut
      BY <3>1, <3>2, <3>4, <3>7
    <3>8. CASE ~spans'[u].timedOut
      BY <3>1, <3>2, <3>4, <3>5, <3>6, <3>8
    <3> QED
      BY <3>7, <3>8
  <2> QED
    BY <2>1, <2>2
<1> QED
  BY <1>5, <1>6, <1>7, <1>8, <1>9, <1>10 DEF HandInv, LostInv

\* What a sent request does to the spans: its own gets an id, a number and a flow, and the
\* request it pushes out of a full list is reported.
LEMMA SendSpans ==
    ASSUME IndInv, HandInv, NEW w \in Workers, SendRequest(w)
    PROVE  LET s == worker[w].span
               f == worker[w].flow
               D == Oldest(flows[f].reqs)
           IN  /\ s \in SpanIds /\ f \in FlowIds /\ spans[s].seq = 0 /\ spans[s].parent = NoSpan
               /\ D \subseteq Waiting(f) /\ s \notin D
               /\ spans'[s].traceID # EmptyID /\ spans'[s].seq > 0 /\ spans'[s].flow = f
               /\ spans'[s].seq = flows[f].seqCounter + 1
               /\ spans'[s].ev = spans[s].ev /\ spans'[s].parent = NoSpan
               /\ spans'[s].handled = spans[s].handled /\ spans'[s].pend = spans[s].pend
               /\ \A u \in SpanIds : u # s =>
                    /\ u \in D => spans'[u] = [spans[u] EXCEPT !.handled = @ + 1]
                    /\ u \notin D => spans'[u] = spans[u]
<1> DEFINE s == worker[w].span
           f == worker[w].flow
           q == flows[f].reqs
           D == Oldest(q)
           h == Handled(spans, D)
           id == EnsuredID(s)
           c == flows[f].seqCounter
<1>1. /\ TypeOK /\ FreshHands /\ Retrying /\ ListedNumbered
      /\ spans \in [SpanIds -> Span] /\ flows \in [FlowIds -> Flow]
  BY DEF IndInv, HandInv, Lists, TypeOK
<1>2. /\ worker[w].pc = "body" /\ ~worker[w].retry
      /\ spans' = [h EXCEPT ![s] = [@ EXCEPT !.traceID = id, !.seq = c + 1, !.flow = f]]
  BY DEF SendRequest
<1>3. s \in SpanIds /\ f \in FlowIds /\ s \in Nat /\ q \in Seq(Nat) /\ c \in Nat
  BY <1>1, <1>2 DEF TypeOK, SpanIds, Flow
<1>4. spans[s].seq = 0 /\ spans[s].parent = NoSpan
  BY <1>1, <1>2 DEF FreshHands, Retrying, Early
<1>5. id # EmptyID
  BY <1>3, IDAssumption DEF EnsuredID, GeneratedID
<1>6. D \subseteq Waiting(f)
  <2> HIDE DEF q
  <2>1. CASE Len(q) >= maxInflight
    <3>1. 1 \in 1..Len(q) /\ Head(q) = q[1]
      BY <1>3, <2>1, BoundAssumption
    <3> QED
      BY <2>1, <3>1 DEF Oldest, Waiting, Elements, q
  <2>2. CASE ~(Len(q) >= maxInflight)
    BY <2>2 DEF Oldest
  <2> QED
    BY <2>1, <2>2
<1>7. s \notin D
  <2>1. \A u \in Waiting(f) : spans[u].seq > 0
    BY <1>1, <1>3 DEF Waiting, Elements, ListedNumbered
  <2> QED
    BY <1>4, <1>6, <2>1
<1> HIDE DEF D, id, c
<1>8. /\ h \in [SpanIds -> Span] /\ h[s] = spans[s]
      /\ \A u \in SpanIds : /\ u \in D => h[u] = [spans[u] EXCEPT !.handled = @ + 1]
                            /\ u \notin D => h[u] = spans[u]
  <2>1. /\ h \in [SpanIds -> Span]
        /\ \A u \in SpanIds : /\ u \in D => h[u] = [spans[u] EXCEPT !.handled = @ + 1]
                              /\ u \notin D => h[u] = spans[u]
    BY <1>1, HandledType
  <2> QED
    BY <1>3, <1>7, <2>1
<1> HIDE DEF h, s, f
<1>9. /\ spans'[s] = [spans[s] EXCEPT !.traceID = id, !.seq = c + 1, !.flow = f]
      /\ \A u \in SpanIds : u # s => spans'[u] = h[u]
  BY <1>2, <1>3, <1>8
<1>10. /\ spans'[s].traceID = id /\ spans'[s].seq = c + 1 /\ spans'[s].flow = f
       /\ spans'[s].ev = spans[s].ev /\ spans'[s].parent = spans[s].parent
       /\ spans'[s].handled = spans[s].handled /\ spans'[s].pend = spans[s].pend
  BY <1>1, <1>3, <1>9 DEF Span
<1>11. c + 1 > 0
  BY <1>3
<1> QED
  BY <1>3, <1>4, <1>5, <1>6, <1>7, <1>8, <1>9, <1>10, <1>11 DEF s, f, D, c

\* What a match does to the spans: both are reported, and the response gets the request's
\* trace id and number of its span.
LEMMA MatchSpans ==
    ASSUME IndInv, HandInv, NEW w \in Workers, worker[w].pc = "pop", Match(w)
    PROVE  LET s == worker[w].span
               f == worker[w].flow
               r == Head(flows[f].reqs)
           IN  /\ s \in SpanIds /\ f \in FlowIds /\ spans[s].seq = 0 /\ spans[s].parent = NoSpan
               /\ spans[s].ev.kind = "recv"
               /\ r \in SpanIds /\ r # s /\ r # NoSpan /\ spans[r].seq > 0 /\ r \in Waiting(f)
               /\ spans'[s].traceID = spans[r].traceID /\ spans'[s].parent = r
               /\ spans'[s].handled = spans[s].handled + 1
               /\ spans'[s].ev = spans[s].ev /\ spans'[s].seq = 0
               /\ spans'[s].pend = spans[s].pend
               /\ spans'[r] = [spans[r] EXCEPT !.handled = @ + 1]
               /\ \A u \in SpanIds : u # s /\ u # r => spans'[u] = spans[u]
<1> DEFINE s == worker[w].span
           f == worker[w].flow
           q == flows[f].reqs
           r == Head(q)
           h == Handled(spans, {r, s})
           id == spans[r].traceID
<1>1. /\ TypeOK /\ Retrying /\ Named /\ ListedNumbered
      /\ spans \in [SpanIds -> Span] /\ flows \in [FlowIds -> Flow]
  BY DEF IndInv, HandInv, Lists, TypeOK
<1>2. /\ q # <<>>
      /\ spans' = [h EXCEPT ![s] = [@ EXCEPT !.parent = r, !.traceID = id]]
  BY DEF Match
<1>3. s \in SpanIds /\ f \in FlowIds /\ q \in Seq(Nat) /\ spans[s].seq \in Nat
  BY <1>1 DEF TypeOK, Flow, Span
<1>4. spans[s].parent = NoSpan /\ spans[s].ev.kind = "recv"
  BY <1>1 DEF Retrying, Early
<1>5. spans[s].seq = 0
  BY <1>1, <1>3, <1>4 DEF Named
<1>6. r \in Waiting(f)
  <2> HIDE DEF q
  <2>1. 1 \in 1..Len(q) /\ Head(q) = q[1]
    BY <1>2, <1>3
  <2> QED
    BY <2>1 DEF Waiting, Elements, q
<1>7. r \in SpanIds /\ spans[r].seq > 0 /\ r # s /\ r # NoSpan
  <2>1. \A u \in Waiting(f) : u \in SpanIds /\ spans[u].seq > 0
    BY <1>1, <1>3 DEF Waiting, Elements, ListedNumbered, TypeOK
  <2>2. \A u \in SpanIds : u # NoSpan
    BY DEF SpanIds, NoSpan
  <2> HIDE DEF r
  <2>3. r \in SpanIds /\ spans[r].seq > 0
    BY <1>6, <2>1
  <2>4. r # s
    BY <1>5, <2>3
  <2> QED
    BY <2>2, <2>3, <2>4
<1> HIDE DEF r, id, s
<1>8. /\ h \in [SpanIds -> Span]
      /\ h[s] = [spans[s] EXCEPT !.handled = @ + 1] /\ h[r] = [spans[r] EXCEPT !.handled = @ + 1]
      /\ \A u \in SpanIds : u # s /\ u # r => h[u] = spans[u]
  <2>1. /\ h \in [SpanIds -> Span]
        /\ \A u \in SpanIds :
             /\ u \in {r, s} => h[u] = [spans[u] EXCEPT !.handled = @ + 1]
             /\ u \notin {r, s} => h[u] = spans[u]
    BY <1>1, HandledType
  <2> HIDE DEF h
  <2>2. s \in {r, s} /\ r \in {r, s} /\ \A u : u # s /\ u # r => u \notin {r, s}
    OBVIOUS
  <2> QED
    BY <1>3, <1>7, <2>1, <2>2, Zenon
<1> HIDE DEF h
<1>9. /\ spans'[s] = [h[s] EXCEPT !.parent = r, !.traceID = id]
      /\ \A u \in SpanIds : u # s => spans'[u] = h[u]
  BY <1>2, <1>3, <1>8
<1>10. /\ h[s].handled = spans[s].handled + 1 /\ h[s].ev = spans[s].ev /\ h[s].seq = spans[s].seq
       /\ h[s].pend = spans[s].pend /\ h[s] \in Span
  <2>1. spans[s] \in Span /\ h[s] \in Span
    BY <1>1, <1>3, <1>8
  <2>2. h[s] = [spans[s] EXCEPT !.handled = @ + 1]
    BY <1>8
  <2> QED
    BY <2>1, <2>2 DEF Span
<1>11. /\ spans'[s].traceID = id /\ spans'[s].parent = r
       /\ spans'[s].handled = h[s].handled /\ spans'[s].ev = h[s].ev
       /\ spans'[s].seq = h[s].seq /\ spans'[s].pend = h[s].pend
  BY <1>9, <1>10 DEF Span
<1>12. /\ spans'[s].handled = spans[s].handled + 1 /\ spans'[s].ev = spans[s].ev
       /\ spans'[s].seq = 0 /\ spans'[s].pend = spans[s].pend
  BY <1>5, <1>10, <1>11
<1>13. /\ spans'[r] = [spans[r] EXCEPT !.handled = @ + 1]
       /\ \A u \in SpanIds : u # s /\ u # r => spans'[u] = spans[u]
  BY <1>7, <1>8, <1>9
<1>14. spans'[s].traceID = spans[r].traceID /\ spans'[s].parent = r
  BY <1>11 DEF id
<1> QED
  BY <1>3, <1>4, <1>5, <1>6, <1>7, <1>12, <1>13, <1>14, Zenon DEF s, r

\* What the end of ProcessEvent does to a span without a trace id.
LEMMA PendSpans ==
    ASSUME IndInv, HandInv, NEW w \in Workers, Finish(w), spans[worker[w].span].traceID = EmptyID
    PROVE  LET s == worker[w].span
           IN  /\ s \in SpanIds /\ spans[s].seq = 0 /\ spans[s].parent = NoSpan
               /\ spans'[s] = [spans[s] EXCEPT !.pend = 0]
               /\ spans'[s].ev = spans[s].ev /\ spans'[s].seq = 0 /\ spans'[s].parent = NoSpan
               /\ spans'[s].pend = 0 /\ spans'[s].handled = spans[s].handled
               /\ \A u \in SpanIds : u # s => spans'[u] = spans[u]
               /\ worker'[w].pc = "lookup" /\ worker'[w].span = s /\ worker'[w].retry
<1> DEFINE s == worker[w].span
<1>1. TypeOK /\ Named /\ spans \in [SpanIds -> Span] /\ worker \in [Workers -> Worker]
  BY DEF IndInv, HandInv, TypeOK
<1>2. /\ worker[w].pc = "finish" /\ spans' = [spans EXCEPT ![s].pend = 0]
      /\ worker' = [worker EXCEPT ![w] = [@ EXCEPT !.pc = "lookup", !.retry = TRUE]]
  BY DEF Finish
<1>3. s \in SpanIds /\ spans[s].seq \in Nat
  BY <1>1, <1>2 DEF TypeOK, Span
<1>4. spans[s].seq = 0 /\ spans[s].parent = NoSpan
  BY <1>1, <1>3 DEF Named
<1>5. /\ spans'[s] = [spans[s] EXCEPT !.pend = 0] /\ spans[s] \in Span
      /\ \A u \in SpanIds : u # s => spans'[u] = spans[u]
  BY <1>1, <1>2, <1>3
<1>6. /\ spans'[s].ev = spans[s].ev /\ spans'[s].seq = spans[s].seq
      /\ spans'[s].parent = spans[s].parent /\ spans'[s].pend = 0
      /\ spans'[s].handled = spans[s].handled
  BY <1>5 DEF Span
<1>7. worker'[w].pc = "lookup" /\ worker'[w].span = s /\ worker'[w].retry
  BY <1>1, <1>2 DEF Worker
<1> QED
  BY <1>3, <1>4, <1>5, <1>6, <1>7

\* Reporting one span more is calm.
LEMMA ReportedCalm ==
    ASSUME NEW u, spans[u] \in Span,
           spans'[u] = [spans[u] EXCEPT !.handled = @ + 1] \/ spans'[u] = spans[u]
    PROVE  /\ SpanCalm(u) /\ spans'[u].pend = spans[u].pend
           /\ spans'[u] = [spans[u] EXCEPT !.handled = @ + 1] =>
                /\ spans'[u].handled = spans[u].handled + 1 /\ spans'[u].handled > 0
                /\ spans'[u].traceID = spans[u].traceID
<1>1. CASE spans'[u] = [spans[u] EXCEPT !.handled = @ + 1]
  BY <1>1 DEF SpanCalm, Span
<1>2. CASE spans'[u] = spans[u] /\ spans'[u] # [spans[u] EXCEPT !.handled = @ + 1]
  BY <1>2 DEF SpanCalm
<1> QED
  BY <1>1, <1>2

\* Sending a request keeps the invariants.
LEMMA SendReports ==
    ASSUME IndInv, HandInv, LostInv, NEW w \in Workers, SendRequest(w)
    PROVE  HandInv' /\ LostInv'
<1> DEFINE s == worker[w].span
           D == Oldest(flows[worker[w].flow].reqs)
<1>1. /\ s \in SpanIds /\ spans[s].seq = 0 /\ spans[s].parent = NoSpan /\ s \notin D
      /\ spans'[s].traceID # EmptyID /\ spans'[s].seq > 0
      /\ spans'[s].ev = spans[s].ev /\ spans'[s].parent = NoSpan
      /\ spans'[s].handled = spans[s].handled /\ spans'[s].pend = spans[s].pend
      /\ \A u \in SpanIds : u # s =>
            spans'[u] = [spans[u] EXCEPT !.handled = @ + 1] \/ spans'[u] = spans[u]
  BY SendSpans
<1>2. /\ TypeOK /\ DistinctHands /\ MatchedGone /\ Pending
      /\ worker \in [Workers -> Worker] /\ \A u \in SpanIds : spans[u] \in Span
  BY DEF IndInv, HandInv, Lists, TypeOK
<1>3. /\ worker[w].pc = "body" /\ ~worker[w].retry /\ spans[s].ev.kind = "send"
      /\ worker' = [worker EXCEPT ![w].pc = "count"] /\ total' = total /\ cleaner' = cleaner
  BY DEF SendRequest, IsRequest, Event
<1>4. /\ worker'[w].pc = "count" /\ worker'[w].span = s /\ worker'[w].retry = worker[w].retry
      /\ \A v \in Workers : v # w => worker'[v] = worker[v]
  BY <1>2, <1>3 DEF Worker
<1> HIDE DEF D
<1>5. \A u \in SpanIds : u # s => SpanCalm(u) /\ spans'[u].pend = spans[u].pend
  BY <1>1, <1>2, ReportedCalm
<1>6. spans[s].pend = NotPending
  BY <1>1, <1>2, <1>3 DEF Pending, Pended, Fresh
<1>7. OneSpan(w, s)
  BY <1>1, <1>3, <1>4, <1>5 DEF OneSpan
<1> HIDE DEF s
<1>8. OneSpanGood(w, s)
  BY <1>1, <1>3, <1>4, <1>6 DEF OneSpanGood, Early
<1> QED
  BY <1>1, <1>2, <1>7, <1>8, OneSpanReports

\* Putting a span on the pending list keeps them.
LEMMA PendReports ==
    ASSUME IndInv, HandInv, LostInv, NEW w \in Workers, Finish(w),
           spans[worker[w].span].traceID = EmptyID
    PROVE  HandInv' /\ LostInv'
<1> DEFINE s == worker[w].span
<1>1. /\ s \in SpanIds /\ spans[s].seq = 0 /\ spans[s].parent = NoSpan
      /\ spans'[s].ev = spans[s].ev /\ spans'[s].seq = 0 /\ spans'[s].parent = NoSpan
      /\ spans'[s].pend = 0
      /\ \A u \in SpanIds : u # s => spans'[u] = spans[u]
      /\ worker'[w].pc = "lookup" /\ worker'[w].span = s /\ worker'[w].retry
  BY PendSpans
<1>2. /\ TypeOK /\ DistinctHands /\ MatchedGone /\ worker \in [Workers -> Worker]
  BY DEF IndInv, Lists, TypeOK
<1>3. /\ worker[w].pc = "finish" /\ total' = total /\ cleaner' = cleaner
      /\ \A v \in Workers : v # w => worker'[v] = worker[v]
  BY <1>2 DEF Finish
<1>4. \A u \in SpanIds : u # s => SpanCalm(u) /\ spans'[u].pend = spans[u].pend
  BY <1>1 DEF SpanCalm
<1>5. OneSpan(w, s)
  BY <1>1, <1>3, <1>4 DEF OneSpan
<1> HIDE DEF s
<1>6. OneSpanGood(w, s)
  BY <1>1, <1>3 DEF OneSpanGood, Early, NotPending
<1> QED
  BY <1>1, <1>2, <1>5, <1>6, OneSpanReports

\* A match keeps them.
LEMMA MatchReports ==
    ASSUME IndInv, HandInv, LostInv, NEW w \in Workers, RecvPop(w) \/ TryPop(w), Match(w)
    PROVE  HandInv' /\ LostInv'
<1> DEFINE s == worker[w].span
           r == Head(flows[worker[w].flow].reqs)
<1>0. /\ worker[w].pc = "pop" /\ total' = total /\ cleaner' = cleaner
      /\ flows[worker[w].flow].reqs # <<>>
  BY DEF RecvPop, TryPop, Match
<1>1. /\ s \in SpanIds /\ spans[s].seq = 0 /\ spans[s].parent = NoSpan
      /\ spans[s].ev.kind = "recv"
      /\ r \in SpanIds /\ r # s /\ r # NoSpan /\ spans[r].seq > 0
      /\ spans'[s].traceID = spans[r].traceID /\ spans'[s].parent = r
      /\ spans'[s].handled = spans[s].handled + 1
      /\ spans'[s].ev = spans[s].ev /\ spans'[s].seq = 0 /\ spans'[s].pend = spans[s].pend
      /\ spans'[r] = [spans[r] EXCEPT !.handled = @ + 1]
      /\ \A u \in SpanIds : u # s /\ u # r => spans'[u] = spans[u]
  BY <1>0, MatchSpans
<1>2. /\ TypeOK /\ DistinctHands /\ MatchedGone /\ Pending /\ Named
      /\ worker \in [Workers -> Worker] /\ \A u \in SpanIds : spans[u] \in Span
  BY DEF IndInv, HandInv, Lists, TypeOK
<1>3. \/ worker' = [worker EXCEPT ![w].pc = "finish"] /\ ~worker[w].retry
      \/ worker' = [worker EXCEPT ![w].pc = "unpend"] /\ worker[w].retry
  BY <1>0 DEF RecvPop, TryPop
<1>4. /\ worker'[w].span = s /\ worker'[w].retry = worker[w].retry
      /\ \A v \in Workers : v # w => worker'[v] = worker[v]
      /\ \/ worker'[w].pc = "finish" /\ ~worker[w].retry
         \/ worker'[w].pc = "unpend" /\ worker[w].retry
  BY <1>2, <1>3 DEF Worker
<1> HIDE DEF r
<1>5. \A u \in SpanIds : u # s => SpanCalm(u) /\ spans'[u].pend = spans[u].pend
  <2>1. \A u \in SpanIds : u # s =>
            spans'[u] = [spans[u] EXCEPT !.handled = @ + 1] \/ spans'[u] = spans[u]
    BY <1>1
  <2> QED
    BY <1>2, <2>1, ReportedCalm
<1>6. /\ spans'[r].handled > 0 /\ spans'[r].traceID = spans[r].traceID
      /\ spans[r].traceID # EmptyID
  BY <1>1, <1>2, ReportedCalm DEF Named
<1>7. spans'[s].handled > 0
  BY <1>1, <1>2 DEF Span
<1>8. spans[s].pend # NotPending => worker[w].retry
  BY <1>0, <1>1, <1>2 DEF Pending, Pended, Fresh
<1>9. OneSpan(w, s)
  BY <1>0, <1>1, <1>4, <1>5 DEF OneSpan
<1> HIDE DEF s
<1>10. OneSpanGood(w, s)
  BY <1>1, <1>4, <1>6, <1>7, <1>8 DEF OneSpanGood, Early
<1> QED
  BY <1>1, <1>2, <1>9, <1>10, OneSpanReports

\* A span that is received is new, and in the hand of the worker that received it.
LEMMA ReceiveReports ==
    ASSUME IndInv, HandInv, LostInv, NEW w \in Workers, NEW e \in Events, Receive(w, e)
    PROVE  HandInv' /\ LostInv'
<1> DEFINE n == total + 1
<1>1. /\ total \in Nat /\ worker \in [Workers -> Worker] /\ Retrying /\ Named /\ Pending
      /\ NoSpanLost /\ Reported /\ MatchedSharesTrace
      /\ \A v \in Workers : worker[v].pc # "idle" => worker[v].span \in SpanIds
      /\ \A u \in SpanIds : spans[u].parent # NoSpan => spans[u].parent \in SpanIds
      /\ cleaner.pc = "settle" => cleaner.span \in SpanIds
  BY DEF IndInv, HandInv, LostInv, TypeOK, Lists, MatchedGone
<1>2. /\ n \notin SpanIds /\ SpanIds' = SpanIds \cup {n}
  BY <1>1 DEF Receive, SpanIds
<1>3. /\ \A u \in SpanIds : spans'[u] = spans[u]
      /\ spans'[n].parent = NoSpan /\ spans'[n].seq = 0 /\ spans'[n].pend = NotPending
  BY <1>1 DEF Receive, Extend, SpanIds
<1>4. /\ worker[w].pc = "idle" /\ cleaner' = cleaner
      /\ worker'[w].span = n /\ worker'[w].retry = FALSE
      /\ \A v \in Workers : v # w => worker'[v] = worker[v]
  BY <1>1 DEF Receive
<1>5. worker'[w].pc \in {"open", "lookup", "close"}
  <2>1. e.kind \in Kinds
    BY EventsAssumption DEF RawEvent
  <2>2. worker'[w].pc = CASE e.kind \in {"connect", "accept"} -> "open"
                          [] e.kind \in {"send", "recv"} -> "lookup"
                          [] e.kind = "close" -> "close"
    BY <1>1 DEF Receive
  <2> QED
    BY <2>1, <2>2 DEF Kinds
<1> HIDE DEF n
<1>6. Retrying'
  <2> SUFFICES ASSUME NEW v \in Workers, worker'[v].pc # "idle"
               PROVE  /\ worker'[v].retry => worker'[v].pc \in Early \cup {"unpend"}
                                             /\ spans'[worker'[v].span].seq = 0
                      /\ worker'[v].pc = "unpend" => /\ worker'[v].retry
                                                     /\ spans'[worker'[v].span].parent # NoSpan
                      /\ worker'[v].pc \in Early => spans'[worker'[v].span].parent = NoSpan
                      /\ worker'[v].pc = "pop" => spans'[worker'[v].span].ev.kind = "recv"
    BY DEF Retrying, Early
  <2>1. CASE v = w
    BY <1>3, <1>4, <1>5, <2>1
  <2>2. CASE v # w
    BY <1>1, <1>3, <1>4, <2>2 DEF Retrying
  <2> QED
    BY <2>1, <2>2
<1>7. Named'
  BY <1>1, <1>2, <1>3 DEF Named
<1>8. Pending'
  <2>1. \A u \in SpanIds : Fresh(u)' => Fresh(u)
    BY <1>2, <1>4 DEF Fresh
  <2>2. ASSUME NEW u \in SpanIds', spans'[u].pend # NotPending
        PROVE  spans'[u].seq = 0 /\ ~Fresh(u)'
    BY <1>1, <1>2, <1>3, <2>1, <2>2 DEF Pending, Pended
  <2> QED
    BY <1>1, <1>3, <1>4, <2>2 DEF Pending, Pended
<1>9. NoSpanLost'
  <2> SUFFICES ASSUME NEW u \in SpanIds'
               PROVE  InHand(u)' \/ spans'[u].pend # NotPending \/ spans'[u].handled > 0
    BY DEF NoSpanLost
  <2>1. CASE u = n
    BY <1>4, <1>5, <2>1 DEF InHand
  <2>2. CASE u # n
    <3>1. u \in SpanIds /\ spans'[u] = spans[u]
      BY <1>2, <1>3, <2>2
    <3>2. InHand(u) => InHand(u)'
      BY <1>4 DEF InHand
    <3> QED
      BY <1>1, <3>1, <3>2 DEF NoSpanLost
  <2> QED
    BY <2>1, <2>2
<1>10. Reported'
  <2>1. ASSUME NEW v \in Workers, worker'[v].pc # "idle", worker'[v].retry
        PROVE  spans'[worker'[v].span].pend # NotPending \/ spans'[worker'[v].span].handled > 0
    <3>1. v # w
      BY <1>4, <2>1
    <3> QED
      BY <1>1, <1>3, <1>4, <2>1, <3>1 DEF Reported, Pended
  <2>2. \A u \in SpanIds' : spans'[u].parent # NoSpan =>
            spans'[u].handled > 0 /\ spans'[spans'[u].parent].handled > 0
    BY <1>1, <1>2, <1>3 DEF Reported
  <2> QED
    BY <2>1, <2>2 DEF Reported, Pended
<1>11. MatchedSharesTrace'
  BY <1>1, <1>2, <1>3 DEF MatchedSharesTrace
<1> QED
  BY <1>6, <1>7, <1>8, <1>9, <1>10, <1>11 DEF HandInv, LostInv

-----------------------------------------------------------------------------
(* The theorems about spans.                                               *)

\* ReportInv is an inductive invariant of the correlator: IndInv, who holds which span, and
\* what was reported.
ReportInv == IndInv /\ HandInv /\ LostInv

\* A step of a worker is calm, or sends, or matches, or puts a span on the pending list.
LEMMA WorkerStepKinds ==
    ASSUME NEW w \in Workers, WorkerStep(w)
    PROVE  \/ CalmStep(w)
           \/ SendRequest(w)
           \/ (RecvPop(w) \/ TryPop(w)) /\ Match(w)
           \/ Finish(w) /\ spans[worker[w].span].traceID = EmptyID
<1>1. QuietStep(w) \/ SendRequest(w) \/ ((RecvPop(w) \/ TryPop(w)) /\ Match(w))
  BY DEF WorkerStep, QuietStep, RecvPop, TryPop
<1>2. QuietStep(w) /\ worker[w].pc = "finish" => Finish(w)
  BY DEF QuietStep, HandleOpen, LookupFlow, CreateFlow, CountInflight, Touch, RecvPeek,
         HandleClose, TryPeek, Unpend, RecvPop, TryPop
<1> QED
  BY <1>1, <1>2 DEF CalmStep

\* What hands and the pending list hold, and who was reported, in every reachable state
\* (ProcessEvent, tryCorrelate, cleanupExpired).
THEOREM ReportsInductive == Spec => []ReportInv
<1>1. Init => HandInv /\ LostInv
  <2> SUFFICES ASSUME Init PROVE HandInv /\ LostInv
    OBVIOUS
  <2>1. SpanIds = {} /\ cleaner.pc = "idle" /\ \A w \in Workers : worker[w].pc = "idle"
    BY DEF Init, SpanIds, IdleWorker
  <2> QED
    BY <2>1 DEF HandInv, LostInv, Retrying, Named, Pending, NoSpanLost, Reported,
                MatchedSharesTrace, Early
<1>2. IndInv /\ HandInv /\ LostInv /\ [Next]_vars => HandInv' /\ LostInv'
  <2> SUFFICES ASSUME IndInv, HandInv, LostInv, [Next]_vars PROVE HandInv' /\ LostInv'
    OBVIOUS
  <2>1. Calm => HandInv' /\ LostInv'
    BY CalmHands, CalmReports DEF IndInv, Lists
  <2>2. ASSUME NEW w \in Workers, NEW e \in Events, Receive(w, e) PROVE HandInv' /\ LostInv'
    BY <2>2, ReceiveReports
  <2>3. ASSUME NEW w \in Workers, WorkerStep(w) PROVE HandInv' /\ LostInv'
    BY <2>1, <2>3, WorkerStepKinds, WorkerStepsCalm, SendReports, MatchReports, PendReports
  <2>4. CASE CleanerStep \/ Tick \/ UNCHANGED vars
    BY <2>1, <2>4, CleanerStepsCalm DEF IndInv
  <2> QED
    BY <2>2, <2>3, <2>4 DEF Next
<1> QED
  BY <1>1, <1>2, ListsInductive, PTL DEF Spec, ReportInv

\* No span is forgotten, whatever ProcessEvent, tryCorrelate and cleanupExpired do at the
\* same time: until it was reported a worker holds it or it is on the pending list.
THEOREM NoSpanForgotten == Spec => []NoSpanLost
BY ReportsInductive, PTL DEF ReportInv, LostInv

\* A matched response has the trace id of its request, which is never empty, unless
\* cleanupExpired timed it out (handleRecv, tryCorrelate, cleanupExpired).
THEOREM MatchKeepsTrace == Spec => []MatchedSharesTrace
BY ReportsInductive, PTL DEF ReportInv, LostInv

-----------------------------------------------------------------------------
(* Keys: which connection a flow, and a request in it, belong to.          *)

\* The flow in use for a key, and the flow a worker holds for its event, have that key.
FlowKeys ==
    /\ \A k \in Keys : connections[k] # NoFlow => flows[connections[k]].key = k
    /\ \A w \in Workers : worker[w].pc \in {"body", "pop"} => flows[worker[w].flow].key = Key(w)

\* A request went into a flow of its own connection, which has counted it.
RequestKeys ==
    \A s \in SpanIds : spans[s].seq > 0 =>
        /\ spans[s].flow \in FlowIds
        /\ flows[spans[s].flow].key = ConnKey(spans[s].ev)
        /\ spans[s].seq <= flows[spans[s].flow].seqCounter

\* A response has the connection of its request, and what waits in the flow was sent later.
MatchKeys ==
    \A s \in SpanIds : spans[s].parent # NoSpan =>
        LET r == spans[s].parent
        IN  /\ ConnKey(spans[r].ev) = ConnKey(spans[s].ev)
            /\ \A t \in Waiting(spans[r].flow) : spans[t].seq > spans[r].seq

KeyInv == FlowKeys /\ RequestKeys /\ MatchKeys

\* No event and no flow's key changes; the map and the workers get only flows of their key.
KeysKept ==
    /\ \A u \in SpanIds : spans'[u].ev = spans[u].ev
    /\ \A f \in FlowIds : flows'[f].key = flows[f].key
    /\ \A k \in Keys : connections'[k] # NoFlow =>
           connections'[k] = connections[k] \/ flows'[connections'[k]].key = k
    /\ \A v \in Workers : worker'[v].pc \in {"body", "pop"} =>
           /\ worker'[v].span = worker[v].span /\ worker[v].span \in SpanIds
           /\ \/ worker[v].pc \in {"body", "pop"} /\ worker'[v].flow = worker[v].flow
              \/ flows'[worker'[v].flow].key = Key(v)

\* Then flows keep their connections.
LEMMA KeptFlowKeys ==
    ASSUME TypeOK, FlowKeys, KeysKept
    PROVE  FlowKeys'
<1>1. \A k \in Keys : connections'[k] # NoFlow => flows'[connections'[k]].key = k
  BY DEF TypeOK, FlowKeys, KeysKept
<1>2. ASSUME NEW v \in Workers, worker'[v].pc \in {"body", "pop"}
      PROVE  flows'[worker'[v].flow].key = ConnKey(spans'[worker'[v].span].ev)
  <2>1. /\ worker'[v].span = worker[v].span /\ worker[v].span \in SpanIds
        /\ spans'[worker'[v].span].ev = spans[worker[v].span].ev
    BY <1>2 DEF KeysKept
  <2>2. flows'[worker'[v].flow].key = Key(v)
    <3>1. CASE worker[v].pc \in {"body", "pop"} /\ worker'[v].flow = worker[v].flow
      <4>1. worker[v].flow \in FlowIds /\ flows[worker[v].flow].key = Key(v)
        BY <3>1 DEF TypeOK, FlowKeys
      <4> QED
        BY <3>1, <4>1 DEF KeysKept
    <3>2. CASE flows'[worker'[v].flow].key = Key(v)
      BY <3>2
    <3> QED
      BY <1>2, <3>1, <3>2 DEF KeysKept
  <2> QED
    BY <2>1, <2>2 DEF Key, Event
<1> QED
  BY <1>1, <1>2 DEF FlowKeys, Key, Event

\* And requests and matches theirs, when no list and no span's place changes either.
LEMMA KeptKeys ==
    ASSUME TypeOK, MatchedGone, KeyInv, KeysKept, SpansKept, FlowsKept
    PROVE  KeyInv'
<1>1. SpanIds' = SpanIds /\ FlowIds \subseteq FlowIds'
  BY DEF SpansKept, SpanIds, FlowsKept
<1>2. FlowKeys'
  BY KeptFlowKeys DEF KeyInv
<1>3. RequestKeys'
  <2> SUFFICES ASSUME NEW s \in SpanIds, spans'[s].seq > 0
               PROVE  /\ spans'[s].flow \in FlowIds'
                      /\ flows'[spans'[s].flow].key = ConnKey(spans'[s].ev)
                      /\ spans'[s].seq <= flows'[spans'[s].flow].seqCounter
    BY <1>1 DEF RequestKeys
  <2>1. spans'[s].flow = spans[s].flow /\ spans'[s].seq = spans[s].seq /\ spans'[s].ev = spans[s].ev
    BY DEF SpansKept, KeysKept
  <2>2. /\ spans[s].flow \in FlowIds /\ flows[spans[s].flow].key = ConnKey(spans[s].ev)
        /\ spans[s].seq <= flows[spans[s].flow].seqCounter
    BY <2>1 DEF KeyInv, RequestKeys
  <2> QED
    BY <1>1, <2>1, <2>2 DEF FlowsKept, KeysKept
<1>4. MatchKeys'
  <2> SUFFICES ASSUME NEW s \in SpanIds, spans'[s].parent # NoSpan
               PROVE  LET r == spans'[s].parent
                      IN  /\ ConnKey(spans'[r].ev) = ConnKey(spans'[s].ev)
                          /\ \A t \in Elements(flows'[spans'[r].flow].reqs) :
                                 spans'[t].seq > spans'[r].seq
    BY <1>1 DEF MatchKeys, Waiting, Elements
  <2> DEFINE r == spans[s].parent
             g == spans[r].flow
  <2>1. spans'[s].parent = r /\ r # NoSpan /\ r \in SpanIds /\ spans[r].seq > 0
    BY DEF SpansKept, MatchedGone
  <2>2. /\ ConnKey(spans[r].ev) = ConnKey(spans[s].ev)
        /\ \A t \in Waiting(g) : spans[t].seq > spans[r].seq
        /\ g \in FlowIds
    BY <2>1 DEF KeyInv, MatchKeys, RequestKeys
  <2> HIDE DEF r
  <2>3. /\ spans'[r].flow = g /\ spans'[r].seq = spans[r].seq /\ spans'[r].ev = spans[r].ev
        /\ spans'[s].ev = spans[s].ev
    BY <2>1 DEF SpansKept, KeysKept
  <2> HIDE DEF g
  <2>4. flows'[g].reqs = flows[g].reqs
    BY <2>2 DEF FlowsKept
  <2>5. \A t \in Elements(flows'[g].reqs) : t \in Waiting(g) /\ t \in SpanIds
    BY <2>2, <2>4 DEF Waiting, Elements, TypeOK
  <2>6. \A t \in Elements(flows'[g].reqs) : spans'[t].seq > spans'[r].seq
    BY <2>2, <2>3, <2>5 DEF SpansKept
  <2> QED
    BY <2>1, <2>2, <2>3, <2>6
<1> QED
  BY <1>2, <1>3, <1>4 DEF KeyInv

\* Installing a flow for a key.
LEMMA InstallKeys ==
    ASSUME TypeOK, NEW k \in Keys, InstallFlow(k)
    PROVE  /\ \A f \in FlowIds : flows'[f].key = flows[f].key
           /\ flows'[flowCount + 1].key = k
           /\ connections'[k] = flowCount + 1
           /\ \A j \in Keys : j # k => connections'[j] = connections[j]
<1>1. flowCount \in Nat /\ connections \in [Keys -> {NoFlow} \cup FlowIds]
  BY DEF TypeOK
<1>2. flows' = [f \in 1..(flowCount + 1) |-> IF f = flowCount + 1 THEN NewFlow(k) ELSE flows[f]]
  BY DEF InstallFlow, Extend
<1>3. \A f \in FlowIds : flows'[f] = flows[f]
  BY <1>1, <1>2 DEF FlowIds
<1>4. flows'[flowCount + 1] = NewFlow(k)
  BY <1>1, <1>2
<1>5. connections' = [connections EXCEPT ![k] = flowCount + 1]
  BY DEF InstallFlow
<1> QED
  BY <1>1, <1>3, <1>4, <1>5 DEF NewFlow

\* A worker that looks its flow up in the map, or installs one, holds a flow of its key; the
\* other quiet steps leave keys alone.
LEMMA QuietKeys ==
    ASSUME TypeOK, FlowKeys, NEW w \in Workers, QuietStep(w),
           \A u \in SpanIds : spans'[u].ev = spans[u].ev
    PROVE  KeysKept
<1>1. /\ worker \in [Workers -> Worker] /\ flows \in [FlowIds -> Flow]
      /\ connections \in [Keys -> {NoFlow} \cup FlowIds] /\ flowCount \in Nat
  BY DEF TypeOK
<1>2. worker[w].pc # "idle" /\ worker[w].span \in SpanIds /\ Key(w) \in Keys
  <2>1. worker[w].pc # "idle"
    BY DEF QuietStep, HandleOpen, LookupFlow, CreateFlow, CountInflight, Touch, RecvPeek,
           HandleClose, Finish, TryPeek, Unpend, RecvPop, TryPop
  <2> QED
    BY <2>1, KeyType
<1>3. \A v \in Workers : worker[v].pc # "idle" => worker[v].span \in SpanIds
  BY DEF TypeOK
<1>a. ASSUME UNCHANGED <<flows, connections>>
      PROVE  /\ \A f \in FlowIds : flows'[f].key = flows[f].key
             /\ \A k \in Keys : connections'[k] # NoFlow =>
                    connections'[k] = connections[k] \/ flows'[connections'[k]].key = k
  BY <1>a
<1>b. ASSUME InstallFlow(Key(w))
      PROVE  /\ \A f \in FlowIds : flows'[f].key = flows[f].key
             /\ \A k \in Keys : connections'[k] # NoFlow =>
                    connections'[k] = connections[k] \/ flows'[connections'[k]].key = k
             /\ flows'[flowCount + 1].key = Key(w)
  BY <1>2, <1>b, InstallKeys
<1>c. ASSUME flows' = [flows EXCEPT ![worker[w].flow].idle = 0], connections' = connections
      PROVE  /\ \A f \in FlowIds : flows'[f].key = flows[f].key
             /\ \A k \in Keys : connections'[k] # NoFlow =>
                    connections'[k] = connections[k] \/ flows'[connections'[k]].key = k
  BY <1>1, <1>c DEF Flow
<1>d. ASSUME NEW p, worker' = [worker EXCEPT ![w].pc = p], p # "body",
             p = "pop" => worker[w].pc = "body"
      PROVE  \A v \in Workers : worker'[v].pc \in {"body", "pop"} =>
                /\ worker'[v].span = worker[v].span /\ worker[v].span \in SpanIds
                /\ worker[v].pc \in {"body", "pop"} /\ worker'[v].flow = worker[v].flow
  BY <1>1, <1>3, <1>d DEF Worker
<1>e. ASSUME \A v \in Workers : v # w => worker'[v] = worker[v],
             worker'[w].pc \notin {"body", "pop"}
      PROVE  \A v \in Workers : worker'[v].pc \in {"body", "pop"} =>
                /\ worker'[v].span = worker[v].span /\ worker[v].span \in SpanIds
                /\ worker[v].pc \in {"body", "pop"} /\ worker'[v].flow = worker[v].flow
  BY <1>1, <1>3, <1>e
<1>f. ASSUME NEW c, worker' = [worker EXCEPT ![w] = [@ EXCEPT !.flow = c, !.pc = "body"]],
             flows'[c].key = Key(w)
      PROVE  \A v \in Workers : worker'[v].pc \in {"body", "pop"} =>
                /\ worker'[v].span = worker[v].span /\ worker[v].span \in SpanIds
                /\ \/ worker[v].pc \in {"body", "pop"} /\ worker'[v].flow = worker[v].flow
                   \/ flows'[worker'[v].flow].key = Key(v)
  <2>1. /\ worker'[w].span = worker[w].span /\ worker'[w].flow = c
        /\ \A v \in Workers : v # w => worker'[v] = worker[v]
    BY <1>1, <1>f DEF Worker
  <2> QED
    BY <1>2, <1>3, <1>f, <2>1
<1>g. \A k \in Keys : connections[k] # NoFlow =>
          connections[k] \in FlowIds /\ flows[connections[k]].key = k
  BY <1>1 DEF FlowKeys
<1>h. ASSUME worker' = [worker EXCEPT ![w] = IdleWorker]
      PROVE  worker'[w].pc \notin {"body", "pop"} /\ \A v \in Workers : v # w => worker'[v] = worker[v]
  BY <1>1, <1>h DEF IdleWorker
<1>4. CASE HandleOpen(w)
  BY <1>4, <1>b, <1>d DEF KeysKept, HandleOpen
<1>5. CASE LookupFlow(w)
  <2>1. CASE connections[Key(w)] = NoFlow
    <3>1. worker'[w].pc = "create" /\ \A v \in Workers : v # w => worker'[v] = worker[v]
      BY <1>1, <1>5, <2>1 DEF LookupFlow
    <3> QED
      BY <1>5, <1>a, <1>e, <3>1 DEF KeysKept, LookupFlow
  <2>2. CASE connections[Key(w)] # NoFlow
    <3>1. worker' = [worker EXCEPT ![w] = [@ EXCEPT !.flow = connections[Key(w)], !.pc = "body"]]
      BY <1>5, <2>2 DEF LookupFlow
    <3>2. flows'[connections[Key(w)]].key = Key(w)
      BY <1>2, <1>5, <1>g, <2>2 DEF LookupFlow
    <3> QED
      BY <1>5, <1>a, <1>f, <3>1, <3>2 DEF KeysKept, LookupFlow
  <2> QED
    BY <2>1, <2>2
<1>6. CASE CreateFlow(w)
  <2>1. CASE connections[Key(w)] = NoFlow
    <3>1. /\ worker' = [worker EXCEPT ![w] = [@ EXCEPT !.flow = flowCount + 1, !.pc = "body"]]
          /\ InstallFlow(Key(w))
      BY <1>6, <2>1 DEF CreateFlow
    <3> QED
      BY <1>b, <1>f, <3>1 DEF KeysKept
  <2>2. CASE connections[Key(w)] # NoFlow
    <3>1. /\ worker' = [worker EXCEPT ![w] = [@ EXCEPT !.flow = connections[Key(w)], !.pc = "body"]]
          /\ UNCHANGED <<flows, connections>>
      BY <1>6, <2>2 DEF CreateFlow
    <3>2. flows'[connections[Key(w)]].key = Key(w)
      BY <1>2, <1>g, <2>2, <3>1
    <3> QED
      BY <1>a, <1>f, <3>1, <3>2 DEF KeysKept
  <2> QED
    BY <2>1, <2>2
<1>7. CASE CountInflight(w)
  BY <1>7, <1>a, <1>d DEF KeysKept, CountInflight
<1>8. CASE Touch(w)
  BY <1>8, <1>c, <1>d DEF KeysKept, Touch
<1>9. CASE RecvPeek(w)
  <2>1. /\ flows' = [flows EXCEPT ![worker[w].flow].idle = 0] /\ connections' = connections
        /\ worker[w].pc = "body"
        /\ \E p \in {"finish", "pop"} : worker' = [worker EXCEPT ![w].pc = p]
    BY <1>9 DEF RecvPeek
  <2> QED
    BY <1>c, <1>d, <2>1 DEF KeysKept
<1>10. CASE HandleClose(w)
  <2>1. /\ flows' = flows /\ worker' = [worker EXCEPT ![w].pc = "finish"]
        /\ \A k \in Keys : connections'[k] \in {NoFlow, connections[k]}
    BY <1>10 DEF HandleClose, Sweep
  <2> QED
    BY <1>d, <2>1 DEF KeysKept
<1>11. CASE Finish(w)
  <2>1. \/ worker' = [worker EXCEPT ![w] = IdleWorker]
        \/ worker' = [worker EXCEPT ![w] = [@ EXCEPT !.pc = "lookup", !.retry = TRUE]]
    BY <1>11 DEF Finish
  <2>2. worker'[w].pc \notin {"body", "pop"} /\ \A v \in Workers : v # w => worker'[v] = worker[v]
    <3>1. CASE worker' = [worker EXCEPT ![w] = [@ EXCEPT !.pc = "lookup", !.retry = TRUE]]
      BY <1>1, <3>1 DEF Worker
    <3> QED
      BY <1>h, <2>1, <3>1
  <2> QED
    BY <1>11, <1>a, <1>e, <2>2 DEF KeysKept, Finish
<1>12. CASE TryPeek(w)
  <2>1. CASE worker' = [worker EXCEPT ![w].pc = "pop"]
    BY <1>12, <1>a, <1>d, <2>1 DEF KeysKept, TryPeek
  <2>2. CASE worker' = [worker EXCEPT ![w] = IdleWorker]
    BY <1>12, <1>a, <1>e, <1>h, <2>2 DEF KeysKept, TryPeek
  <2> QED
    BY <1>12, <2>1, <2>2 DEF TryPeek
<1>13. CASE Unpend(w)
  BY <1>13, <1>a, <1>e, <1>h DEF KeysKept, Unpend
<1>14. CASE RecvPop(w) /\ flows[worker[w].flow].reqs = <<>>
  BY <1>14, <1>a, <1>d DEF KeysKept, RecvPop, Match
<1>15. CASE TryPop(w) /\ flows[worker[w].flow].reqs = <<>>
  BY <1>15, <1>a, <1>e, <1>h DEF KeysKept, TryPop, Match
<1> QED
  BY <1>4, <1>5, <1>6, <1>7, <1>8, <1>9, <1>10, <1>11, <1>12, <1>13, <1>14, <1>15 DEF QuietStep

\* The cleanup and the clock leave keys alone.
LEMMA CleanerKeys ==
    ASSUME TypeOK, CleanerStep \/ Tick \/ UNCHANGED vars,
           \A u \in SpanIds : spans'[u].ev = spans[u].ev
    PROVE  KeysKept
<1>1. flows \in [FlowIds -> Flow] /\ worker' = worker
      /\ \A v \in Workers : worker[v].pc # "idle" => worker[v].span \in SpanIds
  BY DEF TypeOK, CleanerStep, CleanStart, CleanMeet, CleanSettle, CleanPendingDone, CleanConns,
         Tick, vars
<1>2. \A k \in Keys : connections'[k] \in {NoFlow, connections[k]}
  BY DEF CleanerStep, CleanStart, CleanMeet, CleanSettle, CleanPendingDone, CleanConns, Tick,
         vars, Sweep
<1>3. \A f \in FlowIds : flows'[f].key = flows[f].key
  <2>1. CASE flows' = flows
    BY <2>1
  <2>2. CASE Tick
    <3>1. \A f \in FlowIds : flows[f] \in Flow /\ flows'[f] = [flows[f] EXCEPT !.idle = Older(@)]
      BY <1>1, <2>2 DEF Tick
    <3> QED
      BY <3>1 DEF Flow
  <2> QED
    BY <2>1, <2>2 DEF CleanerStep, CleanStart, CleanMeet, CleanSettle, CleanPendingDone,
                      CleanConns, vars
<1> QED
  BY <1>1, <1>2, <1>3 DEF KeysKept

\* After a send the list holds what it held, without the request that was pushed out, and
\* the new one.
LEMMA SendWaiting ==
    ASSUME IndInv, HandInv, NEW w \in Workers, SendRequest(w)
    PROVE  LET s == worker[w].span
               f == worker[w].flow
               D == Oldest(flows[f].reqs)
           IN  /\ flowCount' = flowCount /\ connections' = connections
               /\ Elements(flows'[f].reqs) = (Waiting(f) \ D) \cup {s}
               /\ flows'[f].seqCounter = flows[f].seqCounter + 1
               /\ flows'[f].key = flows[f].key
               /\ \A g \in FlowIds : g # f => flows'[g] = flows[g]
<1> DEFINE s == worker[w].span
           f == worker[w].flow
           q == flows[f].reqs
           D == Oldest(q)
<1>1. /\ TypeOK /\ InflightBounded /\ FIFOOrder /\ flows \in [FlowIds -> Flow]
      /\ flowCount' = flowCount /\ connections' = connections
      /\ worker[w].pc = "body"
  BY DEF IndInv, Lists, TypeOK, SendRequest
<1>2. f \in FlowIds /\ q \in Seq(Nat) /\ Len(q) <= maxInflight /\ q = flows[f].reqs /\ Len(q) \in Nat
  BY <1>1 DEF TypeOK, Flow, InflightBounded
<1>3. flows' = [flows EXCEPT ![f] = [@ EXCEPT !.reqs = Append(Room(q), s),
                                              !.seqCounter = flows[f].seqCounter + 1, !.idle = 0]]
  BY DEF SendRequest
<1>4. Waiting(f) = {q[i] : i \in 1..Len(q)}
  BY DEF Waiting, Elements
<1>5. \A i, j \in 1..Len(q) : q[i] = q[j] => i = j
  BY <1>1, <1>2, OnePlace
<1> HIDE DEF q, f, s
<1>6. /\ flows'[f].reqs = Append(Room(q), s)
      /\ flows'[f].seqCounter = flows[f].seqCounter + 1 /\ flows'[f].key = flows[f].key
      /\ \A g \in FlowIds : g # f => flows'[g] = flows[g]
  BY <1>1, <1>2, <1>3 DEF Flow
<1>7. Room(q) \in Seq(Nat) /\ Elements(Room(q)) = Waiting(f) \ D
  <2>1. CASE Len(q) >= maxInflight
    <3>1. /\ Room(q) = Tail(q) /\ D = {Head(q)} /\ Head(q) = q[1] /\ 1 \in 1..Len(q)
          /\ Tail(q) \in Seq(Nat) /\ Len(Tail(q)) = Len(q) - 1
          /\ \A i \in 1..(Len(q) - 1) : i + 1 \in 1..Len(q) /\ Tail(q)[i] = q[i + 1]
      BY <1>2, <2>1, BoundAssumption DEF Room, Oldest
    <3>2. ASSUME NEW x \in Elements(Tail(q)) PROVE x \in Waiting(f) /\ x # q[1]
      <4>1. PICK i \in 1..(Len(q) - 1) : x = Tail(q)[i]
        BY <3>1, <3>2 DEF Elements
      <4>2. x = q[i + 1] /\ i + 1 \in 1..Len(q) /\ i + 1 # 1
        BY <1>2, <3>1, <4>1
      <4> QED
        BY <1>4, <1>5, <3>1, <4>2
    <3>3. ASSUME NEW x \in Waiting(f), x # q[1] PROVE x \in Elements(Tail(q))
      <4>1. PICK j \in 1..Len(q) : x = q[j]
        BY <1>4
      <4>2. j # 1 /\ j - 1 \in 1..(Len(q) - 1) /\ (j - 1) + 1 = j
        BY <1>2, <3>3, <4>1
      <4>3. x = Tail(q)[j - 1]
        BY <3>1, <4>1, <4>2
      <4> QED
        BY <3>1, <4>2, <4>3 DEF Elements
    <3> QED
      BY <3>1, <3>2, <3>3
  <2>2. CASE ~(Len(q) >= maxInflight)
    BY <1>2, <1>4, <2>2 DEF Room, Oldest, Elements
  <2> QED
    BY <2>1, <2>2
<1>8. Elements(Append(Room(q), s)) = Elements(Room(q)) \cup {s}
  <2> DEFINE p == Room(q)
  <2>1. p \in Seq(Nat) /\ Len(p) \in Nat
    BY <1>7
  <2>2. s \in Nat
    BY <1>1 DEF TypeOK, SpanIds, s
  <2> HIDE DEF p
  <2>3. /\ Len(Append(p, s)) = Len(p) + 1 /\ Append(p, s)[Len(p) + 1] = s
        /\ \A i \in 1..Len(p) : Append(p, s)[i] = p[i]
    BY <2>1, <2>2
  <2>4. 1..(Len(p) + 1) = (1..Len(p)) \cup {Len(p) + 1}
    BY <2>1
  <2>5. Elements(Append(p, s)) = Elements(p) \cup {s}
    BY <2>3, <2>4 DEF Elements
  <2> QED
    BY <2>5 DEF p
<1> QED
  BY <1>1, <1>6, <1>7, <1>8, Zenon DEF f, s, q

\* After a match the list holds what it held without the request that was matched, and all
\* that is left has a larger number.
LEMMA MatchWaiting ==
    ASSUME IndInv, NEW w \in Workers, worker[w].pc = "pop", Match(w)
    PROVE  LET f == worker[w].flow
               r == Head(flows[f].reqs)
           IN  /\ Elements(flows'[f].reqs) = Waiting(f) \ {r}
               /\ spans[r].flow = f
               /\ \A t \in Elements(flows'[f].reqs) : spans[t].seq > spans[r].seq
               /\ flows'[f].seqCounter = flows[f].seqCounter
               /\ flows'[f].key = flows[f].key
               /\ \A g \in FlowIds : g # f => flows'[g] = flows[g]
<1> DEFINE f == worker[w].flow
           q == flows[f].reqs
           r == Head(q)
<1>1. /\ TypeOK /\ FIFOOrder /\ flows \in [FlowIds -> Flow]
      /\ q # <<>> /\ flows' = [flows EXCEPT ![f].reqs = Tail(q)]
  BY DEF IndInv, Lists, TypeOK, Match
<1>2. /\ f \in FlowIds /\ q \in Seq(Nat) /\ q = flows[f].reqs
      /\ flows[f].seqCounter \in Nat /\ Len(q) \in Nat
  BY <1>1 DEF TypeOK, Flow
<1>3. Waiting(f) = {q[i] : i \in 1..Len(q)}
  BY DEF Waiting, Elements
<1>4. \A i, j \in 1..Len(q) : q[i] = q[j] => i = j
  BY <1>1, <1>2, OnePlace
<1>5. \A i \in 1..Len(q) : /\ spans[q[i]].flow = f
                           /\ spans[q[i]].seq = flows[f].seqCounter - Len(q) + i
  BY <1>1, <1>2 DEF FIFOOrder
<1> HIDE DEF q, f
<1>6. /\ flows'[f].reqs = Tail(q)
      /\ flows'[f].seqCounter = flows[f].seqCounter /\ flows'[f].key = flows[f].key
      /\ \A g \in FlowIds : g # f => flows'[g] = flows[g]
  BY <1>1, <1>2 DEF Flow
<1>7. /\ r = q[1] /\ 1 \in 1..Len(q)
      /\ Tail(q) \in Seq(Nat) /\ Len(Tail(q)) = Len(q) - 1
      /\ \A i \in 1..(Len(q) - 1) : i + 1 \in 1..Len(q) /\ Tail(q)[i] = q[i + 1]
  BY <1>1, <1>2
<1> HIDE DEF r
<1>8. ASSUME NEW x \in Elements(Tail(q))
      PROVE  x \in Waiting(f) /\ x # r /\ spans[x].seq > spans[r].seq
  <2>1. PICK i \in 1..(Len(q) - 1) : x = Tail(q)[i]
    BY <1>7, <1>8 DEF Elements
  <2>2. x = q[i + 1] /\ i + 1 \in 1..Len(q) /\ i + 1 > 1 /\ i + 1 \in Nat
    BY <1>2, <1>7, <2>1
  <2>3. x \in Waiting(f) /\ x # r
    BY <1>3, <1>4, <1>7, <2>2
  <2>4. /\ spans[x].seq = flows[f].seqCounter - Len(q) + (i + 1)
        /\ spans[r].seq = flows[f].seqCounter - Len(q) + 1
    BY <1>5, <1>7, <2>2
  <2>5. \A a, b, c \in Nat : c > 1 => a - b + c > a - b + 1
    OBVIOUS
  <2> QED
    BY <1>2, <2>2, <2>3, <2>4, <2>5
<1>9. ASSUME NEW x \in Waiting(f), x # r PROVE x \in Elements(Tail(q))
  <2>1. PICK j \in 1..Len(q) : x = q[j]
    BY <1>3
  <2>2. j # 1 /\ j - 1 \in 1..(Len(q) - 1) /\ (j - 1) + 1 = j
    BY <1>2, <1>7, <1>9, <2>1
  <2>3. x = Tail(q)[j - 1]
    BY <1>7, <2>1, <2>2
  <2> QED
    BY <1>7, <2>2, <2>3 DEF Elements
<1>10. spans[r].flow = f
  BY <1>5, <1>7
<1>11. Elements(Tail(q)) = Waiting(f) \ {r}
  BY <1>8, <1>9
<1> QED
  BY <1>6, <1>8, <1>10, <1>11, Zenon DEF f, r, q

\* Sending a request keeps the keys: it goes into the flow of its own connection with the
\* largest number so far.
LEMMA SendKeepsKeys ==
    ASSUME IndInv, HandInv, KeyInv, NEW w \in Workers, SendRequest(w)
    PROVE  KeyInv'
<1> DEFINE s == worker[w].span
           f == worker[w].flow
           D == Oldest(flows[f].reqs)
           c == flows[f].seqCounter
<1>0. /\ TypeOK /\ MatchedGone /\ FlowKeys /\ RequestKeys /\ MatchKeys
      /\ worker \in [Workers -> Worker] /\ \A u \in SpanIds : spans[u] \in Span
      /\ \A v \in Workers : worker[v].pc # "idle" => worker[v].span \in SpanIds
  BY DEF IndInv, Lists, KeyInv, TypeOK
<1>1. /\ worker[w].pc = "body" /\ total' = total
      /\ worker' = [worker EXCEPT ![w].pc = "count"]
  BY DEF SendRequest
<1>2. /\ s \in SpanIds /\ f \in FlowIds /\ spans[s].seq = 0 /\ spans[s].parent = NoSpan
      /\ spans'[s].flow = f /\ spans'[s].seq = c + 1
      /\ spans'[s].ev = spans[s].ev /\ spans'[s].parent = NoSpan
      /\ \A u \in SpanIds : u # s =>
            /\ u \in D => spans'[u] = [spans[u] EXCEPT !.handled = @ + 1]
            /\ u \notin D => spans'[u] = spans[u]
  BY SendSpans
<1>3. /\ flowCount' = flowCount /\ connections' = connections
      /\ Elements(flows'[f].reqs) = (Waiting(f) \ D) \cup {s}
      /\ flows'[f].seqCounter = c + 1 /\ flows'[f].key = flows[f].key
      /\ \A g \in FlowIds : g # f => flows'[g] = flows[g]
  BY SendWaiting
<1>4. flows[f].key = Key(w) /\ c \in Nat /\ SpanIds' = SpanIds /\ FlowIds' = FlowIds
  BY <1>0, <1>1, <1>2, <1>3 DEF FlowKeys, TypeOK, Flow, SpanIds, FlowIds
<1>5. ConnKey(spans[s].ev) = Key(w)
  BY DEF Key, Event
<1> HIDE DEF D
<1>6. \A u \in SpanIds : u # s => SpanCalm(u)
  BY <1>0, <1>2, ReportedCalm
<1> HIDE DEF s, f, c
<1>7. KeysKept
  <2>1. \A v \in Workers : worker'[v].pc \in {"body", "pop"} => worker'[v] = worker[v]
    BY <1>0, <1>1 DEF Worker
  <2>2. \A u \in SpanIds : spans'[u].ev = spans[u].ev
    BY <1>2, <1>6 DEF SpanCalm
  <2>3. \A g \in FlowIds : flows'[g].key = flows[g].key
    BY <1>3
  <2> QED
    BY <1>0, <1>3, <2>1, <2>2, <2>3 DEF KeysKept
<1>8. FlowKeys'
  BY <1>0, <1>7, KeptFlowKeys
<1>9. RequestKeys'
  <2> SUFFICES ASSUME NEW u \in SpanIds, spans'[u].seq > 0
               PROVE  /\ spans'[u].flow \in FlowIds
                      /\ flows'[spans'[u].flow].key = ConnKey(spans'[u].ev)
                      /\ spans'[u].seq <= flows'[spans'[u].flow].seqCounter
    BY <1>4 DEF RequestKeys
  <2>1. CASE u = s
    BY <1>2, <1>3, <1>4, <1>5, <2>1
  <2>2. CASE u # s
    <3>1. spans'[u].seq = spans[u].seq /\ spans'[u].flow = spans[u].flow /\ spans'[u].ev = spans[u].ev
      BY <1>6, <2>2 DEF SpanCalm
    <3>2. /\ spans[u].flow \in FlowIds /\ flows[spans[u].flow].key = ConnKey(spans[u].ev)
          /\ spans[u].seq <= flows[spans[u].flow].seqCounter /\ spans[u].seq \in Nat
      BY <1>0, <3>1 DEF RequestKeys, Span
    <3>3. spans[u].seq <= flows'[spans[u].flow].seqCounter
      <4>1. CASE spans[u].flow = f
        BY <1>3, <1>4, <3>2, <4>1 DEF c
      <4>2. CASE spans[u].flow # f
        BY <1>3, <3>2, <4>2
      <4> QED
        BY <4>1, <4>2
    <3> QED
      BY <1>3, <3>1, <3>2, <3>3
  <2> QED
    BY <2>1, <2>2
<1>10. MatchKeys'
  <2> SUFFICES ASSUME NEW u \in SpanIds, spans'[u].parent # NoSpan
               PROVE  LET r == spans'[u].parent
                      IN  /\ ConnKey(spans'[r].ev) = ConnKey(spans'[u].ev)
                          /\ \A t \in Elements(flows'[spans'[r].flow].reqs) :
                                 spans'[t].seq > spans'[r].seq
    BY <1>4 DEF MatchKeys, Waiting, Elements
  <2> DEFINE r == spans[u].parent
             g == spans[r].flow
  <2>1. u # s /\ spans'[u].parent = r /\ r # NoSpan /\ r \in SpanIds /\ spans[r].seq > 0
    BY <1>0, <1>2, <1>6 DEF SpanCalm, MatchedGone
  <2>2. /\ ConnKey(spans[r].ev) = ConnKey(spans[u].ev)
        /\ \A t \in Waiting(g) : spans[t].seq > spans[r].seq
        /\ g \in FlowIds /\ spans[r].seq <= flows[g].seqCounter
    BY <1>0, <2>1 DEF MatchKeys, RequestKeys
  <2> HIDE DEF r
  <2>3. r # s /\ SpanCalm(r) /\ SpanCalm(u)
    BY <1>2, <1>6, <2>1
  <2>4. /\ spans'[r].flow = g /\ spans'[r].seq = spans[r].seq /\ spans'[r].ev = spans[r].ev
        /\ spans'[u].ev = spans[u].ev
    BY <2>3 DEF SpanCalm
  <2> HIDE DEF g
  <2>5. \A t \in Waiting(g) : t \in SpanIds /\ t # s
    <3>1. \A t \in Waiting(g) : t \in SpanIds /\ spans[t].seq > 0
      BY <2>2 DEF IndInv, Lists, ListedNumbered, TypeOK, Waiting, Elements
    <3> QED
      BY <1>2, <3>1
  <2>6. ASSUME NEW t \in Elements(flows'[g].reqs) PROVE spans'[t].seq > spans[r].seq
    <3>1. CASE t \in Waiting(g)
      <4>1. SpanCalm(t) /\ spans[t].seq > spans[r].seq
        BY <1>6, <2>2, <2>5, <3>1
      <4> QED
        BY <4>1 DEF SpanCalm
    <3>2. CASE t \notin Waiting(g)
      <4>1. g = f /\ t = s
        <5>1. CASE g = f
          BY <1>3, <2>6, <3>2, <5>1
        <5>2. CASE g # f
          BY <1>3, <2>2, <2>6, <3>2, <5>2 DEF Waiting
        <5> QED
          BY <5>1, <5>2
      <4>2. spans[r].seq <= c /\ spans[r].seq \in Nat
        BY <1>0, <2>1, <2>2, <4>1 DEF c, Span
      <4> QED
        BY <1>2, <1>4, <4>1, <4>2
    <3> QED
      BY <3>1, <3>2
  <2> QED
    BY <2>1, <2>2, <2>4, <2>6
<1> QED
  BY <1>8, <1>9, <1>10 DEF KeyInv

\* A match keeps the keys: request and response are of the flow's connection, and the
\* request was the first of the list.
LEMMA MatchKeepsKeys ==
    ASSUME IndInv, HandInv, KeyInv, NEW w \in Workers, RecvPop(w) \/ TryPop(w), Match(w)
    PROVE  KeyInv'
<1> DEFINE s == worker[w].span
           f == worker[w].flow
           r == Head(flows[f].reqs)
<1>0. /\ TypeOK /\ MatchedGone /\ FlowKeys /\ RequestKeys /\ MatchKeys
      /\ worker \in [Workers -> Worker] /\ \A u \in SpanIds : spans[u] \in Span
      /\ \A v \in Workers : worker[v].pc # "idle" => worker[v].span \in SpanIds
  BY DEF IndInv, Lists, KeyInv, TypeOK
<1>1. /\ worker[w].pc = "pop" /\ total' = total /\ flowCount' = flowCount
      /\ connections' = connections
      /\ \E p \in {"finish", "unpend"} : worker' = [worker EXCEPT ![w].pc = p]
  <2>1. flows[f].reqs # <<>>
    BY DEF Match
  <2> QED
    BY <2>1 DEF RecvPop, TryPop
<1>2. /\ s \in SpanIds /\ f \in FlowIds /\ spans[s].seq = 0 /\ spans[s].parent = NoSpan
      /\ r \in SpanIds /\ r # s /\ r # NoSpan /\ spans[r].seq > 0
      /\ spans'[s].parent = r /\ spans'[s].ev = spans[s].ev /\ spans'[s].seq = 0
      /\ spans'[r] = [spans[r] EXCEPT !.handled = @ + 1]
      /\ \A u \in SpanIds : u # s /\ u # r => spans'[u] = spans[u]
  BY <1>1, MatchSpans
<1>3. /\ Elements(flows'[f].reqs) = Waiting(f) \ {r}
      /\ spans[r].flow = f
      /\ \A t \in Elements(flows'[f].reqs) : spans[t].seq > spans[r].seq
      /\ flows'[f].seqCounter = flows[f].seqCounter /\ flows'[f].key = flows[f].key
      /\ \A g \in FlowIds : g # f => flows'[g] = flows[g]
  BY <1>1, MatchWaiting
<1>4. flows[f].key = Key(w) /\ SpanIds' = SpanIds /\ FlowIds' = FlowIds
  BY <1>0, <1>1 DEF FlowKeys, SpanIds, FlowIds
<1>5. ConnKey(spans[s].ev) = Key(w)
  BY DEF Key, Event
<1> HIDE DEF r
<1>6. \A u \in SpanIds : u # s => SpanCalm(u)
  <2>1. \A u \in SpanIds : u # s =>
            spans'[u] = [spans[u] EXCEPT !.handled = @ + 1] \/ spans'[u] = spans[u]
    BY <1>2
  <2> QED
    BY <1>0, <2>1, ReportedCalm
<1> HIDE DEF s, f
<1>7. KeysKept
  <2>1. \A v \in Workers : worker'[v].pc \in {"body", "pop"} => worker'[v] = worker[v]
    BY <1>0, <1>1 DEF Worker
  <2>2. \A u \in SpanIds : spans'[u].ev = spans[u].ev
    BY <1>2, <1>6 DEF SpanCalm
  <2>3. \A g \in FlowIds : flows'[g].key = flows[g].key
    BY <1>3
  <2> QED
    BY <1>0, <1>1, <2>1, <2>2, <2>3 DEF KeysKept
<1>8. FlowKeys'
  BY <1>0, <1>7, KeptFlowKeys
<1>9. \A u \in SpanIds : u # s => /\ spans'[u].seq = spans[u].seq
                                  /\ spans'[u].flow = spans[u].flow
                                  /\ spans'[u].ev = spans[u].ev
                                  /\ spans'[u].parent = spans[u].parent
  BY <1>6 DEF SpanCalm
<1>10. RequestKeys'
  <2> SUFFICES ASSUME NEW u \in SpanIds, spans'[u].seq > 0
               PROVE  /\ spans'[u].flow \in FlowIds
                      /\ flows'[spans'[u].flow].key = ConnKey(spans'[u].ev)
                      /\ spans'[u].seq <= flows'[spans'[u].flow].seqCounter
    BY <1>4 DEF RequestKeys
  <2>1. u # s
    BY <1>2
  <2>2. /\ spans[u].flow \in FlowIds /\ flows[spans[u].flow].key = ConnKey(spans[u].ev)
        /\ spans[u].seq <= flows[spans[u].flow].seqCounter
    BY <1>0, <1>9, <2>1 DEF RequestKeys
  <2>3. flows'[spans[u].flow].seqCounter = flows[spans[u].flow].seqCounter
        /\ flows'[spans[u].flow].key = flows[spans[u].flow].key
    BY <1>3, <2>2
  <2> QED
    BY <1>9, <2>1, <2>2, <2>3
<1>11. \A g \in FlowIds : Elements(flows'[g].reqs) \subseteq Waiting(g)
  BY <1>3 DEF Waiting
<1>12. \A g \in FlowIds : \A t \in Elements(flows'[g].reqs) : t \in SpanIds /\ t # s
  <2>1. \A g \in FlowIds : \A t \in Waiting(g) : t \in SpanIds /\ spans[t].seq > 0
    BY DEF IndInv, Lists, ListedNumbered, TypeOK, Waiting, Elements
  <2> QED
    BY <1>2, <1>11, <2>1
<1>13. MatchKeys'
  <2> SUFFICES ASSUME NEW u \in SpanIds, spans'[u].parent # NoSpan
               PROVE  LET p == spans'[u].parent
                      IN  /\ ConnKey(spans'[p].ev) = ConnKey(spans'[u].ev)
                          /\ \A t \in Elements(flows'[spans'[p].flow].reqs) :
                                 spans'[t].seq > spans'[p].seq
    BY <1>4 DEF MatchKeys, Waiting, Elements
  <2>1. CASE u = s
    <3>1. ConnKey(spans[r].ev) = Key(w)
      BY <1>0, <1>2, <1>3, <1>4 DEF RequestKeys
    <3>2. spans'[u].parent = r /\ spans'[u].ev = spans[s].ev /\ spans'[r].ev = spans[r].ev
          /\ spans'[r].flow = f /\ spans'[r].seq = spans[r].seq
      BY <1>2, <1>3, <1>9, <2>1
    <3>3. \A t \in Elements(flows'[f].reqs) : spans'[t].seq > spans[r].seq
      BY <1>2, <1>3, <1>9, <1>12
    <3> QED
      BY <1>5, <3>1, <3>2, <3>3
  <2>2. CASE u # s
    <3> DEFINE p == spans[u].parent
               g == spans[p].flow
    <3>1. spans'[u].parent = p /\ p # NoSpan /\ p \in SpanIds /\ spans[p].seq > 0
      BY <1>0, <1>9, <2>2 DEF MatchedGone
    <3>2. /\ ConnKey(spans[p].ev) = ConnKey(spans[u].ev)
          /\ \A t \in Waiting(g) : spans[t].seq > spans[p].seq
          /\ g \in FlowIds
      BY <1>0, <3>1 DEF MatchKeys, RequestKeys
    <3> HIDE DEF p
    <3>3. /\ p # s /\ spans'[p].flow = g /\ spans'[p].seq = spans[p].seq
          /\ spans'[p].ev = spans[p].ev /\ spans'[u].ev = spans[u].ev
      BY <1>2, <1>9, <2>2, <3>1
    <3> HIDE DEF g
    <3>4. \A t \in Elements(flows'[g].reqs) : spans'[t].seq > spans[p].seq
      BY <1>9, <1>11, <1>12, <3>2
    <3> QED
      BY <3>1, <3>2, <3>3, <3>4
  <2> QED
    BY <2>1, <2>2
<1> QED
  BY <1>8, <1>10, <1>13 DEF KeyInv

\* Receiving an event keeps the keys: its span is in no flow.
LEMMA ReceiveKeepsKeys ==
    ASSUME IndInv, KeyInv, NEW w \in Workers, NEW e \in Events, Receive(w, e)
    PROVE  KeyInv'
<1> DEFINE n == total + 1
<1>0. /\ TypeOK /\ MatchedGone /\ FlowKeys /\ RequestKeys /\ MatchKeys
      /\ total \in Nat /\ worker \in [Workers -> Worker]
      /\ \A v \in Workers : worker[v].pc # "idle" => worker[v].span \in SpanIds
      /\ \A f \in FlowIds : \A t \in Waiting(f) : t \in SpanIds
  BY DEF IndInv, Lists, KeyInv, TypeOK, Waiting, Elements
<1>1. /\ SpanIds' = SpanIds \cup {n} /\ n \notin SpanIds
      /\ FlowIds' = FlowIds /\ flows' = flows /\ connections' = connections
  BY <1>0 DEF Receive, SpanIds, FlowIds
<1>2. /\ \A u \in SpanIds : spans'[u] = spans[u]
      /\ spans'[n].parent = NoSpan /\ spans'[n].seq = 0
  BY <1>0 DEF Receive, Extend, SpanIds
<1>3. \A v \in Workers : worker'[v].pc \in {"body", "pop"} => worker'[v] = worker[v]
  <2>1. worker'[w].pc \notin {"body", "pop"}
    <3>1. e.kind \in Kinds
      BY EventsAssumption DEF RawEvent
    <3>2. worker'[w].pc = CASE e.kind \in {"connect", "accept"} -> "open"
                            [] e.kind \in {"send", "recv"} -> "lookup"
                            [] e.kind = "close" -> "close"
      BY <1>0 DEF Receive
    <3> QED
      BY <3>1, <3>2 DEF Kinds
  <2>2. \A v \in Workers : v # w => worker'[v] = worker[v]
    BY <1>0 DEF Receive
  <2> QED
    BY <2>1, <2>2
<1> HIDE DEF n
<1>4. FlowKeys'
  <2>1. KeysKept
    BY <1>0, <1>1, <1>2, <1>3 DEF KeysKept
  <2> QED
    BY <1>0, <2>1, KeptFlowKeys
<1>5. RequestKeys'
  BY <1>0, <1>1, <1>2 DEF RequestKeys
<1>6. MatchKeys'
  <2> SUFFICES ASSUME NEW u \in SpanIds', spans'[u].parent # NoSpan
               PROVE  LET p == spans'[u].parent
                      IN  /\ ConnKey(spans'[p].ev) = ConnKey(spans'[u].ev)
                          /\ \A t \in Elements(flows'[spans'[p].flow].reqs) :
                                 spans'[t].seq > spans'[p].seq
    BY DEF MatchKeys, Waiting, Elements
  <2>1. u \in SpanIds /\ spans'[u] = spans[u] /\ spans[u].parent # NoSpan
    BY <1>1, <1>2
  <2>2. /\ spans[u].parent \in SpanIds /\ spans[spans[u].parent].seq > 0
        /\ spans'[spans[u].parent] = spans[spans[u].parent]
    BY <1>0, <1>2, <2>1 DEF MatchedGone
  <2>3. spans[spans[u].parent].flow \in FlowIds
    BY <1>0, <2>2 DEF RequestKeys
  <2>4. \A t \in Waiting(spans[spans[u].parent].flow) :
            spans'[t] = spans[t] /\ spans[t].seq > spans[spans[u].parent].seq
    BY <1>0, <1>2, <2>1, <2>3 DEF MatchKeys
  <2>5. ConnKey(spans[spans[u].parent].ev) = ConnKey(spans[u].ev)
    BY <1>0, <2>1 DEF MatchKeys
  <2> QED
    BY <1>1, <2>1, <2>2, <2>4, <2>5 DEF Waiting
<1> QED
  BY <1>4, <1>5, <1>6 DEF KeyInv

\* Spans of one key are of one process and have the same two endpoints.
LEMMA SameKeySameEnds ==
    ASSUME NEW a, NEW b, ConnKey(a) = ConnKey(b)
    PROVE  a.pid = b.pid /\ {a.src, a.dst} = {b.src, b.dst}
BY DEF ConnKey

\* Flows, requests and matches stay with the key of their connection (getConnectionKey,
\* handleSend, handleRecv, tryCorrelate).
THEOREM KeysInductive == Spec => []KeyInv
<1>1. Init => KeyInv
  <2> SUFFICES ASSUME Init PROVE KeyInv
    OBVIOUS
  <2>1. /\ SpanIds = {} /\ \A w \in Workers : worker[w].pc = "idle"
        /\ \A k \in Keys : connections[k] = NoFlow
    BY DEF Init, SpanIds, IdleWorker
  <2> QED
    BY <2>1 DEF KeyInv, FlowKeys, RequestKeys, MatchKeys
<1>2. ReportInv /\ KeyInv /\ [Next]_vars => KeyInv'
  <2> SUFFICES ASSUME ReportInv, KeyInv, [Next]_vars PROVE KeyInv'
    OBVIOUS
  <2>0. IndInv /\ HandInv /\ LostInv /\ TypeOK /\ MatchedGone /\ FlowKeys
    BY DEF ReportInv, IndInv, Lists, KeyInv
  <2>1. ASSUME NEW w \in Workers, NEW e \in Events, Receive(w, e) PROVE KeyInv'
    BY <2>0, <2>1, ReceiveKeepsKeys
  <2>2. ASSUME NEW w \in Workers, CalmStep(w) PROVE KeyInv'
    <3>1. \A u \in SpanIds : spans'[u].ev = spans[u].ev
      BY <2>0, <2>2, WorkerStepsCalm DEF Calm, SpanCalm
    <3>2. QuietStep(w)
      BY <2>2 DEF CalmStep
    <3> QED
      BY <2>0, <3>1, <3>2, QuietKeys, QuietKept, KeptKeys
  <2>3. ASSUME NEW w \in Workers, Finish(w), spans[worker[w].span].traceID = EmptyID PROVE KeyInv'
    <3>1. \A u \in SpanIds : spans'[u].ev = spans[u].ev
      BY <2>0, <2>3, PendSpans
    <3>2. QuietStep(w)
      BY <2>3 DEF QuietStep
    <3> QED
      BY <2>0, <3>1, <3>2, QuietKeys, QuietKept, KeptKeys
  <2>4. ASSUME NEW w \in Workers, WorkerStep(w) PROVE KeyInv'
    BY <2>0, <2>2, <2>3, <2>4, WorkerStepKinds, SendKeepsKeys, MatchKeepsKeys
  <2>5. CASE CleanerStep \/ Tick \/ UNCHANGED vars
    <3>1. \A u \in SpanIds : spans'[u].ev = spans[u].ev
      BY <2>0, <2>5, CleanerStepsCalm DEF Calm, SpanCalm
    <3>2. SpansKept /\ FlowsKept
      <4>1. CASE UNCHANGED vars
        BY <4>1 DEF vars, SpansKept, FlowsKept, FlowIds
      <4> QED
        BY <2>0, <2>5, <4>1, CleanerKept
    <3> QED
      BY <2>0, <2>5, <3>1, <3>2, CleanerKeys, KeptKeys
  <2> QED
    BY <2>1, <2>4, <2>5 DEF Next
<1> QED
  BY <1>1, <1>2, ReportsInductive, PTL DEF Spec

\* A response is matched with a request of its own process between the same two endpoints,
\* before any request that was sent later on that flow (getConnectionKey, handleRecv,
\* tryCorrelate).
THEOREM MatchesInOrder == Spec => []MatchedInOrder
<1>1. ReportInv /\ KeyInv => MatchedInOrder
  <2> SUFFICES ASSUME ReportInv, KeyInv, NEW s \in SpanIds, spans[s].parent # NoSpan
               PROVE  LET r == spans[s].parent
                      IN  /\ r \in Requests
                          /\ spans[s].ev.kind = "recv"
                          /\ spans[r].ev.pid = spans[s].ev.pid
                          /\ {spans[r].ev.src, spans[r].ev.dst} = {spans[s].ev.src, spans[s].ev.dst}
                          /\ \A t \in Waiting(spans[r].flow) : spans[t].seq > spans[r].seq
    BY DEF MatchedInOrder
  <2>1. spans[s].parent \in Requests /\ spans[s].ev.kind = "recv"
    BY DEF ReportInv, HandInv, Named, IndInv, Lists, MatchedGone, Requests
  <2>2. /\ ConnKey(spans[spans[s].parent].ev) = ConnKey(spans[s].ev)
        /\ \A t \in Waiting(spans[spans[s].parent].flow) : spans[t].seq > spans[spans[s].parent].seq
    BY DEF KeyInv, MatchKeys
  <2> QED
    BY <2>1, <2>2, SameKeySameEnds
<1> QED
  BY <1>1, ReportsInductive, KeysInductive, PTL

-----------------------------------------------------------------------------
(* How often a span is reported.                                           *)

One(b) == IF b THEN 1 ELSE 0

\* A request was reported at most once for each of: its call returned, it left its list, its
\* flow left the map.  Any other span at most once for a match, and once more when its worker
\* has finished with it and it is not on the pending list.
CountOf(u) ==
    IF spans[u].seq > 0
    THEN spans[u].handled <= One(~InHand(u)) + One(u \notin Waiting(spans[u].flow))
                               + One(spans[u].flow \notin Live)
    ELSE spans[u].handled <= One(spans[u].parent # NoSpan) + One(~(Fresh(u) \/ Pended(u)))

Count == \A u \in SpanIds : CountOf(u)

\* No such reason is taken back.
ReasonsKept(u) ==
    /\ spans'[u].seq = spans[u].seq /\ spans'[u].flow = spans[u].flow
    /\ spans'[u].parent = spans[u].parent
    /\ InHand(u)' => InHand(u)
    /\ Fresh(u)' \/ Pended(u)' => Fresh(u) \/ Pended(u)
    /\ spans[u].seq > 0 =>
         /\ u \in Elements(flows'[spans[u].flow].reqs) => u \in Waiting(spans[u].flow)
         /\ spans[u].flow \in Live' => spans[u].flow \in Live

\* A report comes with a new reason.
Credited(u) ==
    \/ spans'[u].handled = spans[u].handled
    \/ /\ spans'[u].handled = spans[u].handled + 1
       /\ \/ spans[u].seq > 0 /\ InHand(u) /\ ~InHand(u)'
          \/ /\ spans[u].seq > 0
             /\ u \in Waiting(spans[u].flow) /\ u \notin Elements(flows'[spans[u].flow].reqs)
          \/ spans[u].seq > 0 /\ spans[u].flow \in Live /\ spans[u].flow \notin Live'
          \/ /\ ~(spans[u].seq > 0)
             /\ Fresh(u) \/ Pended(u)
             /\ ~(Fresh(u)' \/ Pended(u)')

\* One is 0 or 1, and does not fall when its argument stays true.
LEMMA OneIs ==
    ASSUME NEW b \in BOOLEAN, NEW c \in BOOLEAN
    PROVE  /\ One(b) \in {0, 1} /\ (b => One(b) = 1) /\ (~b => One(b) = 0)
           /\ (b => c) => One(b) <= One(c)
           /\ ~b /\ c => One(c) = One(b) + 1
BY DEF One

\* Then the count stays right.
LEMMA CountKept ==
    ASSUME TypeOK, NEW u \in SpanIds, CountOf(u), ReasonsKept(u), Credited(u)
    PROVE  CountOf(u)'
<1> DEFINE a == ~InHand(u)
           b == u \notin Waiting(spans[u].flow)
           c == spans[u].flow \notin Live
           d == ~(Fresh(u) \/ Pended(u))
           e == spans[u].parent # NoSpan
           x == ~InHand(u)'
           y == u \notin Elements(flows'[spans[u].flow].reqs)
           z == spans[u].flow \notin Live'
           v == ~(Fresh(u)' \/ Pended(u)')
           n == spans[u].handled
           m == spans'[u].handled
<1>1. n \in Nat
  BY DEF TypeOK, Span
<1>2. a \in BOOLEAN /\ b \in BOOLEAN /\ c \in BOOLEAN /\ d \in BOOLEAN /\ e \in BOOLEAN
      /\ x \in BOOLEAN /\ y \in BOOLEAN /\ z \in BOOLEAN /\ v \in BOOLEAN
  OBVIOUS
<1>3. /\ (a => x) /\ (d => v)
      /\ spans[u].seq > 0 => (b => y) /\ (c => z)
  BY DEF ReasonsKept
<1>4. CASE spans[u].seq > 0
  <2>1. n <= One(a) + One(b) + One(c)
    BY <1>4 DEF CountOf
  <2>2. \/ m = n
        \/ m = n + 1 /\ ((~a /\ x) \/ (~b /\ y) \/ (~c /\ z))
    BY <1>4 DEF Credited
  <2>3. spans'[u].seq > 0 /\ spans'[u].flow = spans[u].flow
    BY <1>4 DEF ReasonsKept
  <2> HIDE DEF a, b, c, x, y, z, n, m
  <2>4. /\ One(a) <= One(x) /\ One(b) <= One(y) /\ One(c) <= One(z)
        /\ One(a) \in {0, 1} /\ One(b) \in {0, 1} /\ One(c) \in {0, 1}
        /\ One(x) \in {0, 1} /\ One(y) \in {0, 1} /\ One(z) \in {0, 1}
    BY <1>2, <1>3, <1>4, OneIs
  <2>5. /\ ~a /\ x => One(x) = One(a) + 1
        /\ ~b /\ y => One(y) = One(b) + 1
        /\ ~c /\ z => One(z) = One(c) + 1
    BY <1>2, OneIs
  <2>6. m <= One(x) + One(y) + One(z)
    <3> DEFINE A == One(a)
               B == One(b)
               C == One(c)
               X == One(x)
               Y == One(y)
               Z == One(z)
    <3>1. /\ A \in {0, 1} /\ B \in {0, 1} /\ C \in {0, 1}
          /\ X \in {0, 1} /\ Y \in {0, 1} /\ Z \in {0, 1}
          /\ A <= X /\ B <= Y /\ C <= Z /\ n <= A + B + C
      BY <2>1, <2>4
    <3>2. m = n \/ (m = n + 1 /\ (X = A + 1 \/ Y = B + 1 \/ Z = C + 1))
      BY <2>2, <2>5
    <3> HIDE DEF A, B, C, X, Y, Z
    <3>3. m <= X + Y + Z
      BY <1>1, <3>1, <3>2
    <3> QED
      BY <3>3 DEF X, Y, Z
  <2> QED
    BY <2>3, <2>6 DEF CountOf, Waiting, x, y, z, m
<1>5. CASE ~(spans[u].seq > 0)
  <2>1. n <= One(e) + One(d)
    BY <1>5 DEF CountOf
  <2>2. m = n \/ (m = n + 1 /\ ~d /\ v)
    BY <1>5 DEF Credited
  <2>3. ~(spans'[u].seq > 0) /\ spans'[u].parent = spans[u].parent
    BY <1>5 DEF ReasonsKept
  <2> HIDE DEF d, e, v, n, m
  <2>4. /\ One(d) <= One(v) /\ One(d) \in {0, 1} /\ One(v) \in {0, 1} /\ One(e) \in {0, 1}
        /\ ~d /\ v => One(v) = One(d) + 1
    BY <1>2, <1>3, OneIs
  <2>5. m <= One(e) + One(v)
    <3> DEFINE D == One(d)
               E == One(e)
               V == One(v)
    <3>1. D \in {0, 1} /\ E \in {0, 1} /\ V \in {0, 1} /\ D <= V /\ n <= E + D
      BY <2>1, <2>4
    <3>2. m = n \/ (m = n + 1 /\ V = D + 1)
      BY <2>2, <2>4
    <3> HIDE DEF D, E, V
    <3>3. m <= E + V
      BY <1>1, <3>1, <3>2
    <3> QED
      BY <3>3 DEF E, V
  <2> QED
    BY <2>3, <2>5 DEF CountOf, e, v, m
<1> QED
  BY <1>4, <1>5

\* No flow that left the map comes back.
LiveKept == \A f \in FlowIds : f \in Live' => f \in Live

\* A calm step that keeps the lists keeps the count, when its reports come with reasons.
LEMMA CalmCount ==
    ASSUME TypeOK, RequestKeys, Count, Calm, FlowsKept, LiveKept,
           \A u \in SpanIds : Credited(u)
    PROVE  Count'
<1>1. SpanIds' = SpanIds
  BY DEF Calm, SpanIds
<1>2. ASSUME NEW u \in SpanIds PROVE ReasonsKept(u)
  <2>1. SpanCalm(u) /\ \A v \in Workers : WorkerCalm(v)
    BY DEF Calm
  <2>2. InHand(u)' => InHand(u)
    BY <2>1 DEF InHand, WorkerCalm
  <2>3. Fresh(u)' => Fresh(u)
    BY <2>1 DEF Fresh, WorkerCalm
  <2>4. Pended(u)' => Pended(u)
    BY <2>1 DEF Pended, SpanCalm
  <2>5. ASSUME spans[u].seq > 0
        PROVE  /\ u \in Elements(flows'[spans[u].flow].reqs) => u \in Waiting(spans[u].flow)
               /\ spans[u].flow \in Live' => spans[u].flow \in Live
    <3>1. spans[u].flow \in FlowIds
      BY <2>5 DEF RequestKeys
    <3>2. flows'[spans[u].flow].reqs = flows[spans[u].flow].reqs
      BY <3>1 DEF FlowsKept
    <3> QED
      BY <3>1, <3>2 DEF LiveKept, Waiting
  <2>6. /\ spans'[u].seq = spans[u].seq /\ spans'[u].flow = spans[u].flow
        /\ spans'[u].parent = spans[u].parent
    BY <2>1 DEF SpanCalm
  <2> QED
    BY <2>2, <2>3, <2>4, <2>5, <2>6 DEF ReasonsKept
<1>3. \A u \in SpanIds : CountOf(u)'
  BY <1>2, CountKept DEF Count
<1> QED
  BY <1>1, <1>3 DEF Count

\* Sweeping flows out of the map: what waits in them is reported, once.
LEMMA SweepCredit ==
    ASSUME TypeOK, FIFOOrder, ListedNumbered, FlowKeys, flowCount' = flowCount,
           NEW K, K \subseteq {k \in Keys : connections[k] # NoFlow}, Sweep(K)
    PROVE  LiveKept /\ \A u \in SpanIds : Credited(u)
<1> DEFINE W == UNION {Elements(flows[f].reqs) : f \in {connections[k] : k \in K}}
<1>1. /\ spans \in [SpanIds -> Span]
      /\ \A k \in Keys : connections[k] # NoFlow =>
             connections[k] \in FlowIds /\ flows[connections[k]].key = k
  BY DEF TypeOK, FlowKeys
<1>2. /\ spans' = Handled(spans, W) /\ FlowIds' = FlowIds
      /\ \A k \in Keys : connections'[k] = IF k \in K THEN NoFlow ELSE connections[k]
  BY DEF Sweep, FlowIds
<1>3. \A f \in FlowIds : f # NoFlow
  BY DEF FlowIds, NoFlow
<1>4. \A f \in FlowIds : f \in Live' <=> \E k \in Keys : connections'[k] = f
  BY <1>2 DEF Live
<1>5. \A f \in FlowIds : f \in Live <=> \E k \in Keys : connections[k] = f
  BY DEF Live
<1>6. LiveKept
  BY <1>2, <1>3, <1>4, <1>5 DEF LiveKept
<1>7. ASSUME NEW u \in SpanIds PROVE Credited(u)
  <2>1. CASE u \notin W
    <3> HIDE DEF W
    <3>1. spans'[u] = spans[u]
      BY <1>1, <1>2, <2>1 DEF Handled
    <3> QED
      BY <3>1 DEF Credited
  <2>2. CASE u \in W
    <3>1. PICK k \in K : u \in Elements(flows[connections[k]].reqs)
      BY <2>2
    <3> DEFINE f == connections[k]
    <3>2. k \in Keys /\ f \in FlowIds /\ flows[f].key = k /\ k \in K
      BY <1>1, <3>1
    <3>3. spans[u].flow = f /\ spans[u].seq > 0
      BY <3>1, <3>2 DEF Elements, FIFOOrder, ListedNumbered
    <3>4. f \in Live
      BY <1>5, <3>2
    <3>5. f \notin Live'
      <4>1. ASSUME NEW j \in Keys, connections'[j] = f PROVE FALSE
        <5>1. j \notin K /\ connections[j] = f
          BY <1>2, <1>3, <3>2, <4>1
        <5>2. flows[connections[j]].key = j
          BY <1>1, <1>3, <3>2, <5>1
        <5> QED
          BY <3>2, <5>1, <5>2
      <4> QED
        BY <1>4, <3>2, <4>1
    <3> HIDE DEF W, f
    <3>6. spans'[u] = [spans[u] EXCEPT !.handled = @ + 1]
      BY <1>1, <1>2, <2>2 DEF Handled
    <3>7. spans'[u].handled = spans[u].handled + 1
      BY <1>1, <3>6 DEF Span
    <3> QED
      BY <3>3, <3>4, <3>5, <3>7 DEF Credited
  <2> QED
    BY <2>1, <2>2
<1> QED
  BY <1>6, <1>7

\* The steps that leave the map alone, or only add a new flow to it.
LEMMA LiveStays ==
    ASSUME TypeOK,
           \/ UNCHANGED <<connections, flowCount>>
           \/ \E k \in Keys : InstallFlow(k)
    PROVE  LiveKept
<1>1. flowCount \in Nat /\ connections \in [Keys -> {NoFlow} \cup FlowIds]
  BY DEF TypeOK
<1>2. CASE UNCHANGED <<connections, flowCount>>
  BY <1>2 DEF LiveKept, Live, FlowIds
<1>3. ASSUME NEW k \in Keys, InstallFlow(k) PROVE LiveKept
  <2>1. connections' = [connections EXCEPT ![k] = flowCount + 1]
    BY <1>3 DEF InstallFlow
  <2>2. flowCount + 1 \notin FlowIds
    BY <1>1 DEF FlowIds
  <2>3. \A f \in FlowIds : \A j \in Keys : connections'[j] = f => connections[j] = f
    BY <1>1, <2>1, <2>2
  <2> QED
    BY <2>3 DEF LiveKept, Live
<1> QED
  BY <1>2, <1>3

\* A calm step of a worker reports what it should.
LEMMA WorkerCredit ==
    ASSUME IndInv, HandInv, FlowKeys, NEW w \in Workers, CalmStep(w)
    PROVE  LiveKept /\ \A u \in SpanIds : Credited(u)
<1> DEFINE s == worker[w].span
<1>0. /\ TypeOK /\ FIFOOrder /\ ListedNumbered /\ DistinctHands /\ Retrying /\ Pending
      /\ spans \in [SpanIds -> Span] /\ worker \in [Workers -> Worker]
      /\ \A u \in SpanIds : spans[u] \in Span
  BY DEF IndInv, Lists, HandInv, TypeOK
<1>a. ASSUME spans' = spans PROVE \A u \in SpanIds : Credited(u)
  BY <1>a DEF Credited
<1>b. ASSUME Orphan(s) PROVE \A u \in SpanIds : Credited(u)
  <2>1. \A u \in SpanIds : spans'[u].handled = spans[u].handled
    BY <1>0, <1>b DEF Orphan, Span
  <2> QED
    BY <2>1 DEF Credited
<1>1. CASE HandleOpen(w) \/ CreateFlow(w)
  <2>1. Key(w) \in Keys
    BY <1>0, <1>1, KeyType DEF HandleOpen, CreateFlow
  <2> QED
    BY <1>0, <1>1, <1>a, <2>1, LiveStays DEF HandleOpen, CreateFlow
<1>2. CASE LookupFlow(w) \/ CountInflight(w) \/ Touch(w) \/ TryPeek(w)
  BY <1>0, <1>2, <1>a, LiveStays DEF LookupFlow, CountInflight, Touch, TryPeek
<1>3. CASE RecvPeek(w)
  <2>1. UNCHANGED <<connections, flowCount>> /\ (Orphan(s) \/ spans' = spans)
    BY <1>3 DEF RecvPeek
  <2> QED
    BY <1>0, <1>a, <1>b, <2>1, LiveStays
<1>4. CASE HandleClose(w)
  <2>1. Key(w) \in Keys
    BY <1>0, <1>4, KeyType DEF HandleClose
  <2>2. CASE connections[Key(w)] # NoFlow /\ Sweep({Key(w)})
    <3>1. {Key(w)} \subseteq {k \in Keys : connections[k] # NoFlow} /\ flowCount' = flowCount
      BY <1>4, <2>1, <2>2 DEF HandleClose
    <3> QED
      BY <1>0, <2>2, <3>1, SweepCredit
  <2>3. CASE UNCHANGED <<spans, connections>>
    BY <1>0, <1>4, <1>a, <2>3, LiveStays DEF HandleClose
  <2> QED
    BY <1>4, <2>2, <2>3 DEF HandleClose
<1>5. CASE Finish(w)
  <2>1. /\ spans' = Handled(spans, {s}) /\ worker' = [worker EXCEPT ![w] = IdleWorker]
        /\ worker[w].pc = "finish" /\ UNCHANGED <<connections, flowCount>>
    BY <1>5 DEF Finish, CalmStep
  <2>2. s \in SpanIds /\ ~worker[w].retry
    BY <1>0, <2>1 DEF TypeOK, Retrying, Early
  <2>3. /\ worker'[w].pc = "idle" /\ \A v \in Workers : v # w => worker'[v] = worker[v]
    BY <1>0, <2>1 DEF IdleWorker
  <2>4. \A v \in Workers : v # w /\ worker[v].pc # "idle" => worker[v].span # s
    BY <1>0, <2>1 DEF DistinctHands
  <2>5. InHand(s) /\ Fresh(s)
    BY <2>1, <2>2 DEF InHand, Fresh
  <2>6. \A k : k = s => ~InHand(k)' /\ ~Fresh(k)'
    BY <2>3, <2>4 DEF InHand, Fresh
  <2> HIDE DEF s
  <2>7. /\ spans'[s] = [spans[s] EXCEPT !.handled = @ + 1]
        /\ \A u \in SpanIds : u # s => spans'[u] = spans[u]
    BY <1>0, <2>1, <2>2 DEF Handled
  <2>8. spans'[s].handled = spans[s].handled + 1 /\ spans'[s].pend = spans[s].pend
    BY <1>0, <2>2, <2>7 DEF Span
  <2>9. spans[s].pend = NotPending
    BY <1>0, <2>2, <2>5 DEF Pending, Pended
  <2>10. ASSUME NEW u \in SpanIds, u = s PROVE Credited(u)
    <3>1. /\ ~InHand(u)' /\ ~Fresh(u)' /\ InHand(u) /\ Fresh(u)
          /\ spans'[u].handled = spans[u].handled + 1
      BY <2>5, <2>6, <2>8, <2>10
    <3>2. ~Pended(u)'
      BY <2>8, <2>9, <2>10 DEF Pended
    <3> QED
      BY <3>1, <3>2 DEF Credited
  <2>11. \A u \in SpanIds : u # s => Credited(u)
    BY <2>7 DEF Credited
  <2> QED
    BY <1>0, <2>1, <2>10, <2>11, LiveStays
<1>6. CASE Unpend(w)
  <2> DEFINE r == spans[s].parent
  <2>1. spans' = [spans EXCEPT ![s].pend = NotPending, ![r].pend = NotPending]
        /\ UNCHANGED <<connections, flowCount>>
    BY <1>6 DEF Unpend
  <2> HIDE DEF s, r
  <2>2. \A u \in SpanIds : spans'[u].handled = spans[u].handled
    BY <1>0, <2>1 DEF Span
  <2> QED
    BY <1>0, <2>1, <2>2, LiveStays DEF Credited
<1>7. CASE (RecvPop(w) \/ TryPop(w)) /\ flows[worker[w].flow].reqs = <<>>
  <2>1. UNCHANGED <<connections, flowCount>> /\ (Orphan(s) \/ spans' = spans)
    BY <1>7 DEF RecvPop, TryPop, Match
  <2> QED
    BY <1>0, <1>a, <1>b, <2>1, LiveStays
<1> QED
  BY <1>1, <1>2, <1>3, <1>4, <1>5, <1>6, <1>7 DEF CalmStep, QuietStep

\* So do the cleanup and the clock.
LEMMA CleanerCredit ==
    ASSUME IndInv, HandInv, FlowKeys, CleanerStep \/ Tick \/ UNCHANGED vars
    PROVE  LiveKept /\ \A u \in SpanIds : Credited(u)
<1>0. /\ TypeOK /\ FIFOOrder /\ ListedNumbered /\ Pending
      /\ spans \in [SpanIds -> Span] /\ \A u \in SpanIds : spans[u] \in Span
  BY DEF IndInv, Lists, HandInv, TypeOK
<1>1. worker' = worker /\ flowCount' = flowCount
  BY DEF CleanerStep, CleanStart, CleanMeet, CleanSettle, CleanPendingDone, CleanConns, Tick, vars
<1>a. ASSUME \A u \in SpanIds : spans'[u].handled = spans[u].handled, connections' = connections
      PROVE  LiveKept /\ \A u \in SpanIds : Credited(u)
  BY <1>0, <1>1, <1>a, LiveStays DEF Credited
<1>2. CASE CleanStart \/ (\E s \in SpanIds : CleanMeet(s)) \/ CleanPendingDone \/ UNCHANGED vars
  BY <1>2, <1>a DEF CleanStart, CleanMeet, CleanPendingDone, vars
<1>3. CASE CleanSettle
  <2> DEFINE s == cleaner.span
             h == Handled(spans, {s})
             id == IF cleaner.gen THEN GeneratedID(s) ELSE spans[s].traceID
  <2>1. s \in SpanIds /\ spans[s].seq = 0 /\ Pended(s) /\ ~Fresh(s) /\ connections' = connections
    BY <1>0, <1>3 DEF CleanSettle, TypeOK, Pending, Pended
  <2>2. /\ spans' = [h EXCEPT ![s] = [@ EXCEPT !.traceID = id, !.pend = NotPending,
                                               !.timedOut = TRUE]]
    BY <1>3 DEF CleanSettle
  <2> HIDE DEF id, s
  <2>3. /\ h \in [SpanIds -> Span]
        /\ h[s] = [spans[s] EXCEPT !.handled = @ + 1]
        /\ \A u \in SpanIds : u # s => h[u] = spans[u]
    BY <1>0, <2>1 DEF Handled, Span
  <2> HIDE DEF h
  <2>4. /\ spans'[s] = [h[s] EXCEPT !.traceID = id, !.pend = NotPending, !.timedOut = TRUE]
        /\ \A u \in SpanIds : u # s => spans'[u] = spans[u]
    BY <2>1, <2>2, <2>3
  <2>5. h[s].handled = spans[s].handled + 1 /\ h[s] \in Span
    BY <1>0, <2>1, <2>3 DEF Span
  <2>6. spans'[s].handled = spans[s].handled + 1 /\ spans'[s].pend = NotPending
    BY <2>4, <2>5 DEF Span
  <2>7. ASSUME NEW u \in SpanIds, u = s PROVE Credited(u)
    <3>1. /\ spans'[u].handled = spans[u].handled + 1 /\ ~(spans[u].seq > 0)
          /\ Pended(u) /\ ~Fresh(u)
      BY <2>1, <2>6, <2>7
    <3>2. ~Pended(u)'
      BY <2>6, <2>7 DEF Pended
    <3>3. ~Fresh(u)'
      BY <1>1, <3>1 DEF Fresh
    <3> QED
      BY <3>1, <3>2, <3>3 DEF Credited
  <2>8. \A u \in SpanIds : u # s => Credited(u)
    BY <2>4 DEF Credited
  <2> QED
    BY <1>0, <1>1, <2>1, <2>7, <2>8, LiveStays
<1>4. CASE CleanConns
  <2> DEFINE K == {k \in Keys : connections[k] # NoFlow /\ flows[connections[k]].idle = Expired}
  <2>1. Sweep(K) /\ K \subseteq {k \in Keys : connections[k] # NoFlow}
    BY <1>4 DEF CleanConns
  <2> HIDE DEF K
  <2> QED
    BY <1>0, <1>1, <2>1, SweepCredit
<1>5. CASE Tick
  <2>1. connections' = connections
    BY <1>5 DEF Tick
  <2>2. ASSUME NEW u \in SpanIds PROVE spans'[u].handled = spans[u].handled
    <3> DEFINE a == IF spans[u].pend = NotPending THEN spans[u].pend ELSE Older(spans[u].pend)
    <3>1. spans'[u] = [spans[u] EXCEPT !.pend = a]
      BY <1>5 DEF Tick
    <3> HIDE DEF a
    <3> QED
      BY <1>0, <3>1 DEF Span
  <2> QED
    BY <1>a, <2>1, <2>2
<1> QED
  BY <1>2, <1>3, <1>4, <1>5 DEF CleanerStep

\* Steps in which only worker w moves, with the span it holds, keep the hands.
LEMMA SameHands ==
    ASSUME NEW w \in Workers, worker[w].pc # "idle", worker'[w].pc # "idle",
           worker'[w].span = worker[w].span, worker[w].retry => worker'[w].retry,
           \A v \in Workers : v # w => worker'[v] = worker[v], NEW u
    PROVE  (InHand(u)' => InHand(u)) /\ (Fresh(u)' => Fresh(u))
BY DEF InHand, Fresh

\* Putting a span on the pending list reports nothing.
LEMMA PendCount ==
    ASSUME IndInv, HandInv, RequestKeys, Count, NEW w \in Workers, Finish(w),
           spans[worker[w].span].traceID = EmptyID
    PROVE  Count'
<1> DEFINE s == worker[w].span
<1>0. TypeOK /\ Retrying /\ worker \in [Workers -> Worker] /\ \A u \in SpanIds : spans[u] \in Span
  BY DEF IndInv, HandInv, TypeOK
<1>1. /\ s \in SpanIds
      /\ spans'[s] = [spans[s] EXCEPT !.pend = 0]
      /\ \A u \in SpanIds : u # s => spans'[u] = spans[u]
      /\ worker'[w].pc = "lookup" /\ worker'[w].span = s /\ worker'[w].retry
  BY PendSpans
<1>2. /\ worker[w].pc = "finish" /\ SpanIds' = SpanIds
      /\ UNCHANGED <<flows, flowCount, connections>>
      /\ \A v \in Workers : v # w => worker'[v] = worker[v]
  BY <1>0 DEF Finish, SpanIds
<1>3. Fresh(s)
  BY <1>0, <1>2 DEF Fresh, Retrying, Early
<1>4. /\ spans'[s].seq = spans[s].seq /\ spans'[s].flow = spans[s].flow
      /\ spans'[s].parent = spans[s].parent /\ spans'[s].handled = spans[s].handled
  BY <1>0, <1>1 DEF Span
<1>5. \A u \in SpanIds : (InHand(u)' => InHand(u)) /\ (Fresh(u)' => Fresh(u))
  BY <1>1, <1>2, SameHands
<1>6. Live' = Live
  BY <1>2 DEF Live, FlowIds
<1> HIDE DEF s
<1>7. ASSUME NEW u \in SpanIds PROVE CountOf(u)'
  <2>1. /\ spans'[u].seq = spans[u].seq /\ spans'[u].flow = spans[u].flow
        /\ spans'[u].parent = spans[u].parent /\ spans'[u].handled = spans[u].handled
    BY <1>1, <1>4
  <2>2. Fresh(u)' \/ Pended(u)' => Fresh(u) \/ Pended(u)
    <3>1. CASE u = s
      BY <1>3, <3>1
    <3>2. CASE u # s
      BY <1>1, <1>5, <3>2 DEF Pended
    <3> QED
      BY <3>1, <3>2
  <2>3. ReasonsKept(u)
    BY <1>2, <1>5, <1>6, <2>1, <2>2 DEF ReasonsKept, Waiting
  <2>4. Credited(u) /\ CountOf(u)
    BY <2>1 DEF Credited, Count
  <2> QED
    BY <1>0, <2>3, <2>4, CountKept
<1> QED
  BY <1>2, <1>7 DEF Count

\* A sent request was not reported before; the one it pushes out leaves its list.
LEMMA SendCount ==
    ASSUME IndInv, HandInv, RequestKeys, Count, NEW w \in Workers, SendRequest(w)
    PROVE  Count'
<1> DEFINE s == worker[w].span
           f == worker[w].flow
           D == Oldest(flows[f].reqs)
<1>0. /\ TypeOK /\ FIFOOrder /\ ListedNumbered
      /\ worker \in [Workers -> Worker] /\ \A u \in SpanIds : spans[u] \in Span
  BY DEF IndInv, Lists, TypeOK
<1>1. /\ s \in SpanIds /\ f \in FlowIds /\ spans[s].seq = 0 /\ spans[s].parent = NoSpan
      /\ D \subseteq Waiting(f) /\ spans'[s].seq > 0
      /\ spans'[s].handled = spans[s].handled
      /\ \A u \in SpanIds : u # s =>
            /\ u \in D => spans'[u] = [spans[u] EXCEPT !.handled = @ + 1]
            /\ u \notin D => spans'[u] = spans[u]
  BY SendSpans
<1>2. /\ flowCount' = flowCount /\ connections' = connections
      /\ Elements(flows'[f].reqs) = (Waiting(f) \ D) \cup {s}
      /\ \A g \in FlowIds : g # f => flows'[g] = flows[g]
  BY SendWaiting
<1>3. /\ worker[w].pc = "body" /\ ~worker[w].retry /\ SpanIds' = SpanIds
      /\ worker' = [worker EXCEPT ![w].pc = "count"]
  BY DEF SendRequest, SpanIds
<1>4. /\ worker'[w].pc # "idle" /\ worker'[w].span = worker[w].span
      /\ worker'[w].retry = worker[w].retry
      /\ \A v \in Workers : v # w => worker'[v] = worker[v]
  BY <1>0, <1>3 DEF Worker
<1>5. \A u \in SpanIds : (InHand(u)' => InHand(u)) /\ (Fresh(u)' => Fresh(u))
  BY <1>3, <1>4, SameHands
<1>6. Live' = Live
  BY <1>2 DEF Live, FlowIds
<1>7. \A u \in Waiting(f) : spans[u].flow = f /\ spans[u].seq > 0
  BY <1>0, <1>1 DEF Waiting, Elements, FIFOOrder, ListedNumbered
<1>8. Fresh(s)
  BY <1>3 DEF Fresh
<1> HIDE DEF D, s, f
<1>9. ASSUME NEW u \in SpanIds, u # s PROVE CountOf(u)'
  <2>1. SpanCalm(u) /\ spans'[u].pend = spans[u].pend
    <3>1. spans'[u] = [spans[u] EXCEPT !.handled = @ + 1] \/ spans'[u] = spans[u]
      BY <1>1, <1>9
    <3> QED
      BY <1>0, <3>1, ReportedCalm
  <2>2. spans[u].seq > 0 /\ u \in Elements(flows'[spans[u].flow].reqs) => u \in Waiting(spans[u].flow)
    <3>1. CASE spans[u].flow = f
      BY <1>2, <1>9, <3>1
    <3>2. CASE spans[u].flow # f
      BY <1>2, <3>2 DEF RequestKeys, Waiting
    <3> QED
      BY <3>1, <3>2
  <2>3. ReasonsKept(u)
    BY <1>5, <1>6, <2>1, <2>2 DEF ReasonsKept, SpanCalm, Pended
  <2>4. Credited(u)
    <3>1. CASE u \in D
      <4>1. spans[u].flow = f /\ spans[u].seq > 0 /\ u \in Waiting(f)
        BY <1>1, <1>7, <3>1
      <4>2. u \notin Elements(flows'[f].reqs)
        BY <1>2, <1>9, <3>1
      <4>3. spans'[u].handled = spans[u].handled + 1
        BY <1>0, <1>1, <1>9, <3>1, ReportedCalm
      <4> QED
        BY <4>1, <4>2, <4>3 DEF Credited
    <3>2. CASE u \notin D
      BY <1>1, <1>9, <3>2 DEF Credited
    <3> QED
      BY <3>1, <3>2
  <2> QED
    BY <1>0, <2>3, <2>4, CountKept DEF Count
<1>10. ASSUME NEW u \in SpanIds, u = s PROVE CountOf(u)'
  <2>1. CountOf(u) /\ Fresh(u) /\ ~(spans[u].seq > 0) /\ ~(spans[u].parent # NoSpan)
    BY <1>1, <1>8, <1>10 DEF Count
  <2>2. One(spans[u].parent # NoSpan) = 0 /\ One(~(Fresh(u) \/ Pended(u))) = 0
    BY <2>1 DEF One
  <2>3. spans[u].handled <= 0 + 0
    BY <2>1, <2>2 DEF CountOf
  <2>4. spans'[u].handled = 0 /\ spans'[u].seq > 0
    <3>1. spans[u].handled \in Nat
      BY <1>0 DEF Span
    <3> QED
      BY <1>1, <1>10, <2>3, <3>1
  <2>5. /\ One(~InHand(u)') \in Nat /\ One(u \notin Elements(flows'[spans'[u].flow].reqs)) \in Nat
        /\ One(spans'[u].flow \notin Live') \in Nat
    BY DEF One
  <2>6. spans'[u].handled <= One(~InHand(u)') + One(u \notin Elements(flows'[spans'[u].flow].reqs))
                               + One(spans'[u].flow \notin Live')
    <3> DEFINE A == One(~InHand(u)')
               B == One(u \notin Elements(flows'[spans'[u].flow].reqs))
               C == One(spans'[u].flow \notin Live')
    <3>1. A \in Nat /\ B \in Nat /\ C \in Nat
      BY <2>5
    <3> HIDE DEF A, B, C
    <3>2. spans'[u].handled <= A + B + C
      BY <2>4, <3>1
    <3> QED
      BY <3>2 DEF A, B, C
  <2> QED
    BY <2>4, <2>6 DEF CountOf, Waiting
<1>11. \A u \in SpanIds : CountOf(u)'
  BY <1>9, <1>10
<1> QED
  BY <1>3, <1>11 DEF Count

\* A match reports the request, which leaves its list, and the response, which gets a parent.
LEMMA MatchCount ==
    ASSUME IndInv, HandInv, RequestKeys, Count, NEW w \in Workers,
           RecvPop(w) \/ TryPop(w), Match(w)
    PROVE  Count'
<1> DEFINE s == worker[w].span
           f == worker[w].flow
           r == Head(flows[f].reqs)
<1>0. /\ TypeOK /\ worker \in [Workers -> Worker] /\ \A u \in SpanIds : spans[u] \in Span
  BY DEF IndInv, TypeOK
<1>1. /\ worker[w].pc = "pop" /\ SpanIds' = SpanIds
      /\ UNCHANGED <<flowCount, connections>>
      /\ \E p \in {"finish", "unpend"} : worker' = [worker EXCEPT ![w].pc = p]
  <2>1. flows[f].reqs # <<>>
    BY DEF Match
  <2> QED
    BY <2>1 DEF RecvPop, TryPop, SpanIds
<1>2. /\ s \in SpanIds /\ f \in FlowIds /\ spans[s].seq = 0 /\ spans[s].parent = NoSpan
      /\ r \in SpanIds /\ r # s /\ r # NoSpan /\ spans[r].seq > 0 /\ r \in Waiting(f)
      /\ spans'[s].parent = r /\ spans'[s].seq = 0 /\ spans'[s].pend = spans[s].pend
      /\ spans'[s].handled = spans[s].handled + 1
      /\ spans'[r] = [spans[r] EXCEPT !.handled = @ + 1]
      /\ \A u \in SpanIds : u # s /\ u # r => spans'[u] = spans[u]
  BY <1>1, MatchSpans
<1>3. /\ Elements(flows'[f].reqs) = Waiting(f) \ {r}
      /\ spans[r].flow = f
      /\ \A g \in FlowIds : g # f => flows'[g] = flows[g]
  BY <1>1, MatchWaiting
<1>4. /\ worker'[w].pc # "idle" /\ worker'[w].span = worker[w].span
      /\ worker'[w].retry = worker[w].retry
      /\ \A v \in Workers : v # w => worker'[v] = worker[v]
  BY <1>0, <1>1 DEF Worker
<1>5. \A u \in SpanIds : (InHand(u)' => InHand(u)) /\ (Fresh(u)' => Fresh(u))
  BY <1>1, <1>4, SameHands
<1>6. Live' = Live
  BY <1>1 DEF Live, FlowIds
<1> HIDE DEF r, s, f
<1>7. ASSUME NEW u \in SpanIds, u # s PROVE CountOf(u)'
  <2>1. SpanCalm(u) /\ spans'[u].pend = spans[u].pend
    <3>1. spans'[u] = [spans[u] EXCEPT !.handled = @ + 1] \/ spans'[u] = spans[u]
      BY <1>2, <1>7
    <3> QED
      BY <1>0, <3>1, ReportedCalm
  <2>2. spans[u].seq > 0 /\ u \in Elements(flows'[spans[u].flow].reqs) => u \in Waiting(spans[u].flow)
    <3>1. CASE spans[u].flow = f
      BY <1>3, <3>1
    <3>2. CASE spans[u].flow # f
      BY <1>3, <3>2 DEF RequestKeys, Waiting
    <3> QED
      BY <3>1, <3>2
  <2>3. ReasonsKept(u)
    BY <1>5, <1>6, <2>1, <2>2 DEF ReasonsKept, SpanCalm, Pended
  <2>4. Credited(u)
    <3>1. CASE u = r
      <4>1. spans[u].flow = f /\ spans[u].seq > 0 /\ u \in Waiting(f)
            /\ u \notin Elements(flows'[f].reqs)
        BY <1>2, <1>3, <3>1
      <4>2. spans'[u].handled = spans[u].handled + 1
        BY <1>0, <1>2, <3>1, ReportedCalm
      <4> QED
        BY <4>1, <4>2 DEF Credited
    <3>2. CASE u # r
      BY <1>2, <1>7, <3>2 DEF Credited
    <3> QED
      BY <3>1, <3>2
  <2> QED
    BY <1>0, <2>3, <2>4, CountKept DEF Count
<1>8. ASSUME NEW u \in SpanIds, u = s PROVE CountOf(u)'
  <2> DEFINE a == ~(Fresh(u) \/ Pended(u))
             b == ~(Fresh(u)' \/ Pended(u)')
  <2>1. CountOf(u) /\ ~(spans[u].seq > 0) /\ ~(spans[u].parent # NoSpan)
    BY <1>2, <1>8 DEF Count
  <2>2. One(spans[u].parent # NoSpan) = 0 /\ One(spans'[u].parent # NoSpan) = 1
    BY <1>2, <1>8, <2>1 DEF One
  <2>3. spans[u].handled <= 0 + One(a)
    BY <2>1, <2>2 DEF CountOf
  <2>4. a => b
    BY <1>2, <1>5, <1>8 DEF Pended
  <2>5. a \in BOOLEAN /\ b \in BOOLEAN
    OBVIOUS
  <2> HIDE DEF a, b
  <2>6. One(a) <= One(b) /\ One(a) \in {0, 1} /\ One(b) \in {0, 1}
    BY <2>4, <2>5, OneIs
  <2>7. spans'[u].handled = spans[u].handled + 1 /\ ~(spans'[u].seq > 0) /\ spans[u].handled \in Nat
    BY <1>0, <1>2, <1>8 DEF Span
  <2>8. spans'[u].handled <= 1 + One(b)
    <3> DEFINE A == One(a)
               B == One(b)
    <3>1. A \in {0, 1} /\ B \in {0, 1} /\ A <= B /\ spans[u].handled <= 0 + A
      BY <2>3, <2>6
    <3> HIDE DEF A, B
    <3>2. spans'[u].handled <= 1 + B
      BY <2>7, <3>1
    <3> QED
      BY <3>2 DEF B
  <2>9. spans'[u].handled <= One(spans'[u].parent # NoSpan) + One(b)
    BY <2>2, <2>8
  <2> QED
    BY <2>7, <2>9 DEF CountOf, b
<1>9. \A u \in SpanIds : CountOf(u)'
  BY <1>7, <1>8
<1> QED
  BY <1>1, <1>9 DEF Count

\* A span that is received was never reported.
LEMMA ReceiveCount ==
    ASSUME IndInv, HandInv, RequestKeys, Count, NEW w \in Workers, NEW e \in Events, Receive(w, e)
    PROVE  Count'
<1> DEFINE n == total + 1
<1>0. /\ TypeOK /\ total \in Nat /\ worker \in [Workers -> Worker]
      /\ \A u \in SpanIds : spans[u] \in Span
  BY DEF IndInv, TypeOK
<1>1. /\ SpanIds' = SpanIds \cup {n} /\ n \notin SpanIds
      /\ UNCHANGED <<flows, flowCount, connections>>
  BY <1>0 DEF Receive, SpanIds
<1>2. /\ \A u \in SpanIds : spans'[u] = spans[u]
      /\ spans'[n].seq = 0 /\ spans'[n].handled = 0
  BY <1>0 DEF Receive, Extend, SpanIds
<1>3. /\ worker'[w].span = n /\ \A v \in Workers : v # w => worker'[v] = worker[v]
  BY <1>0 DEF Receive
<1>4. Live' = Live
  BY <1>1 DEF Live, FlowIds
<1> HIDE DEF n
<1>5. ASSUME NEW u \in SpanIds PROVE CountOf(u)'
  <2>1. (InHand(u)' => InHand(u)) /\ (Fresh(u)' => Fresh(u))
    BY <1>1, <1>3 DEF InHand, Fresh
  <2>2. spans'[u] = spans[u] /\ (Pended(u)' => Pended(u))
    BY <1>2 DEF Pended
  <2>3. ReasonsKept(u)
    BY <1>1, <1>4, <2>1, <2>2 DEF ReasonsKept, Waiting
  <2>4. Credited(u) /\ CountOf(u)
    BY <2>2 DEF Credited, Count
  <2> QED
    BY <1>0, <2>3, <2>4, CountKept
<1>6. ASSUME NEW u, u = n PROVE CountOf(u)'
  <2> DEFINE A == One(spans'[u].parent # NoSpan)
             B == One(~(Fresh(u)' \/ Pended(u)'))
  <2>1. A \in Nat /\ B \in Nat
    BY DEF One
  <2>2. spans'[u].seq = 0 /\ spans'[u].handled = 0
    BY <1>2, <1>6
  <2> HIDE DEF A, B
  <2>3. spans'[u].handled <= A + B
    BY <2>1, <2>2
  <2> QED
    BY <2>2, <2>3 DEF CountOf, A, B
<1>7. \A u \in SpanIds' : CountOf(u)'
  BY <1>1, <1>5, <1>6
<1> QED
  BY <1>7 DEF Count

\* Every report of a span has its reason (ProcessEvent, handleRecv, tryCorrelate,
\* handleClose, cleanupExpired).
THEOREM CountInductive == Spec => []Count
<1>1. Init => Count
  BY DEF Init, SpanIds, Count
<1>2. ReportInv /\ KeyInv /\ Count /\ [Next]_vars => Count'
  <2> SUFFICES ASSUME ReportInv, KeyInv, Count, [Next]_vars PROVE Count'
    OBVIOUS
  <2>0. IndInv /\ HandInv /\ LostInv /\ TypeOK /\ FlowKeys /\ RequestKeys
    BY DEF ReportInv, IndInv, KeyInv
  <2>1. ASSUME NEW w \in Workers, NEW e \in Events, Receive(w, e) PROVE Count'
    BY <2>0, <2>1, ReceiveCount
  <2>2. ASSUME NEW w \in Workers, CalmStep(w) PROVE Count'
    <3>1. QuietStep(w)
      BY <2>2 DEF CalmStep
    <3>2. Calm /\ FlowsKept
      BY <2>0, <2>2, <3>1, WorkerStepsCalm, QuietKept
    <3>3. LiveKept /\ \A u \in SpanIds : Credited(u)
      BY <2>0, <2>2, WorkerCredit
    <3> QED
      BY <2>0, <3>2, <3>3, CalmCount
  <2>3. ASSUME NEW w \in Workers, WorkerStep(w) PROVE Count'
    BY <2>0, <2>2, <2>3, WorkerStepKinds, PendCount, SendCount, MatchCount
  <2>4. CASE CleanerStep \/ Tick \/ UNCHANGED vars
    <3>1. FlowsKept
      <4>1. CASE UNCHANGED vars
        BY <4>1 DEF vars, FlowsKept, FlowIds
      <4> QED
        BY <2>0, <2>4, <4>1, CleanerKept
    <3>2. Calm
      BY <2>0, <2>4, CleanerStepsCalm
    <3>3. LiveKept /\ \A u \in SpanIds : Credited(u)
      BY <2>0, <2>4, CleanerCredit
    <3> QED
      BY <2>0, <3>1, <3>2, <3>3, CalmCount
  <2> QED
    BY <2>1, <2>3, <2>4 DEF Next
<1> QED
  BY <1>1, <1>2, ReportsInductive, KeysInductive, PTL DEF Spec

\* A request is reported as matched, dropped or swept at most twice, and twice only when its
\* flow left the map under a worker that still held it; any other span is reported at most
\* twice, and twice only when it was matched (handleSend, handleRecv, tryCorrelate,
\* handleClose, cleanupExpired).
THEOREM SettledTwiceAtMost == Spec => []SettledAtMostTwice
<1>1. TypeOK /\ Count => SettledAtMostTwice
  <2> SUFFICES ASSUME TypeOK, Count, NEW s \in SpanIds
               PROVE  IF s \in Requests
                      THEN /\ Settlements(s) <= 2
                           /\ Settlements(s) = 2 => spans[s].flow \notin Live
                      ELSE /\ spans[s].handled <= 2
                           /\ spans[s].handled = 2 => spans[s].parent # NoSpan
    BY DEF SettledAtMostTwice
  <2>1. CountOf(s) /\ spans[s].handled \in Nat
    BY DEF Count, TypeOK, Span
  <2>2. CASE s \in Requests
    <3> DEFINE A == One(~InHand(s))
               B == One(s \notin Waiting(spans[s].flow))
               C == One(spans[s].flow \notin Live)
    <3>1. spans[s].handled <= A + B + C
      BY <2>1, <2>2 DEF CountOf, Requests
    <3>2. /\ A \in {0, 1} /\ B \in {0, 1} /\ C \in {0, 1}
          /\ C = 1 => spans[s].flow \notin Live
      BY DEF One
    <3>3. Settlements(s) = spans[s].handled - A
      BY DEF Settlements, One
    <3> HIDE DEF A, B, C
    <3>4. Settlements(s) <= 2 /\ (Settlements(s) = 2 => C = 1)
      BY <2>1, <3>1, <3>2, <3>3
    <3> QED
      BY <2>2, <3>2, <3>4
  <2>3. CASE s \notin Requests
    <3> DEFINE A == One(spans[s].parent # NoSpan)
               B == One(~(Fresh(s) \/ Pended(s)))
    <3>1. spans[s].handled <= A + B
      BY <2>1, <2>3 DEF CountOf, Requests
    <3>2. A \in {0, 1} /\ B \in {0, 1} /\ (A = 1 => spans[s].parent # NoSpan)
      BY DEF One
    <3> HIDE DEF A, B
    <3>3. spans[s].handled <= 2 /\ (spans[s].handled = 2 => A = 1)
      BY <2>1, <3>1, <3>2
    <3> QED
      BY <2>3, <3>2, <3>3
  <2> QED
    BY <2>2, <2>3
<1> QED
  BY <1>1, TypeCorrect, CountInductive, PTL

-----------------------------------------------------------------------------
(* The gauge of waiting requests.                                          *)

\* What is left of a number besides a multiple of the counters' range.
LEMMA Remainder ==
    ASSUME NEW x \in Int, NEW q \in Int, NEW r \in 0..(CtrMod - 1), x = q * CtrMod + r
    PROVE  x % CtrMod = r
  BY BoundAssumption, SMT

\* Unsigned counters may be added to in any order.
LEMMA AddAdd ==
    ASSUME NEW n \in Int, NEW d \in Int, NEW e \in Int
    PROVE  Add(Add(n, d), e) = Add(n, d + e)
<1> DEFINE K == CtrMod
           x == n + d
           y == n + (d + e)
           r == x % K
           q == x \div K
           t == y % K
           p == y \div K
<1>1. K \in Nat \ {0}
  BY BoundAssumption
<1>2. x \in Int /\ y \in Int /\ y = x + e
  OBVIOUS
<1> HIDE DEF K, x, y
<1>3. x = K * q + r /\ q \in Int /\ r \in 0..(K - 1)
  BY <1>1, <1>2, SMT
<1>4. y = K * p + t /\ p \in Int /\ t \in 0..(K - 1)
  BY <1>1, <1>2, SMT
<1> HIDE DEF q, r, p, t
<1>5. r + e = (p - q) * K + t
  <2>1. (p - q) * K = K * p - K * q
    BY <1>1, <1>3, <1>4, SMT
  <2>2. K * p \in Int /\ K * q \in Int
    BY <1>1, <1>3, <1>4
  <2> DEFINE a == K * p
             c == K * q
             g == (p - q) * K
  <2>3. g = a - c /\ a \in Int /\ c \in Int /\ x = c + r /\ y = a + t
    BY <1>3, <1>4, <2>1, <2>2
  <2>4. r \in Int /\ t \in Int
    BY <1>1, <1>3, <1>4
  <2> HIDE DEF a, c, g
  <2>5. r + e = g + t
    BY <1>2, <2>3, <2>4
  <2> QED
    BY <2>5 DEF g
<1>6. (r + e) % K = t
  <2>1. r + e \in Int /\ p - q \in Int
    BY <1>1, <1>3, <1>4
  <2> QED
    BY <1>4, <1>5, <2>1, Remainder DEF K
<1>7. r = Add(n, d) /\ t = Add(n, d + e)
  BY DEF r, t, x, y, K, Add
<1> QED
  BY <1>6, <1>7 DEF Add, K

\* Adding nothing changes nothing.
LEMMA AddNothing ==
    ASSUME NEW n \in 0..(CtrMod - 1)
    PROVE  Add(n, 0) = n
  BY BoundAssumption DEF Add

\* The requests that were not yet settled, and those that were settled twice.
Open == {s \in Requests : Settlements(s) = 0}
Twice == {s \in Requests : Settlements(s) = 2}

\* The workers that have sent a request and not yet counted it.
Counting == {w \in Workers : worker[w].pc = "count"}

Net == Cardinality(Open) - Cardinality(Twice)

\* InflightRequests at any moment: what GaugeAtRest says, but for the requests
\* that are still to be counted.
InflightExact == stats.inflight = Add(stats.dropped, Net - Cardinality(Counting))

\* A request is settled at most twice.
Within == \A s \in Requests : Settlements(s) \in 0..2

\* The step settles the requests of M once, no other one, and sends those of N.
Settles(M, N) ==
    /\ M \subseteq Requests
    /\ N \subseteq SpanIds' /\ N \cap Requests = {} /\ Requests' = Requests \cup N
    /\ \A s \in N : Settlements(s)' = 0
    /\ \A s \in Requests : Settlements(s)' = IF s \in M THEN Settlements(s) + 1
                                                        ELSE Settlements(s)

\* Sets of spans are finite.
LEMMA SpansFinite ==
    ASSUME TypeOK
    PROVE  /\ IsFiniteSet(SpanIds)
           /\ \A S : S \subseteq SpanIds => IsFiniteSet(S) /\ Cardinality(S) \in Nat
<1>1. IsFiniteSet(SpanIds)
  BY BoundAssumption, FS_Interval DEF TypeOK, SpanIds
<1>2. ASSUME NEW S, S \subseteq SpanIds PROVE IsFiniteSet(S) /\ Cardinality(S) \in Nat
  BY <1>1, <1>2, FS_Subset, FS_CardinalityType
<1> QED
  BY <1>1, <1>2

\* How settling changes the difference between the open and the twice settled
\* requests: each settlement takes one away, whichever of the two it changes.
LEMMA NetMoves ==
    ASSUME TypeOK, TypeOK', Within, Within', NEW M, NEW N, Settles(M, N)
    PROVE  /\ Net' = Net + Cardinality(N) - Cardinality(M)
           /\ Net \in Int /\ Cardinality(M) \in Nat /\ Cardinality(N) \in Nat
<1>1. Requests \subseteq SpanIds /\ M \subseteq SpanIds /\ Open \subseteq SpanIds
      /\ Twice \subseteq SpanIds
  BY DEF Requests, Open, Twice, Settles
<1>2. /\ IsFiniteSet(M) /\ IsFiniteSet(Open) /\ IsFiniteSet(Twice)
      /\ Cardinality(M) \in Nat /\ Cardinality(Open) \in Nat /\ Cardinality(Twice) \in Nat
  BY <1>1, SpansFinite
<1>3. IsFiniteSet(N) /\ Cardinality(N) \in Nat
  <2>1. IsFiniteSet(SpanIds')
    BY BoundAssumption, FS_Interval DEF TypeOK, SpanIds
  <2> QED
    BY <2>1, FS_Subset, FS_CardinalityType DEF Settles
<1>4. Open' = (Open \ M) \cup N
  <2>1. ASSUME NEW s \in Requests PROVE Settlements(s)' = 0 <=> s \in Open \ M
    <3>1. Settlements(s) \in 0..2
          /\ Settlements(s)' = IF s \in M THEN Settlements(s) + 1 ELSE Settlements(s)
      BY DEF Within, Settles
    <3> QED
      BY <3>1 DEF Open
  <2>2. Open' = {s \in Requests' : Settlements(s)' = 0}
    BY DEF Open
  <2>3. Requests' = Requests \cup N /\ \A s \in N : Settlements(s)' = 0
    BY DEF Settles
  <2>4. Open \ M \subseteq Requests
    BY DEF Open
  <2> QED
    BY <2>1, <2>2, <2>3, <2>4
<1>5. /\ Twice' = Twice \cup (M \ Open)
      /\ M \cap Twice = {}
  <2>1. ASSUME NEW s \in Requests
        PROVE  /\ Settlements(s)' = 2 <=> s \in Twice \cup (M \ Open)
               /\ ~(s \in M /\ s \in Twice)
    <3>1. Settlements(s) \in 0..2
          /\ Settlements(s)' = IF s \in M THEN Settlements(s) + 1 ELSE Settlements(s)
      BY DEF Within, Settles
    <3>2. Settlements(s)' \in 0..2
      <4>1. s \in Requests'
        BY DEF Settles
      <4> QED
        BY <4>1 DEF Within
    <3> QED
      BY <3>1, <3>2 DEF Open, Twice
  <2>2. Twice' = {s \in Requests' : Settlements(s)' = 2}
    BY DEF Twice
  <2>3. Requests' = Requests \cup N /\ (\A s \in N : Settlements(s)' = 0) /\ M \subseteq Requests
    BY DEF Settles
  <2>4. Twice \subseteq Requests
    BY DEF Twice
  <2>5. \A s \in N : Settlements(s)' # 2
    BY <2>3
  <2> QED
    BY <2>1, <2>2, <2>3, <2>4, <2>5
<1>6. N \cap Open = {}
  BY DEF Settles, Open
<1> DEFINE o == Cardinality(Open)
           t == Cardinality(Twice)
           m == Cardinality(M)
           n == Cardinality(N)
           b == Cardinality(M \cap Open)
<1>7. Cardinality(Open') = (o - b) + n
  <2>1. IsFiniteSet(Open \ M) /\ Cardinality(Open \ M) = o - Cardinality(Open \cap M)
    BY <1>2, FS_Difference
  <2>2. Open \cap M = M \cap Open /\ (Open \ M) \cap N = {}
    BY <1>6
  <2>3. Cardinality((Open \ M) \cup N) = Cardinality(Open \ M) + n - Cardinality((Open \ M) \cap N)
    BY <1>3, <2>1, FS_Union
  <2>4. Cardinality((Open \ M) \cap N) = 0
    BY <2>2, FS_EmptySet
  <2>5. b \in Nat
    <3>1. IsFiniteSet(M \cap Open)
      BY <1>2, FS_Intersection
    <3> QED
      BY <3>1, FS_CardinalityType
  <2>6. Cardinality(Open \ M) = o - b
    BY <2>1, <2>2
  <2> HIDE DEF o, n, b
  <2>7. o \in Nat /\ n \in Nat
    BY <1>2, <1>3 DEF o, n
  <2>8. Cardinality((Open \ M) \cup N) = (o - b) + n - 0
    BY <2>3, <2>4, <2>6
  <2> QED
    BY <1>4, <2>5, <2>7, <2>8
<1>8. Cardinality(Twice') = t + (m - b)
  <2>1. IsFiniteSet(M \ Open) /\ Cardinality(M \ Open) = m - b
    BY <1>2, FS_Difference
  <2>2. Twice \cap (M \ Open) = {}
    BY <1>5
  <2>3. Cardinality(Twice \cup (M \ Open)) = t + (m - b) - Cardinality(Twice \cap (M \ Open))
    BY <1>2, <2>1, FS_Union
  <2>4. Cardinality(Twice \cap (M \ Open)) = 0
    BY <2>2, FS_EmptySet
  <2>5. m - b \in Int
    BY <2>1, FS_CardinalityType
  <2> HIDE DEF t, m, b
  <2>6. t \in Nat
    BY <1>2 DEF t
  <2> QED
    BY <1>5, <2>3, <2>4, <2>5, <2>6
<1>9. b \in Nat
  <2>1. IsFiniteSet(M \cap Open)
    BY <1>2, FS_Intersection
  <2> QED
    BY <2>1, FS_CardinalityType
<1>10. Net' = Cardinality(Open') - Cardinality(Twice') /\ Net = o - t
  BY DEF Net
<1> HIDE DEF o, t, m, n, b
<1>11. o \in Nat /\ t \in Nat /\ m \in Nat /\ n \in Nat
  BY <1>2, <1>3 DEF o, t, m, n
<1>12. Net' = Net + n - m /\ Net \in Int
  BY <1>7, <1>8, <1>9, <1>10, <1>11
<1> QED
  BY <1>11, <1>12 DEF m, n

\* The gauge stays exact when what a step adds to it is what the step sends and
\* drops, less what it settles and leaves to be counted.
LEMMA InflightMoves ==
    ASSUME TypeOK, TypeOK', Within, Within', InflightExact, NEW M, NEW N, Settles(M, N),
           NEW i \in Int, NEW d \in Int, NEW c \in Int,
           stats'.inflight = Add(stats.inflight, i),
           stats'.dropped = Add(stats.dropped, d),
           Cardinality(Counting') = Cardinality(Counting) + c,
           i = d + Cardinality(N) - Cardinality(M) - c
    PROVE  InflightExact'
<1> DEFINE x == stats.dropped
           b == Net - Cardinality(Counting)
           m == Cardinality(M)
           n == Cardinality(N)
           k == Cardinality(Counting)
<1>1. /\ Net' = Net + n - m
      /\ Net \in Int /\ m \in Nat /\ n \in Nat
  BY NetMoves
<1>2. k \in Nat
  <2>1. IsFiniteSet(Counting)
    BY WorkersAssumption, FS_Subset DEF Counting
  <2> QED
    BY <2>1, FS_CardinalityType
<1>3. x \in Int
  BY BoundAssumption DEF TypeOK, Stats
<1>4. stats.inflight = Add(x, b)
  BY DEF InflightExact
<1> HIDE DEF x, m, n, k
<1>5. b \in Int
  BY <1>1, <1>2 DEF k
<1> HIDE DEF b
<1>6. stats'.inflight = Add(x, b + i)
  BY <1>3, <1>4, <1>5, AddAdd
<1>7. Add(stats'.dropped, (b + i) - d) = Add(x, d + ((b + i) - d))
  <2> DEFINE e == (b + i) - d
  <2>1. e \in Int
    BY <1>5
  <2> HIDE DEF e
  <2>2. Add(Add(x, d), e) = Add(x, d + e)
    BY <1>3, <2>1, AddAdd
  <2> QED
    BY <2>2 DEF x, e
<1>8. d + ((b + i) - d) = b + i
  BY <1>5
<1>9. (b + i) - d = Net' - Cardinality(Counting')
  <2>1. b = Net - k /\ Cardinality(Counting') = k + c /\ i = d + n - m - c
    BY DEF b, k, m, n
  <2> QED
    BY <2>1, <1>1, <1>2
<1>10. stats'.inflight = Add(stats'.dropped, Net' - Cardinality(Counting'))
  BY <1>6, <1>7, <1>8, <1>9
<1> QED
  BY <1>10 DEF InflightExact

\* A step that settles nothing, sends nothing and leaves both counters alone.
LEMMA InflightSame ==
    ASSUME TypeOK, TypeOK', Within, Within', InflightExact, Settles({}, {}),
           stats'.inflight = stats.inflight, stats'.dropped = stats.dropped,
           Counting' = Counting
    PROVE  InflightExact'
<1>1. stats.inflight \in 0..(CtrMod - 1) /\ stats.dropped \in 0..(CtrMod - 1)
  BY DEF TypeOK, Stats
<1>2. stats'.inflight = Add(stats.inflight, 0) /\ stats'.dropped = Add(stats.dropped, 0)
  BY <1>1, AddNothing
<1>3. Cardinality({}) = 0
  BY FS_EmptySet
<1>4. Cardinality(Counting) \in Nat
  <2>1. IsFiniteSet(Counting)
    BY WorkersAssumption, FS_Subset DEF Counting
  <2> QED
    BY <2>1, FS_CardinalityType
<1>5. Cardinality(Counting') = Cardinality(Counting) + 0
  BY <1>4
<1>6. 0 = 0 + Cardinality({}) - Cardinality({}) - 0
  BY <1>3
<1> QED
  BY <1>2, <1>5, <1>6, InflightMoves

\* A step of worker w leaves every request in the hands it is in, except perhaps
\* the span of w when w ends its call.
LEMMA HandsMove ==
    ASSUME NEW w \in Workers, MovesOn(w), NEW u \in SpanIds,
           worker'[w].pc # "idle" \/ u # worker[w].span
    PROVE  InHand(u)' <=> InHand(u)
<1>1. /\ worker[w].pc # "idle" /\ \A v \in Workers : v # w => worker'[v] = worker[v]
      /\ worker'[w].pc = "idle" \/ worker'[w].span = worker[w].span
  BY DEF MovesOn
<1> QED
  BY <1>1 DEF InHand

\* A request whose reports and hands do not change keeps its settlements, and so
\* does one that is reported because its call returns.
LEMMA SameSettlements ==
    ASSUME NEW u, spans[u].handled \in Nat,
           \/ spans'[u].handled = spans[u].handled /\ (InHand(u)' <=> InHand(u))
           \/ spans'[u].handled = spans[u].handled + 1 /\ InHand(u) /\ ~InHand(u)'
    PROVE  Settlements(u)' = Settlements(u)
  BY DEF Settlements

\* A request that is reported for another reason is settled.
LEMMA MoreSettlements ==
    ASSUME NEW u, spans[u].handled \in Nat,
           spans'[u].handled = spans[u].handled + 1, InHand(u)' <=> InHand(u)
    PROVE  Settlements(u)' = Settlements(u) + 1
  BY DEF Settlements

\* Nothing is settled or sent.
LEMMA SettlesNothing ==
    ASSUME Requests' = Requests, \A u \in Requests : Settlements(u)' = Settlements(u)
    PROVE  Settles({}, {})
  BY DEF Settles

\* Among the calm steps only a close settles requests.
LEMMA CalmSettles ==
    ASSUME IndInv, HandInv, LostInv, NEW w \in Workers, CalmStep(w), ~HandleClose(w)
    PROVE  Settles({}, {})
<1> DEFINE s == worker[w].span
<1>0. /\ TypeOK /\ DistinctHands /\ Retrying
      /\ spans \in [SpanIds -> Span] /\ worker \in [Workers -> Worker]
      /\ \A u \in SpanIds : spans[u] \in Span
  BY DEF IndInv, HandInv, TypeOK
<1>1. Calm /\ SpansKept /\ MovesOn(w)
  BY <1>0, WorkerStepsCalm, QuietKept DEF CalmStep
<1>2. SpanIds' = SpanIds /\ Requests' = Requests
  <2>1. SpanIds' = SpanIds /\ \A u \in SpanIds : spans'[u].seq = spans[u].seq
    BY <1>1 DEF SpansKept, SpanIds
  <2> QED
    BY <2>1 DEF Requests
<1>3. Requests \subseteq SpanIds /\ \A u \in Requests : spans[u].seq > 0 /\ spans[u].handled \in Nat
  BY <1>0 DEF Requests, Span
<1>a. ASSUME \A u \in SpanIds : spans'[u].handled = spans[u].handled,
             worker'[w].pc # "idle" \/ spans[s].seq = 0
      PROVE  \A u \in Requests : Settlements(u)' = Settlements(u)
  <2> SUFFICES ASSUME NEW u \in Requests PROVE Settlements(u)' = Settlements(u)
    OBVIOUS
  <2>1. u \in SpanIds /\ spans[u].handled \in Nat /\ spans[u].seq > 0
    BY <1>3
  <2>2. worker'[w].pc # "idle" \/ u # s
    BY <1>a, <2>1
  <2>3. InHand(u)' <=> InHand(u)
    BY <1>1, <2>1, <2>2, HandsMove
  <2> QED
    BY <1>a, <2>1, <2>3, SameSettlements
<1>b. ASSUME Orphan(s) \/ spans' = spans
      PROVE  \A u \in SpanIds : spans'[u].handled = spans[u].handled
  BY <1>0, <1>b DEF Orphan, Span
<1>4. CASE HandleOpen(w) \/ CreateFlow(w) \/ LookupFlow(w) \/ CountInflight(w) \/ Touch(w)
  <2>1. spans' = spans
    BY <1>4 DEF HandleOpen, CreateFlow, LookupFlow, CountInflight, Touch
  <2>2. worker'[w].pc # "idle"
    BY <1>0, <1>4 DEF HandleOpen, CreateFlow, LookupFlow, CountInflight, Touch, Worker
  <2> QED
    BY <1>2, <1>a, <1>b, <2>1, <2>2, SettlesNothing
<1>5. CASE RecvPeek(w) \/ (RecvPop(w) /\ flows[worker[w].flow].reqs = <<>>)
  <2>1. (Orphan(s) \/ spans' = spans) /\ worker'[w].pc # "idle"
    BY <1>0, <1>5 DEF RecvPeek, RecvPop, Match, Worker
  <2> QED
    BY <1>2, <1>a, <1>b, <2>1, SettlesNothing
<1>6. CASE TryPeek(w) \/ (TryPop(w) /\ flows[worker[w].flow].reqs = <<>>)
  <2>1. spans' = spans /\ worker[w].retry /\ worker[w].pc # "idle"
    BY <1>6 DEF TryPeek, TryPop, Match
  <2>2. spans[s].seq = 0
    BY <1>0, <2>1 DEF Retrying
  <2> QED
    BY <1>2, <1>a, <1>b, <2>1, <2>2, SettlesNothing
<1>7. CASE Unpend(w)
  <2> DEFINE r == spans[s].parent
  <2>1. /\ spans' = [spans EXCEPT ![s].pend = NotPending, ![r].pend = NotPending]
        /\ worker[w].pc = "unpend"
    BY <1>7 DEF Unpend
  <2>2. spans[s].seq = 0
    BY <1>0, <2>1 DEF Retrying
  <2>3. \A u \in SpanIds : spans'[u].handled = spans[u].handled
    <3> HIDE DEF s, r
    <3> QED
      BY <1>0, <2>1 DEF Span
  <2> QED
    BY <1>2, <1>a, <2>2, <2>3, SettlesNothing
<1>8. CASE Finish(w)
  <2>1. /\ spans' = Handled(spans, {s}) /\ worker' = [worker EXCEPT ![w] = IdleWorker]
        /\ worker[w].pc = "finish"
    BY <1>8 DEF Finish, CalmStep
  <2>2. s \in SpanIds
    BY <1>0, <2>1 DEF TypeOK
  <2>3. /\ worker'[w].pc = "idle" /\ \A v \in Workers : v # w => worker'[v] = worker[v]
    BY <1>0, <2>1 DEF IdleWorker
  <2>4. \A v \in Workers : v # w /\ worker[v].pc # "idle" => worker[v].span # s
    BY <1>0, <2>1 DEF DistinctHands
  <2>5. InHand(s) /\ \A k : k = s => ~InHand(k)'
    BY <2>1, <2>3, <2>4 DEF InHand
  <2> HIDE DEF s
  <2>6. /\ spans'[s] = [spans[s] EXCEPT !.handled = @ + 1]
        /\ \A u \in SpanIds : u # s => spans'[u] = spans[u]
    BY <1>0, <2>1, <2>2 DEF Handled
  <2>7. spans'[s].handled = spans[s].handled + 1
    BY <1>0, <2>2, <2>6 DEF Span
  <2>8. ASSUME NEW u \in Requests PROVE Settlements(u)' = Settlements(u)
    <3>1. u \in SpanIds /\ spans[u].handled \in Nat
      BY <1>3
    <3>2. CASE u = s
      <4>1. spans'[u].handled = spans[u].handled + 1 /\ InHand(u) /\ ~InHand(u)'
        BY <2>5, <2>7, <3>2
      <4> QED
        BY <3>1, <4>1, SameSettlements
    <3>3. CASE u # s
      <4>1. spans'[u].handled = spans[u].handled
        BY <2>6, <3>1, <3>3
      <4>2. InHand(u)' <=> InHand(u)
        BY <1>1, <3>1, <3>3, HandsMove DEF s
      <4> QED
        BY <3>1, <4>1, <4>2, SameSettlements
    <3> QED
      BY <3>2, <3>3
  <2> QED
    BY <1>2, <2>8, SettlesNothing
<1> QED
  BY <1>4, <1>5, <1>6, <1>7, <1>8 DEF CalmStep, QuietStep

\* Nor does the span that goes to the pending list.
LEMMA PendSettles ==
    ASSUME IndInv, HandInv, NEW w \in Workers, Finish(w), spans[worker[w].span].traceID = EmptyID
    PROVE  Settles({}, {})
<1> DEFINE s == worker[w].span
<1>0. TypeOK /\ worker \in [Workers -> Worker] /\ \A u \in SpanIds : spans[u] \in Span
  BY DEF IndInv, TypeOK
<1>1. /\ s \in SpanIds /\ spans[s].seq = 0
      /\ spans'[s].seq = 0 /\ spans'[s].handled = spans[s].handled
      /\ \A u \in SpanIds : u # s => spans'[u] = spans[u]
      /\ worker'[w].pc = "lookup" /\ worker'[w].span = s
  BY PendSpans
<1>2. /\ worker[w].pc = "finish" /\ SpanIds' = SpanIds
      /\ \A v \in Workers : v # w => worker'[v] = worker[v]
  BY <1>0 DEF Finish, SpanIds
<1>3. \A u \in SpanIds : InHand(u)' <=> InHand(u)
  BY <1>1, <1>2 DEF InHand
<1> HIDE DEF s
<1>4. \A u \in SpanIds : spans'[u].seq = spans[u].seq /\ spans'[u].handled = spans[u].handled
  BY <1>1
<1>5. Requests' = Requests
  BY <1>2, <1>4 DEF Requests
<1>6. ASSUME NEW u \in Requests PROVE Settlements(u)' = Settlements(u)
  <2>1. u \in SpanIds /\ spans[u].handled \in Nat
    BY <1>0 DEF Requests, Span
  <2> QED
    BY <1>3, <1>4, <2>1, SameSettlements
<1> QED
  BY <1>5, <1>6, SettlesNothing

\* Sending settles the request that is pushed out and adds the one that is sent.
LEMMA SendSettles ==
    ASSUME IndInv, HandInv, Within, RequestKeys, Count, NEW w \in Workers, SendRequest(w)
    PROVE  Settles(Oldest(flows[worker[w].flow].reqs), {worker[w].span})
<1> DEFINE s == worker[w].span
           f == worker[w].flow
           D == Oldest(flows[f].reqs)
<1>0. /\ TypeOK /\ ListedNumbered /\ worker \in [Workers -> Worker]
      /\ \A u \in SpanIds : spans[u] \in Span
  BY DEF IndInv, Lists, TypeOK
<1>1. /\ s \in SpanIds /\ f \in FlowIds /\ spans[s].seq = 0 /\ spans[s].parent = NoSpan
      /\ D \subseteq Waiting(f) /\ s \notin D /\ spans'[s].seq > 0
      /\ spans'[s].handled = spans[s].handled
      /\ \A u \in SpanIds : u # s =>
            /\ u \in D => spans'[u] = [spans[u] EXCEPT !.handled = @ + 1]
            /\ u \notin D => spans'[u] = spans[u]
  BY SendSpans
<1>2. /\ worker[w].pc = "body" /\ ~worker[w].retry /\ SpanIds' = SpanIds
      /\ worker' = [worker EXCEPT ![w].pc = "count"]
  BY DEF SendRequest, SpanIds
<1>3. /\ worker'[w].pc # "idle" /\ worker'[w].span = worker[w].span
      /\ \A v \in Workers : v # w => worker'[v] = worker[v]
  BY <1>0, <1>2 DEF Worker
<1>4. \A u \in SpanIds : InHand(u)' <=> InHand(u)
  BY <1>2, <1>3 DEF InHand
<1>5. D \subseteq Requests
  <2>1. \A u \in Waiting(f) : u \in SpanIds /\ spans[u].seq > 0
    BY <1>0, <1>1 DEF Waiting, Elements, TypeOK, ListedNumbered
  <2> QED
    BY <1>1, <2>1 DEF Requests
<1>6. InHand(s) /\ Fresh(s)
  BY <1>2 DEF InHand, Fresh
<1>7. CountOf(s)
  BY <1>1 DEF Count
<1> HIDE DEF D, s, f
<1>8. spans[s].handled = 0
  <2>1. One(spans[s].parent # NoSpan) = 0 /\ One(~(Fresh(s) \/ Pended(s))) = 0
    BY <1>1, <1>6 DEF One
  <2>2. spans[s].handled <= 0 + 0
    BY <1>1, <1>7, <2>1 DEF CountOf
  <2>3. spans[s].handled \in Nat
    BY <1>0, <1>1 DEF Span
  <2> QED
    BY <2>2, <2>3
<1>9. \A k : k = s => Settlements(k)' = 0
  <2> SUFFICES ASSUME NEW k \in SpanIds, k = s PROVE Settlements(k)' = 0
    BY <1>1
  <2>1. InHand(k) /\ spans[k].handled = 0
    BY <1>6, <1>8
  <2>2. InHand(k)'
    BY <1>4, <2>1
  <2>3. spans'[k].handled = 0
    BY <1>1, <2>1
  <2>4. Settlements(k)' = spans'[k].handled - 0
    BY <2>2 DEF Settlements
  <2> QED
    BY <2>3, <2>4
<1>10. Requests' = Requests \cup {s} /\ s \notin Requests
  <2>1. ASSUME NEW u \in SpanIds, u # s PROVE spans'[u].seq = spans[u].seq
    <3>1. spans'[u] = [spans[u] EXCEPT !.handled = @ + 1] \/ spans'[u] = spans[u]
      BY <1>1, <2>1
    <3> QED
      BY <1>0, <3>1, ReportedCalm DEF SpanCalm
  <2> QED
    BY <1>1, <1>2, <2>1 DEF Requests
<1>11. ASSUME NEW u \in Requests
       PROVE  Settlements(u)' = IF u \in D THEN Settlements(u) + 1 ELSE Settlements(u)
  <2>1. u \in SpanIds /\ spans[u].handled \in Nat /\ u # s
    BY <1>0, <1>10 DEF Requests, Span
  <2>2. InHand(u)' <=> InHand(u)
    BY <1>4, <2>1
  <2>3. CASE u \in D
    <3>1. spans'[u].handled = spans[u].handled + 1
      BY <1>0, <1>1, <2>1, <2>3, ReportedCalm
    <3> QED
      BY <2>1, <2>2, <2>3, <3>1, MoreSettlements
  <2>4. CASE u \notin D
    <3>1. spans'[u].handled = spans[u].handled
      BY <1>1, <2>1, <2>4
    <3> QED
      BY <2>1, <2>2, <2>4, <3>1, SameSettlements
  <2> QED
    BY <2>3, <2>4
<1>12. Settles(D, {s})
  BY <1>1, <1>2, <1>5, <1>9, <1>10, <1>11 DEF Settles
<1> QED
  BY <1>12 DEF D, s, f

\* A match settles the request.
LEMMA MatchSettles ==
    ASSUME IndInv, HandInv, NEW w \in Workers, RecvPop(w) \/ TryPop(w), Match(w)
    PROVE  Settles({Head(flows[worker[w].flow].reqs)}, {})
<1> DEFINE s == worker[w].span
           f == worker[w].flow
           r == Head(flows[f].reqs)
<1>0. /\ TypeOK /\ worker \in [Workers -> Worker] /\ \A u \in SpanIds : spans[u] \in Span
  BY DEF IndInv, TypeOK
<1>1. /\ worker[w].pc = "pop" /\ SpanIds' = SpanIds
      /\ \E p \in {"finish", "unpend"} : worker' = [worker EXCEPT ![w].pc = p]
  <2>1. flows[f].reqs # <<>>
    BY DEF Match
  <2> QED
    BY <2>1 DEF RecvPop, TryPop, SpanIds
<1>2. /\ s \in SpanIds /\ f \in FlowIds /\ spans[s].seq = 0
      /\ r \in SpanIds /\ r # s /\ spans[r].seq > 0
      /\ spans'[s].seq = 0
      /\ spans'[r] = [spans[r] EXCEPT !.handled = @ + 1]
      /\ \A u \in SpanIds : u # s /\ u # r => spans'[u] = spans[u]
  BY <1>1, MatchSpans
<1>3. /\ worker'[w].pc # "idle" /\ worker'[w].span = worker[w].span
      /\ \A v \in Workers : v # w => worker'[v] = worker[v]
  BY <1>0, <1>1 DEF Worker
<1>4. \A u \in SpanIds : InHand(u)' <=> InHand(u)
  BY <1>1, <1>3 DEF InHand
<1> HIDE DEF r, s, f
<1>5. \A u \in SpanIds : spans'[u].seq = spans[u].seq
  <2>1. spans'[r].seq = spans[r].seq
    BY <1>0, <1>2 DEF Span
  <2> QED
    BY <1>2, <2>1
<1>6. Requests' = Requests /\ r \in Requests
  BY <1>1, <1>2, <1>5 DEF Requests
<1>7. ASSUME NEW u \in Requests
      PROVE  Settlements(u)' = IF u \in {r} THEN Settlements(u) + 1 ELSE Settlements(u)
  <2>1. u \in SpanIds /\ spans[u].handled \in Nat /\ u # s
    BY <1>0, <1>2 DEF Requests, Span
  <2>2. InHand(u)' <=> InHand(u)
    BY <1>4, <2>1
  <2>3. CASE u = r
    <3>1. spans'[u].handled = spans[u].handled + 1
      BY <1>0, <1>2, <2>1, <2>3, ReportedCalm
    <3> QED
      BY <2>1, <2>2, <2>3, <3>1, MoreSettlements
  <2>4. CASE u # r
    <3>1. spans'[u].handled = spans[u].handled
      BY <1>2, <2>1, <2>4
    <3> QED
      BY <2>1, <2>2, <2>4, <3>1, SameSettlements
  <2> QED
    BY <2>3, <2>4
<1>8. Settles({r}, {})
  BY <1>6, <1>7 DEF Settles
<1> QED
  BY <1>8 DEF r, f

\* What waits in the flows in use for the keys of K.
Swept(K) == UNION {Elements(flows[f].reqs) : f \in {connections[k] : k \in K}}

\* A sweep settles the requests that wait.
LEMMA SweepSettles ==
    ASSUME TypeOK, ListedNumbered, NEW K, K \subseteq {k \in Keys : connections[k] # NoFlow},
           Sweep(K), total' = total, \A u \in SpanIds : InHand(u)' <=> InHand(u)
    PROVE  Settles(Swept(K), {})
<1>1. /\ spans \in [SpanIds -> Span] /\ (\A u \in SpanIds : spans[u] \in Span)
      /\ \A k \in Keys : connections[k] # NoFlow => connections[k] \in FlowIds
  BY DEF TypeOK
<1>2. spans' = Handled(spans, Swept(K)) /\ SpanIds' = SpanIds
  BY DEF Sweep, SpanIds, Swept
<1>3. Swept(K) \subseteq Requests
  <2>1. ASSUME NEW u \in Swept(K) PROVE u \in Requests
    <3>1. PICK k \in K : u \in Elements(flows[connections[k]].reqs)
      BY DEF Swept
    <3> DEFINE f == connections[k]
    <3>2. f \in FlowIds
      BY <1>1
    <3> HIDE DEF f
    <3>3. PICK i \in 1..Len(flows[f].reqs) : u = flows[f].reqs[i]
      BY <3>1 DEF Elements, f
    <3>4. u \in SpanIds /\ spans[u].seq > 0
      BY <3>2, <3>3 DEF TypeOK, ListedNumbered
    <3> QED
      BY <3>4 DEF Requests
  <2> QED
    BY <2>1
<1>4. ASSUME NEW u \in SpanIds
      PROVE  spans'[u] = IF u \in Swept(K) THEN [spans[u] EXCEPT !.handled = @ + 1] ELSE spans[u]
  BY <1>1, <1>2 DEF Handled
<1>5. \A u \in SpanIds : spans'[u].seq = spans[u].seq
  BY <1>1, <1>4 DEF Span
<1>6. Requests' = Requests
  BY <1>2, <1>5 DEF Requests
<1>7. ASSUME NEW u \in Requests
      PROVE  Settlements(u)' = IF u \in Swept(K) THEN Settlements(u) + 1 ELSE Settlements(u)
  <2>1. u \in SpanIds /\ spans[u].handled \in Nat /\ (InHand(u)' <=> InHand(u))
    BY <1>1 DEF Requests, Span
  <2>2. CASE u \in Swept(K)
    <3>1. spans'[u].handled = spans[u].handled + 1
      BY <1>1, <1>4, <2>1, <2>2 DEF Span
    <3> QED
      BY <2>1, <2>2, <3>1, MoreSettlements
  <2>3. CASE u \notin Swept(K)
    <3>1. spans'[u].handled = spans[u].handled
      BY <1>4, <2>1, <2>3
    <3> QED
      BY <2>1, <2>3, <3>1, SameSettlements
  <2> QED
    BY <2>2, <2>3
<1> QED
  BY <1>3, <1>6, <1>7 DEF Settles

\* A span that is received is not yet a request.
LEMMA ReceiveSettles ==
    ASSUME TypeOK, NEW w \in Workers, NEW e \in Events, Receive(w, e)
    PROVE  Settles({}, {})
<1> DEFINE n == total + 1
<1>0. /\ total \in Nat /\ worker \in [Workers -> Worker] /\ \A u \in SpanIds : spans[u] \in Span
  BY DEF TypeOK
<1>1. SpanIds' = SpanIds \cup {n} /\ n \notin SpanIds
  BY <1>0 DEF Receive, SpanIds
<1>2. /\ \A u \in SpanIds : spans'[u] = spans[u]
      /\ spans'[n].seq = 0
  BY <1>0 DEF Receive, Extend, SpanIds
<1>3. /\ worker[w].pc = "idle" /\ worker'[w].span = n
      /\ \A v \in Workers : v # w => worker'[v] = worker[v]
  BY <1>0 DEF Receive
<1> HIDE DEF n
<1>4. \A u \in SpanIds : InHand(u)' <=> InHand(u)
  BY <1>1, <1>3 DEF InHand
<1>5. Requests' = Requests
  BY <1>1, <1>2 DEF Requests
<1>6. ASSUME NEW u \in Requests PROVE Settlements(u)' = Settlements(u)
  <2>1. u \in SpanIds /\ spans[u].handled \in Nat
    BY <1>0 DEF Requests, Span
  <2>2. spans'[u].handled = spans[u].handled /\ (InHand(u)' <=> InHand(u))
    BY <1>2, <1>4, <2>1
  <2> QED
    BY <2>1, <2>2, SameSettlements
<1> QED
  BY <1>5, <1>6, SettlesNothing

\* The cleanup of the pending list settles no request, and time settles nothing.
LEMMA CleanerSettles ==
    ASSUME TypeOK, HandInv, CleanerStep \/ Tick \/ UNCHANGED vars, ~CleanConns
    PROVE  Settles({}, {})
<1>0. /\ Pending /\ spans \in [SpanIds -> Span] /\ (\A u \in SpanIds : spans[u] \in Span)
  BY DEF HandInv, TypeOK
<1>1. worker' = worker /\ total' = total
  BY DEF CleanerStep, CleanStart, CleanMeet, CleanSettle, CleanPendingDone, CleanConns, Tick, vars
<1>2. SpanIds' = SpanIds /\ \A u \in SpanIds : InHand(u)' <=> InHand(u)
  BY <1>1 DEF SpanIds, InHand
<1>a. ASSUME \A u \in SpanIds : /\ spans'[u].seq = spans[u].seq
                                /\ spans[u].seq > 0 => spans'[u].handled = spans[u].handled
      PROVE  Settles({}, {})
  <2>1. Requests' = Requests
    BY <1>2, <1>a DEF Requests
  <2>2. ASSUME NEW u \in Requests PROVE Settlements(u)' = Settlements(u)
    <3>1. u \in SpanIds /\ spans[u].handled \in Nat /\ spans[u].seq > 0
      BY <1>0 DEF Requests, Span
    <3> QED
      BY <1>2, <1>a, <3>1, SameSettlements
  <2> QED
    BY <2>1, <2>2, SettlesNothing
<1>3. CASE CleanStart \/ (\E s \in SpanIds : CleanMeet(s)) \/ CleanPendingDone \/ UNCHANGED vars
  <2>1. spans' = spans
    BY <1>3 DEF CleanStart, CleanMeet, CleanPendingDone, vars
  <2> QED
    BY <1>a, <2>1
<1>4. CASE CleanSettle
  <2> DEFINE s == cleaner.span
             h == Handled(spans, {s})
             id == IF cleaner.gen THEN GeneratedID(s) ELSE spans[s].traceID
  <2>1. s \in SpanIds /\ spans[s].seq = 0
    BY <1>0, <1>4 DEF CleanSettle, TypeOK, Pending
  <2>2. spans' = [h EXCEPT ![s] = [@ EXCEPT !.traceID = id, !.pend = NotPending,
                                            !.timedOut = TRUE]]
    BY <1>4 DEF CleanSettle
  <2> HIDE DEF id, s
  <2>a. /\ h \in [SpanIds -> Span]
        /\ h[s] = [spans[s] EXCEPT !.handled = @ + 1]
        /\ \A u \in SpanIds : u # s => h[u] = spans[u]
    BY <1>0, <2>1 DEF Handled, Span
  <2> HIDE DEF h
  <2>3. /\ h \in [SpanIds -> Span] /\ h[s].seq = spans[s].seq
        /\ \A u \in SpanIds : u # s => h[u] = spans[u]
    BY <1>0, <2>1, <2>a DEF Span
  <2>4. /\ spans'[s] = [h[s] EXCEPT !.traceID = id, !.pend = NotPending, !.timedOut = TRUE]
        /\ \A u \in SpanIds : u # s => spans'[u] = spans[u]
    BY <2>1, <2>2, <2>3
  <2>5. spans'[s].seq = spans[s].seq
    <3>1. h[s] \in Span
      BY <2>1, <2>3
    <3> QED
      BY <2>3, <2>4, <3>1 DEF Span
  <2>6. ASSUME NEW u \in SpanIds
        PROVE  /\ spans'[u].seq = spans[u].seq
               /\ spans[u].seq > 0 => spans'[u].handled = spans[u].handled
    <3>1. CASE u = s
      BY <2>1, <2>5, <3>1
    <3>2. CASE u # s
      BY <2>4, <3>2
    <3> QED
      BY <3>1, <3>2
  <2> QED
    BY <1>a, <2>6
<1>5. CASE Tick
  <2>1. ASSUME NEW u \in SpanIds
        PROVE  spans'[u].handled = spans[u].handled /\ spans'[u].seq = spans[u].seq
    <3> DEFINE a == IF spans[u].pend = NotPending THEN spans[u].pend ELSE Older(spans[u].pend)
    <3>1. spans'[u] = [spans[u] EXCEPT !.pend = a]
      BY <1>5 DEF Tick
    <3> HIDE DEF a
    <3> QED
      BY <1>0, <3>1 DEF Span
  <2> QED
    BY <1>a, <2>1
<1> QED
  BY <1>3, <1>4, <1>5 DEF CleanerStep

\* Who is about to count, when worker w moves.
LEMMA CountingMoves ==
    ASSUME NEW w \in Workers, \A v \in Workers : v # w => worker'[v] = worker[v]
    PROVE  /\ Cardinality(Counting) \in Nat
           /\ worker[w].pc # "count" /\ worker'[w].pc # "count" => Counting' = Counting
           /\ worker[w].pc = "count" /\ worker'[w].pc # "count" =>
                 Cardinality(Counting') = Cardinality(Counting) + (-1)
           /\ worker[w].pc # "count" /\ worker'[w].pc = "count" =>
                 Cardinality(Counting') = Cardinality(Counting) + 1
<1>1. IsFiniteSet(Counting)
  BY WorkersAssumption, FS_Subset DEF Counting
<1>2. Cardinality(Counting) \in Nat
  BY <1>1, FS_CardinalityType
<1>3. ASSUME worker[w].pc # "count", worker'[w].pc # "count" PROVE Counting' = Counting
  BY <1>3 DEF Counting
<1>4. ASSUME worker[w].pc = "count", worker'[w].pc # "count"
      PROVE  Cardinality(Counting') = Cardinality(Counting) + (-1)
  <2>1. Counting' = Counting \ {w} /\ w \in Counting
    BY <1>4 DEF Counting
  <2>2. Cardinality(Counting \ {w}) = Cardinality(Counting) - 1
    BY <1>1, <2>1, FS_RemoveElement
  <2> QED
    BY <1>2, <2>1, <2>2
<1>5. ASSUME worker[w].pc # "count", worker'[w].pc = "count"
      PROVE  Cardinality(Counting') = Cardinality(Counting) + 1
  <2>1. Counting' = Counting \cup {w} /\ w \notin Counting
    BY <1>5 DEF Counting
  <2>2. Cardinality(Counting \cup {w}) = Cardinality(Counting) + 1
    BY <1>1, <2>1, FS_AddElement
  <2> QED
    BY <2>1, <2>2
<1> QED
  BY <1>2, <1>3, <1>4, <1>5

\* A sweep takes from the gauge what it settles.
LEMMA SweepInflight ==
    ASSUME TypeOK, TypeOK', Within, Within', ListedNumbered, InflightExact,
           NEW K, K \subseteq {k \in Keys : connections[k] # NoFlow}, Sweep(K), total' = total,
           \A u \in SpanIds : InHand(u)' <=> InHand(u), Counting' = Counting
    PROVE  InflightExact'
<1> DEFINE m == Cardinality(Swept(K))
<1>1. Settles(Swept(K), {})
  BY SweepSettles
<1>2. m \in Nat /\ Cardinality({}) = 0
  BY <1>1, NetMoves, FS_EmptySet
<1>3. /\ stats'.inflight = Add(stats.inflight, -m)
      /\ stats'.dropped = stats.dropped
  BY DEF Sweep, Swept, TypeOK, Stats
<1>4. stats'.dropped = Add(stats.dropped, 0)
  <2>1. stats.dropped \in 0..(CtrMod - 1)
    BY DEF TypeOK, Stats
  <2> QED
    BY <1>3, <2>1, AddNothing
<1>5. Cardinality(Counting') = Cardinality(Counting) + 0
  <2>1. IsFiniteSet(Counting)
    BY WorkersAssumption, FS_Subset DEF Counting
  <2>2. Cardinality(Counting) \in Nat
    BY <2>1, FS_CardinalityType
  <2> QED
    BY <2>2
<1>6. -m \in Int /\ -m = 0 + Cardinality({}) - m - 0
  <2> HIDE DEF m
  <2> QED
    BY <1>2
<1> QED
  BY <1>1, <1>3, <1>4, <1>5, <1>6, InflightMoves

\* Sending takes nothing from the gauge: neither for the request that is pushed
\* out, which counts as dropped, nor yet for the one that is sent.
LEMMA SendInflight ==
    ASSUME ReportInv, KeyInv, Count, TypeOK', Within, Within', InflightExact,
           NEW w \in Workers, SendRequest(w)
    PROVE  InflightExact'
<1> DEFINE s == worker[w].span
           D == Oldest(flows[worker[w].flow].reqs)
           m == Cardinality(D)
<1>0. TypeOK /\ IndInv /\ HandInv /\ RequestKeys /\ worker \in [Workers -> Worker]
  BY DEF ReportInv, IndInv, KeyInv, TypeOK
<1>1. Settles(D, {s})
  BY <1>0, SendSettles
<1>2. m \in Nat /\ Cardinality({s}) = 1
  BY <1>0, <1>1, NetMoves, FS_Singleton
<1>3. /\ stats' = [stats EXCEPT !.dropped = Add(@, m), !.processed = Add(@, m)]
      /\ worker' = [worker EXCEPT ![w].pc = "count"] /\ worker[w].pc = "body"
  BY DEF SendRequest
<1> HIDE DEF m, D, s
<1>4. stats'.inflight = stats.inflight /\ stats'.dropped = Add(stats.dropped, m)
  BY <1>0, <1>3 DEF TypeOK, Stats
<1>5. stats'.inflight = Add(stats.inflight, 0)
  <2>1. stats.inflight \in 0..(CtrMod - 1)
    BY <1>0 DEF TypeOK, Stats
  <2> QED
    BY <1>4, <2>1, AddNothing
<1>6. Cardinality(Counting') = Cardinality(Counting) + 1
  <2>1. worker'[w].pc = "count" /\ \A v \in Workers : v # w => worker'[v] = worker[v]
    BY <1>0, <1>3 DEF Worker
  <2> QED
    BY <1>3, <2>1, CountingMoves
<1>7. 0 = m + Cardinality({s}) - m - 1
  BY <1>2
<1>8. m \in Int /\ m = Cardinality(D)
  BY <1>2 DEF m
<1> QED
  BY <1>0, <1>1, <1>4, <1>5, <1>6, <1>7, <1>8, InflightMoves

\* A match takes its request off the gauge.
LEMMA MatchInflight ==
    ASSUME ReportInv, TypeOK', Within, Within', InflightExact,
           NEW w \in Workers, RecvPop(w) \/ TryPop(w), Match(w)
    PROVE  InflightExact'
<1> DEFINE r == Head(flows[worker[w].flow].reqs)
<1>0. TypeOK /\ IndInv /\ HandInv /\ worker \in [Workers -> Worker]
  BY DEF ReportInv, IndInv, TypeOK
<1>1. Settles({r}, {})
  BY <1>0, MatchSettles
<1>2. Cardinality({r}) = 1 /\ Cardinality({}) = 0
  BY FS_Singleton, FS_EmptySet
<1>3. stats'.inflight = Add(stats.inflight, -1) /\ stats'.dropped = stats.dropped
  BY <1>0 DEF Match, TypeOK, Stats
<1>4. stats'.dropped = Add(stats.dropped, 0)
  <2>1. stats.dropped \in 0..(CtrMod - 1)
    BY <1>0 DEF TypeOK, Stats
  <2> QED
    BY <1>3, <2>1, AddNothing
<1>5. /\ worker[w].pc = "pop"
      /\ \E p \in {"finish", "unpend"} : worker' = [worker EXCEPT ![w].pc = p]
  <2>1. flows[worker[w].flow].reqs # <<>>
    BY DEF Match
  <2> QED
    BY <2>1 DEF RecvPop, TryPop
<1>6. Cardinality(Counting') = Cardinality(Counting) + 0
  <2>1. worker'[w].pc # "count" /\ \A v \in Workers : v # w => worker'[v] = worker[v]
    BY <1>0, <1>5 DEF Worker
  <2>2. Counting' = Counting /\ Cardinality(Counting) \in Nat
    BY <1>5, <2>1, CountingMoves
  <2> QED
    BY <2>2
<1>7. -1 = 0 + Cardinality({}) - Cardinality({r}) - 0
  BY <1>2
<1> HIDE DEF r
<1> QED
  BY <1>0, <1>1, <1>3, <1>4, <1>6, <1>7, InflightMoves

\* Counting a request adds it to the gauge.
LEMMA CountInflightExact ==
    ASSUME ReportInv, TypeOK', Within, Within', InflightExact, NEW w \in Workers, CountInflight(w)
    PROVE  InflightExact'
<1>0. TypeOK /\ IndInv /\ HandInv /\ LostInv /\ worker \in [Workers -> Worker]
  BY DEF ReportInv, IndInv, TypeOK
<1>1. /\ worker[w].pc = "count" /\ worker' = [worker EXCEPT ![w].pc = "finish"]
      /\ stats' = [stats EXCEPT !.inflight = Add(@, 1)]
  BY DEF CountInflight
<1>2. CalmStep(w) /\ ~HandleClose(w)
  BY <1>1 DEF CalmStep, QuietStep, HandleClose
<1>3. Settles({}, {}) /\ Cardinality({}) = 0
  BY <1>0, <1>2, CalmSettles, FS_EmptySet
<1>4. stats'.inflight = Add(stats.inflight, 1) /\ stats'.dropped = stats.dropped
  BY <1>0, <1>1 DEF TypeOK, Stats
<1>5. stats'.dropped = Add(stats.dropped, 0)
  <2>1. stats.dropped \in 0..(CtrMod - 1)
    BY <1>0 DEF TypeOK, Stats
  <2> QED
    BY <1>4, <2>1, AddNothing
<1>6. Cardinality(Counting') = Cardinality(Counting) + (-1)
  <2>1. worker'[w].pc # "count" /\ \A v \in Workers : v # w => worker'[v] = worker[v]
    BY <1>0, <1>1 DEF Worker
  <2> QED
    BY <1>1, <2>1, CountingMoves
<1>7. 1 = 0 + Cardinality({}) - Cardinality({}) - (-1)
  BY <1>3
<1> QED
  BY <1>0, <1>3, <1>4, <1>5, <1>6, <1>7, InflightMoves

\* The other steps of a worker leave the gauge alone, but for a close.
LEMMA CalmInflight ==
    ASSUME ReportInv, TypeOK', Within, Within', InflightExact, NEW w \in Workers, CalmStep(w)
    PROVE  InflightExact'
<1>0. /\ TypeOK /\ IndInv /\ HandInv /\ LostInv /\ ListedNumbered
      /\ worker \in [Workers -> Worker] /\ stats \in Stats
  BY DEF ReportInv, IndInv, Lists, TypeOK
<1>1. MovesOn(w)
  BY <1>0, QuietKept DEF CalmStep
<1>2. \A v \in Workers : v # w => worker'[v] = worker[v]
  BY <1>1 DEF MovesOn
<1>3. CASE CountInflight(w)
  BY <1>3, CountInflightExact
<1>4. CASE HandleClose(w)
  <2>1. /\ worker[w].pc = "close" /\ worker' = [worker EXCEPT ![w].pc = "finish"]
        /\ total' = total
    BY <1>4 DEF HandleClose
  <2>2. worker'[w].pc # "idle" /\ worker'[w].pc # "count"
    BY <1>0, <2>1 DEF Worker
  <2>3. Counting' = Counting
    BY <1>2, <2>1, <2>2, CountingMoves
  <2>4. \A u \in SpanIds : InHand(u)' <=> InHand(u)
    BY <1>1, <2>2, HandsMove
  <2>5. CASE connections[Key(w)] # NoFlow /\ Sweep({Key(w)})
    <3>1. Key(w) \in Keys
      BY <1>0, <2>1, KeyType
    <3>2. {Key(w)} \subseteq {k \in Keys : connections[k] # NoFlow}
      BY <2>5, <3>1
    <3> QED
      BY <1>0, <2>1, <2>3, <2>4, <2>5, <3>2, SweepInflight
  <2>6. CASE UNCHANGED <<spans, connections, stats>>
    <3>1. Requests' = Requests /\ \A u \in Requests : u \in SpanIds /\ spans[u].handled \in Nat
      BY <1>0, <2>1, <2>6 DEF Requests, SpanIds, TypeOK, Span
    <3>2. \A u \in Requests : Settlements(u)' = Settlements(u)
      BY <2>4, <2>6, <3>1, SameSettlements
    <3>3. Settles({}, {})
      BY <3>1, <3>2, SettlesNothing
    <3> QED
      BY <1>0, <2>3, <2>6, <3>3, InflightSame
  <2> QED
    BY <1>4, <2>5, <2>6 DEF HandleClose
<1>5. CASE ~CountInflight(w) /\ ~HandleClose(w)
  <2>1. Settles({}, {})
    BY <1>0, <1>5, CalmSettles
  <2>2. stats'.inflight = stats.inflight /\ stats'.dropped = stats.dropped
    BY <1>0, <1>5 DEF CalmStep, QuietStep, HandleOpen, LookupFlow, CreateFlow, Touch, RecvPeek,
                      Finish, TryPeek, Unpend, RecvPop, TryPop, Match, InstallFlow, Stats
  <2>3. worker[w].pc # "count" /\ worker'[w].pc # "count"
    <3>1. CASE LookupFlow(w) \/ CreateFlow(w)
      BY <1>0, <3>1 DEF LookupFlow, CreateFlow, Worker
    <3>2. CASE HandleOpen(w) \/ Touch(w) \/ RecvPeek(w) \/ RecvPop(w)
      BY <1>0, <3>2 DEF HandleOpen, Touch, RecvPeek, RecvPop, Worker
    <3>3. CASE Unpend(w)
      BY <1>0, <3>3 DEF Unpend, IdleWorker
    <3>4. CASE Finish(w)
      BY <1>0, <1>5, <3>4 DEF CalmStep, Finish, IdleWorker
    <3>5. CASE TryPeek(w) \/ TryPop(w)
      BY <1>0, <3>5 DEF TryPeek, TryPop, IdleWorker, Worker
    <3> QED
      BY <1>5, <3>1, <3>2, <3>3, <3>4, <3>5 DEF CalmStep, QuietStep
  <2> QED
    BY <1>0, <1>2, <2>1, <2>2, <2>3, CountingMoves, InflightSame
<1> QED
  BY <1>3, <1>4, <1>5

\* Every step keeps the gauge exact.
LEMMA NextInflight ==
    ASSUME ReportInv, KeyInv, Count, TypeOK', Within, Within', InflightExact, [Next]_vars
    PROVE  InflightExact'
<1>0. /\ TypeOK /\ IndInv /\ HandInv /\ ListedNumbered
      /\ worker \in [Workers -> Worker] /\ stats \in Stats
  BY DEF ReportInv, IndInv, Lists, TypeOK
<1>1. ASSUME NEW w \in Workers, NEW e \in Events, Receive(w, e) PROVE InflightExact'
  <2>1. Settles({}, {})
    BY <1>0, <1>1, ReceiveSettles
  <2>2. /\ worker[w].pc # "count" /\ worker'[w].pc # "count" /\ stats' = stats
        /\ \A v \in Workers : v # w => worker'[v] = worker[v]
    <3>1. e.kind \in Kinds
      BY EventsAssumption DEF RawEvent
    <3> QED
      BY <1>0, <1>1, <3>1 DEF Receive, Kinds
  <2> QED
    BY <1>0, <2>1, <2>2, CountingMoves, InflightSame
<1>2. ASSUME NEW w \in Workers, Finish(w), spans[worker[w].span].traceID = EmptyID
      PROVE  InflightExact'
  <2>1. Settles({}, {})
    BY <1>0, <1>2, PendSettles
  <2>2. /\ worker[w].pc # "count" /\ worker'[w].pc # "count" /\ stats' = stats
        /\ \A v \in Workers : v # w => worker'[v] = worker[v]
    BY <1>0, <1>2 DEF Finish, Worker
  <2> QED
    BY <1>0, <2>1, <2>2, CountingMoves, InflightSame
<1>3. ASSUME NEW w \in Workers, WorkerStep(w) PROVE InflightExact'
  BY <1>2, <1>3, WorkerStepKinds, CalmInflight, SendInflight, MatchInflight
<1>4. CASE CleanerStep \/ Tick \/ UNCHANGED vars
  <2>1. worker' = worker /\ total' = total
    BY <1>4 DEF CleanerStep, CleanStart, CleanMeet, CleanSettle, CleanPendingDone, CleanConns,
                Tick, vars
  <2>2. Counting' = Counting /\ \A u \in SpanIds : InHand(u)' <=> InHand(u)
    BY <2>1 DEF Counting, InHand
  <2>3. CASE CleanConns
    <3> DEFINE K == {k \in Keys : connections[k] # NoFlow /\ flows[connections[k]].idle = Expired}
    <3>1. Sweep(K) /\ K \subseteq {k \in Keys : connections[k] # NoFlow}
      BY <2>3 DEF CleanConns
    <3> HIDE DEF K
    <3> QED
      BY <1>0, <2>1, <2>2, <3>1, SweepInflight
  <2>4. CASE ~CleanConns
    <3>1. Settles({}, {})
      BY <1>0, <1>4, <2>4, CleanerSettles
    <3>2. stats'.inflight = stats.inflight /\ stats'.dropped = stats.dropped
      BY <1>0, <1>4, <2>4 DEF CleanerStep, CleanStart, CleanMeet, CleanSettle,
                              CleanPendingDone, Tick, vars, Stats
    <3> QED
      BY <1>0, <2>2, <3>1, <3>2, InflightSame
  <2> QED
    BY <2>3, <2>4
<1> QED
  BY <1>1, <1>3, <1>4 DEF Next

-----------------------------------------------------------------------------
(* The gauge of connections.                                               *)

\* No more flows are allocated than the counters can count: each event makes at most
\* one when it is handled and one more when tryCorrelate looks for its flow.
NoWrap == 2 * MaxEvents < CtrMod

\* The workers about to allocate a flow, and those that may yet enter tryCorrelate.
Opening == {w \in Workers : worker[w].pc \in {"open", "lookup", "create"}}
FirstCall == {w \in Workers : worker[w].pc # "idle" /\ ~worker[w].retry}

\* The flows that were and that may still be allocated for the events so far.
Allocated == flowCount + Cardinality(Opening) + Cardinality(FirstCall) <= 2 * total

\* The gauge of connections is between those in the map and those ever allocated.
ActiveCovers == Cardinality(Live) <= stats.active /\ stats.active <= flowCount

\* How a set of workers changes when only worker w may join or leave it.
LEMMA OneMoves ==
    ASSUME NEW S, NEW T, S \subseteq Workers, T \subseteq Workers, NEW w \in Workers,
           \A v \in Workers : v # w => (v \in S <=> v \in T),
           NEW a \in {0, 1}, NEW c \in {0, 1}, a = 1 <=> w \in S, c = 1 <=> w \in T
    PROVE  /\ Cardinality(S) \in Nat /\ Cardinality(T) \in Nat
           /\ Cardinality(T) + a = Cardinality(S) + c
<1>1. IsFiniteSet(S) /\ IsFiniteSet(T)
  BY WorkersAssumption, FS_Subset
<1>2. Cardinality(S) \in Nat /\ Cardinality(T) \in Nat
  BY <1>1, FS_CardinalityType
<1>3. CASE w \in S <=> w \in T
  <2>1. S = T /\ a = c
    BY <1>3
  <2> QED
    BY <1>2, <2>1
<1>4. CASE w \in S /\ w \notin T
  <2>1. T = S \ {w} /\ a = 1 /\ c = 0
    BY <1>4
  <2>2. Cardinality(T) = Cardinality(S) - 1
    BY <1>1, <1>4, <2>1, FS_RemoveElement
  <2> QED
    BY <1>2, <2>1, <2>2
<1>5. CASE w \notin S /\ w \in T
  <2>1. T = S \cup {w} /\ a = 0 /\ c = 1
    BY <1>5
  <2>2. Cardinality(T) = Cardinality(S) + 1
    BY <1>1, <1>5, <2>1, FS_AddElement
  <2> QED
    BY <1>2, <2>1, <2>2
<1> QED
  BY <1>3, <1>4, <1>5

\* Allocated stays when what worker w was and may still be good for covers what it allocates.
LEMMA WorkerAllocates ==
    ASSUME TypeOK, TypeOK', Allocated, NEW w \in Workers,
           \A v \in Workers : v # w => worker'[v] = worker[v],
           NEW a \in {0, 1}, a = 1 <=> w \in Opening,
           NEW b \in {0, 1}, b = 1 <=> w \in FirstCall,
           NEW c \in {0, 1}, c = 1 <=> w \in Opening',
           NEW d \in {0, 1}, d = 1 <=> w \in FirstCall',
           flowCount' + c + d + 2 * total <= flowCount + a + b + 2 * total'
    PROVE  Allocated'
<1> DEFINE o == Cardinality(Opening)
           f == Cardinality(FirstCall)
           p == Cardinality(Opening')
           g == Cardinality(FirstCall')
           n == flowCount'
           t == total'
<1>1. o \in Nat /\ p \in Nat /\ p + a = o + c
  <2>1. /\ Opening \subseteq Workers /\ Opening' \subseteq Workers
        /\ \A v \in Workers : v # w => (v \in Opening <=> v \in Opening')
    BY DEF Opening
  <2> QED
    BY <2>1, OneMoves
<1>2. f \in Nat /\ g \in Nat /\ g + b = f + d
  <2>1. /\ FirstCall \subseteq Workers /\ FirstCall' \subseteq Workers
        /\ \A v \in Workers : v # w => (v \in FirstCall <=> v \in FirstCall')
    BY DEF FirstCall
  <2> QED
    BY <2>1, OneMoves
<1>3. flowCount \in Nat /\ n \in Nat /\ total \in Nat /\ t \in Nat
  BY BoundAssumption DEF TypeOK
<1>4. flowCount + o + f <= 2 * total
  BY DEF Allocated
<1> HIDE DEF o, f, p, g, n, t
<1>5. a \in Nat /\ b \in Nat /\ c \in Nat /\ d \in Nat
  OBVIOUS
<1>6. n + c + d + 2 * total <= flowCount + a + b + 2 * t
  BY DEF n, t
<1>7. n + p + g <= 2 * t
  <2>1. p = o + c - a /\ g = f + d - b
    BY <1>1, <1>2, <1>5
  <2>2. n + p + g = (n + c + d) + o + f - a - b
    BY <1>1, <1>2, <1>3, <1>5, <2>1
  <2>3. n + c + d <= flowCount + a + b + 2 * t - 2 * total
    BY <1>3, <1>5, <1>6
  <2> QED
    BY <1>1, <1>2, <1>3, <1>4, <1>5, <2>2, <2>3
<1> QED
  BY <1>7 DEF Allocated, p, g, n, t

\* A step of a worker allocates only what it was good for.
LEMMA StepAllocates ==
    ASSUME TypeOK, TypeOK', Retrying, Allocated, NEW w \in Workers, WorkerStep(w)
    PROVE  Allocated'
<1>0. /\ worker \in [Workers -> Worker] /\ flowCount \in Nat /\ 2 * total \in Nat
      /\ flowCount' \in Nat
  BY BoundAssumption DEF TypeOK
<1>1. total' = total
  BY DEF WorkerStep, HandleOpen, LookupFlow, CreateFlow, SendRequest, CountInflight, Touch,
         RecvPeek, RecvPop, HandleClose, Finish, TryPeek, TryPop, Unpend
<1>2. \A v \in Workers : v # w => worker'[v] = worker[v]
  BY <1>0 DEF WorkerStep, HandleOpen, LookupFlow, CreateFlow, SendRequest, CountInflight, Touch,
              RecvPeek, RecvPop, HandleClose, Finish, TryPeek, TryPop, Unpend
<1> DEFINE a == IF w \in Opening THEN 1 ELSE 0
           b == IF w \in FirstCall THEN 1 ELSE 0
           c == IF w \in Opening' THEN 1 ELSE 0
           d == IF w \in FirstCall' THEN 1 ELSE 0
<1>3. /\ a \in {0, 1} /\ (a = 1 <=> w \in Opening)
      /\ b \in {0, 1} /\ (b = 1 <=> w \in FirstCall)
      /\ c \in {0, 1} /\ (c = 1 <=> w \in Opening')
      /\ d \in {0, 1} /\ (d = 1 <=> w \in FirstCall')
  OBVIOUS
<1>t. a \in Nat /\ b \in Nat /\ c \in Nat /\ d \in Nat
  OBVIOUS
<1> HIDE DEF a, b, c, d
<1> SUFFICES flowCount' + c + d <= flowCount + a + b
  <2>1. flowCount' + c + d + 2 * total <= flowCount + a + b + 2 * total'
    <3> DEFINE x == 2 * total
               n == flowCount'
    <3>1. x \in Nat /\ n \in Nat /\ n + c + d <= flowCount + a + b
      BY <1>0
    <3> HIDE DEF x, n
    <3>2. n + c + d + x <= flowCount + a + b + x
      BY <1>0, <1>t, <3>1
    <3> QED
      BY <1>1, <3>2 DEF x, n
  <2> QED
    BY <1>2, <1>3, <2>1, WorkerAllocates
<1>4. CASE HandleOpen(w)
  <2>1. flowCount' = flowCount + 1 /\ worker[w].pc = "open" /\ worker'[w].pc = "finish"
        /\ worker'[w].retry = worker[w].retry
    BY <1>0, <1>4 DEF HandleOpen, InstallFlow, Worker
  <2>2. w \in Opening /\ w \notin Opening' /\ (w \in FirstCall <=> w \in FirstCall')
    BY <2>1 DEF Opening, FirstCall
  <2>3. a = 1 /\ c = 0 /\ b = d
    BY <1>3, <2>2
  <2> QED
    BY <1>0, <1>3, <2>1, <2>3
<1>5. CASE CreateFlow(w)
  <2>1. flowCount' = flowCount + 1 \/ flowCount' = flowCount
    BY <1>5 DEF CreateFlow, InstallFlow
  <2>2. worker[w].pc = "create" /\ worker'[w].pc = "body" /\ worker'[w].retry = worker[w].retry
    BY <1>0, <1>5 DEF CreateFlow, Worker
  <2>3. w \in Opening /\ w \notin Opening' /\ (w \in FirstCall <=> w \in FirstCall')
    BY <2>2 DEF Opening, FirstCall
  <2>4. a = 1 /\ c = 0 /\ b = d
    BY <1>3, <2>3
  <2> DEFINE n == flowCount'
  <2>5. n = flowCount + 1 \/ n = flowCount
    BY <2>1
  <2> HIDE DEF n
  <2>6. n + c + d <= flowCount + a + b
    BY <1>0, <1>t, <2>4, <2>5
  <2> QED
    BY <2>6 DEF n
<1>6. CASE Finish(w) /\ worker'[w].pc # "idle"
  <2>1. /\ flowCount' = flowCount /\ worker[w].pc = "finish"
        /\ \/ worker' = [worker EXCEPT ![w] = IdleWorker]
           \/ worker' = [worker EXCEPT ![w] = [@ EXCEPT !.pc = "lookup", !.retry = TRUE]]
    BY <1>6 DEF Finish
  <2>2. worker' # [worker EXCEPT ![w] = IdleWorker]
    BY <1>0, <1>6 DEF IdleWorker
  <2>3. worker'[w] = [worker[w] EXCEPT !.pc = "lookup", !.retry = TRUE] /\ worker[w] \in Worker
    BY <1>0, <2>1, <2>2
  <2>4. worker'[w].pc = "lookup" /\ worker'[w].retry
    BY <2>3 DEF Worker
  <2>5. ~worker[w].retry
    BY <2>1 DEF Retrying, Early
  <2>6. w \notin Opening /\ w \in Opening' /\ w \in FirstCall /\ w \notin FirstCall'
    BY <2>1, <2>4, <2>5 DEF Opening, FirstCall
  <2>7. a = 0 /\ c = 1 /\ b = 1 /\ d = 0
    BY <1>3, <2>6
  <2> QED
    BY <1>0, <2>1, <2>7
<1>7. CASE ~HandleOpen(w) /\ ~CreateFlow(w) /\ ~(Finish(w) /\ worker'[w].pc # "idle")
  <2>1. /\ flowCount' = flowCount /\ worker[w].pc # "idle"
        /\ worker'[w].pc = "idle" \/ worker'[w].retry = worker[w].retry
        /\ worker'[w].pc \in {"open", "lookup", "create"} =>
               worker[w].pc \in {"open", "lookup", "create"}
    <3>1. CASE LookupFlow(w)
      BY <1>0, <3>1 DEF LookupFlow, Worker
    <3>2. CASE SendRequest(w) \/ CountInflight(w) \/ Touch(w) \/ HandleClose(w)
      BY <1>0, <3>2 DEF SendRequest, CountInflight, Touch, HandleClose, Worker
    <3>3. CASE RecvPeek(w)
      <4>1. /\ flowCount' = flowCount /\ worker[w].pc = "body"
            /\ \E p \in {"finish", "pop"} : worker' = [worker EXCEPT ![w].pc = p]
        BY <3>3 DEF RecvPeek
      <4> QED
        BY <1>0, <4>1 DEF Worker
    <3>4. CASE RecvPop(w)
      BY <1>0, <3>4 DEF RecvPop, Worker
    <3>5. CASE TryPop(w)
      <4>1. /\ flowCount' = flowCount /\ worker[w].pc = "pop"
            /\ \/ worker' = [worker EXCEPT ![w] = IdleWorker]
               \/ worker' = [worker EXCEPT ![w].pc = "unpend"]
        BY <3>5 DEF TryPop
      <4> QED
        BY <1>0, <4>1 DEF IdleWorker, Worker
    <3>6. CASE TryPeek(w)
      BY <1>0, <3>6 DEF TryPeek, IdleWorker, Worker
    <3>7. CASE Unpend(w)
      BY <1>0, <3>7 DEF Unpend, IdleWorker
    <3>8. CASE Finish(w)
      BY <1>7, <3>8 DEF Finish
    <3> QED
      BY <1>7, <3>1, <3>2, <3>3, <3>4, <3>5, <3>6, <3>7, <3>8 DEF WorkerStep
  <2>2. (w \in Opening' => w \in Opening) /\ (w \in FirstCall' => w \in FirstCall)
    BY <2>1 DEF Opening, FirstCall
  <2>3. c <= a /\ d <= b
    BY <1>3, <2>2
  <2> QED
    BY <1>0, <1>3, <2>1, <2>3
<1> QED
  BY <1>4, <1>5, <1>6, <1>7

\* An event may cause two allocations.
LEMMA ReceiveAllocates ==
    ASSUME TypeOK, TypeOK', Allocated, NEW w \in Workers, NEW e \in Events, Receive(w, e)
    PROVE  Allocated'
<1>0. worker \in [Workers -> Worker] /\ flowCount \in Nat /\ total \in Nat
  BY BoundAssumption DEF TypeOK
<1>1. /\ total' = total + 1 /\ flowCount' = flowCount
      /\ \A v \in Workers : v # w => worker'[v] = worker[v]
  BY <1>0 DEF Receive
<1> DEFINE a == IF w \in Opening THEN 1 ELSE 0
           b == IF w \in FirstCall THEN 1 ELSE 0
           c == IF w \in Opening' THEN 1 ELSE 0
           d == IF w \in FirstCall' THEN 1 ELSE 0
<1>2. /\ a \in {0, 1} /\ (a = 1 <=> w \in Opening)
      /\ b \in {0, 1} /\ (b = 1 <=> w \in FirstCall)
      /\ c \in {0, 1} /\ (c = 1 <=> w \in Opening')
      /\ d \in {0, 1} /\ (d = 1 <=> w \in FirstCall')
  OBVIOUS
<1> HIDE DEF a, b, c, d
<1>3. flowCount' + c + d + 2 * total <= flowCount + a + b + 2 * total'
  BY <1>0, <1>1, <1>2
<1> QED
  BY <1>1, <1>2, <1>3, WorkerAllocates

\* The gauge covers the map when both stay, as all other steps leave them.
LEMMA SameActive ==
    ASSUME ActiveCovers, stats'.active = stats.active,
           UNCHANGED <<flowCount, connections>>
    PROVE  ActiveCovers'
<1>1. Live' = Live
  BY DEF Live, FlowIds
<1> QED
  BY <1>1 DEF ActiveCovers

\* There are finitely many flows.
LEMMA FlowsFinite ==
    ASSUME flowCount \in Nat, NEW S, S \subseteq FlowIds
    PROVE  IsFiniteSet(S) /\ Cardinality(S) \in Nat /\ Cardinality(S) <= flowCount
<1>1. IsFiniteSet(FlowIds) /\ Cardinality(FlowIds) = flowCount
  BY FS_Interval DEF FlowIds
<1>2. IsFiniteSet(S) /\ Cardinality(S) <= flowCount
  BY <1>1, FS_Subset
<1> QED
  BY <1>2, FS_CardinalityType

\* A new flow is counted; the one it replaces stays counted.
LEMMA InstallActive ==
    ASSUME TypeOK, TypeOK', NoWrap, Allocated', ActiveCovers, NEW k \in Keys, InstallFlow(k)
    PROVE  ActiveCovers'
<1>0. /\ flowCount \in Nat /\ stats \in Stats /\ connections \in [Keys -> {NoFlow} \cup FlowIds]
      /\ stats.active \in Nat /\ total' \in 0..MaxEvents /\ flowCount' \in Nat
      /\ CtrMod \in Nat \ {0} /\ MaxEvents \in Nat
  BY BoundAssumption DEF TypeOK, Stats
<1>1. /\ flowCount' = flowCount + 1 /\ stats'.active = Add(stats.active, 1)
      /\ connections' = [connections EXCEPT ![k] = flowCount + 1]
  BY <1>0 DEF InstallFlow, Stats
<1>2. flowCount' <= 2 * MaxEvents
  <2>1. Cardinality(Opening') \in Nat /\ Cardinality(FirstCall') \in Nat
    <3>1. Opening' \subseteq Workers /\ FirstCall' \subseteq Workers
      BY DEF Opening, FirstCall
    <3>2. IsFiniteSet(Opening') /\ IsFiniteSet(FirstCall')
      BY <3>1, WorkersAssumption, FS_Subset
    <3> QED
      BY <3>2, FS_CardinalityType
  <2>2. flowCount' + Cardinality(Opening') + Cardinality(FirstCall') <= 2 * total'
    BY DEF Allocated
  <2> QED
    BY <1>0, <2>1, <2>2
<1>3. stats.active <= flowCount /\ Cardinality(Live) <= stats.active
  BY DEF ActiveCovers
<1>4. stats'.active = stats.active + 1
  <2> DEFINE n == stats.active + 1
  <2>1. n \in 0..(CtrMod - 1)
    BY <1>0, <1>1, <1>2, <1>3 DEF NoWrap
  <2> HIDE DEF n
  <2>2. n % CtrMod = n
    BY <1>0, <2>1
  <2> QED
    BY <1>1, <2>2 DEF Add, n
<1>5. Cardinality(Live') <= Cardinality(Live) + 1
  <2>1. Live' \subseteq Live \cup {flowCount + 1}
    BY <1>0, <1>1 DEF Live, FlowIds
  <2>2. Live \subseteq FlowIds
    BY DEF Live
  <2>3. IsFiniteSet(Live) /\ Cardinality(Live) \in Nat
    BY <1>0, <2>2, FlowsFinite
  <2>4. /\ IsFiniteSet(Live \cup {flowCount + 1})
        /\ Cardinality(Live \cup {flowCount + 1}) <= Cardinality(Live) + 1
    <3>1. flowCount + 1 \notin Live
      BY <1>0, <2>2 DEF FlowIds
    <3>2. /\ IsFiniteSet(Live \cup {flowCount + 1})
          /\ Cardinality(Live \cup {flowCount + 1}) = Cardinality(Live) + 1
      BY <2>3, <3>1, FS_AddElement
    <3> QED
      BY <2>3, <3>2
  <2>5. Live' \in SUBSET (Live \cup {flowCount + 1})
    BY <2>1
  <2>6. IsFiniteSet(Live') /\ Cardinality(Live') <= Cardinality(Live \cup {flowCount + 1})
    BY <2>4, <2>5, FS_Subset
  <2>7. Cardinality(Live') \in Nat /\ Cardinality(Live \cup {flowCount + 1}) \in Nat
    BY <2>4, <2>6, FS_CardinalityType
  <2> QED
    BY <2>3, <2>4, <2>6, <2>7
<1>6. Cardinality(Live) \in Nat /\ Cardinality(Live') \in Nat
  <2>1. Live \subseteq FlowIds /\ Live' \subseteq FlowIds'
    BY DEF Live
  <2>2. IsFiniteSet(FlowIds')
    BY <1>0, FS_Interval DEF FlowIds
  <2> QED
    BY <1>0, <2>1, <2>2, FlowsFinite, FS_Subset, FS_CardinalityType
<1>7. Cardinality(Live') <= stats'.active /\ stats'.active <= flowCount'
  BY <1>0, <1>1, <1>3, <1>4, <1>5, <1>6
<1> QED
  BY <1>7 DEF ActiveCovers

\* A sweep takes off the gauge exactly the flows it takes out of the map.
LEMMA SweepActive ==
    ASSUME TypeOK, FlowKeys, ActiveCovers,
           NEW K, K \subseteq {k \in Keys : connections[k] # NoFlow}, Sweep(K),
           flowCount' = flowCount
    PROVE  ActiveCovers'
<1> DEFINE F == {connections[k] : k \in K}
           f == Cardinality(F)
           l == Cardinality(Live)
<1>0. /\ flowCount \in Nat /\ stats \in Stats /\ connections \in [Keys -> {NoFlow} \cup FlowIds]
      /\ stats.active \in 0..(CtrMod - 1) /\ CtrMod \in Nat \ {0}
  BY BoundAssumption DEF TypeOK, Stats
<1>1. /\ connections' = [k \in Keys |-> IF k \in K THEN NoFlow ELSE connections[k]]
      /\ stats'.active = Add(stats.active, -f)
  BY <1>0 DEF Sweep, Stats
<1>2. F \subseteq Live /\ Live \subseteq FlowIds /\ FlowIds \subseteq Nat /\ NoFlow \notin FlowIds
  BY <1>0 DEF Live, FlowIds, NoFlow
<1>3. Live' = Live \ F
  <2>1. ASSUME NEW k \in Keys, NEW j \in K, connections[k] = connections[j] PROVE k = j
    <3>1. j \in Keys /\ connections[j] # NoFlow /\ connections[k] # NoFlow
      BY <2>1
    <3> QED
      BY <2>1, <3>1 DEF FlowKeys
  <2>2. ASSUME NEW g \in FlowIds
        PROVE  (\E k \in Keys : connections'[k] = g) <=>
               (\E k \in Keys : connections[k] = g) /\ g \notin F
    BY <1>1, <1>2, <2>1
  <2>3. FlowIds' = FlowIds
    BY DEF FlowIds
  <2> HIDE DEF F
  <2>4. Live' = {g \in FlowIds : \E k \in Keys : connections'[k] = g}
    BY <2>3 DEF Live
  <2> QED
    BY <2>2, <2>4 DEF Live
<1>4. /\ IsFiniteSet(Live) /\ IsFiniteSet(F) /\ l \in Nat /\ f \in Nat
  BY <1>0, <1>2, FlowsFinite
<1>5. Cardinality(Live') = l - f /\ f <= l
  <2>1. Cardinality(Live \ F) = l - Cardinality(Live \cap F)
    BY <1>4, FS_Difference
  <2>2. Live \cap F = F
    BY <1>2
  <2>3. f <= l
    BY <1>2, <1>4, FS_Subset
  <2> QED
    BY <1>3, <2>1, <2>2, <2>3
<1>6. l <= stats.active /\ stats.active <= flowCount
  BY DEF ActiveCovers
<1> HIDE DEF F, f, l
<1>7. stats'.active = stats.active - f
  <2> DEFINE n == stats.active + -f
  <2>1. n \in 0..(CtrMod - 1) /\ n = stats.active - f
    BY <1>0, <1>4, <1>5, <1>6
  <2> HIDE DEF n
  <2>2. n % CtrMod = n
    BY <1>0, <2>1
  <2> QED
    BY <1>1, <2>1, <2>2 DEF Add, n
<1>8. Cardinality(Live') <= stats'.active /\ stats'.active <= flowCount'
  BY <1>0, <1>4, <1>5, <1>6, <1>7
<1> QED
  BY <1>8 DEF ActiveCovers

\* Every step keeps the connections covered.
LEMMA NextActive ==
    ASSUME TypeOK, TypeOK', Retrying, FlowKeys, NoWrap, Allocated, ActiveCovers, [Next]_vars
    PROVE  Allocated' /\ ActiveCovers'
<1>0. stats \in Stats
  BY DEF TypeOK
<1>1. ASSUME NEW w \in Workers, NEW e \in Events, Receive(w, e) PROVE Allocated' /\ ActiveCovers'
  <2>1. UNCHANGED <<flowCount, connections, stats>>
    BY <1>1 DEF Receive
  <2> QED
    BY <1>1, <2>1, ReceiveAllocates, SameActive
<1>2. ASSUME NEW w \in Workers, WorkerStep(w) PROVE Allocated' /\ ActiveCovers'
  <2>1. Allocated'
    BY <1>2, StepAllocates
  <2>2. CASE \E k \in Keys : InstallFlow(k)
    BY <2>1, <2>2, InstallActive
  <2>3. CASE worker[w].pc = "close" /\ connections[Key(w)] # NoFlow /\ Sweep({Key(w)})
             /\ flowCount' = flowCount
    <3>1. {Key(w)} \subseteq {k \in Keys : connections[k] # NoFlow}
      BY <2>3, KeyType
    <3> QED
      BY <2>1, <2>3, <3>1, SweepActive
  <2>4. CASE stats'.active = stats.active /\ UNCHANGED <<flowCount, connections>>
    BY <2>1, <2>4, SameActive
  <2>5. CASE HandleOpen(w) \/ CreateFlow(w)
    <3>1. Key(w) \in Keys
      BY <2>5, KeyType DEF HandleOpen, CreateFlow
    <3> QED
      BY <2>2, <2>4, <2>5, <3>1 DEF HandleOpen, CreateFlow
  <2>6. CASE HandleClose(w)
    BY <2>3, <2>4, <2>6 DEF HandleClose
  <2>7. CASE SendRequest(w) \/ CountInflight(w) \/ RecvPop(w) \/ TryPop(w)
    BY <1>0, <2>4, <2>7 DEF SendRequest, CountInflight, RecvPop, TryPop, Match, Stats
  <2>8. CASE LookupFlow(w) \/ Touch(w) \/ RecvPeek(w) \/ Finish(w) \/ TryPeek(w) \/ Unpend(w)
    BY <1>0, <2>4, <2>8 DEF LookupFlow, Touch, RecvPeek, Finish, TryPeek, Unpend, Stats
  <2> QED
    BY <1>2, <2>5, <2>6, <2>7, <2>8 DEF WorkerStep
<1>3. CASE CleanerStep \/ Tick \/ UNCHANGED vars
  <2>1. UNCHANGED <<worker, total, flowCount>>
    BY <1>3 DEF CleanerStep, CleanStart, CleanMeet, CleanSettle, CleanPendingDone, CleanConns,
                Tick, vars
  <2>2. Allocated'
    BY <2>1 DEF Allocated, Opening, FirstCall
  <2>3. CASE CleanConns
    <3> DEFINE K == {k \in Keys : connections[k] # NoFlow /\ flows[connections[k]].idle = Expired}
    <3>1. Sweep(K) /\ K \subseteq {k \in Keys : connections[k] # NoFlow}
      BY <2>3 DEF CleanConns
    <3> HIDE DEF K
    <3> QED
      BY <2>1, <2>2, <3>1, SweepActive
  <2>4. CASE ~CleanConns
    <3>1. stats'.active = stats.active /\ UNCHANGED connections
      BY <1>0, <1>3, <2>4 DEF CleanerStep, CleanStart, CleanMeet, CleanSettle,
                              CleanPendingDone, Tick, vars, Stats
    <3> QED
      BY <2>1, <2>2, <3>1, SameActive
  <2> QED
    BY <2>3, <2>4
<1> QED
  BY <1>1, <1>2, <1>3 DEF Next

\* Nothing is allocated or counted at first.
LEMMA GaugesStart ==
    ASSUME Init
    PROVE  InflightExact /\ Allocated /\ ActiveCovers
<1>1. /\ SpanIds = {} /\ FlowIds = {} /\ flowCount = 0 /\ total = 0
      /\ \A w \in Workers : worker[w].pc = "idle"
      /\ stats = [processed |-> 0, dropped |-> 0, inflight |-> 0, active |-> 0]
  BY DEF Init, SpanIds, FlowIds, IdleWorker
<1>2. /\ Requests = {} /\ Live = {} /\ Opening = {} /\ FirstCall = {} /\ Counting = {}
  BY <1>1 DEF Requests, Live, Opening, FirstCall, Counting
<1>3. Open = {} /\ Twice = {}
  BY <1>2 DEF Open, Twice
<1>4. Cardinality({}) = 0
  BY FS_EmptySet
<1>5. Net - Cardinality(Counting) = 0
  BY <1>2, <1>3, <1>4 DEF Net
<1>6. Add(0, 0) = 0
  BY BoundAssumption, AddNothing
<1>7. InflightExact
  BY <1>1, <1>5, <1>6 DEF InflightExact
<1>8. Allocated
  BY <1>1, <1>2, <1>4 DEF Allocated
<1>9. ActiveCovers
  BY <1>1, <1>2, <1>4 DEF ActiveCovers
<1> QED
  BY <1>7, <1>8, <1>9

\* No request is settled less than never or more than twice.
LEMMA SettledWithin ==
    ASSUME TypeOK, ReportInv, SettledAtMostTwice
    PROVE  Within
<1> SUFFICES ASSUME NEW s \in Requests
             PROVE  Settlements(s) \in 0..2
  BY DEF Within
<1>1. s \in SpanIds /\ spans[s].seq > 0 /\ spans[s].seq \in Nat /\ spans[s].handled \in Nat
  BY DEF Requests, TypeOK, Span
<1>2. Settlements(s) <= 2
  BY <1>1 DEF SettledAtMostTwice
<1>3. InHand(s) \/ spans[s].handled > 0
  BY <1>1 DEF ReportInv, LostInv, NoSpanLost, HandInv, Pending, Pended
<1> QED
  BY <1>1, <1>2, <1>3 DEF Settlements

\* What InflightRequests shows at any moment, modulo the width of the counter (handleSend,
\* handleRecv, tryCorrelate, handleClose, cleanupExpired).
THEOREM InflightInductive == Spec => []InflightExact
<1>1. Init => InflightExact
  BY GaugesStart
<1>2. TypeOK /\ ReportInv /\ SettledAtMostTwice => Within
  BY SettledWithin
<1>3. (TypeOK /\ ReportInv /\ SettledAtMostTwice => Within)'
  BY <1>2, PTL
<1>4. /\ TypeOK /\ ReportInv /\ KeyInv /\ Count /\ SettledAtMostTwice /\ InflightExact
      /\ TypeOK' /\ ReportInv' /\ SettledAtMostTwice' /\ [Next]_vars
      => InflightExact'
  BY <1>2, <1>3, NextInflight
<1> QED
  BY <1>1, <1>4, TypeCorrect, ReportsInductive, KeysInductive, CountInductive,
     SettledTwiceAtMost, PTL DEF Spec

\* Each event allocates at most two flows, and ActiveConnections is between the flows in
\* the map and those ever allocated (handleConnect, getOrCreateFlow, handleClose,
\* cleanupExpired).
THEOREM ActiveInductive ==
    ASSUME NoWrap
    PROVE  Spec => [](Allocated /\ ActiveCovers)
<1>1. Init => Allocated /\ ActiveCovers
  BY GaugesStart
<1>2. /\ TypeOK /\ TypeOK' /\ ReportInv /\ KeyInv /\ Allocated /\ ActiveCovers /\ [Next]_vars
      => Allocated' /\ ActiveCovers'
  BY NextActive DEF ReportInv, HandInv, KeyInv
<1> QED
  BY <1>1, <1>2, TypeCorrect, ReportsInductive, KeysInductive, PTL DEF Spec

\* When no worker is active InflightRequests shows the requests not settled, one more for each
\* one dropped from a full list and one less for each one settled twice, and ActiveConnections
\* never shows fewer connections than the map has (handleSend, handleConnect, handleClose,
\* cleanupExpired).
THEOREM GaugesAtRest ==
    ASSUME NoWrap
    PROVE  Spec => []GaugeAtRest
<1>1. TypeOK /\ InflightExact /\ ActiveCovers => GaugeAtRest
  <2> SUFFICES ASSUME TypeOK, InflightExact, ActiveCovers, AtRest
               PROVE  /\ stats.inflight = Add(stats.dropped, Cardinality(Open) - Cardinality(Twice))
                      /\ stats.active >= Cardinality(Live)
    BY DEF GaugeAtRest, Open, Twice
  <2>1. Counting = {}
    BY DEF AtRest, Counting
  <2>2. Cardinality(Counting) = 0
    BY <2>1, FS_EmptySet
  <2>3. Net \in Int
    <3>1. Open \subseteq SpanIds /\ Twice \subseteq SpanIds
      BY DEF Open, Twice, Requests
    <3>2. Cardinality(Open) \in Nat /\ Cardinality(Twice) \in Nat
      BY <3>1, SpansFinite
    <3> QED
      BY <3>2 DEF Net
  <2>4. Net - Cardinality(Counting) = Net
    BY <2>2, <2>3
  <2>5. stats.inflight = Add(stats.dropped, Cardinality(Open) - Cardinality(Twice))
    BY <2>4 DEF InflightExact, Net
  <2>6. Cardinality(Live) \in Nat /\ stats.active \in Nat
    <3>1. flowCount \in Nat /\ Live \subseteq FlowIds
      BY DEF TypeOK, Live
    <3> QED
      BY <3>1, FlowsFinite DEF TypeOK, Stats
  <2>7. stats.active >= Cardinality(Live)
    BY <2>6 DEF ActiveCovers
  <2> QED
    BY <2>5, <2>7
<1> QED
  BY <1>1, TypeCorrect, InflightInductive, ActiveInductive, PTL
=============================================================================

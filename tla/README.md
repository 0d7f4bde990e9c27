# A TLA+ verification of the eBPF tracing system

The program traces network calls with kernel probes, correlates them to spans
and traces in user space, samples the spans and stores them in ClickHouse, from
where a web interface shows them as traces and flame graphs. This directory
models the program from the probes to the flame graph, checks the models with TLC
on small instances and proves the central facts with TLAPS.

`PROJECT.json` lists components, runs, hazards, findings and theorems, and maps
every definition to the source lines it models.

## 1. Inventory

Data flow, with the goroutines (or kernel threads) in brackets:

    probes [any thread]  -> ring buffer -> pollEvents [1] -> eventChan
       -> eventWorker [n] and App.eventLoop [1] -> Correlator.ProcessEvent
       -> spanHandler: sampler -> ClickHouseStore.SaveSpan -> writeQueue
       -> batchWriter [1] -> ClickHouse
    Correlator.cleanupLoop [1] -> spanHandler
    ClickHouse -> GetTraceByID -> BuildTraceTree -> API [1 per request] -> flame graph
    Compressor: CompressTrace [callers]
    anomaly detector: RecordSpan [callers], alertSender [1], statsCleanupLoop [1]

| Component | State | Operations | What is hard |
|---|---|---|---|
| Kernel probes, `bpf/network_trace.bpf.c` | maps `connections`, `socket_to_conn`; ring buffer; counters | kprobes of connect, accept, send, receive, close; `send_event` | probes of several threads interleave at map operations; full maps; keys shared by all sockets of a process; unsigned differences of timestamps |
| Tracer, `pkg/ebpf/tracer.go` | `eventChan`, `stopChan`, counters | `pollEvents`, `eventWorker`, `Stop` | two kinds of consumers on one channel; read errors; closing a channel that a goroutine may still send on |
| Correlator, `pkg/trace/correlator.go` | `connections`, `inflightReqs` and `seqCounter` per flow, `pendingRequests`, statistics | `ProcessEvent` and its handlers, `tryCorrelate`, `cleanupExpired` | four kinds of critical sections; pointers to flows kept across unlocks; timeouts against matches; unsigned gauges |
| Span store, `pkg/storage/clickhouse.go` | `writeQueue`, the batch, statistics, a WaitGroup | `SaveSpan`, `batchWriter`, `flushWithRetry`, `Close`; queries | retries after a lost answer; a full queue; shutdown |
| Samplers, `pkg/sampling/sampler.go` | remembered decision per trace, configuration, statistics | `ShouldSample`, `MarkTraceSampled`, `UpdateConfig`; adaptive and composite samplers | load and store of a decision are two steps; an early decision binds later spans |
| Anomaly detector, `pkg/anomaly/anomaly.go` | statistics per operation, cooldowns, `alertChan` | `RecordSpan`, `alertSender`, cleanup, `Stop` | threshold moved by the sample it judges; cooldowns deleted concurrently; a bounded channel |
| Protocol parsers, `pkg/protocol`, and the record format, `parseRawEvent` | none | decode a record, detect and parse payloads | struct layouts, byte orders, lengths larger than what was copied |
| Data model, `pkg/model/trace.go` | none of its own | `BuildTraceTree` | equal, missing and circular ids |
| Compression, `pkg/compression/compressor.go` | `signatureCache`, counters | `CompressTrace`, `CompressSpan`, `ComputeSubtreeSignature`, eviction | one mutex for the cache and another for the counters; order of children |
| Flame graph, `pkg/flamegraph` | none | folded lines, SVG, statistics, hot spots | sorting in place, division by the root's duration |
| API, `pkg/api/server.go` | none | `getTrace`, `getFlameGraph`; other handlers read one component | what the table makes of ids |
| Configuration, `cmd/main.go` | wiring | flags, shutdown order | order of the shutdown |

What makes each correct:

* **Correlator** - a response goes to the oldest waiting request of its own
  process and connection, no request is answered twice, no span is lost, the
  lists stay bounded, idle connections and pending spans are eventually cleaned.
* **Store** - an accepted span is taken by the server or counted as failed, in
  order; a refused one was refused because the queue was full; `Close` ends the
  writer.
* **Sampler** - one decision per trace; slow and failed spans are kept.
* **Tracer** - every event is in exactly one place, in order, counted; the
  goroutines return after a signal.
* **Probes** - a measured duration is not longer than the socket's life; maps
  hold nothing that will never be deleted.
* **Anomaly detector** - alerts respect the cooldown, are posted or fail, and are
  raised only for anomalies.
* **Record and parsers** - the process survives what it observes; a reply reaches
  the span of its request; both ends' probes name a connection by one key.
* **Traces** - what hangs below the root is a tree, with every span once; a trace
  read from the table is the one that was saved; drawings and statistics show
  every span; equal subtrees get equal signatures and the cache stays bounded.

## 2. Modules and how they correspond to the code

| Module | Models | Configurations | Proofs |
|---|---|---|---|
| `Correlator` | correlator | `MCCorrelator`, `MCCorrelatorLive` | `CorrelatorProofs` |
| `SpanDelivery` | the store's promise, abstractly | through `SpanStore` | |
| `SpanStore` | write path of the store; implements `SpanDelivery` | `MCSpanStore`, `MCSpanStoreClose` | `SpanStoreProofs` |
| `TraceSampler` | `TraceLevelSampler` over `DynamicSampler` or `AdaptiveSampler` | `MCTraceSampler`, `MCTraceSamplerUrgent`, `MCTraceSamplerLoad` | `TraceSamplerProofs` |
| `Tracer` | ring buffer, poller, channel, consumers, poller of statistics, shutdown | `MCTracer`, `MCTracerStop`, `MCTracerPolls` | `TracerProofs` |
| `Anomaly` | anomaly detector | `MCAnomaly` | `AnomalyProofs` |
| `Probes` | kernel probes and their maps | `MCProbes` | `ProbesProofs` |
| `Conversation` | probes of both ends, record format, parsers and flows, composed for one connection | `MCConversation`, `MCConversationLayout`, `MCConversationReplies` | `ConversationProofs` |
| `TraceTree` | operators: `BuildTraceTree`, ids in the table, structures, flame graph | through `TraceRequests` | `TraceRequestsProofs` |
| `TraceRequests` | query, API handlers and compression as concurrent requests over `TraceTree` | `MCTraceRequests`, `MCTraceRequestsRoot` | `TraceRequestsProofs` |

An action is one critical section (or one map or channel operation) with the
unshared work around it. Definitions whose comment begins with "Mutant" are
deliberately wrong variants of the definition that follows; no specification
uses them. They show that each property can fail.

**Correlator.** A worker is a goroutine inside `ProcessEvent`; its `pc` says
between which locks it is, and it keeps its flow as a number, which stands for
the pointer and stays valid after the flow has left `connections`. A request
list is a sequence of span numbers. `pend` and `idle` are the ages of a pending
span and of a flow, counted up to one more than the timeout (`Expired`). A flow
made by `handleConnect` has zero timestamps, so it is born expired.
Statistics count modulo `CtrMod`, as the unsigned Go counters do modulo 2^64.
Endpoints are pairs of numbers in the order of the code's comparison, and
payloads are classified as request, response or other, which is all the handlers
ask of them. The three sorts of trace ids are kept apart: the 33 NUL bytes of an
event without a header, the empty string of an empty header (the only case that
reaches the pending list), and real ones.

**SpanStore.** Spans are numbered by the calls of `SaveSpan`. `fate` is a history
variable. The connection asks for asynchronous inserts that are not waited for
(`clickhouse.go:76`): what a successful `Send` says is that the server has the batch,
so that `taken` counts the copies the server took and `rows` those in the table, and
`ServerInserts` moves copies from the one to the other later, or never.
`FlushError(applied)` is the failure that matters: the server may have taken the batch
before the error.
`malformed` spans are those the driver refuses to append, which `doFlush` logs
and skips.

**TraceSampler.** A rate is "all", "some" (a draw) or "none". `results` is the
history of answers. `inner` says which sampler the trace level is around: `main`
uses the dynamic one, and the adaptive one of the same file fits as well. Its
window holds the times its calls have read, in the order in which they got the
lock; above the target `calculateAdaptiveRate` asks for the rate of a nil span,
and `panicked` is the end of the process. `README.md:18` and `:20` of the
repository say that slow and failed spans are always kept, which is not so;
`SkippedUrgentHasCause` says exactly when they are not. `README.md:21` says that the rate
follows the load, and `AdaptiveKeepsOrDies` says what happens instead.

**Tracer.** `stop` follows the stages of `Stop`. `PollSend` on the closed channel
is the panic. Sending an event (`PollSend`) and counting it (`PollCount`) are two steps,
between which a consumer may take and handle it. The error of a closed reader wraps
`ErrClosed`, so that `pollEvents` takes it for any other (`PollClosed`): it counts a
dropped event and goes back to its `select`. `statsPoller` waits and reads in turn, for
ever. `lost` is a history variable. Malformed records and read errors are
events of the environment, bounded by `MaxErrors`.

**Probes.** A thread is inside at most one probe; every map operation is a step.
`users`, `opened` and `excused` are history: who holds the socket, when each
process opened it, and whether one of the two known causes of a leak occurred.
`FilePos` is what the code uses as descriptor; for sockets it is 0.

**Conversation.** The ends are the client and the server, both traced. A write, a
read, a connect, an accept and a close each emit the records their probes emit,
with the addresses, ports and byte orders the probes put there, and the goroutines
that drain the channel (the workers and `eventLoop`, `Consumers` together) take them
from `events`. Each has one record in hand at a time, so that at any moment the oldest
`Consumers` records are in hand (`InHand`), and whichever is finished first is handled
first; `overtaken` are the ends whose close was handled before another of their
records. `Swap` is `htons`; a word of 32 bits is a pair of
halves because of what `parseRawEvent` does: the C compiler aligns `saddr` in
`struct trace_event` at offset 44, whereas Go reads the fields without padding and
takes it from offset 42. All fields from there on are read two bytes too early;
`PayloadSize` becomes `size << 16 | error >> 16`. With `layout = "aligned"` the
model decodes as the code does. With `layout = "packed"` the two agree, which
is not how the repository builds: it shows what the rest of the code makes of a
correct record. Each handler is one step, in any order; how the steps of two interleave is
the subject of `Correlator`. `Fatal` are the two panics of the parsers: the slice by a size
that exceeds the array (`SliceFails`), and the numbers of a RESP command or string that
`RedisParser` has no room for (`RedisFails`), which a message has or has not (`huge`).
How a proxy's frame is unpacked is reduced to the bytes its content begins with.

**TraceTree.** A pointer to a span is its position in `rows`. Trees are records of
rows, root and children; `Sorted` and `RowOrders` are sets, because `sort.Slice` is
not stable and SQL leaves the order of equal start times open. `Padded` is the trip
of an id through the table: `padString` fills up with NUL bytes, which
`strings.TrimSpace` does not remove. Durations are in nanoseconds. A frame's value is its
duration cut off to microseconds, `int64(DurationMs * 1000)`: `Micros`, of which
the module assumes what the conversion does (`CutOff`: the whole microseconds, or
one less where there is no rest and the float64 product falls short of them). Lengths in a drawing are
scaled by the root's value to stay whole. `Grounded` are the spans whose links lead to an end; the
recursions of the code end on these, and what recurs over the children is a
function on them.

**TraceRequests.** A caller is a goroutine with one request at a time. `Query`
stands for `GetTraceByID`, `Build` for `BuildTraceTree` over spans in memory, as a caller
of the flame graph or the compressor that has the spans would make it: no code in
`src` does so, and since no stored trace has a root (`StoredTraceRootless`), none
in `src` ever draws a flame graph. What is shown of drawings is therefore shown of
`pkg/flamegraph` as a library, for any spans its caller may have.
`CompressSpan`, `Signature` and `Tally` are separate steps because the cache and
the counters have a mutex each. `signed` is history. Nothing in `src` calls
`CompressTrace`; two goroutines doing so is what its mutexes are there for.

**Anomaly.** Mean and variance are exact fractions over a common scale, and the
threshold is compared by squares. `raised` is the history of alerts.

## 3. What the runs show

| Run | Shows |
|---|---|
| `correlator` | both ends of a connection on one host, one without trace ids, with connects, closes and expiries at any moment: no span lost, no empty id inherited, matched spans share the id unless timed out meanwhile, FIFO without gaps, oldest request first, no request matched twice or settled more than twice, gauges exactly as far off as the races make them |
| `correlator_live` | pending spans are reported, calls return, idle flows are swept |
| `store` | nothing mislaid or reordered; what the server took and what is in the table bounded by attempts, outcomes and counters; implements `SpanDelivery`; accepted spans are decided while the store is open; the writer returns after `Close` |
| `store_close` (violation) | `Close` never returns: it waits for `statsReporter`, which never ends |
| `sampler` | what holds in spite of the two-step decision: one decision means one answer for all spans, a decision changes only while another caller is deciding, a skipped slow span has a known cause; the adaptive sampler skips nothing and dies only above its target |
| `tracer` | events in one place, in order, handled or counted as dropped; the counters are behind by the event just sent and no more; no panic if the poller is empty-handed when the channel closes; poller, workers and event loop return |
| `tracer_stop` (violation) | `Stop` can make the poller send on a closed channel |
| `anomaly` | cooldown, alerts are anomalies, queued alerts are posted or fail |
| `probes` | durations never overstated and on sockets the process opened itself; no map entry left behind without a known cause |
| `conversation` | no reply reaches a span, in either layout; what waits is a request; no flow is left over but that of a refused connect and those whose close overtook another record; which conversations the process survives |
| `conversation_layout` (violation) | a conversation of small messages ends the process |
| `traces` | below the root is a tree with every span once; a trace from the table has no root, and sometimes no JSON; signatures do not depend on the order of the rows; the cache stays bounded and its counters add up; the folded lines name the spans above each span (`FoldedShowsStacks`), boxes lie side by side within their parents' as far as the cut off values allow (`BoxesNest`), the statistics count every span and the hot spots are the hottest (`StatsCountAll`), together `FlameFaithful` |

The three violations are described, with the lines of the repository that say
otherwise, under "findings" in `PROJECT.json`. So are four disagreements with the
repository's README that passing runs show: their properties state what the code does,
and the promise it breaks is a property of its own, with a configuration in which TLC
refutes it. These configurations are not among the runs; each ends within seconds
with a counterexample (`tlc -config MCTraceSamplerUrgent.cfg MCTraceSampler`, and so on):

| Configuration | Promise refuted | What TLC finds | What the code does instead |
|---|---|---|---|
| `MCTraceSamplerUrgent` | `UrgentKept` (`README.md:18`, `:20`) | a slow or failed span is skipped with the fast span its trace began with | `SkippedUrgentHasCause` |
| `MCTraceSamplerLoad` | `AdaptsToLoad` (`README.md:21`) | above its target the adaptive sampler panics instead of lowering its rate | `AdaptiveKeepsOrDies` |
| `MCTraceRequestsRoot` | `StoredTraceRooted` (`README.md:146-148`) | a trace saved with a root has none when it is read again | `StoredTraceRootless` |
| `MCConversationReplies` | `RepliesRead` (`README.md:13`, `:20`) | the status of a web service's reply reaches no span, with the layouts agreeing | `RepliesUnread` |
| `MCTracerPolls` | `StopEndsPolling` (log line `tracer.go:174`) | `statsPoller` outlives `Stop` | `GoroutinesExit` leaves it out |

Several properties state precisely what the code does rather than what one would
wish. `GaugeAtRest` says how far `InflightRequests` drifts: up by one for
every request dropped from a full list, down by one for every request settled
both by a close and by a worker with a stale flow. `SettledAtMostTwice` says when
a request is reported a second time. The second part of `GaugeAtRest` is one-sided
because a reconnection counts a connection again. `OneDecisionOneAnswer` is
conditional because two goroutines that both miss the remembered decision draw
separately and may answer differently. `RowsMatchFate` allows `maxRetries + 1`
copies because `flushWithRetry` makes one attempt more than its error message
("flush failed after %d attempts") reports. `RepliesUnread` and `OnlyRequestsWait`
belong together: the probes of receives copy no payload, and the byte order of the
server's own port makes its protocol unknown, so that no response is ever matched;
the same accident keeps a server's replies that look like requests out of the
waiting lists. Both except connections one of whose ports happens to be familiar
to `detect_protocol` (`Familiar`). `StoredTraceRootless` is why `getFlameGraph` answers
404 for every stored trace.
`TracerSurvives` says precisely what `conversation_layout`
refutes in general: with the layouts agreeing, short conversations are survived unless
a number in them is too large for `RedisParser`; as they are, none with a refused connect
or with data (multiples of 64 KiB aside). `CountersAgree` is exact about what lies between
sending and counting an event. `GoroutinesExit` is about the goroutines that move events;
`statsPoller` never returns (`MCTracerPolls`). `ClosedFlowsGone` excepts the ends whose
close one goroutine handled while another had an earlier record in hand, which makes the
flow anew. `BoxesNest` has two parts because values are cut off: children of 0.5 ms and
0.501 ms fit into a parent of 1.001 ms, whose value may be 1000, and their boxes do not. If
no span is shorter than its children together, a box ends at most the width of one
microsecond behind its parent's; if that holds of the values as well, boxes nest and those
of one row are apart.

### Bounds

Every bound is a constant of its module and appears in the guards. Two workers are
enough for every race between the two looks of `handleRecv`,
between a handler and a sweep, and between a match and the cleanup; the cleaner
is a third process. Three events cover a request, its response, and a close,
reconnection or second response that interferes; a list of `maxInflight = 2`
overflows with the third send and shows the order of two. `Timeout = 0`
lets an age of one tick expire; larger values only add ticks. `CtrMod = 8`
exceeds every count of these runs except the drop below zero, which wraps.
The store's queue and batch of 2 with 4 calls give full and partly filled
batches and a refused span; one retry distinguishes first and last attempt.
The tracer's ring of 2, channel of 1 and 3 events overflow both buffers.
The sampler's 3 calls are a race of two and a later reader, and with
`TargetEvents = 1` the second call of the adaptive sampler is one too many; one tick
of the clock is the length of the window, so that calls leave it. In the detector,
4 samples with `MinSamples = 2` leave three that can raise alerts, with durations
that reach all three severities, and the clock passes both the cooldown and the
cleanup's memory. The probes have two sockets that compete for one entry and
maps of two entries that fill up; each of the two processes has one thread, for
which `NeverOverstated` is stated (two threads of one process can make
`duration_ns` wrap, see the hazards).
A conversation has up to three writes: two that one read returns together, and a
reply; `maxInflight = 1` makes the second request push out the first; two goroutines
(`Consumers`) overtake each other. The dialogues
of `MCConversation` have a message for every branch of the parsers, one whose
size is a multiple of 65536 and one with a number too large for `RedisParser`; the client's ports are an ordinary one, one that is
8080 in the other byte order, and one of the table.
The traces of `MCTraceRequests` have a root and up to two more spans, out of a set
that contains siblings, chains, twins of the root and of each other, cycles, missing
parents, a second root and spans without ids, with equal and different times and
names, and a root of duration 0. Of a root of 1.001 ms a microsecond is cut off, and
children of 0.5 and 0.501 ms then end behind it; the children also come with room to
spare, side by side in one row, in a chain of three boxes, and too short to be
drawn in a drawing of `Width` 3. A cache of 2 overflows with the third structure.
Two compressions may run at a time, which share the cache; of the other requests,
which share nothing, one (`Cost`).

`CHECK_DEADLOCK FALSE` is set where the number of inputs is bounded and the system
then has nothing left to do, or has stopped; the correlator and the probes
always have a step (time passes, the cleaner runs, sockets are opened), and their
runs check deadlock.

Symmetry is used for identical workers, callers and sockets, and never in a run
with a liveness property.

### Fairness

* Goroutines that can run do run (Go's scheduler is preemptive): weak fairness.
* A goroutine waiting for a mutex gets it (Go mutexes hand over to a waiter that
  starves): strong fairness of `Finish` and `Unpend`, which need the pending list.
* The cleaner's ticker fires for ever and time passes between its runs: weak
  fairness of the cleaner, strong fairness of `Tick`.
* A `select` chooses among ready cases at random, so a case that is ready again
  and again is chosen: strong fairness of `SeeStop` and of `Exit`.
* A POST ends because the HTTP client has a timeout: weak fairness of the sender.
* Nothing is assumed of signals, of arriving events or of the database answering
  successfully.

## 4. What is proved

For every value of the constants that satisfies the modules' assumptions:

| Theorem | Says |
|---|---|
| `CorrelatorProofs!TypeCorrect` | `Spec => []TypeOK`: any number of workers, events, connections |
| `CorrelatorProofs!ListsInductive` | the inductive invariant on the waiting lists |
| `CorrelatorProofs!BoundedLists` | no list exceeds `maxInflight` |
| `CorrelatorProofs!OrderedLists` | `FIFOOrder`: each list holds the flow's last requests in order without a gap |
| `CorrelatorProofs!MatchedAtMostOnce` | `MatchedOnce`: no request is the parent of two responses |
| `CorrelatorProofs!ReportsInductive` | the inductive invariant on what becomes of a span |
| `CorrelatorProofs!NoSpanForgotten` | `NoSpanLost`: every span is in a hand, on the pending list or reported |
| `CorrelatorProofs!MatchKeepsTrace` | `MatchedSharesTrace` |
| `CorrelatorProofs!KeysInductive` | flows, requests and matches stay with their key |
| `CorrelatorProofs!MatchesInOrder` | `MatchedInOrder`: a match joins spans of one process and connection, the oldest request first |
| `CorrelatorProofs!CountInductive` | every report of a span has a reason of its own |
| `CorrelatorProofs!SettledTwiceAtMost` | `SettledAtMostTwice` |
| `CorrelatorProofs!InflightInductive` | what `InflightRequests` shows at any moment |
| `CorrelatorProofs!ActiveInductive` | `ActiveConnections` lies between the flows in the map and those ever allocated, if `NoWrap` |
| `CorrelatorProofs!GaugesAtRest` | `GaugeAtRest`, if `NoWrap` |
| `SpanStoreProofs!TypeCorrect` | types, capacities of queue and batch, the WaitGroup's count |
| `SpanStoreProofs!Keeps` | `NothingMislaid`: accepted spans are neither lost nor reordered |
| `SpanStoreProofs!RowsAccounted` | `RowsMatchFate`: copies taken and copies in the table against attempts, outcomes and counters |
| `SpanStoreProofs!Implements` | `Delivers`: the store implements `SpanDelivery` |
| `TraceSamplerProofs!TypeCorrect` | types, any callers, traces and configurations |
| `TraceSamplerProofs!AdaptiveNeverSkips` | `AdaptiveKeepsOrDies` |
| `TraceSamplerProofs!DecisionsAreStable` | `DecisionStable` |
| `TraceSamplerProofs!OneDecisionGivesOneAnswer` | `OneDecisionOneAnswer`: one decision, one answer for all spans of the trace |
| `TraceSamplerProofs!SkipsHaveACause` | `SkippedUrgentHasCause` |
| `TracerProofs!TypeCorrect` | types, capacities of ring buffer and channel |
| `TracerProofs!EmptyHandedStopIsSafe` | `StopSafeWhenEmptyHanded` |
| `TracerProofs!NothingVanishes` | `EventInOnePlace` |
| `TracerProofs!OrderKept` | `KernelOrder` |
| `TracerProofs!CountersFollow` | `CountersAgree` |
| `AnomalyProofs!TypeCorrect` | types, capacity of `alertChan`, mean and variance non-negative |
| `AnomalyProofs!InsensitiveDetectorIsSilent` | alpha * (1 + k^2) >= 1 implies no alert, for all durations |
| `AnomalyProofs!CooldownHolds` | `CooldownRespected`: alerts of one operation and severity are more than the cooldown (or the cleanup's memory) apart |
| `AnomalyProofs!AlertsAreFounded` | `AlertsAreAnomalies` |
| `ProbesProofs!TypeCorrect` | types, and at most `MaxEntries` entries in each map, whatever the probes read as file position |
| `ProbesProofs!DurationsNeverOverstated` | `NeverOverstated`: in a process with one thread, no duration exceeds the life of its socket |
| `ProbesProofs!MeasuredOnOwnSocket` | `MeasuredSocketIsOwn` |
| `ProbesProofs!NothingLeaks` | `NoLeak`, if `AllAtZero` |
| `ConversationProofs!RepliesNeverRead` | `RepliesUnread`: any dialogue, ports, layout |
| `ConversationProofs!OnlyRequestsEverWait` | `OnlyRequestsWait` |
| `ConversationProofs!GoneInductive` | what each end has on the way, and what is left when it has closed |
| `ConversationProofs!ClosedFlowsAreGone` | `ClosedFlowsGone`: the five probes name a connection by one key, and what is overtaken is all that is left |
| `ConversationProofs!SurvivesWhatItCan` | `TracerSurvives`: any dialogue, ports, sizes, either layout |
| `TraceRequestsProofs!CacheKeepsAccounts` | `CacheAccounts`: any number of callers and size of the cache |
| `TraceRequestsProofs!RootHoldsTree` | `TreeBelowRoot`: any spans, with any ids |
| `TraceRequestsProofs!NoRootFromTable` | `StoredTraceRootless` |
| `TraceRequestsProofs!OneSignature` | `SignatureIgnoresRowOrder` |
| `TraceRequestsProofs!LinesShowStacks` | `FoldedShowsStacks` |
| `TraceRequestsProofs!StatsCountEverySpan` | `StatsCountAll` |
| `TraceRequestsProofs!BoxesDrawnApart` | `BoxesNest`, for any width |
| `TraceRequestsProofs!FlamesAreFaithful` | `FlameFaithful`: these three |

The assumptions are those named in the modules: capacities, batch size, number
of retries and `Consumers` are positive, sets of threads and callers finite, the empty trace id is
no trace id, latencies exist, ports have 16 bits, a message is a request or a reply
and no reply begins with GET or POST; the size of a message is a number; a trace is
a sequence of spans whose start is an integer and whose duration is a natural number
(no clock runs backwards within a span), cut off as `CutOff` says; a padded id is not
the empty one; a drawing
has a positive width (`getFlameGraph` makes 1200 of any other). Two theorem modules name a hypothesis of
their own. `NoWrap` (of the gauge of connections) says that the events are fewer
than half of what a counter can count to, 2^64 in Go: a gauge that has wrapped is
below any number of connections. `AllAtZero` (of `NoLeak`) says that the file of a
socket has position 0, as it has in the kernel: a socket is not seekable. If it had
another, connect and accept would use different keys, and the connect of an accepted
socket would turn its entry in `socket_to_conn` away from the key the accept wrote,
which nothing would then delete: TLC finds `NoLeak` violated for a position of 1.

*Lists.* None of the three list properties is inductive alone. A span that
two lists held, or that a worker still had in hand while a list held it, could be
matched twice. `ListsInductive` therefore proves them together with: workers
hold different spans (`DistinctHands`); a span whose handler has not yet run is
in no flow and has no number (`FreshHands`); a request in a list has a number
(`ListedNumbered`); and whoever is a parent has a number and is in no list
(`MatchedGone`). That a request is in one list and there once follows from its
flow and number. Sending (`SendLists`), matching (`MatchLists`) and receiving
(`ReceiveLists`) have a lemma each; all other steps leave the lists, numbers and
parents alone and share `KeptLists` and `KeptHands`.

*Reports.* `NoSpanLost` is violated by a span that leaves the pending list unreported,
or by a worker that ends its call without a report. `HandInv` says what hands and the
pending list hold: a worker in `tryCorrelate` has a span that was never sent as a request
(`Retrying`); requests and matched responses have an id and are different spans (`Named`);
no request is on the pending list, nor a span whose worker has still to put it there
(`Pending`). `LostInv` adds that the span in `tryCorrelate` is on the pending list or was
reported by the cleanup, and that both spans of a match were reported (`Reported`).
Most steps treat the spans calmly (`Calm`: hands and ids stay, a span on the pending
list stays there or is reported) or all spans but one (`OneSpan`), so that the actions
share two arguments.

*Keys.* The key of a flow never changes; `KeyInv` says that the flow in the map, the one
a worker has looked up, the flow of a request and the connection of its response all have
that key (`FlowKeys`, `RequestKeys`, `MatchKeys`). That what still waits was sent later is
`FIFOOrder` at the moment of the match.

*Counts.* A report of a request goes with the end of its call, with its leaving the list,
or with its flow's leaving the map; a report of another span with its match, or with its
worker's being done while it is not on the pending list (`CountOf`). None of these is
taken back (`ReasonsKept`) and every report comes with a new one (`Credited`).
`SettledAtMostTwice` reads the bounds off.

*Gauges.* What `InflightRequests` shows is not what waits. `InflightExact` says what it
shows in every state, modulo the counter's width: the requests never settled, less
those settled twice, plus those dropped, less those a worker has sent and not yet
counted. Each action settles a set M of requests and sends a set N (`Settles`), and
`NetMoves` turns that into the gauge's change, in one place for all of them.
`ActiveConnections` needs `NoWrap`: an event allocates at most two flows
(`Allocated`), so that the gauge stays between the map and `flowCount` (`ActiveCovers`).

*Delivery.* The invariant of the store is types, `Sizes` and `NothingMislaid`; it is
inductive because the open spans are those of batch followed by queue, and that
sequence increases: a flush decides the batch, and since batch and queue have no
element in common (`IncreasingConcat`) what is open afterwards is the queue. The
refinement maps that same sequence to `undecided`. `SaveSpan` is an acceptance or a
refusal, with `Sizes` for the bounds (`SaveSpanDelivers`); a receive moves the head
of the queue to the end of the batch and leaves the sequence as it is
(`ReceiveConcat`), as do retries, ticks and `Close`; the end of a flush takes the
batch off its front (`EndFlushDelivers`).

*Rows.* `RowsInv` is `RowsMatchFate` for each span (`RowOK`) with what makes it inductive:
the server took a span of the batch at most once for each failed attempt, and the retries that do not
belong to this batch were spent on batches already counted as flushed or failed, at most
`maxRetries` on each (`Attempts`).

*Sampler, tracer, probes.* Types need little more than themselves: that a caller
about to store has been told to keep the span if the sampler is adaptive
(`Keeping`), that what the poller sends and a consumer handles is an event
(`Holding`), that a probe has a socket (`Busy`) and the maps are finite. (What else
is proved of these three follows.)
`StopSafeWhenEmptyHanded` follows from `Holding`, as a poller with nothing in hand is
not about to send and the closed reader gives it nothing.

*Places and order.* `PlaceInv`: the channel is before the poller's event and that before
the ring, each increasing (`Order`); waiting events, those in consumers' hands, the
handled and the lost are disjoint, consumers hold different ones, and together they are
all events (`Places`). `CountersFollow` counts the same places, with the event that
the poller has still to count as one of them.

*Answers.* `Sources`: what a call returns, or the map remembers, goes back to an answer
of the inner sampler for that trace, or to a mark (`Founded`, `Remembered`); and the inner
sampler turns a span down only by a draw (`Drawn`).

*Durations.* `AgeInv`: no time lies in the future (`Dated`), what a process finds under a
key is its own (`Kin`), and in a process with one thread everything the process
did lies before the running probe (`Past`) and the entry that a socket leads to is not
older than the socket (`Linked`). With two threads `Past` fails: the other thread may
store a later time.

*Leaks.* `SockInv`: while `tcp_close` runs for a socket nobody holds it and no other probe
runs on it (`Sole`), so that a remembered socket is one its process holds, or one that
`tcp_close` has still to forget (`Remembered`). `ReachInv` adds, with `AllAtZero`, that
every entry of `connections` is reached from an entry of `socket_to_conn` that is not about
to be deleted, or from a thread that is about to write one (`Reached`). Both leave out
what happens after one of the two known causes (`excused`).

*Silence.* The invariant is that no alert was raised, and the step is an
arithmetic fact (`SpikeRaisesVariance` in `AnomalyProofs`): with d the distance
of the sample from the old mean, its distance from the new one is (1-a)d, the
new variance is at least a(1-a)d^2, and k^2 a >= 1-a makes the threshold at least
the sample.

*Cooldown.* `CooldownRespected` is strengthened by what the map remembers: each
past alert is either recorded in `cooldown` at its time or a later one, or older
than the cleanup's memory; and nothing lies in the future.

*Founded alerts.* `RecordSpan` compares a span with statistics that this span has
moved already. `SpikeWasFar` shows that this never makes a span an anomaly that
was none before: if it exceeds the new mean by k new deviations, it exceeded the
old mean by k old ones. `Counted` (an operation with a mean has been counted) rules
out the first sample.

*Conversations.* The invariant is on the records (`Underway`): what is in the ring is
what a probe can have made of this connection. A receive copies no data, so its
payload is NUL bytes in either layout, which is no response (`NoResponse`): nothing is
ever matched. A reply is sent by the server's end, whose own port is in the wrong byte
order. `NoProtocol` shows for all 16-bit ports that `detect_protocol` then finds none
unless a port is familiar, because `Swap` is its own inverse (`SwapTwice`); and
neither `Parse` nor `isRequestPayload` make anything of an unknown protocol
(`NothingParsed`, `NoRequest`). What waits are therefore spans of the client's sends
(`Waits`).

*Closed flows.* `RecordNames`: whatever the probe, the endpoints it fills in, in their
different orders and byte orders, give one key for each end (`EndKey`), but for the record
of a refused connection, which has none. `Tidy` says of each end that has closed its
socket that its close is the last of its records on the way (`LastIsClose`), or that
there is neither a record nor a flow of it any more (`Silent`), or that its close was
overtaken; it holds as long as the process lives and the layouts agree. Taking a record
out of the middle keeps the order of the others (`RecordTaken`), so that a close is either
handled last, which leaves nothing, or puts its end among `overtaken`.

*Sizes.* `SizeInv` follows the bytes: what an end has in the network are messages its
peer wrote, and together they are not longer than what it has written (`Writing`);
so no record stands for more bytes than an end has written (`EventsShort`), whether it
is of a write or of a read that returns several messages together, and it fits into the
payload array while these do. In the layout as it is, a record's size is read as the
upper half of one, and only multiples of 64 KiB leave that harmless.

*Cache.* `CacheInv` adds the shapes of the callers' local variables and the types to
`CacheAccounts`. A signature adds 1 to the sum of the `Count`s, and one caller to those
about to tally; the tally moves that caller to the hits or misses (`Balance`).

*Induction over a trace.* The library's induction theorems cannot be used, for they
take an operator as a parameter. The proofs use sets instead: that of the numbers, or
of the spans, for which a claim holds. A set of numbers that has 0 and all successors has
every number, since what it lacks would have a least element (`Least`, `NatInd`). A set of
spans that has a span whenever it has the span's parent (`FromTop`), or whenever it has
all its children (`FromBelow`), has all of `Grounded`: the number of spans above a span, `Up`,
falls on the way up, and bounds the way down (`Rank`). `Recursion` says that a rule making
a value of every span from those of its children has a function that follows it, which is
what a recursive definition needs before anything can be said of its values. `FoldCounts`
and `FlattenIs` do the same for the folds.

*Requests.* `TracesInv` says what each caller carries: a tree of its trace (`IsTree`: the
children of a span are those whose parent it is, each once) over rows that are the saved
spans in some order or have been through the table (`Origin`), and an answer that was drawn
from such a tree (`Drawn`). All properties of trees and answers follow from it.

*Trees.* `TreeIsTree`: since a span has one parent, the sets `Below` of two children are
disjoint, so that a walk lists each span below its root once (`WalkLists`), and nothing
below a span leads back to it (`NotAbove`). `StoredRoot`: a padded id is not empty, so no
stored span has an empty parent, and a span that is its own parent is not in `Grounded`.

*Signatures.* Two trees of one trace differ by a permutation of the rows (`Reordered`).
If ids are not repeated it takes parents to parents; and if siblings do not start
together, sorting leaves one order of them (`OneOrder`), so that structures agree from
the leaves up.

*Drawings.* The folded lines go with the walk, place by place (`Matched`): the line of a
span is what its stack adds to the names that the recursion has been handed
(`Stacked`), so that at the root it is the stack. For the statistics, the frames are left
in another order than that of the walk but are as many (`LeavesAll`), and each is counted
under the one name it bears (`CountedOnce`). For the boxes, `Sits` says that those of a frame
lie in the frame's place and below it, and that only the first lies in its row. If it
holds for the children in their slots it holds for the frame (`TogetherSits`), because
the slots follow each other and end before the frame does, but for an excess: that is
where the sum of the children's values counts (`SlotsAre`). `CutOffCosts` bounds the
excess by one microsecond: what is cut off the children makes their sum smaller, so that
only what is cut off the parent, at most one, can be missing.

*Only model-checked:* the liveness properties (under fairness, out of the
prover's reach), that is `PendingReported`, `WorkersReturn`, `IdleFlowSwept`,
`EventuallyDecided`, `WriterStops`, `EventsHandled`, `GoroutinesExit` and `AlertsPosted`.
Every safety and action property that a passing run checks is also proved.

## 5. Limits

* In the repository's state `pkg/api` and `cmd` do not compile: `getFlameGraph` calls a
  `GetTraceTree` the store does not have, and `main` calls `api.NewServer` with five
  of its seven arguments. The models follow the functions that are called and their
  order; for `GetTraceTree` they take what `GetTraceByID` finds, and its root.
* `struct trace_event` is larger than the 512 bytes of stack a BPF program has, so
  that the probes as written need a change before a kernel accepts them. They are
  modelled as written.
* `Correlator` is modelled at its interface, where payloads may be responses;
  `Conversation` shows that no event of this program's probes is classified as one.
* `CompressTrace` is complete but nothing in `src` calls it.
* The anomaly detector is complete but not started by `main`.
* Tags are left out. Writes to a span's tag map by several goroutines are data
  races that Go may end the process for; they are listed as a hazard without a
  property. Also left to unit tests: tags are stored as one string and split at
  commas and colons again (`clickhouse.go:638`), and `ComputeSubtreeSignature` returns a
  signature with `Count` 1 also for a structure it found (`compressor.go:265`), so that
  duplicates are not tagged. `CompressSpan` writes into a nil tag map
  (`compressor.go:130`): the model ends there (`panicked`), and no document says
  what it should do.
* `sampledTraces` grows with every trace id, because nothing starts
  `cleanupOldTraces` (`sampler.go:251`); the model has a fixed set of traces.
* `readBPFStats` asks a per-CPU map for one value, which the library refuses, so that the
  published kernel counters stay 0; the counters of the model are the kernel's own.
* Fractions stand for floating point, so rounding at the exact threshold is not
  covered; clocks do not advance within an action. Hashes do not collide.
* Not modelled, because they keep no state of their own or nothing uses them: the
  SQL of `QueryTraces` and the monitoring handlers, which read and write JSON;
  configuration; demo services; zstd and JSON (external); byte-level parsing of RESP
  and of headers other than the trace id; the UDP probes; `DecompressTrace` and
  `FindSimilarTraces`; how long a trace lasts (`StartTime`, `EndTime`);
  `CompositeSampler`, `IsTraceSampled`.

## 6. Plan

Done, in this order: correlator, store with its abstract delivery, sampler,
tracer, anomaly detector, probes; then the adaptive sampler, the traces (tree, table,
API, flame graph, compression), and the composition of probes, record format,
parsers and flows; then proofs of every safety property of all of these.

Next, in the model: the tag maps, with correlator and store composed, `SetTag` as a
step, and exclusion of concurrent map access as the property.

----------------------------- MODULE TraceSampler -----------------------------
(***************************************************************************)
(* The sampler of pkg/sampling/sampler.go as cmd/main.go composes it: a    *)
(* TraceLevelSampler, which remembers one decision per trace, around a     *)
(* DynamicSampler, which decides by latency and error code, or around the  *)
(* AdaptiveSampler of the same file, which keeps a window of recent calls. *)
(* Every goroutine that reports a span calls ShouldSample concurrently.    *)
(*                                                                         *)
(* A rate is abstracted to what ShouldSample tells apart: at least 1,      *)
(* between 0 and 1 (a random draw decides), at most 0.  The remembered     *)
(* decisions are never forgotten: nothing starts cleanupOldTraces.         *)
(***************************************************************************)
EXTENDS Integers, Sequences, FiniteSets

CONSTANTS
    Callers,     \* goroutines that call ShouldSample
    Traces,      \* trace ids other than the empty one
    NoTrace,     \* the empty trace id
    Durations,   \* latencies of spans, in the unit of the thresholds
    Configs,     \* sampling configurations UpdateConfig may install
    InnerKinds,  \* which samplers the TraceLevelSampler may be around
    TargetEvents,    \* calls in a window that the AdaptiveSampler accepts
    WindowDuration,  \* length of the window
    MaxTime,     \* bound on the clock
    MaxCalls     \* bound on the number of calls of ShouldSample

Rates == {"all", "some", "none"}

Config == [threshold : Int, high : Rates, low : Rates]

ASSUME CallersAssumption == IsFiniteSet(Callers)
ASSUME TracesAssumption == NoTrace \notin Traces
ASSUME DurationsAssumption == Durations \subseteq Int /\ Durations # {}
ASSUME ConfigsAssumption == Configs \subseteq Config
ASSUME KindsAssumption == InnerKinds \subseteq {"dynamic", "adaptive"}
ASSUME WindowAssumption == TargetEvents \in Nat /\ WindowDuration \in Nat
ASSUME CallsAssumption == MaxCalls \in Nat /\ MaxTime \in Nat

\* error stands for ErrorCode >= 400.
Span == [trace : Traces \cup {NoTrace}, duration : Durations, error : BOOLEAN]

VARIABLES
    cfg,            \* the DynamicSampler's configuration
    sampledTraces,  \* the remembered decision of each trace
    caller,         \* where each caller is, and its local variables
    calls,          \* number of calls so far
    results,        \* what the calls returned, in the order of the decisions
    marked,         \* the traces MarkTraceSampled was called for
    stats,          \* the DynamicSampler's counters
    inner,          \* the kind of innerSampler
    now,            \* the clock
    eventsWindow,   \* the AdaptiveSampler's recent calls, by the times they read
    panicked        \* a nil pointer was dereferenced and the process is gone

adaptive == <<inner, now, eventsWindow, panicked>>
vars == <<cfg, sampledTraces, caller, calls, results, marked, stats, adaptive>>

Decisions == {"unknown", "keep", "skip"}

Caller == [pc : {"idle", "inner", "add", "eps", "store"}, span : Span, time : Nat,
           rate : Rates, kept : BOOLEAN]

\* first: the inner sampler was asked, at this rate; urgent: the span is slow or
\* failed, and the configuration asks for all of those.
Result == [trace : Traces \cup {NoTrace}, first : BOOLEAN,
           rate : Rates, urgent : BOOLEAN, kept : BOOLEAN]

\* Every variable has its type.
TypeOK ==
    /\ cfg \in Configs
    /\ sampledTraces \in [Traces -> Decisions]
    /\ caller \in [Callers -> Caller]
    /\ calls \in 0..MaxCalls
    /\ results \in Seq(Result)
    /\ marked \subseteq Traces
    /\ stats \in [total : Nat, sampled : Nat, high : Nat, low : Nat]
    /\ inner \in InnerKinds
    /\ now \in 0..MaxTime
    /\ eventsWindow \in Seq(Nat)
    /\ panicked \in BOOLEAN

\* NewDynamicSampler, NewAdaptiveSampler and NewTraceLevelSampler.
Init ==
    /\ cfg \in Configs
    /\ sampledTraces = [t \in Traces |-> "unknown"]
    /\ caller = [c \in Callers |-> [pc |-> "idle", span |-> CHOOSE s \in Span : TRUE,
                                    time |-> 0, rate |-> "none", kept |-> FALSE]]
    /\ calls = 0
    /\ results = <<>>
    /\ marked = {}
    /\ stats = [total |-> 0, sampled |-> 0, high |-> 0, low |-> 0]
    /\ inner \in InnerKinds
    /\ now = 0
    /\ eventsWindow = <<>>
    /\ panicked = FALSE

-----------------------------------------------------------------------------
\* DynamicSampler.SamplingRate.
HighRateApplies(span) == span.duration >= cfg.threshold \/ span.error
SamplingRate(span) == IF HighRateApplies(span) THEN cfg.high ELSE cfg.low

Urgent(span) == HighRateApplies(span) /\ cfg.high = "all"

Return(span, first, rate, kept) ==
    results' = Append(results,
        [trace |-> span.trace, first |-> first, rate |-> rate,
         urgent |-> Urgent(span), kept |-> kept])

\* Mutants: the presence of a decision is returned, or its opposite.
LoadHitPresence(c, span) ==
    /\ caller[c].pc = "idle"
    /\ calls < MaxCalls
    /\ span.trace \in Traces
    /\ sampledTraces[span.trace] # "unknown"
    /\ calls' = calls + 1
    /\ Return(span, FALSE, SamplingRate(span), TRUE)
    /\ UNCHANGED <<cfg, sampledTraces, caller, marked, stats, adaptive>>

LoadHitOpposite(c, span) ==
    /\ caller[c].pc = "idle"
    /\ calls < MaxCalls
    /\ span.trace \in Traces
    /\ sampledTraces[span.trace] # "unknown"
    /\ calls' = calls + 1
    /\ Return(span, FALSE, SamplingRate(span), sampledTraces[span.trace] # "keep")
    /\ UNCHANGED <<cfg, sampledTraces, caller, marked, stats, adaptive>>

\* ShouldSample looks for a remembered decision and returns it.
LoadHit(c, span) ==
    /\ caller[c].pc = "idle"
    /\ calls < MaxCalls
    /\ span.trace \in Traces
    /\ sampledTraces[span.trace] # "unknown"
    /\ calls' = calls + 1
    /\ Return(span, FALSE, SamplingRate(span), sampledTraces[span.trace] = "keep")
    /\ UNCHANGED <<cfg, sampledTraces, caller, marked, stats, adaptive>>

\* ShouldSample finds none, or there is no trace id to look for.
LoadMiss(c, span) ==
    /\ caller[c].pc = "idle"
    /\ calls < MaxCalls
    /\ span.trace \in Traces => sampledTraces[span.trace] = "unknown"
    /\ calls' = calls + 1
    /\ caller' = [caller EXCEPT ![c].pc = "inner", ![c].span = span]
    /\ UNCHANGED <<cfg, sampledTraces, results, marked, stats, adaptive>>

\* The inner sampler returns: without a trace id its answer is passed on, else
\* it is to be remembered.
Decided(c, rate, kept) ==
    IF caller[c].span.trace = NoTrace
    THEN /\ Return(caller[c].span, TRUE, rate, kept)
         /\ caller' = [caller EXCEPT ![c].pc = "idle"]
    ELSE /\ caller' = [caller EXCEPT ![c].pc = "store", ![c].rate = rate, ![c].kept = kept]
         /\ UNCHANGED results

\* DynamicSampler.ShouldSample: the counters, the rate, and the draw.
Inner(c) ==
    LET rate == SamplingRate(caller[c].span)
    IN  /\ caller[c].pc = "inner" /\ inner = "dynamic"
        /\ \E kept \in BOOLEAN :
             /\ rate = "all" => kept
             /\ rate = "none" => ~kept
             /\ stats' = [stats EXCEPT
                            !.total = @ + 1,
                            !.sampled = IF kept THEN @ + 1 ELSE @,
                            !.high = IF rate = "all" THEN @ + 1 ELSE @,
                            !.low = IF kept /\ rate = "some" THEN @ + 1 ELSE @]
             /\ Decided(c, rate, kept)
        /\ UNCHANGED <<cfg, sampledTraces, calls, marked, adaptive>>

-----------------------------------------------------------------------------
(* AdaptiveSampler.ShouldSample.                                           *)

Tick ==
    /\ inner = "adaptive" /\ now < MaxTime
    /\ now' = now + 1
    /\ UNCHANGED <<cfg, sampledTraces, caller, calls, results, marked, stats,
                   inner, eventsWindow, panicked>>

\* The time is read before the window is locked.
ReadClock(c) ==
    /\ caller[c].pc = "inner" /\ inner = "adaptive"
    /\ caller' = [caller EXCEPT ![c].pc = "add", ![c].time = now]
    /\ UNCHANGED <<cfg, sampledTraces, calls, results, marked, stats, adaptive>>

\* pruneOldEvents drops the old calls up to the first that is not old.
Pruned(window, time) ==
    LET old == {i \in DOMAIN window :
                    \A j \in 1..i : window[j] <= time - WindowDuration}
    IN  SubSeq(window, Cardinality(old) + 1, Len(window))

\* addEvent; a slow or failed span is kept at once, and not counted in total.
AddEvent(c) ==
    LET span == caller[c].span
        slow == span.duration >= cfg.threshold
    IN  /\ caller[c].pc = "add"
        /\ eventsWindow' = Pruned(Append(eventsWindow, caller[c].time), caller[c].time)
        /\ \/ /\ HighRateApplies(span)
              /\ stats' = [stats EXCEPT !.sampled = @ + 1, !.high = IF slow THEN @ + 1 ELSE @]
              /\ Decided(c, "all", TRUE)
           \/ /\ ~HighRateApplies(span)
              /\ caller' = [caller EXCEPT ![c].pc = "eps"]
              /\ UNCHANGED <<stats, results>>
        /\ UNCHANGED <<cfg, sampledTraces, calls, marked, inner, now, panicked>>

\* Mutant: the rate is looked up for the span.
AdaptiveRateOfSpan(c) ==
    /\ caller[c].pc = "eps"
    /\ eventsWindow' = Pruned(eventsWindow, now)
    /\ \E kept \in BOOLEAN :
         /\ Len(eventsWindow') <= TargetEvents => kept
         /\ stats' = [stats EXCEPT !.total = @ + 1]
         /\ Decided(c, "some", kept)
    /\ UNCHANGED <<cfg, sampledTraces, calls, marked, inner, now, panicked>>

\* currentEPS and calculateAdaptiveRate: up to the target every span is kept;
\* above it the base rate is looked up for a nil span.
AdaptiveRate(c) ==
    /\ caller[c].pc = "eps"
    /\ eventsWindow' = Pruned(eventsWindow, now)
    /\ \/ /\ Len(eventsWindow') <= TargetEvents
          /\ stats' = [stats EXCEPT !.total = @ + 1, !.sampled = @ + 1, !.low = @ + 1]
          /\ Decided(c, "all", TRUE)
          /\ UNCHANGED panicked
       \/ /\ Len(eventsWindow') > TargetEvents
          /\ panicked' = TRUE
          /\ UNCHANGED <<caller, results, stats>>
    /\ UNCHANGED <<cfg, sampledTraces, calls, marked, inner, now>>

-----------------------------------------------------------------------------

\* The decision is remembered, whatever is there by now, and returned.
Store(c) ==
    LET me == caller[c]
    IN  /\ me.pc = "store"
        /\ sampledTraces' = [sampledTraces EXCEPT
                                ![me.span.trace] = IF me.kept THEN "keep" ELSE "skip"]
        /\ Return(me.span, TRUE, me.rate, me.kept)
        /\ caller' = [caller EXCEPT ![c].pc = "idle"]
        /\ UNCHANGED <<cfg, calls, marked, stats, adaptive>>

MarkTraceSampled(t) ==
    /\ t \notin marked
    /\ sampledTraces' = [sampledTraces EXCEPT ![t] = "keep"]
    /\ marked' = marked \cup {t}
    /\ UNCHANGED <<cfg, caller, calls, results, stats, adaptive>>

\* Mutant: a new configuration forgets the decisions.
UpdateConfigForgets(new) ==
    /\ cfg' = new
    /\ sampledTraces' = [t \in Traces |-> "unknown"]
    /\ UNCHANGED <<caller, calls, results, marked, stats, adaptive>>

UpdateConfig(new) ==
    /\ cfg' = new
    /\ UNCHANGED <<sampledTraces, caller, calls, results, marked, stats, adaptive>>

ResetStats ==
    /\ stats' = [total |-> 0, sampled |-> 0, high |-> 0, low |-> 0]
    /\ UNCHANGED <<cfg, sampledTraces, caller, calls, results, marked, adaptive>>

Next ==
    /\ ~panicked
    /\ \/ \E c \in Callers, span \in Span : LoadHit(c, span) \/ LoadMiss(c, span)
       \/ \E c \in Callers : Inner(c) \/ Store(c) \/ ReadClock(c) \/ AddEvent(c) \/ AdaptiveRate(c)
       \/ \E t \in Traces : MarkTraceSampled(t)
       \/ \E new \in Configs : UpdateConfig(new)
       \/ ResetStats \/ Tick

Spec == Init /\ [][Next]_vars

-----------------------------------------------------------------------------
(* Properties.                                                             *)

\* A caller is between its failed look for trace t and its store.
Deciding(t) == \E c \in Callers : caller[c].pc # "idle" /\ caller[c].span.trace = t

FirstResults(t) == {i \in DOMAIN results : results[i].trace = t /\ results[i].first}

\* A remembered decision changes only while some caller that missed it is still
\* deciding the same trace, or by MarkTraceSampled (ShouldSample's Load and
\* Store are two steps).
DecisionStable ==
    [][\A t \in Traces :
         sampledTraces[t] # "unknown" /\ ~Deciding(t)
           => sampledTraces'[t] = sampledTraces[t] \/ MarkTraceSampled(t)]_vars

\* If a trace was decided once and never marked, all its spans got that answer.
OneDecisionOneAnswer ==
    \A t \in Traces \ marked :
        Cardinality(FirstResults(t)) = 1 =>
            \A i, j \in DOMAIN results :
                results[i].trace = t /\ results[j].trace = t
                    => results[i].kept = results[j].kept

\* The README promises that slow and failed spans are all kept (UrgentKept), and
\* they are not. One that is not kept belongs to a trace that an earlier draw at a
\* lower rate skipped, or was itself drawn under another configuration.
SkippedUrgentHasCause ==
    \A i \in DOMAIN results :
        results[i].urgent /\ ~results[i].kept =>
            \E j \in FirstResults(results[i].trace) :
                j <= i /\ ~results[j].kept /\ results[j].rate # "all"

\* The README promises a rate that follows the load (AdaptsToLoad), and there is
\* none. The AdaptiveSampler never turns a span down: until the calls in its window
\* exceed the target it keeps all of them, and the first one beyond ends the
\* process (calculateAdaptiveRate), if there is one that is neither slow nor
\* failed. Out-of-order times only make it happen earlier.
AdaptiveKeepsOrDies ==
    inner = "adaptive" =>
        /\ \A i \in DOMAIN results : results[i].first => results[i].kept
        /\ panicked => Len(eventsWindow) > TargetEvents

\* The README says that slow spans and failed ones are all kept. The answers of
\* TraceLevelSampler are those of the trace's first span: a trace whose first
\* span was fast, and not drawn, loses its slow and failed ones.  Not a property of
\* the code: TLC refutes it with MCTraceSamplerUrgent.cfg.
UrgentKept == \A i \in DOMAIN results : results[i].urgent => results[i].kept

\* The README says that the rate follows the load: AdaptiveSampler answers
\* however many calls its window has.  Refuted with MCTraceSamplerLoad.cfg.
AdaptsToLoad == inner = "adaptive" => ~panicked
=============================================================================

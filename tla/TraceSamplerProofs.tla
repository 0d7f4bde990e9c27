--------------------------- MODULE TraceSamplerProofs --------------------------
(***************************************************************************)
(* Proofs about TraceSampler, for any callers, traces, latencies and       *)
(* configurations: the types, when a remembered decision may change, that  *)
(* every answer comes from the inner sampler or a mark, and that the       *)
(* adaptive sampler turns no span down.                                    *)
(***************************************************************************)
EXTENDS TraceSampler, SequenceTheorems, FiniteSetTheorems, TLAPS

Counters == [total : Nat, sampled : Nat, high : Nat, low : Nat]

\* What an adaptive sampler decided is to keep the span.
Keeping ==
    inner = "adaptive" =>
        /\ \A c \in Callers : caller[c].pc = "store" => caller[c].kept
        /\ \A i \in DOMAIN results : results[i].first => results[i].kept
        /\ panicked => Len(eventsWindow) > TargetEvents

Inv == TypeOK /\ Keeping

-----------------------------------------------------------------------------
(* The pieces of the actions.                                              *)

\* Pruning leaves a window.
LEMMA PrunedType ==
    ASSUME NEW window \in Seq(Nat), NEW time \in Nat
    PROVE  Pruned(window, time) \in Seq(Nat)
<1> DEFINE old == {i \in DOMAIN window :
                       \A j \in 1..i : window[j] <= time - WindowDuration}
<1>1. Len(window) \in Nat /\ DOMAIN window = 1..Len(window)
  BY LenProperties
<1>2. IsFiniteSet(1..Len(window))
  BY <1>1, FS_Interval
<1>3. Cardinality(old) \in Nat
  BY <1>1, <1>2, FS_Subset, FS_CardinalityType
<1> DEFINE first == Cardinality(old) + 1
<1> HIDE DEF old
<1>4. first \in Int /\ Len(window) \in Int /\ \A i \in first .. Len(window) : window[i] \in Nat
  BY <1>1, <1>3, ElementOfSeq
<1> HIDE DEF first
<1>5. SubSeq(window, first, Len(window)) \in Seq(Nat)
  BY <1>4, SubSeqProperties
<1> QED
  BY <1>5 DEF Pruned, first, old

\* What a call returns is one more result.
LEMMA ReturnType ==
    ASSUME results \in Seq(Result), NEW span \in Span, NEW first \in BOOLEAN,
           NEW rate \in Rates, NEW kept \in BOOLEAN, Return(span, first, rate, kept)
    PROVE  /\ results' \in Seq(Result) /\ Len(results') = Len(results) + 1
           /\ \A i \in DOMAIN results : results'[i] = results[i]
           /\ DOMAIN results' = 1..(Len(results) + 1) /\ DOMAIN results = 1..Len(results)
           /\ Len(results) \in Nat
           /\ results'[Len(results) + 1].first = first
           /\ results'[Len(results) + 1].kept = kept
           /\ results'[Len(results) + 1].trace = span.trace
           /\ results'[Len(results) + 1].rate = rate
<1> DEFINE r == [trace |-> span.trace, first |-> first, rate |-> rate,
                 urgent |-> Urgent(span), kept |-> kept]
<1>1. Urgent(span) \in BOOLEAN /\ span.trace \in Traces \cup {NoTrace}
  BY DEF Urgent, HighRateApplies, Span
<1>2. r \in Result
  BY <1>1 DEF Result
<1>3. results' = Append(results, r)
  BY DEF Return
<1>4. r.first = first /\ r.kept = kept /\ r.trace = span.trace /\ r.rate = rate
  OBVIOUS
<1> HIDE DEF r
<1> QED
  BY <1>2, <1>3, <1>4, AppendProperties, LenProperties

\* The rate of a span is one of the three.
LEMMA RateType ==
    ASSUME cfg \in Configs, NEW span \in Span
    PROVE  SamplingRate(span) \in Rates
  BY ConfigsAssumption DEF SamplingRate, Config

\* The inner sampler's answer is returned or kept for the store.
LEMMA DecidedType ==
    ASSUME TypeOK, NEW c \in Callers, NEW rate \in Rates, NEW kept \in BOOLEAN,
           Decided(c, rate, kept)
    PROVE  /\ results' \in Seq(Result) /\ caller' \in [Callers -> Caller]
           /\ caller'[c].pc = "store" => caller'[c].kept = kept
           /\ \A d \in Callers \ {c} : caller'[d] = caller[d]
           /\ kept /\ (\A i \in DOMAIN results : results[i].first => results[i].kept)
                => \A i \in DOMAIN results' : results'[i].first => results'[i].kept
<1>1. /\ caller \in [Callers -> Caller] /\ caller[c] \in Caller /\ caller[c].span \in Span
      /\ results \in Seq(Result)
  BY DEF TypeOK, Caller
<1>2. CASE Return(caller[c].span, TRUE, rate, kept) /\ caller' = [caller EXCEPT ![c].pc = "idle"]
  <2>1. /\ results' \in Seq(Result) /\ Len(results') = Len(results) + 1
        /\ \A i \in DOMAIN results : results'[i] = results[i]
        /\ DOMAIN results' = 1..(Len(results) + 1) /\ DOMAIN results = 1..Len(results)
        /\ Len(results) \in Nat
        /\ results'[Len(results) + 1].kept = kept
    BY <1>1, <1>2, ReturnType
  <2>2. caller' \in [Callers -> Caller] /\ caller'[c].pc = "idle"
        /\ \A d \in Callers \ {c} : caller'[d] = caller[d]
    BY <1>1, <1>2 DEF Caller
  <2>3. \A i \in DOMAIN results' : i \in DOMAIN results \/ i = Len(results) + 1
    BY <2>1
  <2> QED
    BY <2>1, <2>2, <2>3
<1>3. CASE /\ caller' = [caller EXCEPT ![c].pc = "store", ![c].rate = rate, ![c].kept = kept]
           /\ UNCHANGED results
  <2>1. caller' \in [Callers -> Caller] /\ caller'[c].kept = kept
        /\ \A d \in Callers \ {c} : caller'[d] = caller[d]
    BY <1>1, <1>3 DEF Caller
  <2> QED
    BY <1>1, <1>3, <2>1
<1> QED
  BY <1>2, <1>3 DEF Decided

\* Counting keeps the counters natural numbers.
LEMMA CountersType ==
    ASSUME NEW s \in Counters, NEW b \in BOOLEAN
    PROVE  /\ [s EXCEPT !.sampled = @ + 1, !.high = IF b THEN @ + 1 ELSE @] \in Counters
           /\ [s EXCEPT !.total = @ + 1, !.sampled = @ + 1, !.low = @ + 1] \in Counters
<1> DEFINE t == s.total + 1
           k == s.sampled + 1
           l == s.low + 1
           h == IF b THEN s.high + 1 ELSE s.high
<1>1. t \in Nat /\ k \in Nat /\ l \in Nat /\ h \in Nat
  BY DEF Counters
<1> HIDE DEF t, k, l, h
<1>2. /\ [s EXCEPT !.sampled = k, !.high = h] \in Counters
      /\ [s EXCEPT !.total = t, !.sampled = k, !.low = l] \in Counters
  BY <1>1 DEF Counters
<1> QED
  BY <1>2 DEF t, k, l, h

-----------------------------------------------------------------------------
(* The inductive invariant.                                                *)

\* The invariant holds at first.
LEMMA InvInit == Init => Inv
<1> SUFFICES ASSUME Init PROVE Inv
  OBVIOUS
<1>1. Span # {} /\ (CHOOSE s \in Span : TRUE) \in Span
  <2>1. PICK d \in Durations : TRUE
    BY DurationsAssumption
  <2>2. [trace |-> NoTrace, duration |-> d, error |-> FALSE] \in Span
    BY <2>1 DEF Span
  <2> QED
    BY <2>2
<1>2. /\ cfg \in Configs /\ inner \in InnerKinds /\ panicked = FALSE /\ now = 0 /\ calls = 0
      /\ sampledTraces = [t \in Traces |-> "unknown"] /\ marked = {}
      /\ results = <<>> /\ eventsWindow = <<>>
      /\ stats = [total |-> 0, sampled |-> 0, high |-> 0, low |-> 0]
      /\ caller = [c \in Callers |-> [pc |-> "idle", span |-> CHOOSE s \in Span : TRUE,
                                      time |-> 0, rate |-> "none", kept |-> FALSE]]
  BY DEF Init
<1>3. caller \in [Callers -> Caller] /\ \A c \in Callers : caller[c].pc = "idle"
  BY <1>1, <1>2 DEF Caller, Rates
<1>4. stats \in Counters /\ sampledTraces \in [Traces -> Decisions]
      /\ calls \in 0..MaxCalls /\ now \in 0..MaxTime
  BY <1>2, CallsAssumption DEF Counters, Decisions
<1>5. TypeOK
  <2>1. results \in Seq(Result) /\ eventsWindow \in Seq(Nat) /\ marked \subseteq Traces
    BY <1>2
  <2>2. panicked \in BOOLEAN
    BY <1>2
  <2> QED
    BY <1>2, <1>3, <1>4, <2>1, <2>2 DEF TypeOK, Counters
<1>6. Keeping
  BY <1>2, <1>3 DEF Keeping
<1> QED
  BY <1>5, <1>6 DEF Inv

\* A remembered decision is returned. A decision to keep does not come from the
\* inner sampler here, so nothing that Keeping speaks of is added.
LEMMA LoadHitInv ==
    ASSUME Inv, NEW c \in Callers, NEW span \in Span, LoadHit(c, span)
    PROVE  Inv'
<1>1. /\ results \in Seq(Result) /\ SamplingRate(span) \in Rates
      /\ Return(span, FALSE, SamplingRate(span), sampledTraces[span.trace] = "keep")
      /\ calls' \in 0..MaxCalls
      /\ UNCHANGED <<cfg, sampledTraces, caller, marked, stats, inner, now, eventsWindow, panicked>>
  <2>1. results \in Seq(Result) /\ SamplingRate(span) \in Rates
    BY RateType DEF Inv, TypeOK
  <2>2. /\ Return(span, FALSE, SamplingRate(span), sampledTraces[span.trace] = "keep")
        /\ UNCHANGED <<cfg, sampledTraces, caller, marked, stats, inner, now, eventsWindow, panicked>>
    BY DEF LoadHit, adaptive
  <2>3. calls' \in 0..MaxCalls
    BY CallsAssumption DEF Inv, TypeOK, LoadHit
  <2> QED
    BY <2>1, <2>2, <2>3
<1>2. /\ results' \in Seq(Result)
      /\ \A i \in DOMAIN results : results'[i] = results[i]
      /\ DOMAIN results' = 1..(Len(results) + 1) /\ DOMAIN results = 1..Len(results)
      /\ Len(results) \in Nat
      /\ results'[Len(results) + 1].first = FALSE
  BY <1>1, ReturnType
<1>3. \A i \in DOMAIN results' : i \in DOMAIN results \/ i = Len(results) + 1
  BY <1>2
<1>4. TypeOK'
  BY <1>1, <1>2 DEF Inv, TypeOK
<1>5. Keeping'
  BY <1>1, <1>2, <1>3 DEF Inv, Keeping
<1> QED
  BY <1>4, <1>5 DEF Inv

\* A caller goes from one step of its call to the next without an answer.
LEMMA GoesOnInv ==
    ASSUME Inv, NEW c \in Callers, (\E span \in Span : LoadMiss(c, span)) \/ ReadClock(c)
    PROVE  Inv'
<1>1. caller \in [Callers -> Caller] /\ now \in Nat /\ calls \in 0..MaxCalls
  BY CallsAssumption DEF Inv, TypeOK
<1>2. caller' \in [Callers -> Caller] /\ caller'[c].pc # "store"
      /\ \A d \in Callers \ {c} : caller'[d] = caller[d]
  BY <1>1 DEF LoadMiss, ReadClock, Caller
<1>3. /\ calls' \in 0..MaxCalls
      /\ UNCHANGED <<cfg, sampledTraces, results, marked, stats, inner, now, eventsWindow, panicked>>
  BY <1>1, CallsAssumption DEF LoadMiss, ReadClock, adaptive
<1> QED
  BY <1>2, <1>3 DEF Inv, TypeOK, Keeping

\* The dynamic sampler answers.
LEMMA InnerInv ==
    ASSUME Inv, NEW c \in Callers, Inner(c)
    PROVE  Inv'
<1> DEFINE rate == SamplingRate(caller[c].span)
<1>1. TypeOK /\ inner = "dynamic" /\ rate \in Rates
      /\ UNCHANGED <<cfg, sampledTraces, calls, marked, inner, now, eventsWindow, panicked>>
  BY RateType DEF Inv, TypeOK, Inner, adaptive, Caller
<1>2. PICK kept \in BOOLEAN :
         /\ stats' = [stats EXCEPT
                        !.total = @ + 1,
                        !.sampled = IF kept THEN @ + 1 ELSE @,
                        !.high = IF rate = "all" THEN @ + 1 ELSE @,
                        !.low = IF kept /\ rate = "some" THEN @ + 1 ELSE @]
         /\ Decided(c, rate, kept)
  BY DEF Inner
<1> HIDE DEF rate
<1>3. results' \in Seq(Result) /\ caller' \in [Callers -> Caller]
  BY <1>1, <1>2, DecidedType
<1>4. stats' \in Counters
  <2>1. stats \in Counters
    BY <1>1 DEF TypeOK, Counters
  <2>2. stats.total + 1 \in Nat /\ stats.sampled + 1 \in Nat /\ stats.high + 1 \in Nat
        /\ stats.low + 1 \in Nat
    BY <2>1 DEF Counters
  <2> QED
    BY <1>2, <2>1, <2>2 DEF Counters
<1>5. TypeOK'
  BY <1>1, <1>3, <1>4 DEF TypeOK, Counters
<1> QED
  BY <1>1, <1>5 DEF Inv, Keeping

\* The adaptive sampler keeps the span, looks at the window, or dies.
LEMMA AdaptiveInv ==
    ASSUME Inv, NEW c \in Callers, AddEvent(c) \/ AdaptiveRate(c), ~panicked
    PROVE  Inv'
<1>1. /\ caller \in [Callers -> Caller] /\ caller[c].time \in Nat /\ now \in Nat
      /\ eventsWindow \in Seq(Nat) /\ TypeOK /\ stats \in Counters
      /\ UNCHANGED <<cfg, sampledTraces, calls, marked, inner, now>>
  <2>1. /\ caller \in [Callers -> Caller] /\ now \in 0..MaxTime
        /\ eventsWindow \in Seq(Nat) /\ TypeOK /\ stats \in Counters
    BY DEF Inv, TypeOK, Counters
  <2>2. caller[c].time \in Nat /\ now \in Nat
    BY <2>1, CallsAssumption DEF Caller
  <2>3. UNCHANGED <<cfg, sampledTraces, calls, marked, inner, now>>
    BY DEF AddEvent, AdaptiveRate
  <2> QED
    BY <2>1, <2>2, <2>3
<1>2. eventsWindow' \in Seq(Nat)
  <2>1. Append(eventsWindow, caller[c].time) \in Seq(Nat)
    BY <1>1, AppendProperties
  <2> QED
    BY <1>1, <2>1, PrunedType DEF AddEvent, AdaptiveRate
<1>3. ASSUME results' \in Seq(Result), caller' \in [Callers -> Caller], stats' \in Counters,
             \A d \in Callers \ {c} : caller'[d] = caller[d],
             caller'[c].pc = "store" => caller'[c].kept,
             inner = "adaptive" =>
                \A i \in DOMAIN results' : results'[i].first => results'[i].kept,
             panicked' \in BOOLEAN, panicked' => Len(eventsWindow') > TargetEvents
      PROVE  Inv'
  BY <1>1, <1>2, <1>3 DEF Inv, TypeOK, Keeping, Counters
<1>4. ASSUME Decided(c, "all", TRUE), stats' \in Counters, panicked' = panicked
      PROVE  Inv'
  <2>1. /\ results' \in Seq(Result) /\ caller' \in [Callers -> Caller]
        /\ caller'[c].pc = "store" => caller'[c].kept = TRUE
        /\ \A d \in Callers \ {c} : caller'[d] = caller[d]
        /\ (\A i \in DOMAIN results : results[i].first => results[i].kept)
             => \A i \in DOMAIN results' : results'[i].first => results'[i].kept
    BY <1>1, <1>4, DecidedType DEF Rates
  <2>2. inner = "adaptive" =>
           \A i \in DOMAIN results' : results'[i].first => results'[i].kept
    BY <2>1 DEF Inv, Keeping
  <2>3. panicked' \in BOOLEAN /\ ~panicked'
    BY <1>1, <1>4 DEF TypeOK
  <2>4. caller'[c].pc = "store" => caller'[c].kept
    BY <2>1
  <2> QED
    BY <1>3, <1>4, <2>1, <2>2, <2>3, <2>4
<1>5. CASE AddEvent(c)
  <2>1. CASE /\ stats' = [stats EXCEPT !.sampled = @ + 1,
                              !.high = IF caller[c].span.duration >= cfg.threshold
                                       THEN @ + 1 ELSE @]
             /\ Decided(c, "all", TRUE)
    <3>1. stats' \in Counters
      BY <1>1, <2>1, CountersType
    <3> QED
      BY <1>4, <1>5, <2>1, <3>1 DEF AddEvent
  <2>2. CASE caller' = [caller EXCEPT ![c].pc = "eps"] /\ UNCHANGED <<stats, results>>
    <3>1. caller' \in [Callers -> Caller] /\ caller'[c].pc = "eps"
          /\ \A d \in Callers \ {c} : caller'[d] = caller[d]
      BY <1>1, <2>2 DEF Caller
    <3>2. panicked' = panicked
      BY <1>5 DEF AddEvent
    <3> QED
      BY <1>1, <1>3, <2>2, <3>1, <3>2 DEF Inv, TypeOK, Keeping
  <2> QED
    BY <1>5, <2>1, <2>2 DEF AddEvent
<1>6. CASE AdaptiveRate(c)
  <2>1. CASE /\ stats' = [stats EXCEPT !.total = @ + 1, !.sampled = @ + 1, !.low = @ + 1]
             /\ Decided(c, "all", TRUE) /\ UNCHANGED panicked
    <3>1. stats' \in Counters
      BY <1>1, <2>1, CountersType
    <3> QED
      BY <1>4, <2>1, <3>1
  <2>2. CASE /\ Len(eventsWindow') > TargetEvents /\ panicked' = TRUE
             /\ UNCHANGED <<caller, results, stats>>
    <3>1. results' \in Seq(Result) /\ caller' \in [Callers -> Caller] /\ stats' \in Counters
      BY <1>1, <2>2 DEF TypeOK
    <3>2. panicked' \in BOOLEAN
      BY <2>2
    <3>3. caller'[c].pc = "store" => caller'[c].kept
      BY <1>6, <2>2 DEF AdaptiveRate
    <3>4. inner = "adaptive" =>
             \A i \in DOMAIN results' : results'[i].first => results'[i].kept
      BY <2>2 DEF Inv, Keeping
    <3> QED
      BY <1>3, <2>2, <3>1, <3>2, <3>3, <3>4
  <2> QED
    BY <1>6, <2>1, <2>2 DEF AdaptiveRate
<1> QED
  BY <1>5, <1>6

\* The decision is remembered and returned.
LEMMA StoreInv ==
    ASSUME Inv, NEW c \in Callers, Store(c)
    PROVE  Inv'
<1>1. /\ TypeOK /\ Keeping /\ caller \in [Callers -> Caller] /\ caller[c] \in Caller
      /\ results \in Seq(Result) /\ caller[c].pc = "store"
  BY DEF Inv, TypeOK, Store
<1>2. /\ Return(caller[c].span, TRUE, caller[c].rate, caller[c].kept)
      /\ caller' = [caller EXCEPT ![c].pc = "idle"]
      /\ sampledTraces' = [sampledTraces EXCEPT
                             ![caller[c].span.trace] = IF caller[c].kept THEN "keep" ELSE "skip"]
      /\ UNCHANGED <<cfg, calls, marked, stats, inner, now, eventsWindow, panicked>>
  BY DEF Store, adaptive
<1>3. /\ results' \in Seq(Result)
      /\ \A i \in DOMAIN results : results'[i] = results[i]
      /\ DOMAIN results' = 1..(Len(results) + 1) /\ DOMAIN results = 1..Len(results)
      /\ Len(results) \in Nat
      /\ results'[Len(results) + 1].kept = caller[c].kept
  <2>1. caller[c].span \in Span /\ caller[c].rate \in Rates /\ caller[c].kept \in BOOLEAN
    BY <1>1 DEF Caller
  <2> QED
    BY <1>1, <1>2, <2>1, ReturnType
<1>4. /\ caller' \in [Callers -> Caller] /\ caller'[c].pc = "idle"
      /\ \A d \in Callers \ {c} : caller'[d] = caller[d]
  BY <1>1, <1>2 DEF Caller
<1>5. sampledTraces' \in [Traces -> Decisions]
  BY <1>1, <1>2 DEF TypeOK, Decisions
<1>6. TypeOK'
  BY <1>1, <1>2, <1>3, <1>4, <1>5 DEF TypeOK
<1>7. Keeping'
  <2>1. \A i \in DOMAIN results' : i \in DOMAIN results \/ i = Len(results) + 1
    BY <1>3
  <2> QED
    BY <1>1, <1>2, <1>3, <1>4, <2>1 DEF Keeping
<1> QED
  BY <1>6, <1>7 DEF Inv

\* Every step keeps the invariant.
LEMMA InvNext == Inv /\ [Next]_vars => Inv'
<1> SUFFICES ASSUME Inv, [Next]_vars PROVE Inv'
  OBVIOUS
<1>1. ASSUME NEW t \in Traces, MarkTraceSampled(t) PROVE Inv'
  BY <1>1 DEF MarkTraceSampled, Inv, TypeOK, Keeping, Decisions, adaptive
<1>2. ASSUME NEW new \in Configs, UpdateConfig(new) PROVE Inv'
  BY <1>2 DEF UpdateConfig, Inv, TypeOK, Keeping, adaptive
<1>3. CASE ResetStats
  BY <1>3 DEF ResetStats, Inv, TypeOK, Keeping, adaptive
<1>4. CASE Tick
  BY <1>4, CallsAssumption DEF Tick, Inv, TypeOK, Keeping
<1>5. CASE UNCHANGED vars
  BY <1>5 DEF vars, adaptive, Inv, TypeOK, Keeping
<1> QED
  BY <1>1, <1>2, <1>3, <1>4, <1>5, LoadHitInv, GoesOnInv, InnerInv, AdaptiveInv, StoreInv DEF Next

-----------------------------------------------------------------------------
(* Where the answers come from.                                            *)

\* The calls of trace t among rs that the inner sampler answered with kept.
Answers(rs, t, kept) ==
    {i \in DOMAIN rs : rs[i].trace = t /\ rs[i].first /\ rs[i].kept = kept}

\* The inner sampler turns a span down only by a draw.
Drawn ==
    /\ \A c \in Callers : caller[c].pc = "store" /\ ~caller[c].kept => caller[c].rate # "all"
    /\ \A i \in DOMAIN results :
          results[i].first /\ ~results[i].kept => results[i].rate # "all"

\* What a call returns, the inner sampler has answered before, or somebody marked
\* the trace.
Founded ==
    \A i \in DOMAIN results :
        results[i].trace \notin marked \/ ~results[i].kept =>
            \E j \in Answers(results, results[i].trace, results[i].kept) : j <= i

\* So has it what is remembered.
Remembered ==
    \A t \in Traces :
        /\ sampledTraces[t] = "skip" => Answers(results, t, FALSE) # {}
        /\ sampledTraces[t] = "keep" /\ t \notin marked => Answers(results, t, TRUE) # {}

Sources == Drawn /\ Founded /\ Remembered

\* A call returns: earlier answers stay, and a new one of the inner sampler is added.
LEMMA ReturnSources ==
    ASSUME results \in Seq(Result), Drawn, Founded, Remembered, marked' = marked,
           NEW span \in Span, NEW first \in BOOLEAN, NEW rate \in Rates, NEW kept \in BOOLEAN,
           Return(span, first, rate, kept),
           first /\ ~kept => rate # "all",
           ~first => /\ span.trace \in Traces
                     /\ sampledTraces[span.trace] = IF kept THEN "keep" ELSE "skip"
    PROVE  /\ \A t, k : Answers(results, t, k) \subseteq Answers(results', t, k)
           /\ first => Answers(results', span.trace, kept) # {}
           /\ Founded'
           /\ \A i \in DOMAIN results' :
                 results'[i].first /\ ~results'[i].kept => results'[i].rate # "all"
<1> DEFINE n == Len(results) + 1
<1>1. /\ \A i \in DOMAIN results : results'[i] = results[i]
      /\ DOMAIN results' = 1..n /\ DOMAIN results = 1..Len(results) /\ Len(results) \in Nat
      /\ results'[n].first = first /\ results'[n].kept = kept
      /\ results'[n].trace = span.trace /\ results'[n].rate = rate
  BY ReturnType
<1>2. /\ \A i \in DOMAIN results' : i \in DOMAIN results \/ i = n
      /\ n \in DOMAIN results' /\ \A i \in DOMAIN results : i \in DOMAIN results' /\ i <= n
      /\ n <= n
  BY <1>1
<1> HIDE DEF n
<1>3. ASSUME NEW t, NEW k PROVE Answers(results, t, k) \subseteq Answers(results', t, k)
  BY <1>1, <1>2 DEF Answers, FirstResults
<1>4. ASSUME first PROVE n \in Answers(results', span.trace, kept)
  BY <1>1, <1>2, <1>4 DEF Answers, FirstResults
<1>5. ASSUME NEW i \in DOMAIN results', results'[i].trace \notin marked' \/ ~results'[i].kept
      PROVE  \E j \in Answers(results', results'[i].trace, results'[i].kept) : j <= i
  <2>1. CASE i \in DOMAIN results
    <3>1. PICK j \in Answers(results, results[i].trace, results[i].kept) : j <= i
      BY <1>1, <1>5, <2>1 DEF Founded
    <3> QED
      BY <1>1, <1>3, <2>1, <3>1
  <2>2. CASE i = n /\ first
    BY <1>1, <1>2, <1>4, <2>2
  <2>3. CASE i = n /\ ~first
    <3>1. Answers(results, span.trace, kept) # {}
      BY <1>1, <1>5, <2>3 DEF Remembered
    <3>2. PICK j \in Answers(results, span.trace, kept) : TRUE
      BY <3>1
    <3>3. j \in DOMAIN results
      BY <3>2 DEF Answers, FirstResults
    <3> QED
      BY <1>1, <1>2, <1>3, <2>3, <3>2, <3>3
  <2> QED
    BY <1>2, <2>1, <2>2, <2>3
<1>6. Founded'
  BY <1>5 DEF Founded
<1>7. ASSUME NEW i \in DOMAIN results', results'[i].first, ~results'[i].kept
      PROVE  results'[i].rate # "all"
  BY <1>1, <1>2, <1>7 DEF Drawn
<1> QED
  BY <1>3, <1>4, <1>6, <1>7

\* A remembered decision is returned.
LEMMA LoadHitSources ==
    ASSUME Inv, Sources, NEW c \in Callers, NEW span \in Span, LoadHit(c, span)
    PROVE  Sources'
<1> DEFINE kept == sampledTraces[span.trace] = "keep"
<1>1. /\ results \in Seq(Result) /\ SamplingRate(span) \in Rates /\ kept \in BOOLEAN
      /\ Return(span, FALSE, SamplingRate(span), kept)
      /\ UNCHANGED <<sampledTraces, caller, marked>>
      /\ span.trace \in Traces /\ sampledTraces[span.trace] = IF kept THEN "keep" ELSE "skip"
  <2>1. sampledTraces \in [Traces -> Decisions] /\ span.trace \in Traces
        /\ sampledTraces[span.trace] # "unknown"
    BY DEF Inv, TypeOK, LoadHit
  <2>2. results \in Seq(Result) /\ SamplingRate(span) \in Rates
    BY RateType DEF Inv, TypeOK
  <2> QED
    BY <2>1, <2>2 DEF LoadHit, Decisions
<1> HIDE DEF kept
<1>2. /\ \A t, k : Answers(results, t, k) \subseteq Answers(results', t, k)
      /\ Founded'
      /\ \A i \in DOMAIN results' :
            results'[i].first /\ ~results'[i].kept => results'[i].rate # "all"
  BY <1>1, ReturnSources DEF Sources
<1>3. Drawn'
  BY <1>1, <1>2 DEF Sources, Drawn
<1>4. Remembered'
  BY <1>1, <1>2 DEF Sources, Remembered
<1> QED
  BY <1>2, <1>3, <1>4 DEF Sources

\* The inner sampler answers.
LEMMA DecidedSources ==
    ASSUME TypeOK, Sources, NEW c \in Callers, NEW rate \in Rates, NEW kept \in BOOLEAN,
           Decided(c, rate, kept), ~kept => rate # "all",
           UNCHANGED <<sampledTraces, marked>>
    PROVE  Sources'
<1>1. /\ caller \in [Callers -> Caller] /\ caller[c].span \in Span /\ results \in Seq(Result)
  BY DEF TypeOK, Caller
<1>2. CASE Return(caller[c].span, TRUE, rate, kept) /\ caller' = [caller EXCEPT ![c].pc = "idle"]
  <2>1. /\ \A t, k : Answers(results, t, k) \subseteq Answers(results', t, k)
        /\ Founded'
        /\ \A i \in DOMAIN results' :
              results'[i].first /\ ~results'[i].kept => results'[i].rate # "all"
    BY <1>1, <1>2, ReturnSources DEF Sources
  <2>2. caller'[c].pc = "idle" /\ \A d \in Callers \ {c} : caller'[d] = caller[d]
    BY <1>1, <1>2 DEF Caller
  <2>3. Drawn'
    BY <2>1, <2>2 DEF Sources, Drawn
  <2>4. Remembered'
    BY <2>1 DEF Sources, Remembered
  <2> QED
    BY <2>1, <2>3, <2>4 DEF Sources
<1>3. CASE /\ caller' = [caller EXCEPT ![c].pc = "store", ![c].rate = rate, ![c].kept = kept]
           /\ UNCHANGED results
  <2>1. /\ caller'[c].rate = rate /\ caller'[c].kept = kept
        /\ \A d \in Callers \ {c} : caller'[d] = caller[d]
    BY <1>1, <1>3 DEF Caller
  <2>2. Drawn'
    BY <1>3, <2>1 DEF Sources, Drawn
  <2>3. Founded' /\ Remembered'
    BY <1>3 DEF Sources, Founded, Remembered
  <2> QED
    BY <2>2, <2>3 DEF Sources
<1> QED
  BY <1>2, <1>3 DEF Decided

\* The dynamic sampler turns a span down only by a draw; the adaptive one keeps it.
LEMMA InnerSources ==
    ASSUME Inv, Sources, NEW c \in Callers, Inner(c) \/ AddEvent(c) \/ AdaptiveRate(c)
    PROVE  Sources'
<1>1. /\ TypeOK /\ caller \in [Callers -> Caller] /\ caller[c].span \in Span /\ cfg \in Configs
      /\ UNCHANGED <<sampledTraces, marked>> /\ "all" \in Rates
  BY DEF Inv, TypeOK, Inner, AddEvent, AdaptiveRate, Caller, Rates
<1>2. CASE Inner(c)
  <2>1. SamplingRate(caller[c].span) \in Rates
    BY <1>1, RateType
  <2>2. PICK kept \in BOOLEAN : /\ SamplingRate(caller[c].span) = "all" => kept
                                /\ Decided(c, SamplingRate(caller[c].span), kept)
    BY <1>2 DEF Inner
  <2> QED
    BY <1>1, <2>1, <2>2, DecidedSources
<1>3. CASE Decided(c, "all", TRUE)
  BY <1>1, <1>3, DecidedSources
<1>4. CASE /\ results' = results
           /\ caller' = caller \/ caller' = [caller EXCEPT ![c].pc = "eps"]
  <2>1. \A d \in Callers : caller'[d] = caller[d] \/ caller'[d].pc = "eps"
    BY <1>1, <1>4 DEF Caller
  <2>2. Drawn'
    BY <1>4, <2>1 DEF Sources, Drawn
  <2>3. Founded' /\ Remembered'
    BY <1>1, <1>4 DEF Sources, Founded, Remembered
  <2> QED
    BY <2>2, <2>3 DEF Sources
<1> QED
  BY <1>2, <1>3, <1>4 DEF AddEvent, AdaptiveRate

\* The decision that is stored is one that the inner sampler made.
LEMMA StoreSources ==
    ASSUME Inv, Sources, NEW c \in Callers, Store(c)
    PROVE  Sources'
<1> DEFINE me == caller[c]
<1>1. /\ caller \in [Callers -> Caller] /\ me \in Caller /\ results \in Seq(Result)
      /\ sampledTraces \in [Traces -> Decisions] /\ me.pc = "store"
      /\ Return(me.span, TRUE, me.rate, me.kept)
      /\ caller' = [caller EXCEPT ![c].pc = "idle"] /\ marked' = marked
      /\ sampledTraces' = [sampledTraces EXCEPT
                             ![me.span.trace] = IF me.kept THEN "keep" ELSE "skip"]
  BY DEF Inv, TypeOK, Store
<1>2. me.span \in Span /\ me.rate \in Rates /\ me.kept \in BOOLEAN /\ (~me.kept => me.rate # "all")
  BY <1>1 DEF Caller, Sources, Drawn
<1>3. /\ caller'[c].pc = "idle" /\ \A d \in Callers \ {c} : caller'[d] = caller[d]
      /\ \A t \in Traces : \/ t = me.span.trace
                              /\ sampledTraces'[t] = IF me.kept THEN "keep" ELSE "skip"
                           \/ sampledTraces'[t] = sampledTraces[t]
  BY <1>1 DEF Caller
<1> HIDE DEF me
<1>4. /\ \A t, k : Answers(results, t, k) \subseteq Answers(results', t, k)
      /\ Answers(results', me.span.trace, me.kept) # {}
      /\ Founded'
      /\ \A i \in DOMAIN results' :
            results'[i].first /\ ~results'[i].kept => results'[i].rate # "all"
  BY <1>1, <1>2, ReturnSources DEF Sources
<1>5. Drawn'
  BY <1>3, <1>4 DEF Sources, Drawn
<1>6. Remembered'
  <2> SUFFICES ASSUME NEW t \in Traces
               PROVE  /\ sampledTraces'[t] = "skip" => Answers(results', t, FALSE) # {}
                      /\ sampledTraces'[t] = "keep" /\ t \notin marked' => Answers(results', t, TRUE) # {}
    BY DEF Remembered
  <2>1. CASE t = me.span.trace /\ sampledTraces'[t] = IF me.kept THEN "keep" ELSE "skip"
    BY <1>2, <1>4, <2>1
  <2>2. CASE sampledTraces'[t] = sampledTraces[t]
    BY <1>1, <1>4, <2>2 DEF Sources, Remembered
  <2> QED
    BY <1>3, <2>1, <2>2
<1> QED
  BY <1>4, <1>5, <1>6 DEF Sources

\* Nothing has been answered at first.
LEMMA SourcesInit == Init => Sources
<1> SUFFICES ASSUME Init PROVE Sources
  OBVIOUS
<1>1. /\ results = <<>> /\ \A t \in Traces : sampledTraces[t] = "unknown"
      /\ \A c \in Callers : caller[c].pc = "idle"
  BY DEF Init
<1>2. DOMAIN results = {}
  BY <1>1
<1> QED
  BY <1>1, <1>2 DEF Sources, Drawn, Founded, Remembered

\* Every step keeps the sources of the answers.
LEMMA SourcesNext == Inv /\ Sources /\ [Next]_vars => Sources'
<1> SUFFICES ASSUME Inv, Sources, [Next]_vars PROVE Sources'
  OBVIOUS
<1>1. ASSUME results' = results, marked \subseteq marked',
             \A c \in Callers : caller'[c] = caller[c] \/ caller'[c].pc # "store",
             \A t \in Traces : \/ sampledTraces'[t] = sampledTraces[t]
                               \/ sampledTraces'[t] = "keep" /\ t \in marked'
      PROVE  Sources'
  <2>1. Drawn'
    BY <1>1 DEF Sources, Drawn
  <2>2. Founded'
    BY <1>1 DEF Sources, Founded
  <2>3. Remembered'
    BY <1>1 DEF Sources, Remembered
  <2> QED
    BY <2>1, <2>2, <2>3 DEF Sources
<1>2. ASSUME NEW t \in Traces, MarkTraceSampled(t) PROVE Sources'
  <2>1. /\ UNCHANGED <<caller, results>> /\ marked' = marked \cup {t}
        /\ sampledTraces' = [sampledTraces EXCEPT ![t] = "keep"]
        /\ sampledTraces \in [Traces -> Decisions]
    BY <1>2 DEF MarkTraceSampled, Inv, TypeOK
  <2> QED
    BY <1>1, <2>1
<1>3. ASSUME NEW c \in Callers, (\E span \in Span : LoadMiss(c, span)) \/ ReadClock(c)
      PROVE  Sources'
  <2>1. caller \in [Callers -> Caller] /\ UNCHANGED <<sampledTraces, results, marked>>
    BY <1>3 DEF LoadMiss, ReadClock, Inv, TypeOK
  <2>2. \A d \in Callers : caller'[d] = caller[d] \/ caller'[d].pc # "store"
    BY <1>3, <2>1 DEF LoadMiss, ReadClock, Caller
  <2> QED
    BY <1>1, <2>1, <2>2
<1>4. CASE (\E new \in Configs : UpdateConfig(new)) \/ ResetStats \/ Tick \/ UNCHANGED vars
  <2>1. UNCHANGED <<sampledTraces, caller, results, marked>>
    BY <1>4 DEF UpdateConfig, ResetStats, Tick, vars
  <2> QED
    BY <1>1, <2>1
<1> QED
  BY <1>2, <1>3, <1>4, LoadHitSources, InnerSources, StoreSources DEF Next

\* What follows for a trace that was decided once.
LEMMA SourcesOneAnswer ==
    ASSUME Inv, Sources
    PROVE  OneDecisionOneAnswer
<1> SUFFICES ASSUME NEW t \in Traces \ marked, Cardinality(FirstResults(t)) = 1,
                    NEW i \in DOMAIN results, NEW j \in DOMAIN results,
                    results[i].trace = t, results[j].trace = t
             PROVE  results[i].kept = results[j].kept
  BY DEF OneDecisionOneAnswer
<1>1. IsFiniteSet(FirstResults(t))
  <2>1. DOMAIN results = 1..Len(results) /\ Len(results) \in Int
    BY LenProperties DEF Inv, TypeOK
  <2>2. IsFiniteSet(DOMAIN results)
    BY <2>1, FS_Interval
  <2> QED
    BY <2>2, FS_Subset DEF FirstResults
<1>2. PICK f : FirstResults(t) = {f}
  BY <1>1, FS_Singleton
<1>3. PICK a \in Answers(results, t, results[i].kept) : TRUE
  BY DEF Sources, Founded
<1>4. PICK b \in Answers(results, t, results[j].kept) : TRUE
  BY DEF Sources, Founded
<1>5. a \in FirstResults(t) /\ results[a].kept = results[i].kept
  BY <1>3 DEF Answers, FirstResults
<1>6. b \in FirstResults(t) /\ results[b].kept = results[j].kept
  BY <1>4 DEF Answers, FirstResults
<1> QED
  BY <1>2, <1>5, <1>6

\* What follows for a span that was turned down.
LEMMA SourcesSkipped ==
    ASSUME Sources
    PROVE  SkippedUrgentHasCause
<1> SUFFICES ASSUME NEW i \in DOMAIN results, ~results[i].kept
             PROVE  \E j \in FirstResults(results[i].trace) :
                        j <= i /\ ~results[j].kept /\ results[j].rate # "all"
  BY DEF SkippedUrgentHasCause
<1>1. PICK j \in Answers(results, results[i].trace, results[i].kept) : j <= i
  BY DEF Sources, Founded
<1> QED
  BY <1>1 DEF Sources, Drawn, Answers, FirstResults

-----------------------------------------------------------------------------
(* The theorems.                                                           *)

\* Every reachable state satisfies the invariant (ShouldSample of both samplers).
THEOREM SamplerInvariant == Spec => []Inv
<1> QED
  BY InvInit, InvNext, PTL DEF Spec

\* The sampler's variables keep their types.
THEOREM TypeCorrect == Spec => []TypeOK
<1>1. Inv => TypeOK
  BY DEF Inv
<1> QED
  BY <1>1, SamplerInvariant, PTL

\* The adaptive sampler turns no span down, and dies only above its target
\* (AdaptiveSampler.ShouldSample, calculateAdaptiveRate).
THEOREM AdaptiveNeverSkips == Spec => []AdaptiveKeepsOrDies
<1>1. Inv => AdaptiveKeepsOrDies
  BY DEF Inv, Keeping, AdaptiveKeepsOrDies
<1> QED
  BY <1>1, SamplerInvariant, PTL

\* A trace that was decided once and never marked has one answer, however many
\* callers ask at once and however the configuration changes (ShouldSample's Load
\* and Store).
THEOREM OneDecisionGivesOneAnswer == Spec => []OneDecisionOneAnswer
<1>1. Inv /\ Sources => OneDecisionOneAnswer
  BY SourcesOneAnswer
<1> QED
  BY <1>1, InvInit, InvNext, SourcesInit, SourcesNext, PTL DEF Spec

\* A span that was turned down belongs to a trace that a draw at a lower rate turned
\* down (ShouldSample of both samplers).
THEOREM SkipsHaveACause == Spec => []SkippedUrgentHasCause
<1>1. Sources => SkippedUrgentHasCause
  BY SourcesSkipped
<1> QED
  BY <1>1, InvInit, InvNext, SourcesInit, SourcesNext, PTL DEF Spec

\* A remembered decision changes only while some caller that missed it is still
\* deciding the same trace, or by MarkTraceSampled.
THEOREM DecisionsAreStable == Spec => DecisionStable
<1> DEFINE Stable == \A t \in Traces :
                        sampledTraces[t] # "unknown" /\ ~Deciding(t)
                          => sampledTraces'[t] = sampledTraces[t] \/ MarkTraceSampled(t)
<1>1. Inv /\ [Next]_vars => [Stable]_vars
  <2> SUFFICES ASSUME Inv, Next, NEW t \in Traces, ~Deciding(t)
               PROVE  sampledTraces'[t] = sampledTraces[t] \/ MarkTraceSampled(t)
    OBVIOUS
  <2>1. sampledTraces \in [Traces -> Decisions]
    BY DEF Inv, TypeOK
  <2>2. ASSUME NEW c \in Callers, Store(c) PROVE sampledTraces'[t] = sampledTraces[t]
    <3>1. caller[c].span.trace # t
      BY <2>2 DEF Deciding, Store
    <3> QED
      BY <2>1, <2>2, <3>1 DEF Store
  <2>3. ASSUME NEW u \in Traces, MarkTraceSampled(u)
        PROVE  sampledTraces'[t] = sampledTraces[t] \/ MarkTraceSampled(t)
    BY <2>1, <2>3 DEF MarkTraceSampled
  <2>4. ASSUME NEW c \in Callers,
               \/ \E span \in Span : LoadHit(c, span) \/ LoadMiss(c, span)
               \/ Inner(c) \/ ReadClock(c) \/ AddEvent(c) \/ AdaptiveRate(c)
        PROVE  sampledTraces'[t] = sampledTraces[t]
    BY <2>4 DEF LoadHit, LoadMiss, Inner, ReadClock, AddEvent, AdaptiveRate
  <2>5. ASSUME NEW new \in Configs, UpdateConfig(new) PROVE sampledTraces'[t] = sampledTraces[t]
    BY <2>5 DEF UpdateConfig
  <2>6. CASE ResetStats \/ Tick
    BY <2>6 DEF ResetStats, Tick
  <2> QED
    BY <2>2, <2>3, <2>4, <2>5, <2>6 DEF Next
<1>2. [][Stable]_vars => DecisionStable
  BY DEF DecisionStable
<1> QED
  BY <1>1, <1>2, SamplerInvariant, PTL DEF Spec
=============================================================================

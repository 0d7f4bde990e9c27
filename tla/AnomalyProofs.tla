----------------------------- MODULE AnomalyProofs ----------------------------
(***************************************************************************)
(* Proofs about Anomaly, for every value of its constants: the types, the  *)
(* silence of a detector whose threshold is too high for its alpha, the    *)
(* distance between alerts of one operation and severity, and that an      *)
(* alert is raised only for an anomaly.                                    *)
(***************************************************************************)
EXTENDS Anomaly, TLAPS

-----------------------------------------------------------------------------
(* Arithmetic.                                                             *)

\* A product of natural numbers is a natural number.
LEMMA ProductNat ==
    ASSUME NEW a \in Nat, NEW b \in Nat
    PROVE  a * b \in Nat
  BY SMT

\* A square is a natural number.
LEMMA SquareNat ==
    ASSUME NEW a \in Int
    PROVE  a * a \in Nat
  BY SMT

\* Multiplication by a natural number keeps an inequality.
LEMMA ProductMonotone ==
    ASSUME NEW a \in Int, NEW b \in Int, NEW c \in Nat, a =< b
    PROVE  c * a =< c * b
  BY SMT

\* The statistics stay well-formed when a span is folded in.
LEMMA FoldedType ==
    ASSUME NEW s \in LatencyStats, NEW d \in Nat, now \in Nat
    PROVE  Folded(s, d) \in LatencyStats
<1> DEFINE diff == d * s.scale - s.ewma
           A == AlphaNum
           D == AlphaDen
<1>0. /\ s.count \in Nat /\ s.scale \in Nat \ {0} /\ s.ewma \in Nat /\ s.var \in Nat
      /\ A \in Nat /\ D \in Nat \ {0} /\ A =< D
  BY AlphaAssumption DEF LatencyStats
<1>1. diff \in Int
  BY <1>0
<1>2. s.scale * D \in Nat \ {0}
  BY <1>0, SMT
<1>3. s.ewma * D + A * diff \in Nat
  <2>1. D - A \in Nat
    BY <1>0
  <2>2. (D - A) * s.ewma \in Nat
    BY <2>1, <1>0, ProductNat
  <2>3. d * s.scale \in Nat
    BY <1>0, ProductNat
  <2>4. A * (d * s.scale) \in Nat
    BY <2>3, <1>0, ProductNat
  <2>5. s.ewma * D + A * diff = (D - A) * s.ewma + A * (d * s.scale)
    BY <1>0, SMT
  <2> QED
    BY <2>2, <2>4, <2>5
<1>4. (D - A) * (s.var * D + A * diff * diff) \in Nat
  <2>1. diff * diff \in Nat
    BY <1>1, SquareNat
  <2>2. A * (diff * diff) \in Nat
    BY <2>1, <1>0, ProductNat
  <2>3. A * diff * diff = A * (diff * diff)
    BY <1>0, <1>1, SMT
  <2>4. s.var * D \in Nat
    BY <1>0, ProductNat
  <2>5. s.var * D + A * diff * diff \in Nat
    BY <2>2, <2>3, <2>4
  <2>6. D - A \in Nat
    BY <1>0
  <2> QED
    BY <2>5, <2>6, ProductNat
<1>5. CASE s.ewma = 0
  BY <1>5, <1>0 DEF Folded, LatencyStats
<1>6. CASE s.ewma # 0
  <2> HIDE DEF diff
  <2>1. Folded(s, d) = [count |-> s.count + 1, scale |-> s.scale * D,
                        ewma |-> s.ewma * D + A * diff,
                        var |-> (D - A) * (s.var * D + A * diff * diff), last |-> now]
    BY <1>6 DEF Folded, diff
  <2> QED
    BY <2>1, <1>0, <1>2, <1>3, <1>4 DEF LatencyStats
<1> QED
  BY <1>5, <1>6

\* The arithmetic of silence: (D - A) * diff squared against k^2 times the
\* variance that the same diff has just raised.
LEMMA SpikeRaisesVariance ==
    ASSUME NEW A \in Nat, NEW D \in Nat, NEW k \in Nat, NEW v \in Nat, NEW diff \in Int,
           A =< D, A * (1 + k * k) >= D
    PROVE  ((D - A) * diff) * ((D - A) * diff) =< k * k * ((D - A) * (v * D + A * diff * diff))
<1> DEFINE g == D - A
           q == diff * diff
           kk == k * k
<1>1. g \in Nat /\ q \in Nat /\ kk \in Nat
  BY SquareNat, ProductNat
<1>2. g =< kk * A
  <2>1. A * (1 + k * k) = A + kk * A
    BY SMT
  <2> QED
    BY <2>1, <1>1
<1>3. g * q =< (kk * A) * q
  <2>1. kk * A \in Nat
    BY <1>1, ProductNat
  <2>2. q * g =< q * (kk * A)
    BY <1>1, <1>2, <2>1, ProductMonotone
  <2> HIDE DEF g, q, kk
  <2> QED
    BY <2>1, <2>2, <1>1, SMT
<1>4. (kk * A) * q =< kk * (v * D + A * diff * diff)
  <2>1. A * diff * diff = A * q
    BY SMT
  <2>2. v * D \in Nat /\ A * q \in Nat
    BY <1>1, ProductNat
  <2>3. A * q =< v * D + A * diff * diff
    BY <2>1, <2>2
  <2>4. kk * (A * q) =< kk * (v * D + A * diff * diff)
    BY <2>1, <2>2, <2>3, <1>1, ProductMonotone
  <2>5. (kk * A) * q = kk * (A * q)
    BY <1>1, SMT
  <2> QED
    BY <2>4, <2>5
<1>5. g * q \in Int /\ kk * (v * D + A * diff * diff) \in Int
  <2>1. A * diff * diff \in Int /\ v * D \in Int
    BY SMT
  <2>2. v * D + A * diff * diff \in Int
    BY <2>1
  <2> HIDE DEF g, q, kk
  <2> QED
    BY <2>2, <1>1, SMT
<1>6. g * q =< kk * (v * D + A * diff * diff)
  <2> (kk * A) * q \in Int
    BY <1>1, SMT
  <2> HIDE DEF g, q, kk
  <2> QED
    BY <1>3, <1>4, <1>5
<1>7. g * (g * q) =< g * (kk * (v * D + A * diff * diff))
  BY <1>6, <1>5, <1>1, ProductMonotone
<1>8. ((D - A) * diff) * ((D - A) * diff) = g * (g * q)
  BY SMT
<1>9. k * k * ((D - A) * (v * D + A * diff * diff)) = g * (kk * (v * D + A * diff * diff))
  BY SMT
<1> QED
  BY <1>7, <1>8, <1>9

\* A span never exceeds the threshold it has itself moved when alpha is large
\* for the deviation.
LEMMA InsensitiveNeverExceeds ==
    ASSUME NEW s \in LatencyStats, NEW d \in Nat,
           AlphaNum * (1 + Deviation * Deviation) >= AlphaDen
    PROVE  ~Exceeds(Folded(s, d), d)
<1> DEFINE diff == d * s.scale - s.ewma
           A == AlphaNum
           D == AlphaDen
           k == Deviation
<1>0. /\ s.scale \in Nat \ {0} /\ s.ewma \in Nat /\ s.var \in Nat
      /\ A \in Nat /\ D \in Nat /\ A =< D /\ k \in Nat
  BY AlphaAssumption, LimitsAssumption DEF LatencyStats
<1>1. CASE s.ewma = 0
  <2>1. Folded(s, d).scale = 1 /\ Folded(s, d).ewma = d
    BY <1>1 DEF Folded
  <2> QED
    BY <2>1 DEF Exceeds, Over
<1>2. CASE s.ewma # 0
  <2>1. /\ Folded(s, d).scale = s.scale * D
        /\ Folded(s, d).ewma = s.ewma * D + A * diff
        /\ Folded(s, d).var = (D - A) * (s.var * D + A * diff * diff)
    BY <1>2 DEF Folded
  <2>2. d * (s.scale * D) - (s.ewma * D + A * diff) = (D - A) * diff
    BY <1>0, SMT
  <2>3. Over(Folded(s, d), d) = (D - A) * diff
    BY <2>1, <2>2 DEF Over
  <2>4. diff \in Int
    BY <1>0
  <2> HIDE DEF diff
  <2>5. ((D - A) * diff) * ((D - A) * diff) =< k * k * ((D - A) * (s.var * D + A * diff * diff))
    BY <1>0, <2>4, SpikeRaisesVariance
  <2>6. /\ ((D - A) * diff) * ((D - A) * diff) \in Int
        /\ k * k * ((D - A) * (s.var * D + A * diff * diff)) \in Int
    BY <1>0, <2>4, SMT
  <2> QED
    BY <2>1, <2>3, <2>5, <2>6 DEF Exceeds
<1> QED
  BY <1>1, <1>2

-----------------------------------------------------------------------------
(* Types.                                                                  *)

\* What RecordSpan does to the alerts keeps their types.
LEMMA RaiseType ==
    ASSUME TypeOK, NEW k \in Keys, NEW d \in Nat, NEW sev \in Severities, Raise(k, d, sev)
    PROVE  /\ cooldown' \in [Keys -> [Severities -> Nat \cup {Never}]]
           /\ raised' \in Seq(AnomalyAlert)
           /\ DOMAIN raised \subseteq DOMAIN raised'
           /\ alertChan' \in Seq(DOMAIN raised') /\ Len(alertChan') =< ChanCap
<1> DEFINE fate == IF Len(alertChan) < ChanCap THEN "queued" ELSE "dropped"
           a == [key |-> k, severity |-> sev, value |-> d, at |-> now, fate |-> fate]
<1>1. cooldown' \in [Keys -> [Severities -> Nat \cup {Never}]]
  BY DEF TypeOK, Raise
<1>2. a \in AnomalyAlert
  BY DEF TypeOK, AnomalyAlert, Fates
<1>3. raised' = Append(raised, a)
  BY DEF Raise
<1> HIDE DEF a
<1>4. raised' \in Seq(AnomalyAlert) /\ DOMAIN raised' = 1..(Len(raised) + 1)
  BY <1>2, <1>3 DEF TypeOK
<1>5. DOMAIN raised \subseteq DOMAIN raised' /\ Len(raised) + 1 \in DOMAIN raised'
  BY <1>4 DEF TypeOK
<1>6. alertChan \in Seq(DOMAIN raised')
  BY <1>5 DEF TypeOK
<1>7. alertChan' \in Seq(DOMAIN raised') /\ Len(alertChan') =< ChanCap
  <2> DEFINE S == DOMAIN raised'
             n == Len(raised) + 1
  <2>1. alertChan' = IF Len(alertChan) < ChanCap THEN Append(alertChan, n) ELSE alertChan
    BY DEF Raise
  <2>2. n \in S /\ alertChan \in Seq(S) /\ Len(alertChan) =< ChanCap /\ ChanCap \in Nat
    BY <1>5, <1>6, LimitsAssumption DEF TypeOK
  <2> HIDE DEF S, n
  <2>3. Append(alertChan, n) \in Seq(S) /\ Len(Append(alertChan, n)) = Len(alertChan) + 1
    BY <2>2
  <2>4. Len(alertChan) \in Nat
    BY <2>2
  <2>5. alertChan' \in Seq(S) /\ Len(alertChan') =< ChanCap
    BY <2>1, <2>2, <2>3, <2>4
  <2> QED
    BY <2>5 DEF S
<1> QED
  BY <1>1, <1>4, <1>5, <1>7

\* The fields of an alert.
LEMMA AlertFields ==
    ASSUME raised \in Seq(AnomalyAlert), NEW i \in DOMAIN raised
    PROVE  raised[i].key \in Keys /\ raised[i].severity \in Severities /\ raised[i].at \in Nat
<1>1. raised[i] \in AnomalyAlert
  OBVIOUS
<1> QED
  BY <1>1 DEF AnomalyAlert

\* Changing the fate of an alert keeps the types of the others.
LEMMA FateType ==
    ASSUME raised \in Seq(AnomalyAlert), NEW i \in DOMAIN raised, NEW f \in Fates,
           raised' = [raised EXCEPT ![i].fate = f]
    PROVE  raised' \in Seq(AnomalyAlert) /\ DOMAIN raised' = DOMAIN raised
<1>0. raised[i] \in AnomalyAlert
  OBVIOUS
<1>1. [raised[i] EXCEPT !.fate = f] \in AnomalyAlert
  BY <1>0 DEF AnomalyAlert
<1>2. raised' = [raised EXCEPT ![i] = [raised[i] EXCEPT !.fate = f]]
  OBVIOUS
<1> DEFINE a == [raised[i] EXCEPT !.fate = f]
<1> HIDE DEF a
<1>3. raised' = [raised EXCEPT ![i] = a] /\ a \in AnomalyAlert
  BY <1>1, <1>2 DEF a
<1> QED
  BY <1>3

\* NewAnomalyDetector starts with the types right.
LEMMA InitType == Init => TypeOK
<1> SUFFICES ASSUME Init PROVE TypeOK
  OBVIOUS
<1>1. NoStats \in LatencyStats
  BY DEF NoStats, LatencyStats
<1>2. stats \in [Keys -> LatencyStats]
  BY <1>1 DEF Init
<1>3. cooldown \in [Keys -> [Severities -> Nat \cup {Never}]]
  BY DEF Init
<1>4. /\ raised \in Seq(AnomalyAlert)
      /\ alertChan \in Seq(DOMAIN raised) /\ Len(alertChan) =< ChanCap
  BY LimitsAssumption DEF Init
<1>5. sender \in [pc : {"off", "select", "post", "exited"}, alert : {NoAlert} \cup DOMAIN raised]
  BY DEF Init
<1> QED
  BY <1>2, <1>3, <1>4, <1>5 DEF Init, TypeOK

\* A span keeps the types.
LEMMA RecordSpanType ==
    ASSUME TypeOK, NEW k \in Keys, NEW d \in Durations, RecordSpan(k, d)
    PROVE  TypeOK'
<1> DEFINE s == Folded(stats[k], d)
<1>1. d \in Nat /\ stats[k] \in LatencyStats /\ now \in Nat
  BY DurationsAssumption DEF TypeOK
<1>2. s \in LatencyStats
  BY <1>1, FoldedType
<1>3. stats' = [stats EXCEPT ![k] = s]
  BY DEF RecordSpan
<1>4. stats' \in [Keys -> LatencyStats]
  BY <1>2, <1>3 DEF TypeOK
<1>5. Severity(s, d) \in Severities
  BY DEF Severity, Severities
<1>6. Raise(k, d, Severity(s, d)) \/ UNCHANGED alertVars
  BY DEF RecordSpan
<1>7. UNCHANGED <<now, sender, cleaner, stopped>>
  BY DEF RecordSpan
<1> HIDE DEF s
<1>8. CASE Raise(k, d, Severity(s, d))
  <2>1. /\ cooldown' \in [Keys -> [Severities -> Nat \cup {Never}]]
        /\ raised' \in Seq(AnomalyAlert)
        /\ DOMAIN raised \subseteq DOMAIN raised'
        /\ alertChan' \in Seq(DOMAIN raised') /\ Len(alertChan') =< ChanCap
    BY <1>1, <1>5, <1>8, RaiseType
  <2> QED
    BY <2>1, <1>4, <1>7 DEF TypeOK
<1>9. CASE UNCHANGED alertVars
  BY <1>4, <1>7, <1>9 DEF TypeOK, alertVars
<1> QED
  BY <1>6, <1>8, <1>9

\* Every step keeps the types.
LEMMA NextType == TypeOK /\ [Next]_vars => TypeOK'
<1> SUFFICES ASSUME TypeOK, [Next]_vars PROVE TypeOK'
  OBVIOUS
<1>1. CASE \E k \in Keys, d \in Durations : RecordSpan(k, d)
  BY <1>1, RecordSpanType
<1>2. CASE TakeAlert
  <2>1. Head(alertChan) \in DOMAIN raised
    BY <1>2 DEF TakeAlert, TypeOK
  <2>2. raised' \in Seq(AnomalyAlert) /\ DOMAIN raised' = DOMAIN raised
    BY <1>2, <2>1, FateType DEF TakeAlert, TypeOK, Fates
  <2>3. alertChan' \in Seq(DOMAIN raised) /\ Len(alertChan') =< ChanCap
    BY <1>2, LimitsAssumption DEF TakeAlert, TypeOK
  <2> QED
    BY <1>2, <2>1, <2>2, <2>3 DEF TakeAlert, TypeOK
<1>3. CASE \E ok \in BOOLEAN : PostAlert(ok)
  <2>1. PICK ok \in BOOLEAN : PostAlert(ok)
    BY <1>3
  <2>2. CASE sender.alert \in DOMAIN raised
    <3>1. raised' \in Seq(AnomalyAlert) /\ DOMAIN raised' = DOMAIN raised
      BY <2>1, <2>2, FateType DEF PostAlert, TypeOK, Fates
    <3> QED
      BY <2>1, <3>1 DEF PostAlert, TypeOK
  <2>3. CASE sender.alert \notin DOMAIN raised
    <3>1. raised' = raised
      BY <2>1, <2>3 DEF PostAlert, TypeOK
    <3> QED
      BY <2>1, <3>1 DEF PostAlert, TypeOK
  <2> QED
    BY <2>2, <2>3
<1>4. CASE SenderExits
  BY <1>4 DEF SenderExits, TypeOK
<1>5. CASE CleanStats
  <2>1. NoStats \in LatencyStats
    BY DEF NoStats, LatencyStats
  <2>2. stats' \in [Keys -> LatencyStats]
    BY <1>5, <2>1 DEF CleanStats, TypeOK
  <2> QED
    BY <1>5, <2>2 DEF CleanStats, TypeOK
<1>6. CASE CleanCooldown
  <2>1. cooldown' \in [Keys -> [Severities -> Nat \cup {Never}]]
    BY <1>6 DEF CleanCooldown, TypeOK
  <2> QED
    BY <1>6, <2>1 DEF CleanCooldown, TypeOK
<1>7. CASE CleanerExits
  BY <1>7 DEF CleanerExits, TypeOK
<1>8. CASE Stop
  BY <1>8 DEF Stop, TypeOK
<1>9. CASE Tick
  BY <1>9 DEF Tick, TypeOK
<1>10. CASE UNCHANGED vars
  BY <1>10 DEF vars, TypeOK
<1> QED
  BY <1>1, <1>2, <1>3, <1>4, <1>5, <1>6, <1>7, <1>8, <1>9, <1>10 DEF Next

\* The variables of the detector keep their types, and alertChan its capacity.
THEOREM TypeCorrect == Spec => []TypeOK
  BY InitType, NextType, PTL DEF Spec

-----------------------------------------------------------------------------
(* Silence.                                                                *)

\* No step of a detector that is insensitive raises an alert.
LEMMA NextSilent ==
    ASSUME TypeOK, SilentWhenInsensitive, [Next]_vars
    PROVE  SilentWhenInsensitive'
<1> SUFFICES ASSUME AlphaNum * (1 + Deviation * Deviation) >= AlphaDen
             PROVE  raised' = <<>>
  BY DEF SilentWhenInsensitive
<1>0. raised = <<>>
  BY DEF SilentWhenInsensitive
<1>1. CASE \E k \in Keys, d \in Durations : RecordSpan(k, d)
  <2>1. PICK k \in Keys, d \in Durations : RecordSpan(k, d)
    BY <1>1
  <2>2. stats[k] \in LatencyStats /\ d \in Nat
    BY DurationsAssumption DEF TypeOK
  <2>3. ~Exceeds(Folded(stats[k], d), d)
    BY <2>2, InsensitiveNeverExceeds
  <2> QED
    BY <2>1, <2>3, <1>0 DEF RecordSpan, alertVars
<1>2. CASE TakeAlert
  <2>1. alertChan # <<>> /\ alertChan \in Seq({})
    BY <1>2, <1>0 DEF TakeAlert, TypeOK
  <2>2. alertChan[1] \in {}
    BY <2>1
  <2> QED
    BY <2>2
<1>3. CASE \E ok \in BOOLEAN : PostAlert(ok)
  BY <1>3, <1>0 DEF PostAlert
<1>4. CASE SenderExits \/ CleanStats \/ CleanCooldown \/ CleanerExits \/ Stop \/ Tick
            \/ UNCHANGED vars
  BY <1>4, <1>0 DEF SenderExits, CleanStats, CleanCooldown, CleanerExits, Stop, Tick, vars
<1> QED
  BY <1>1, <1>2, <1>3, <1>4 DEF Next

\* With Alpha * (1 + Deviation^2) >= 1 the detector never raises an alert,
\* whatever spans RecordSpan sees; this covers the default configuration.
THEOREM InsensitiveDetectorIsSilent == Spec => []SilentWhenInsensitive
<1>1. Init => SilentWhenInsensitive
  BY DEF Init, SilentWhenInsensitive
<1>2. TypeOK /\ SilentWhenInsensitive /\ [Next]_vars => SilentWhenInsensitive'
  BY NextSilent
<1> QED
  BY <1>1, <1>2, TypeCorrect, PTL DEF Spec

-----------------------------------------------------------------------------
(* The cooldown.                                                           *)

\* What the cooldown map still knows of alert i: the time of it or of a later
\* one, unless the cleanup has forgotten it, and then it is old.
Remembered(i) ==
    LET c == cooldown[raised[i].key][raised[i].severity]
    IN  /\ raised[i].at =< now
        /\ IF c = Never THEN now - raised[i].at > CooldownKeep ELSE raised[i].at =< c

\* The inductive invariant: no alert is from the future, and each is remembered
\* or old.
CooldownInv ==
    /\ \A i \in DOMAIN raised : Remembered(i)
    /\ CooldownRespected

\* A step that raises nothing new leaves the times of the alerts alone.
SameAlerts ==
    /\ DOMAIN raised' = DOMAIN raised
    /\ \A i \in DOMAIN raised : /\ raised'[i].key = raised[i].key
                                /\ raised'[i].severity = raised[i].severity
                                /\ raised'[i].at = raised[i].at

\* CooldownRespected reads nothing else.
LEMMA SameAlertsRespected == CooldownRespected /\ SameAlerts => CooldownRespected'
  BY DEF CooldownRespected, SameAlerts, Quiet

\* Changing the fate of an alert changes nothing else of the alerts.
LEMMA FateSame ==
    ASSUME raised \in Seq(AnomalyAlert), NEW i, NEW f,
           raised' = [raised EXCEPT ![i].fate = f]
    PROVE  SameAlerts
<1>1. DOMAIN raised' = DOMAIN raised
  OBVIOUS
<1>2. ASSUME NEW j \in DOMAIN raised
      PROVE  /\ raised'[j].key = raised[j].key
             /\ raised'[j].severity = raised[j].severity
             /\ raised'[j].at = raised[j].at
  <2>1. raised[j] \in AnomalyAlert
    OBVIOUS
  <2>2. raised'[j] = IF j = i THEN [raised[j] EXCEPT !.fate = f] ELSE raised[j]
    OBVIOUS
  <2> QED
    BY <2>1, <2>2 DEF AnomalyAlert
<1> QED
  BY <1>1, <1>2 DEF SameAlerts

\* A new alert is far enough from every earlier one of its kind.
LEMMA RaiseRespects ==
    ASSUME TypeOK, CooldownInv, NEW k \in Keys, NEW d \in Nat, NEW sev \in Severities,
           Raise(k, d, sev), now' = now
    PROVE  CooldownInv'
<1> DEFINE n == Len(raised) + 1
<1>1. PICK a : /\ raised' = Append(raised, a)
               /\ a.key = k /\ a.severity = sev /\ a.at = now
  BY DEF Raise
<1>2. /\ raised \in Seq(AnomalyAlert) /\ Len(raised) \in Nat
      /\ now \in Nat /\ cooldown \in [Keys -> [Severities -> Nat \cup {Never}]]
      /\ Cooldown \in Nat /\ CooldownKeep \in Nat
  BY LimitsAssumption DEF TypeOK
<1>3. /\ DOMAIN raised' = 1..n /\ DOMAIN raised = 1..Len(raised)
      /\ raised'[n] = a
      /\ \A i \in DOMAIN raised : raised'[i] = raised[i]
  BY <1>1, <1>2
<1>4. /\ cooldown'[k][sev] = now
      /\ \A x \in Keys, y \in Severities :
            (x # k \/ y # sev) => cooldown'[x][y] = cooldown[x][y]
  BY <1>2 DEF Raise
<1>5. \A i \in DOMAIN raised : /\ raised[i].key \in Keys /\ raised[i].severity \in Severities
                               /\ raised[i].at \in Nat
  BY <1>2, AlertFields
<1>6. \A i \in DOMAIN raised :
        (raised[i].key = k /\ raised[i].severity = sev) => now - raised[i].at > Quiet
  <2> SUFFICES ASSUME NEW i \in DOMAIN raised, raised[i].key = k, raised[i].severity = sev
               PROVE  now - raised[i].at > Quiet
    OBVIOUS
  <2>1. Remembered(i) /\ ShouldSend(k, sev)
    BY DEF CooldownInv, Raise
  <2>2. cooldown[k][sev] \in Nat \cup {Never} /\ raised[i].at \in Nat
    BY <1>2, <1>5
  <2> QED
    BY <2>1, <2>2, <1>2 DEF Remembered, ShouldSend, Quiet, Never
<1>7. \A i \in DOMAIN raised' : Remembered(i)'
  <2> SUFFICES ASSUME NEW i \in DOMAIN raised' PROVE Remembered(i)'
    OBVIOUS
  <2>1. CASE i = n
    BY <2>1, <1>1, <1>2, <1>3, <1>4 DEF Remembered, Never
  <2>2. CASE i # n
    <3>1. i \in DOMAIN raised /\ raised'[i] = raised[i]
      BY <2>2, <1>2, <1>3
    <3>2. Remembered(i)
      BY <3>1 DEF CooldownInv
    <3>3. CASE raised[i].key = k /\ raised[i].severity = sev
      BY <3>1, <3>2, <3>3, <1>2, <1>4 DEF Remembered, Never
    <3>4. CASE ~(raised[i].key = k /\ raised[i].severity = sev)
      BY <3>1, <3>2, <3>4, <1>4, <1>5 DEF Remembered
    <3> QED
      BY <3>3, <3>4
  <2> QED
    BY <2>1, <2>2
<1>8. CooldownRespected'
  <2> SUFFICES ASSUME NEW i \in DOMAIN raised', NEW j \in DOMAIN raised', i < j,
                      raised'[i].key = raised'[j].key,
                      raised'[i].severity = raised'[j].severity
               PROVE  raised'[j].at - raised'[i].at > Quiet
    BY DEF CooldownRespected, Quiet
  <2>1. i \in DOMAIN raised /\ raised'[i] = raised[i]
    BY <1>2, <1>3
  <2>2. CASE j = n
    BY <2>1, <2>2, <1>1, <1>3, <1>6
  <2>3. CASE j # n
    <3>1. j \in DOMAIN raised /\ raised'[j] = raised[j]
      BY <2>3, <1>2, <1>3
    <3> QED
      BY <2>1, <3>1 DEF CooldownInv, CooldownRespected
  <2> QED
    BY <2>2, <2>3
<1> QED
  BY <1>7, <1>8 DEF CooldownInv

\* Every step keeps the inductive invariant.
LEMMA NextRespects ==
    ASSUME TypeOK, CooldownInv, [Next]_vars
    PROVE  CooldownInv'
<1>0. /\ raised \in Seq(AnomalyAlert)
      /\ now \in Nat /\ cooldown \in [Keys -> [Severities -> Nat \cup {Never}]]
      /\ CooldownKeep \in Nat
  BY LimitsAssumption DEF TypeOK
<1>a. \A i \in DOMAIN raised : /\ raised[i].key \in Keys /\ raised[i].severity \in Severities
                               /\ raised[i].at \in Nat
  BY <1>0, AlertFields
<1>b. ASSUME SameAlerts, UNCHANGED <<now, cooldown>> PROVE CooldownInv'
  <2>1. CooldownRespected'
    BY <1>b, SameAlertsRespected DEF CooldownInv
  <2>2. \A i \in DOMAIN raised' : Remembered(i)'
    BY <1>b DEF CooldownInv, Remembered, SameAlerts
  <2> QED
    BY <2>1, <2>2 DEF CooldownInv
<1>c. ASSUME raised' = raised PROVE SameAlerts
  BY <1>c DEF SameAlerts
<1>1. CASE \E k \in Keys, d \in Durations : RecordSpan(k, d)
  <2>1. PICK k \in Keys, d \in Durations : RecordSpan(k, d)
    BY <1>1
  <2> DEFINE sev == Severity(Folded(stats[k], d), d)
  <2>2. sev \in Severities /\ d \in Nat
    BY DurationsAssumption DEF Severity, Severities
  <2>3. now' = now /\ (Raise(k, d, sev) \/ UNCHANGED alertVars)
    BY <2>1 DEF RecordSpan
  <2> HIDE DEF sev
  <2>4. CASE Raise(k, d, sev)
    BY <2>2, <2>3, <2>4, RaiseRespects
  <2>5. CASE UNCHANGED alertVars
    BY <2>3, <2>5, <1>b, <1>c DEF alertVars
  <2> QED
    BY <2>3, <2>4, <2>5
<1>2. CASE TakeAlert
  <2>1. SameAlerts
    BY <1>0, <1>2, FateSame DEF TakeAlert
  <2> QED
    BY <2>1, <1>2, <1>b DEF TakeAlert
<1>3. CASE \E ok \in BOOLEAN : PostAlert(ok)
  <2>1. SameAlerts
    BY <1>0, <1>3, FateSame DEF PostAlert
  <2> QED
    BY <2>1, <1>3, <1>b DEF PostAlert
<1>4. CASE SenderExits \/ CleanStats \/ CleanerExits \/ Stop \/ UNCHANGED vars
  BY <1>4, <1>b, <1>c DEF SenderExits, CleanStats, CleanerExits, Stop, vars
<1>5. CASE CleanCooldown
  <2>1. CooldownRespected'
    BY <1>5, <1>c, SameAlertsRespected DEF CooldownInv, CleanCooldown
  <2>2. ASSUME NEW i \in DOMAIN raised PROVE Remembered(i)'
    <3> DEFINE x == raised[i].key
               y == raised[i].severity
    <3>1. x \in Keys /\ y \in Severities /\ raised[i].at \in Nat
      BY <1>a
    <3>2. cooldown'[x][y] = IF cooldown[x][y] < now - CooldownKeep THEN Never
                                                                   ELSE cooldown[x][y]
      BY <3>1, <1>5 DEF CleanCooldown
    <3>3. Remembered(i) /\ cooldown[x][y] \in Nat \cup {Never}
      BY <3>1, <1>0 DEF CooldownInv
    <3>4. now' = now /\ raised' = raised
      BY <1>5 DEF CleanCooldown
    <3> QED
      BY <3>1, <3>2, <3>3, <3>4, <1>0 DEF Remembered, Never
  <2> QED
    BY <2>1, <2>2, <1>5 DEF CooldownInv, CleanCooldown
<1>6. CASE Tick
  <2>1. CooldownRespected'
    BY <1>6, <1>c, SameAlertsRespected DEF CooldownInv, Tick
  <2>2. \A i \in DOMAIN raised : Remembered(i)'
    BY <1>6, <1>0, <1>a DEF CooldownInv, Remembered, Tick
  <2> QED
    BY <2>1, <2>2, <1>6 DEF CooldownInv, Tick
<1> QED
  BY <1>1, <1>2, <1>3, <1>4, <1>5, <1>6 DEF Next

\* Two alerts of one operation and severity are more than the cooldown apart,
\* or more than the time after which cleanupOldCooldown forgets it, if that is
\* shorter.
THEOREM CooldownHolds == Spec => []CooldownRespected
<1>1. Init => CooldownInv
  BY DEF Init, CooldownInv, CooldownRespected
<1>2. TypeOK /\ CooldownInv /\ [Next]_vars => CooldownInv'
  BY NextRespects
<1>3. CooldownInv => CooldownRespected
  BY DEF CooldownInv
<1> QED
  BY <1>1, <1>2, <1>3, TypeCorrect, PTL DEF Spec

-----------------------------------------------------------------------------
(* Alerts are anomalies.                                                   *)

\* A product of numbers of which the first is not negative is positive only if
\* both are.
LEMMA PositiveFactors ==
    ASSUME NEW a \in Nat, NEW b \in Int, a * b > 0
    PROVE  a > 0 /\ b > 0
<1>1. CASE a = 0
  BY <1>1
<1>2. CASE a > 0 /\ b =< 0
  <2>1. a * b =< a * 0
    BY <1>2, ProductMonotone
  <2> QED
    BY <2>1, SMT
<1> QED
  BY <1>1, <1>2

\* A positive factor is cancelled from an inequality.
LEMMA CancelFactor ==
    ASSUME NEW a \in Int, NEW b \in Int, NEW c \in Nat, c * a > c * b
    PROVE  a > b
<1> SUFFICES ASSUME a =< b PROVE FALSE
  OBVIOUS
<1>1. c * a =< c * b
  BY ProductMonotone
<1>2. c * a \in Int /\ c * b \in Int
  BY SMT
<1> QED
  BY <1>1, <1>2

\* The arithmetic of caution: a span far from the mean it has moved, measured by
\* the variance it has raised, was far from the mean by the variance before it.
LEMMA SpikeWasFar ==
    ASSUME NEW A \in Nat, NEW D \in Nat \ {0}, NEW k \in Nat, NEW v \in Nat, NEW diff \in Int,
           A =< D, (D - A) * diff > 0,
           ((D - A) * diff) * ((D - A) * diff) > k * k * ((D - A) * (v * D + A * diff * diff))
    PROVE  diff > 0 /\ diff * diff > k * k * v
<1> DEFINE g == D - A
           q == diff * diff
           kk == k * k
           w == v * D + A * diff * diff
<1>1. g \in Nat /\ q \in Nat /\ kk \in Nat /\ g =< D
  BY SquareNat, ProductNat
<1>2. g > 0 /\ diff > 0
  BY <1>1, PositiveFactors
<1>3. A * q \in Nat /\ v * D \in Nat /\ w = v * D + A * q
  <2>1. A * diff * diff = A * q
    BY SMT
  <2> QED
    BY <2>1, <1>1, ProductNat
<1>4. g * (g * q) > g * (kk * w)
  <2>1. ((D - A) * diff) * ((D - A) * diff) = g * (g * q)
    BY SMT
  <2>2. w \in Int
    BY <1>3
  <2>3. k * k * (g * w) = g * (kk * w)
    <3> HIDE DEF w, g
    <3> QED
      BY <1>1, <2>2, SMT
  <2> QED
    BY <2>1, <2>3
<1> HIDE DEF g, q, kk, w
<1>5. g * q \in Nat /\ kk * w \in Nat /\ kk * (v * D) \in Nat /\ D * q \in Nat
  <2>1. w \in Nat
    BY <1>3
  <2> QED
    BY <2>1, <1>1, <1>3, ProductNat
<1>6. g * q > kk * w
  BY <1>1, <1>4, <1>5, CancelFactor
<1>7. kk * (v * D) =< kk * w
  <2>1. v * D =< w /\ v * D \in Int /\ w \in Int
    BY <1>3
  <2> QED
    BY <2>1, <1>1, ProductMonotone
<1>8. g * q =< D * q
  <2>1. q * g =< q * D
    BY <1>1, ProductMonotone
  <2>2. q * g = g * q /\ q * D = D * q
    BY <1>1, SMT
  <2> QED
    BY <2>1, <2>2
<1>9. D * q > kk * (v * D)
  BY <1>5, <1>6, <1>7, <1>8, <1>3, <1>1
<1>10. kk * (v * D) = D * (kk * v)
  BY <1>1, SMT
<1>11. kk * v \in Int
  BY <1>1, ProductNat
<1>12. q > kk * v
  BY <1>1, <1>9, <1>10, <1>11, CancelFactor
<1> QED
  BY <1>2, <1>12 DEF q, kk

\* A span that exceeds the threshold it has moved exceeded it before.
LEMMA MovedThresholdIsMoreCareful ==
    ASSUME NEW s \in LatencyStats, NEW d \in Nat, Exceeds(Folded(s, d), d)
    PROVE  s.ewma # 0 /\ Exceeds(s, d)
<1> DEFINE diff == d * s.scale - s.ewma
           A == AlphaNum
           D == AlphaDen
           k == Deviation
<1>0. /\ s.scale \in Nat \ {0} /\ s.ewma \in Nat /\ s.var \in Nat
      /\ A \in Nat /\ D \in Nat \ {0} /\ A =< D /\ k \in Nat
  BY AlphaAssumption, LimitsAssumption DEF LatencyStats
<1>1. s.ewma # 0
  <2> SUFFICES ASSUME s.ewma = 0 PROVE FALSE
    OBVIOUS
  <2>1. Folded(s, d).scale = 1 /\ Folded(s, d).ewma = d
    BY DEF Folded
  <2> QED
    BY <2>1 DEF Exceeds, Over
<1>2. /\ Folded(s, d).scale = s.scale * D
      /\ Folded(s, d).ewma = s.ewma * D + A * diff
      /\ Folded(s, d).var = (D - A) * (s.var * D + A * diff * diff)
  BY <1>1 DEF Folded
<1>3. d * (s.scale * D) - (s.ewma * D + A * diff) = (D - A) * diff
  BY <1>0, SMT
<1>4. Over(Folded(s, d), d) = (D - A) * diff
  BY <1>2, <1>3 DEF Over
<1>5. diff \in Int /\ Over(s, d) = diff
  BY <1>0 DEF Over
<1> HIDE DEF diff
<1>6. /\ (D - A) * diff > 0
      /\ ((D - A) * diff) * ((D - A) * diff) > k * k * ((D - A) * (s.var * D + A * diff * diff))
  BY <1>2, <1>4 DEF Exceeds
<1>7. diff > 0 /\ diff * diff > k * k * s.var
  BY <1>0, <1>5, <1>6, SpikeWasFar
<1> QED
  BY <1>1, <1>5, <1>7 DEF Exceeds

\* An operation with a mean has been counted.
Counted == \A k \in Keys : stats[k].ewma # 0 => stats[k].count > 0

\* Folding a span in counts it, and the cleanup forgets mean and count together.
LEMMA NextCounted ==
    ASSUME TypeOK, Counted, [Next]_vars
    PROVE  Counted'
<1>1. CASE \E k \in Keys, d \in Durations : RecordSpan(k, d)
  <2>1. PICK k \in Keys, d \in Durations : RecordSpan(k, d)
    BY <1>1
  <2>2. stats[k].count \in Nat
    BY DEF TypeOK, LatencyStats
  <2>3. Folded(stats[k], d).count > 0
    BY <2>2 DEF Folded
  <2>4. stats' = [stats EXCEPT ![k] = Folded(stats[k], d)]
    BY <2>1 DEF RecordSpan
  <2> QED
    BY <2>3, <2>4 DEF Counted, TypeOK
<1>2. CASE CleanStats
  <2>1. stats' = [k \in Keys |-> IF stats[k].last < now - StatsKeep THEN NoStats ELSE stats[k]]
    BY <1>2 DEF CleanStats
  <2> QED
    BY <2>1 DEF Counted, NoStats
<1>3. CASE UNCHANGED stats
  BY <1>3 DEF Counted
<1>4. (\E k \in Keys, d \in Durations : RecordSpan(k, d)) \/ CleanStats \/ UNCHANGED stats
  BY DEF Next, TakeAlert, PostAlert, SenderExits, CleanCooldown, CleanerExits, Stop, Tick, vars
<1> QED
  BY <1>1, <1>2, <1>3, <1>4

\* A step that raises an alert judges a span that was an anomaly before it.
LEMMA RaisedIsAnomaly ==
    ASSUME TypeOK, Counted, NEW k \in Keys, NEW d \in Durations, RecordSpan(k, d),
           Len(raised') > Len(raised)
    PROVE  /\ raised'[Len(raised')].key = k /\ raised'[Len(raised')].value = d
           /\ IsAnomaly(k, d) \/ stats[k].count + 1 = MinSamples
<1> DEFINE s == stats[k]
           sev == Severity(Folded(s, d), d)
           fate == IF Len(alertChan) < ChanCap THEN "queued" ELSE "dropped"
           a == [key |-> k, severity |-> sev, value |-> d, at |-> now, fate |-> fate]
<1>1. s \in LatencyStats /\ d \in Nat /\ s.count \in Nat /\ MinSamples \in Nat
  BY DurationsAssumption, LimitsAssumption DEF TypeOK, LatencyStats
<1>2. Raise(k, d, sev) /\ Folded(s, d).count >= MinSamples /\ Exceeds(Folded(s, d), d) /\ d > 0
  <2>1. ~UNCHANGED alertVars
    <3> SUFFICES ASSUME raised' = raised PROVE FALSE
      BY DEF alertVars
    <3>1. Len(raised) \in Nat
      BY DEF TypeOK
    <3> QED
      BY <3>1
  <2> QED
    BY <2>1 DEF RecordSpan
<1>3. raised' = Append(raised, a)
  BY <1>2 DEF Raise
<1>4. raised'[Len(raised')] = a
  <2> HIDE DEF a
  <2> QED
    BY <1>3 DEF TypeOK
<1>5. s.ewma # 0 /\ Exceeds(s, d)
  BY <1>1, <1>2, MovedThresholdIsMoreCareful
<1>6. s.count > 0
  BY <1>5 DEF Counted
<1>7. s.count + 1 >= MinSamples
  BY <1>2, <1>5 DEF Folded
<1>8. IsAnomaly(k, d) \/ s.count + 1 = MinSamples
  <2>1. s.count >= MinSamples \/ s.count + 1 = MinSamples
    <3> HIDE DEF s
    <3> QED
      BY <1>1, <1>7
  <2> QED
    BY <2>1, <1>2, <1>5, <1>6 DEF IsAnomaly
<1> QED
  BY <1>4, <1>8

\* RecordSpan raises an alert only for a span that IsAnomaly, asked just before,
\* would have called an anomaly, or that completes MinSamples: the span has moved
\* the threshold it is compared with, and never in its own favour.
THEOREM AlertsAreFounded == Spec => AlertsAreAnomalies
<1> DEFINE Fair == Len(raised') > Len(raised) =>
                      LET a == raised'[Len(raised')]
                      IN  IsAnomaly(a.key, a.value) \/ stats[a.key].count + 1 = MinSamples
<1>1. Init => Counted
  BY DEF Init, Counted, NoStats
<1>2. TypeOK /\ Counted /\ [Next]_vars => Counted'
  BY NextCounted
<1>3. TypeOK /\ Counted /\ [Next]_vars => [Fair]_vars
  <2> SUFFICES ASSUME TypeOK, Counted, [Next]_vars, Len(raised') > Len(raised)
               PROVE  LET a == raised'[Len(raised')]
                      IN  IsAnomaly(a.key, a.value) \/ stats[a.key].count + 1 = MinSamples
    OBVIOUS
  <2>1. CASE \E k \in Keys, d \in Durations : RecordSpan(k, d)
    <3>1. PICK k \in Keys, d \in Durations : RecordSpan(k, d)
      BY <2>1
    <3>2. /\ raised'[Len(raised')].key = k /\ raised'[Len(raised')].value = d
          /\ IsAnomaly(k, d) \/ stats[k].count + 1 = MinSamples
      BY <3>1, RaisedIsAnomaly
    <3> QED
      BY <3>2
  <2>2. CASE TakeAlert \/ \E ok \in BOOLEAN : PostAlert(ok)
    <3>1. Len(raised') = Len(raised) /\ Len(raised) \in Nat
      BY <2>2 DEF TakeAlert, PostAlert, TypeOK
    <3> QED
      BY <3>1
  <2>3. CASE UNCHANGED raised
    <3>1. Len(raised) \in Nat
      BY DEF TypeOK
    <3> QED
      BY <2>3, <3>1
  <2>4. \/ \E k \in Keys, d \in Durations : RecordSpan(k, d)
        \/ TakeAlert \/ \E ok \in BOOLEAN : PostAlert(ok)
        \/ UNCHANGED raised
    BY DEF Next, SenderExits, CleanStats, CleanCooldown, CleanerExits, Stop, Tick, vars
  <2> QED
    BY <2>1, <2>2, <2>3, <2>4
<1> HIDE DEF Fair
<1>4. [][Fair]_vars => AlertsAreAnomalies
  BY DEF Fair, AlertsAreAnomalies
<1> QED
  BY <1>1, <1>2, <1>3, <1>4, TypeCorrect, PTL DEF Spec
=============================================================================

-------------------------------- MODULE Anomaly -------------------------------
(***************************************************************************)
(* The latency detector of pkg/anomaly/anomaly.go.  RecordSpan folds the   *)
(* duration of a span into the exponentially weighted mean and variance of *)
(* its operation and raises an alert when the duration exceeds the         *)
(* threshold; a cooldown per operation and severity limits the alerts, a   *)
(* bounded channel carries them to the alertSender goroutine, and a        *)
(* cleanup goroutine forgets old statistics and old cooldowns.             *)
(*                                                                         *)
(* RecordSpan holds statsMutex throughout, and cooldownMu for the cooldown *)
(* test inside it, so it is one action; the two halves of the cleanup take *)
(* one lock each and are two.  Time does not pass within an action.        *)
(*                                                                         *)
(* The floating-point statistics are exact fractions here.  Alpha is       *)
(* AlphaNum / AlphaDen, and a record of statistics keeps, for a common     *)
(* scale, the mean as ewma / scale and the variance as var / scale^2; the  *)
(* threshold test compares squares in place of taking a root.  Mean,       *)
(* StdDev and the percentiles are reported but decide nothing, and are     *)
(* left out.                                                               *)
(***************************************************************************)
EXTENDS Integers, Sequences

CONSTANTS
    Keys,           \* operations: (service, operation, protocol)
    Durations,      \* durations of spans, the unmeasured 0 included
    AlphaNum, AlphaDen,
    Deviation,      \* config.DeviationThreshold
    MinSamples,     \* config.MinSamples
    Cooldown,       \* config.CooldownSeconds
    CooldownKeep,   \* age at which cleanupOldCooldown forgets: 10 minutes
    StatsKeep,      \* age at which cleanupOldStats forgets: 1 hour
    ChanCap,        \* capacity of alertChan
    Enabled,        \* config.AlertManager.Enabled
    MaxTime,        \* bound on the clock
    MaxSamples      \* bound on the samples of an operation

ASSUME DurationsAssumption == Durations \subseteq Nat
ASSUME AlphaAssumption ==
    AlphaNum \in Nat \ {0} /\ AlphaDen \in Nat \ {0} /\ AlphaNum =< AlphaDen
ASSUME LimitsAssumption ==
    /\ Deviation \in Nat /\ MinSamples \in Nat
    /\ Cooldown \in Nat /\ CooldownKeep \in Nat /\ StatsKeep \in Nat
    /\ ChanCap \in Nat /\ Enabled \in BOOLEAN
    /\ MaxTime \in Nat /\ MaxSamples \in Nat

VARIABLES
    now,         \* the clock
    stats,       \* operation -> LatencyStats
    cooldown,    \* operation and severity -> time of the last alert
    alertChan,   \* alerts on their way to alertSender
    sender,      \* where alertSender is, and the alert it is posting
    cleaner,     \* where statsCleanupLoop is
    stopped,     \* stopChan is closed
    raised       \* every alert RecordSpan returned, with its fate

alertVars == <<cooldown, alertChan, raised>>
vars == <<now, stats, cooldown, alertChan, sender, cleaner, stopped, raised>>

Severities == {"warning", "error", "critical"}
Fates == {"queued", "dropped", "posting", "sent", "failed"}
Never == -1
NoAlert == 0
NoStats == [count |-> 0, scale |-> 1, ewma |-> 0, var |-> 0, last |-> 0]

LatencyStats == [count : Nat, scale : Nat \ {0}, ewma : Nat, var : Nat, last : Nat]
AnomalyAlert == [key : Keys, severity : Severities, value : Nat, at : Nat, fate : Fates]

\* Every variable has its type.
TypeOK ==
    /\ now \in Nat
    /\ stats \in [Keys -> LatencyStats]
    /\ cooldown \in [Keys -> [Severities -> Nat \cup {Never}]]
    /\ raised \in Seq(AnomalyAlert)
    /\ alertChan \in Seq(DOMAIN raised) /\ Len(alertChan) =< ChanCap
    /\ sender \in [pc : {"off", "select", "post", "exited"},
                   alert : {NoAlert} \cup DOMAIN raised]
    /\ cleaner \in {"select", "cooldown", "exited"}
    /\ stopped \in BOOLEAN

Init ==
    /\ now = 0
    /\ stats = [k \in Keys |-> NoStats]
    /\ cooldown = [k \in Keys |-> [s \in Severities |-> Never]]
    /\ alertChan = <<>>
    /\ sender = [pc |-> IF Enabled THEN "select" ELSE "off", alert |-> NoAlert]
    /\ cleaner = "select"
    /\ stopped = FALSE
    /\ raised = <<>>

-----------------------------------------------------------------------------
(* The statistics.                                                         *)

\* The statistics s after a span of duration d: the first sample starts the
\* mean, a later one moves it by Alpha of the difference.
Folded(s, d) ==
    LET diff == d * s.scale - s.ewma
    IN  IF s.ewma = 0
        THEN [count |-> s.count + 1, scale |-> 1, ewma |-> d, var |-> 0, last |-> now]
        ELSE [count |-> s.count + 1, scale |-> s.scale * AlphaDen,
              ewma |-> s.ewma * AlphaDen + AlphaNum * diff,
              var |-> (AlphaDen - AlphaNum) * (s.var * AlphaDen + AlphaNum * diff * diff),
              last |-> now]

\* How far d lies above the mean, in units of 1 / scale.
Over(s, d) == d * s.scale - s.ewma

\* The duration is more than Deviation standard deviations above the mean.
Exceeds(s, d) ==
    Over(s, d) > 0 /\ Over(s, d) * Over(s, d) > Deviation * Deviation * s.var

\* The deviation is more than 500 percent of the mean, more than 200, or less.
Severity(s, d) ==
    CASE Over(s, d) > 5 * s.ewma -> "critical"
      [] Over(s, d) =< 5 * s.ewma /\ Over(s, d) > 2 * s.ewma -> "error"
      [] OTHER -> "warning"

\* What IsAnomaly answers for a span of duration d; it records nothing.
IsAnomaly(k, d) ==
    /\ d > 0
    /\ stats[k].count > 0 /\ stats[k].count >= MinSamples
    /\ Exceeds(stats[k], d)

-----------------------------------------------------------------------------
(* Alerts.                                                                 *)

\* shouldSendAlert: no alert yet, or the last one is longer ago than the cooldown.
ShouldSend(k, sev) == cooldown[k][sev] = Never \/ now - cooldown[k][sev] > Cooldown

\* The alert leaves RecordSpan: the cooldown starts, and the channel takes the
\* alert if it has room.  An alert that is dropped has started the cooldown.
Raise(k, d, sev) ==
    /\ ShouldSend(k, sev)
    /\ cooldown' = [cooldown EXCEPT ![k][sev] = now]
    /\ LET fate == IF Len(alertChan) < ChanCap THEN "queued" ELSE "dropped"
       IN  raised' = Append(raised, [key |-> k, severity |-> sev, value |-> d,
                                     at |-> now, fate |-> fate])
    /\ alertChan' = IF Len(alertChan) < ChanCap THEN Append(alertChan, Len(raised) + 1)
                                                ELSE alertChan

\* Mutant: the absolute deviation is compared.
RecordSpanAbsolute(k, d) ==
    /\ d > 0
    /\ stats[k].count < MaxSamples
    /\ LET s == Folded(stats[k], d)
           fires == s.count >= MinSamples /\ Over(s, d) * Over(s, d) > Deviation * Deviation * s.var
       IN  /\ stats' = [stats EXCEPT ![k] = s]
           /\ \/ fires /\ Raise(k, d, Severity(s, d))
              \/ ~(fires /\ ShouldSend(k, Severity(s, d))) /\ UNCHANGED alertVars
    /\ UNCHANGED <<now, sender, cleaner, stopped>>

\* RecordSpan.  A span without a positive duration is ignored.
RecordSpan(k, d) ==
    /\ d > 0
    /\ stats[k].count < MaxSamples
    /\ LET s == Folded(stats[k], d)
           fires == s.count >= MinSamples /\ Exceeds(s, d)
       IN  /\ stats' = [stats EXCEPT ![k] = s]
           /\ \/ fires /\ Raise(k, d, Severity(s, d))
              \/ ~(fires /\ ShouldSend(k, Severity(s, d))) /\ UNCHANGED alertVars
    /\ UNCHANGED <<now, sender, cleaner, stopped>>

-----------------------------------------------------------------------------
(* alertSender, started only for an enabled AlertManager.                  *)

\* alertSender receives the oldest alert.
TakeAlert ==
    /\ sender.pc = "select" /\ alertChan # <<>>
    /\ sender' = [pc |-> "post", alert |-> Head(alertChan)]
    /\ alertChan' = Tail(alertChan)
    /\ raised' = [raised EXCEPT ![Head(alertChan)].fate = "posting"]
    /\ UNCHANGED <<now, stats, cooldown, cleaner, stopped>>

\* Mutant: the sender returns after a failure.
PostAlertGivesUp(ok) ==
    /\ sender.pc = "post"
    /\ sender' = [pc |-> IF ok THEN "select" ELSE "exited", alert |-> NoAlert]
    /\ raised' = [raised EXCEPT ![sender.alert].fate = IF ok THEN "sent" ELSE "failed"]
    /\ UNCHANGED <<now, stats, cooldown, alertChan, cleaner, stopped>>

\* The POST ends, if need be by the client's timeout; a failure is logged and
\* the alert is not tried again.
PostAlert(ok) ==
    /\ sender.pc = "post"
    /\ sender' = [pc |-> "select", alert |-> NoAlert]
    /\ raised' = [raised EXCEPT ![sender.alert].fate = IF ok THEN "sent" ELSE "failed"]
    /\ UNCHANGED <<now, stats, cooldown, alertChan, cleaner, stopped>>

\* alertSender sees the closed stopChan; what is in alertChan stays there.
SenderExits ==
    /\ sender.pc = "select" /\ stopped
    /\ sender' = [pc |-> "exited", alert |-> NoAlert]
    /\ UNCHANGED <<now, stats, cooldown, alertChan, cleaner, stopped, raised>>

-----------------------------------------------------------------------------
(* statsCleanupLoop.                                                       *)

\* cleanupOldStats.
CleanStats ==
    /\ cleaner = "select"
    /\ stats' = [k \in Keys |-> IF stats[k].last < now - StatsKeep THEN NoStats ELSE stats[k]]
    /\ cleaner' = "cooldown"
    /\ UNCHANGED <<now, cooldown, alertChan, sender, stopped, raised>>

\* Mutant: the cleanup empties the map.
CleanCooldownAll ==
    /\ cleaner = "cooldown"
    /\ cooldown' = [k \in Keys |-> [s \in Severities |-> Never]]
    /\ cleaner' = "select"
    /\ UNCHANGED <<now, stats, alertChan, sender, stopped, raised>>

\* cleanupOldCooldown.
CleanCooldown ==
    /\ cleaner = "cooldown"
    /\ cooldown' = [k \in Keys |-> [s \in Severities |->
                       IF cooldown[k][s] < now - CooldownKeep THEN Never ELSE cooldown[k][s]]]
    /\ cleaner' = "select"
    /\ UNCHANGED <<now, stats, alertChan, sender, stopped, raised>>

\* statsCleanupLoop sees the closed stopChan.
CleanerExits ==
    /\ cleaner = "select" /\ stopped
    /\ cleaner' = "exited"
    /\ UNCHANGED <<now, stats, cooldown, alertChan, sender, stopped, raised>>

\* Stop closes stopChan.
Stop ==
    /\ ~stopped
    /\ stopped' = TRUE
    /\ UNCHANGED <<now, stats, cooldown, alertChan, sender, cleaner, raised>>

Tick ==
    /\ now < MaxTime
    /\ now' = now + 1
    /\ UNCHANGED <<stats, cooldown, alertChan, sender, cleaner, stopped, raised>>

Next ==
    \/ \E k \in Keys, d \in Durations : RecordSpan(k, d)
    \/ TakeAlert
    \/ \E ok \in BOOLEAN : PostAlert(ok)
    \/ SenderExits
    \/ CleanStats
    \/ CleanCooldown
    \/ CleanerExits
    \/ Stop
    \/ Tick

Spec == Init /\ [][Next]_vars

\* A runnable goroutine is scheduled, and a POST ends.
Fairness ==
    /\ WF_vars(TakeAlert)
    /\ WF_vars(\E ok \in BOOLEAN : PostAlert(ok))
    /\ WF_vars(SenderExits)

LiveSpec == Spec /\ Fairness

-----------------------------------------------------------------------------
(* Properties.                                                             *)

\* What the detector may forget first: the configured cooldown, or the cleanup.
Quiet == IF Cooldown < CooldownKeep THEN Cooldown ELSE CooldownKeep

\* Two alerts of one operation and severity are more than the cooldown apart,
\* although the cleanup deletes cooldowns behind RecordSpan's back; a cooldown
\* configured longer than the cleanup keeps it is cut to what the cleanup keeps.
CooldownRespected ==
    \A i, j \in DOMAIN raised :
        (i < j /\ raised[i].key = raised[j].key /\ raised[i].severity = raised[j].severity)
        => raised[j].at - raised[i].at > Quiet

\* An alert is only raised for a span that IsAnomaly, asked just before, would
\* have called an anomaly, unless the span is the one that completes MinSamples:
\* RecordSpan tests against a threshold the span itself has already moved, and
\* that must only ever make it more careful.
AlertsAreAnomalies ==
    [][Len(raised') > Len(raised) =>
        LET a == raised'[Len(raised')]
        IN  IsAnomaly(a.key, a.value) \/ stats[a.key].count + 1 = MinSamples]_vars

\* With Alpha * (1 + Deviation^2) >= 1 the span pulls the threshold along with
\* itself and no sequence of durations ever raises an alert.  The defaults of
\* NewAnomalyDetector and of config.yaml (0.2 and 3) are such a pair.
SilentWhenInsensitive ==
    AlphaNum * (1 + Deviation * Deviation) >= AlphaDen => raised = <<>>

\* Unless the detector is stopped, alertSender gets rid of every queued alert,
\* whatever becomes of the alerts before it.  (The first MaxSamples alerts.)
AlertsPosted ==
    \A i \in 1..MaxSamples :
        (Enabled /\ i \in DOMAIN raised /\ raised[i].fate = "queued")
        ~> (i \in DOMAIN raised /\ (raised[i].fate \in {"sent", "failed"} \/ stopped))
=============================================================================

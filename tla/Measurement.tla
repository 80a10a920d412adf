----------------------------- MODULE Measurement -----------------------------
(***************************************************************************)
(* The metrics of one run and one service: Derive and computeMetrics of    *)
(* internal/measurement/measurement.go.                                    *)
(*                                                                         *)
(* The runner has logged a failure_start and a failure_end for every       *)
(* failure, each under its type and with the time of the write, so no two  *)
(* carry the same time.  Derive rebuilds failure windows from them, holds  *)
(* the service's alerts against the windows and settles on a verdict.  The *)
(* properties compare the verdict with the failures themselves.            *)
(***************************************************************************)
EXTENDS Integers, FiniteSets, Sequences, SequencesExt

CONSTANTS
    Failures,       \* the failures of the run
    Plans,          \* what they may be: see PlanAssumption
    Advisory,       \* the types tls_deprecated and tls_expiring
    Alerts,         \* alert_fired reports of the service
    AlertTimes,     \* when they may have been reported
    Maintenances,   \* windows the scenario may declare
    Cooldowns,      \* sets of cooldown states the service's rows may carry
    None

\* A plan gives every failure the type it is logged under and its delay, which a
\* timeout or latency failure has and the others do not (0), and says which of
\* http_method_status leave GET healthy (traps).  Delays and times are whole.
ASSUME PlanAssumption == \A p \in Plans :
    /\ DOMAIN p.type = Failures
    /\ p.delay \in [Failures -> Nat]
    /\ p.traps \subseteq Failures
    /\ \A f \in p.traps : p.type[f] \notin Advisory

ASSUME MeasureAssumption ==
    /\ IsFiniteSet(Failures) /\ None \notin Failures
    /\ AlertTimes \subseteq Nat /\ None \notin Int

\* What cooldownState reads from the reason codes and the metadata of the rows: a
\* service may be suppressed by a cooldown, uncertain about it, both or neither.
CooldownStates == SUBSET {"suppressed", "uncertain"}

ASSUME CooldownAssumption == Cooldowns \subseteq CooldownStates

Events == {"failure_start", "failure_end"} \X Failures
Start(f) == <<"failure_start", f>>
End(f) == <<"failure_end", f>>

VARIABLES
    plan,           \* what the failures of the run are
    at,             \* the log: when each event occurred
    alert,          \* alert[a]: when it was reported, or None, and how classified
    unknown,        \* some row has retrieve_status unknown
    cooldown,       \* cooldown states the rows carry
    maintenance,    \* the logged maintenance window, or None
    stage,
    read,           \* events read
    startsByType,
    windows,        \* failureWindows
    scanned,        \* alerts classified
    v,              \* the flags of computeMetrics
    detectionLatency

input == <<plan, at, alert, unknown, cooldown, maintenance>>
measureVars == <<input, stage, read, startsByType, windows, scanned, v, detectionLatency>>

Type == plan.type
Delay == plan.delay
Traps == plan.traps

Types == {Type[f] : f \in Failures}

\* A run that was not aborted has closed every failure it began.
Logs == {f \in [Events -> 1..Cardinality(Events)] :
            /\ \A d, e \in Events : f[d] = f[e] => d = e
            /\ \A g \in Failures : f[Start(g)] < f[End(g)]}

NoFlags == [truePositive |-> FALSE, falseNegative |-> FALSE, falsePositive |-> FALSE,
            tlsAdvisoryDetected |-> FALSE, tlsAdvisoryMissed |-> FALSE,
            tlsAdvisoryFalseOutage |-> FALSE, maintenanceSuppressed |-> FALSE,
            cooldownSuppressed |-> FALSE, cooldownUncertain |-> FALSE]

MeasureInit ==
    /\ plan \in Plans
    /\ at \in Logs
    /\ alert \in [Alerts -> [reportedAt : AlertTimes \cup {None},
                             class : {"outage", "tls_advisory"}]]
    /\ unknown \in BOOLEAN
    /\ cooldown \in Cooldowns
    /\ maintenance \in Maintenances \cup {None}
    /\ stage = "events" /\ read = {} /\ windows = <<>> /\ scanned = {}
    /\ startsByType = [t \in Types |-> None]
    /\ v = NoFlags /\ detectionLatency = None

-----------------------------------------------------------------------------
(* The windows *)

\* The next event in the order of occurred_at.
Oldest == CHOOSE e \in Events \ read : \A d \in Events \ read : at[e] <= at[d]

\* The start is remembered under the type, with the failure's details.
FailureStart ==
    /\ stage = "events" /\ read # Events
    /\ Oldest[1] = "failure_start"
    /\ startsByType' = [startsByType EXCEPT ![Type[Oldest[2]]] = Oldest[2]]
    /\ read' = read \cup {Oldest}
    /\ UNCHANGED <<input, stage, windows, scanned, v, detectionLatency>>

Window(f, end) == [of |-> f, start |-> at[Start(f)], end |-> end]

\* The end closes the window of the start known under its type, if there is one.
FailureEnd ==
    /\ stage = "events" /\ read # Events
    /\ Oldest[1] = "failure_end"
    /\ LET t == Type[Oldest[2]]
           s == startsByType[t]
       IN  /\ windows' = IF s = None THEN windows ELSE Append(windows, Window(s, at[Oldest]))
           /\ startsByType' = [startsByType EXCEPT ![t] = None]
    /\ read' = read \cup {Oldest}
    /\ UNCHANGED <<input, stage, scanned, v, detectionLatency>>

isTLSAdvisoryFailure(w) == Type[w.of] \in Advisory
isHealthyGETMethodTrap(w) == w.of \in Traps

\* Faulty variant: a failure that leaves GET healthy counts as an outage.
normalWindowsAll == {j \in DOMAIN windows : ~isTLSAdvisoryFailure(windows[j])}

\* splitWindows: where the windows of either kind are.
normalWindows ==
    {j \in DOMAIN windows : ~isTLSAdvisoryFailure(windows[j]) /\ ~isHealthyGETMethodTrap(windows[j])}
tlsAdvisoryWindows == {j \in DOMAIN windows : isTLSAdvisoryFailure(windows[j])}

\* An unknown service gets no verdict; for the others the pass over the alerts
\* begins.
EventsRead ==
    /\ stage = "events" /\ read = Events
    /\ stage' = IF unknown THEN "done" ELSE "alerts"
    /\ v' = IF unknown THEN v
            ELSE [v EXCEPT !.falseNegative = normalWindows # {},
                           !.tlsAdvisoryMissed = tlsAdvisoryWindows # {}]
    /\ UNCHANGED <<input, read, startsByType, windows, scanned, detectionLatency>>

-----------------------------------------------------------------------------
(* The alerts *)

effectiveFailureEnd(w) == w.end + Delay[w.of]

containsTime(w, t) == w.start <= t /\ t <= effectiveFailureEnd(w)

\* One alert of the pass.  All rows of a service carry one retrieved_at, so the
\* order in which the database returns them is open.  The latency is that of the
\* first alert that lies in a window, counted from the first such window.
ScanAlert ==
    /\ stage = "alerts"
    /\ \E a \in Alerts \ scanned :
         LET t == alert[a].reportedAt
             hits == {j \in normalWindows : containsTime(windows[j], t)}
             first == CHOOSE j \in hits : \A i \in hits : j <= i
             advisory == \E j \in tlsAdvisoryWindows : containsTime(windows[j], t)
             detected == advisory /\ alert[a].class = "tls_advisory"
         IN  /\ scanned' = scanned \cup {a}
             /\ IF t = None
                  THEN UNCHANGED <<v, detectionLatency>>
                  ELSE /\ v' = [v EXCEPT
                                 !.truePositive = @ \/ hits # {},
                                 !.falseNegative = @ /\ hits = {},
                                 !.falsePositive = @ \/ (hits = {} /\ ~advisory),
                                 !.tlsAdvisoryDetected = @ \/ detected,
                                 !.tlsAdvisoryFalseOutage = @ \/ (advisory /\ ~detected),
                                 !.tlsAdvisoryMissed = @ /\ ~advisory]
                       /\ detectionLatency' = IF detectionLatency = None /\ hits # {}
                                                THEN t - windows[first].start ELSE detectionLatency
    /\ UNCHANGED <<input, stage, read, startsByType, windows>>

-----------------------------------------------------------------------------
(* Suppression *)

\* Faulty variant: the windows are summed up as they are.
mergeWindowsNot == windows

\* The windows that are not empty, in the order of their starts, with those that
\* overlap or touch made one.
mergeWindows ==
    LET normalized == SelectSeq(windows, LAMBDA w : w.end > w.start)
        ordered == SortSeq(normalized, LAMBDA w, x : w.start < x.start
                                                     \/ (w.start = x.start /\ w.end < x.end))
        join(merged, w) ==
            IF merged # <<>> /\ w.start <= Last(merged).end
              THEN IF w.end > Last(merged).end
                     THEN [merged EXCEPT ![Len(merged)].end = w.end] ELSE merged
              ELSE Append(merged, w)
    IN  FoldLeft(join, <<>>, ordered)

\* overlapFraction, as the two durations it divides.
failureTotal == FoldLeft(LAMBDA n, w : n + (w.end - w.start), 0, mergeWindows)

overlap ==
    LET part(n, w) ==
          IF maintenance.end < w.start \/ maintenance.start > w.end THEN n
          ELSE n + (IF maintenance.end < w.end THEN maintenance.end ELSE w.end)
                 - (IF maintenance.start > w.start THEN maintenance.start ELSE w.start)
    IN  FoldLeft(part, 0, mergeWindows)

\* maintenanceCoverageThreshold is 0.80.
covered == failureTotal > 0 /\ 5 * overlap >= 4 * failureTotal

\* A miss is put down to maintenance first, then to a cooldown.
Suppress ==
    /\ stage = "alerts" /\ scanned = Alerts
    /\ LET missed == v.falseNegative /\ windows # <<>>
           ms == missed /\ maintenance # None /\ covered
           cs == missed /\ ~ms /\ "suppressed" \in cooldown
           cu == missed /\ ~ms /\ ~cs /\ "uncertain" \in cooldown
       IN  v' = [v EXCEPT !.maintenanceSuppressed = ms, !.cooldownSuppressed = cs,
                          !.cooldownUncertain = cu,
                          !.falseNegative = @ /\ ~ms /\ ~cs /\ ~cu]
    /\ stage' = "done"
    /\ UNCHANGED <<input, read, startsByType, windows, scanned, detectionLatency>>

VerdictGiven == stage = "done" /\ UNCHANGED measureVars

MeasureNext == FailureStart \/ FailureEnd \/ EventsRead \/ ScanAlert \/ Suppress \/ VerdictGiven

MeasureSpec == MeasureInit /\ [][MeasureNext]_measureVars

-----------------------------------------------------------------------------
(* Properties *)

Visible == {f \in Failures : Type[f] \notin Advisory /\ f \notin Traps}

\* f was felt at time t.
Active(f, t) == at[Start(f)] <= t /\ t <= at[End(f)] + Delay[f]

Reported == {a \in Alerts : alert[a].reportedAt # None}
Detects(a, f) == Active(f, alert[a].reportedAt)

\* No two failures of one type are active at once.
Apart ==
    \A f, g \in Failures : f # g /\ Type[f] = Type[g] =>
        at[End(f)] < at[Start(g)] \/ at[End(g)] < at[Start(f)]

\* The values are of their types.
MeasureTypeOK ==
    /\ stage \in {"events", "alerts", "done"}
    /\ read \subseteq Events /\ scanned \subseteq Alerts
    /\ startsByType \in [Types -> Failures \cup {None}]
    /\ \A j \in 1..Len(windows) : windows[j].of \in Failures /\ windows[j].start < windows[j].end
    /\ v \in [DOMAIN NoFlags -> BOOLEAN]
    /\ detectionLatency \in Nat \cup {None}

\* The verdict is the one the failures and the alerts call for: a true positive
\* for an alert while a visible failure was active, a false positive for an alert
\* while none was, a false negative only when a visible failure met no alert.
Sound ==
    stage = "done" /\ ~unknown =>
        /\ v.truePositive = \E a \in Reported, f \in Visible : Detects(a, f)
        /\ v.falsePositive = \E a \in Reported : \A f \in Failures \ Traps : ~Detects(a, f)
        /\ v.falseNegative => Visible # {} /\ ~v.truePositive

\* The verdict is sound whenever no two failures of one type overlap, however
\* the failures interleave and in whatever order the alerts are read.
VerdictSound == Apart => Sound

\* A run with a visible failure gets one verdict for a known service, and only
\* one: detected, missed, or one of the three reasons why a miss is none.
OneVerdict ==
    stage = "done" /\ ~unknown /\ Apart =>
        Cardinality({x \in {"truePositive", "falseNegative", "maintenanceSuppressed",
                            "cooldownSuppressed", "cooldownUncertain"} : v[x]})
            = IF Visible = {} THEN 0 ELSE 1

\* The latency is there when a failure was detected, and it leads from the start
\* of a visible failure to an alert while it was active: never below zero.
LatencyOfDetection ==
    stage = "done" /\ Apart =>
        /\ (detectionLatency # None) = v.truePositive
        /\ detectionLatency # None =>
             \E a \in Reported, f \in Visible :
                /\ Detects(a, f)
                /\ detectionLatency = alert[a].reportedAt - at[Start(f)]

\* A derived row is right: verdict, latency and number of verdicts.
VerdictRight == VerdictSound /\ OneVerdict /\ LatencyOfDetection

\* The units of time in which some failure was active, by the log.
Outage == {t \in 1..Cardinality(Events) : \E f \in Failures : at[Start(f)] <= t /\ t < at[End(f)]}

\* A miss is excused by maintenance just when the window covers four fifths of
\* the time in which something failed; overlapping failures count once.
MaintenanceEarned ==
    stage = "done" /\ ~unknown /\ Apart /\ maintenance # None =>
        LET inside == {t \in Outage : maintenance.start <= t /\ t < maintenance.end}
        IN  v.maintenanceSuppressed <=>
              /\ Visible # {} /\ ~v.truePositive
              /\ 5 * Cardinality(inside) >= 4 * Cardinality(Outage)
=============================================================================

-------------------------- MODULE CapacityAnalysis --------------------------
(***************************************************************************)
(* What internal/jetmoncapacity makes of the data a batch window captured: *)
(* replay detection from the services' event histories, health and stop    *)
(* thresholds, and the state of the operational captures.                  *)
(***************************************************************************)
EXTENDS CapacityPlan

(***************************************************************************)
(* Replay detection.  A raw event is a record: status is jetmon-v1's new   *)
(* status (-1: none, a jetmon-v2 event), down whether the v2 state is one  *)
(* of seems_down, down, degraded; 0 is an absent time.  interval is the     *)
(* check interval an event's metadata reports: none, the one expected, or  *)
(* another one.  jetmon-v1's rows report none.                             *)
(***************************************************************************)
Raw(status, down, at, end, interval) ==
    [status |-> status, down |-> down, at |-> at, end |-> end, interval |-> interval]

\* External: a site's history is a sequence of outages in time order, the
\* last one possibly still open (to = 0).  collectV1ReplayEvents gets one row
\* per change of status created in the padded window, ...
CollectV1ReplayEvents(outages, since, until) ==
    LET rows == FlattenSeq([i \in DOMAIN outages |->
                    <<Raw(0, FALSE, outages[i].from, 0, "none")>>
                    \o IF outages[i].to = 0 THEN <<>> ELSE <<Raw(1, FALSE, outages[i].to, 0, "none")>>])
    IN  SelectSeq(rows, LAMBDA r : since <= r.at /\ r.at <= until)

\* ... collectV2ReplayEvents the outages that overlap it.
CollectV2ReplayEvents(outages, since, until) ==
    LET rows == [i \in DOMAIN outages |-> Raw(-1, TRUE, outages[i].from, outages[i].to, outages[i].interval)]
    IN  SelectSeq(rows, LAMBDA r : r.at < until /\ (r.end = 0 \/ r.end >= since))

RawDown(e) == IF e.status # -1 THEN e.status \in {0, 2} ELSE e.down
RawRecovery(e) == IF e.status # -1 THEN e.status = 1 ELSE e.end # 0
RawRecoveryTime(e) == IF e.status # -1 THEN e.at ELSE e.end

OverlapsWhenStarted(events, i, activated) ==
    LET e == events[i]
    IN  RawDown(e) /\ e.at # 0 /\ e.at < activated /\ (e.status = -1 /\ e.end # 0 => e.end > activated)

\* replayRawEventOverlapsActivation: the outage lasts into the replay.
OverlapsActivation(events, i, activated) ==
    LET e == events[i]
        next == {j \in (i + 1)..Len(events) :
                    RawRecovery(events[j]) /\ RawRecoveryTime(events[j]) >= e.at}
    IN  /\ RawDown(e) /\ e.at # 0 /\ e.at < activated
        /\ IF e.status = -1 /\ e.end # 0 THEN e.end > activated
           ELSE \A j \in next : (\A k \in next : j <= k) => RawRecoveryTime(events[j]) > activated

\* summarizeReplayDetectionIntervals: whether an event of the host reports another
\* check interval than expected; whether it falls into the replay is not asked.
IntervalMismatch(events) == \E i \in DOMAIN events : events[i].interval = "other"

\* analyzeReplayDetectionHost on events in time order.
AnalyzeReplayDetectionHost(events, activated, deactivated) ==
    LET pre == \E i \in DOMAIN events : OverlapsActivation(events, i, activated)
        downs == {events[i].at : i \in {k \in DOMAIN events :
                      RawDown(events[k]) /\ events[k].at # 0 /\ events[k].at >= activated}}
        first == {t \in downs : \A u \in downs : t <= u}
    IN  [pre |-> pre,
         during |-> ~pre /\ \E t \in first : t <= deactivated,
         late |-> ~pre /\ \E t \in first : t > deactivated,
         mismatch |-> IntervalMismatch(events),
         recovered |-> \E i \in DOMAIN events :
                          RawRecovery(events[i]) /\ RawRecoveryTime(events[i]) >= deactivated]

\* collectReplayDetectionService: the verdict over the analysed hosts; `strict' is
\* fail_on_check_interval_mismatch.
DetectionPasses(hosts, outcome, strict) ==
    /\ IF outcome = "up" THEN \A h \in hosts : ~(h.pre \/ h.during \/ h.late \/ h.recovered)
       ELSE \A h \in hosts : ~h.pre /\ h.during /\ h.recovered
    /\ strict => \A h \in hosts : ~h.mismatch

(***************************************************************************)
(* Health and thresholds.                                                  *)
(***************************************************************************)
\* serviceHealthFromVerify: the row counts of a verify against what they
\* should be (-1: anything), and for v2 the share of stale active rows.
ServiceHealthFromVerify(s, action, active, stale, expected) ==
    [service |-> s, action |-> action,
     status |-> IF expected >= 0 /\ active # expected THEN "fail" ELSE "pass",
     missed |-> IF V2(s) /\ active > 0 THEN (stale * 100) \div active ELSE -1]

\* highThresholdFindings, lowThresholdFindings: over the series of a query,
\* the worst value of each; no series is not measured.
HighThresholdFindings(maxima, limit) ==
    IF limit <= 0 THEN {} ELSE IF maxima = {} THEN {"not_measured"}
    ELSE {IF x > limit THEN "fail" ELSE "pass" : x \in maxima}

LowThresholdFindings(lows, limit) ==
    IF limit <= 0 THEN {} ELSE IF lows = {} THEN {"not_measured"}
    ELSE {IF x < limit THEN "fail" ELSE "pass" : x \in lows}

\* EvaluateThresholds: prom is None or a record of the report's values.
EvaluateThresholds(health, prom, limits) ==
    (IF prom.kind = "none" THEN {"not_measured"}
     ELSE HighThresholdFindings(prom.cpu, limits.cpu) \cup LowThresholdFindings(prom.up, limits.up))
    \cup (IF limits.missed <= 0 THEN {}
          ELSE {IF h.missed = -1 THEN "not_measured"
                ELSE IF h.missed > limits.missed THEN "fail" ELSE "pass" :
                    h \in {x \in health : x.action = "window-end-verify"}})

\* EvaluateTargetObserverThresholds: sites never seen and stale sites, each
\* with -1 for "no limit".
EvaluateTargetObserverThresholds(seen, limits) ==
    (IF limits.never < 0 THEN {} ELSE {IF x.never > limits.never THEN "fail" ELSE "pass" : x \in seen})
    \cup (IF limits.stale < 0 THEN {} ELSE {IF x.stale > limits.stale THEN "fail" ELSE "pass" : x \in seen})

(***************************************************************************)
(* Operational captures.                                                   *)
(***************************************************************************)
\* The captures that ask one host or service after the other and go on after
\* a failure (network Reset and Snapshot, DB operational, disk I/O Finish):
\* `answers' says which failed.
PerHost(answers) == IF \E h \in DOMAIN answers : answers[h] = "err" THEN "fail" ELSE "pass"

\* DefaultStreamingTelemetryCollector.Collect: an error of the dashboard or
\* of the journal fails; an empty journal is partial when the dashboard
\* answered, and a failure otherwise.
StreamingCollect(answers) ==
    IF \E h \in DOMAIN answers :
          \/ answers[h].dashboard = "err" \/ answers[h].journal = "err"
          \/ answers[h].journal = "empty" /\ answers[h].dashboard # "ok"
    THEN "fail"
    ELSE IF \E h \in DOMAIN answers : answers[h].journal = "empty" THEN "partial" ELSE "pass"

\* suiteBatchStatus: what a batch counts as in the suite.
SuiteBatchStatus(m) ==
    IF \/ m.err \/ m.cleanup = "fail" \/ m.health = "fail"
       \/ \E p \in DOMAIN m.parts : m.parts[p] \in {"fail", "preflight_failed"}
       \/ m.over \/ m.stop
    THEN "fail" ELSE IF m.life = "pass" THEN "pass" ELSE m.life
=============================================================================

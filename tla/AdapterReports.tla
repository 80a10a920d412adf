--------------------------- MODULE AdapterReports ---------------------------
(***************************************************************************)
(* What each adapter's Retrieve makes of the records a monitoring service  *)
(* returns for one monitor (one package each under internal/adapter).  A     *)
(* record is                                                               *)
(*                                                                         *)
(*    [at |-> time, state |-> State, end |-> time]                         *)
(*                                                                         *)
(* where end is 0 while an incident is open and 0 for records that are     *)
(* single samples.  Times are naturals; the run's window is                *)
(* FailureStarted <= FailureEnded <= GracePeriodEnd.  The services that    *)
(* take the window as query parameters (external) select by `at'.          *)
(***************************************************************************)
EXTENDS Naturals, Sequences, FiniteSets, SequencesExt

CONSTANTS FailureStarted, FailureEnded, GracePeriodEnd

ASSUME WindowAssumption ==
    /\ {FailureStarted, FailureEnded, GracePeriodEnd} \subseteq Nat
    /\ 0 < FailureStarted /\ FailureStarted <= FailureEnded
    /\ FailureEnded <= GracePeriodEnd

\* A sample or an incident as the services label it: a confirmed or an
\* unconfirmed outage, a recovery, or a label that is no detection event.
States == {"down", "unconfirmed", "up", "other"}

Fired(t)    == [event |-> "alert_fired", at |-> t]
Resolved(t) == [event |-> "alert_resolved", at |-> t]
Changed(t)  == [event |-> "status_change", at |-> t]

\* The records the service selects for the query window.
Queried(log) ==
    SelectSeq(log, LAMBDA r : FailureStarted <= r.at /\ r.at <= GracePeriodEnd)

FlattenReports(log, Translate(_)) ==
    FoldLeft(LAMBDA acc, r : acc \o Translate(r), <<>>, log)

\* uptimerobot.classifyLog: log rows are translated one by one; the started
\* and paused markers are dropped.
classifyLog(r) ==
    CASE r.state \in {"down", "unconfirmed"} -> <<Fired(r.at)>>
      [] r.state = "up"                      -> <<Resolved(r.at)>>
      [] OTHER                               -> <<>>

UptimeRobotReports(log) == FlattenReports(Queried(log), classifyLog)

\* pingdom: the same for the states of summary.outage; `paused' is dropped.
PingdomReports(log) == FlattenReports(Queried(log), classifyLog)

\* betteruptime: an incident fires when it starts and, once it has a
\* resolved_at, resolves then -- whatever side of the window that is on.
BetterUptimeReports(log) ==
    LET Translate(r) == <<Fired(r.at)>> \o (IF r.end = 0 THEN <<>> ELSE <<Resolved(r.end)>>)
    IN  FlattenReports(SelectSeq(Queried(log), LAMBDA r : r.state = "down"), Translate)

\* jetmonv2: the query is half open, an incident that ends after the grace
\* period is still open for the run.
JetmonV2Reports(log) ==
    LET rows == SelectSeq(log, LAMBDA r : FailureStarted <= r.at /\ r.at < GracePeriodEnd)
        Translate(r) ==
            (IF r.state \in {"down", "unconfirmed"} THEN <<Fired(r.at)>> ELSE <<>>)
            \o (IF r.end # 0 /\ r.end <= GracePeriodEnd THEN <<Resolved(r.end)>> ELSE <<>>)
    IN  FlattenReports(rows, Translate)

\* jetmonv1: status transitions; a status that is neither down nor running
\* is reported as a status change.
JetmonV1Reports(log) ==
    LET Translate(r) ==
            CASE r.state \in {"down", "unconfirmed"} -> <<Fired(r.at)>>
              [] r.state = "up"                      -> <<Resolved(r.at)>>
              [] OTHER                               -> <<Changed(r.at)>>
    IN  FlattenReports(Queried(log), Translate)

\* datadog: pass and fail samples are coalesced into transitions, in the
\* order in which the service returns them, starting from `pass'.
DatadogReports(log) ==
    LET samples == SelectSeq(Queried(log), LAMBDA r : r.state \in {"down", "up"})
        Step(acc, r) ==
            IF r.state = acc.prev THEN acc
            ELSE [prev |-> r.state,
                  out  |-> Append(acc.out, IF r.state = "down" THEN Fired(r.at) ELSE Resolved(r.at))]
    IN  FoldLeft(Step, [prev |-> "up", out |-> <<>>], samples).out

FirstGoodSampleResolves(log) ==
    DatadogReports(SortSeq(log, LAMBDA a, b : a.at < b.at))

\* gatus: samples sorted by time, the window applied by the adapter; the
\* first failing sample fires, the first good one that is not before the
\* end of the failure resolves, and nothing follows it.
GatusReports(log) ==
    LET samples == Queried(SortSeq(log, LAMBDA a, b : a.at < b.at))
        Bad(i)  == samples[i].state # "up"
        fired   == {i \in DOMAIN samples : Bad(i) /\ \A j \in 1..(i - 1) : ~Bad(j)}
        Good(i) == /\ ~Bad(i) /\ samples[i].at >= FailureEnded
                   /\ \E j \in fired : j < i
        solved  == {i \in DOMAIN samples : Good(i) /\ \A j \in 1..(i - 1) : ~Good(j)}
    IN  FlattenReports([i \in 1..Len(samples) |-> [i |-> i, at |-> samples[i].at]],
                       LAMBDA r : IF r.i \in fired THEN <<Fired(r.at)>>
                                  ELSE IF r.i \in solved THEN <<Resolved(r.at)>> ELSE <<>>)

\* uptimekuma: as gatus, but only a heartbeat of status 0 fires and only one
\* of status 1 resolves: pending and maintenance beats do neither.
UptimeKumaReports(log) ==
    GatusReports(SelectSeq(log, LAMBDA r : r.state \in {"down", "up"}))

(***************************************************************************)
(* What the measurement relies on.                                         *)
(***************************************************************************)
InWindow(r) == r.at \in FailureStarted..GracePeriodEnd

\* A log that is read as one outage: it fires at the earliest failing sample of
\* the window, if there is one, and is over at the earliest good sample after
\* that which is not before the end of the failure.  Whatever else was sampled, in
\* whatever order it is returned, neither ends the outage nor opens another one.
OneOutage(log, reports, failing) ==
    LET bad   == {r.at : r \in {x \in Range(log) : InWindow(x) /\ x.state \in failing}}
        good  == {r.at : r \in {x \in Range(log) : InWindow(x) /\ x.state = "up" /\ x.at >= FailureEnded}}
        first == CHOOSE t \in bad : \A u \in bad : t <= u
    IN  IF bad = {} THEN reports = <<>>
        ELSE \/ reports = <<Fired(first)>> /\ \A t \in good : t <= first
             \/ \E u \in good : /\ reports = <<Fired(first), Resolved(u)>> /\ first <= u
                                /\ \A t \in good : t <= first \/ u <= t

\* A log that is read as an outage for each unbroken run of failing samples, from
\* its first failing sample to the good one after it, in the order returned.
OutagePerRun(log, reports) ==
    LET S         == SelectSeq(log, LAMBDA r : InWindow(r) /\ r.state \in {"down", "up"})
        turns(st) == {i \in DOMAIN S : S[i].state = st /\ (i > 1 => S[i - 1].state # st) /\ (i = 1 => st = "down")}
        times(ev) == {i \in DOMAIN reports : reports[i].event = ev}
    IN  /\ \A i \in DOMAIN reports : reports[i].event = IF i % 2 = 1 THEN "alert_fired" ELSE "alert_resolved"
        /\ \A p \in {<<"alert_fired", "down">>, <<"alert_resolved", "up">>} :
              /\ Cardinality(times(p[1])) = Cardinality(turns(p[2]))
              /\ {reports[i].at : i \in times(p[1])} = {S[i].at : i \in turns(p[2])}
=============================================================================

---------------------------- MODULE CampaignReport ----------------------------
(***************************************************************************)
(* What is published about a campaign: internal/report, the queries of     *)
(* internal/db it is fed from, and the commands uptime-bench-report and    *)
(* uptime-bench-finalize.                                                  *)
(*                                                                         *)
(* A command runs beside the campaign.  It looks the campaign's executions *)
(* up, has finalize derive their metrics again, and reads metrics and      *)
(* reasons in separate statements, while replays still write the reports   *)
(* of their services row by row and the harness derives metrics as well.   *)
(* Slot 0 is a replay of an earlier execution of the same campaign, over   *)
(* and derived.                                                            *)
(***************************************************************************)
EXTENDS Campaign, Sequences, FiniteSetsExt

CONSTANTS
    Journal,    \* the monitor_reports rows a slot's replay inserts, in order
    Label,      \* campaign_failure_label of a slot's run, "" for none
    Category,   \* failureCategory of a label, by its prefix
    Losses,     \* bound: the choices of the inserts that fail, by slot
    Watched     \* bound: the schedules for which rows are stored and a report is asked for

AllSlots == {0} \cup Slots

\* A row: its service, retrieve_status, reason_code, and whether it is an alert
\* inside ("hit") or outside ("noise") a failure window or none ("quiet"), with
\* the latency from the window's start.  What is unknown of a service before its
\* results are retrieved (a skipped provision, an unstable DNS baseline) is
\* written before them, and the rows of one retrieve carry one status.
ASSUME JournalAssumption ==
    \A s \in AllSlots :
        /\ Journal[s] \in Seq([service : Services, status : {"known", "unknown"}, code : STRING,
                              event : {"hit", "noise", "quiet"}, latency : Nat])
        /\ \A i, j \in 1..Len(Journal[s]) :
              i < j /\ Journal[s][i].service = Journal[s][j].service /\ Journal[s][i].status = "known"
                 => Journal[s][j].status = "known"

VARIABLES
    refused,    \* the inserts of a slot that fail; chosen at the start, met by WriteRow
    written,    \* the inserts into monitor_reports a slot has made
    metrics,    \* derived_metrics: slot -> service -> metric name -> value
    cmd         \* the command

reportVars == <<refused, written, metrics, cmd>>

Nothing == [n \in {} |-> 0]
NoCommand == [pc |-> "idle", derive |-> FALSE, matched |-> {}, meta |-> Nothing, todo |-> {},
              seen |-> 0, lost |-> FALSE, rows |-> Nothing, report |-> Nothing]

-----------------------------------------------------------------------------
(* Deriving *)

\* The rows of the service v that the first n inserts of a slot left behind.
Rows(s, n, v) == {Journal[s][j] : j \in {i \in 1..n : i \notin refused[s] /\ Journal[s][i].service = v}}

OutageMetrics(R) ==
    LET hit == \E r \in R : r.event = "hit"
        cooled == ~hit /\ \E r \in R : r.code = "cooldown_suppressed"
        bit(b) == IF b THEN 1 ELSE 0
    IN  [n \in {"true_positive", "false_negative", "false_positive", "unknown", "cooldown_suppressed"}
               \cup (IF hit THEN {"detection_latency_s"} ELSE {}) |->
            CASE n = "true_positive" -> bit(hit)
              [] n = "false_negative" -> bit(~hit /\ ~cooled)
              [] n = "false_positive" -> bit(\E r \in R : r.event = "noise")
              [] n = "unknown" -> 0
              [] n = "cooldown_suppressed" -> bit(cooled)
              [] n = "detection_latency_s" -> (CHOOSE r \in R : r.event = "hit").latency]

\* Faulty variant: an unknown service gets a verdict as well.
MetricsOfUnknown(R) ==
    IF \E r \in R : r.status = "unknown"
      THEN [n \in DOMAIN OutageMetrics(R) |-> IF n = "unknown" THEN 1 ELSE OutageMetrics(R)[n]]
      ELSE OutageMetrics(R)

\* computeMetrics for a run whose failures are visible outages; Measurement has
\* the rest of it.
computeMetrics(R) ==
    IF \E r \in R : r.status = "unknown" THEN [n \in {"unknown"} |-> 1] ELSE OutageMetrics(R)

\* One row per name: a name that is not written keeps the value it had.
UpsertDerivedMetric(old, new) ==
    [n \in DOMAIN old \cup DOMAIN new |-> IF n \in DOMAIN new THEN new[n] ELSE old[n]]

\* Derive on the first n report rows of a run: a service without rows is left
\* alone, and so is one whose upserts fail, which is only logged.
Derive(s, n, failing) ==
    [v \in Services |->
        IF Rows(s, n, v) = {} \/ v \in failing THEN metrics[s][v]
        ELSE UpsertDerivedMetric(metrics[s][v], computeMetrics(Rows(s, n, v)))]

ReportInit ==
    /\ Init
    /\ refused \in Losses /\ (offset \in Watched \/ \A s \in AllSlots : refused[s] = {})
    /\ written = [s \in AllSlots |-> IF s = 0 THEN Len(Journal[0]) ELSE 0]
    /\ metrics = [s \in AllSlots |-> [v \in Services |->
                    LET R == Rows(0, Len(Journal[0]), v)
                    IN  IF s = 0 /\ R # {} THEN computeMetrics(R) ELSE Nothing]]
    /\ cmd = NoCommand

-----------------------------------------------------------------------------
(* The campaign, with what it stores *)

\* A replay inserts its next report row; it may end without the others.  An
\* insert that fails is logged, and the rows after it are inserted all the same.
WriteRow ==
    /\ pc = "running" /\ offset \in Watched /\ written[k + 1] < Len(Journal[k + 1])
    /\ written' = [written EXCEPT ![k + 1] = @ + 1]
    /\ UNCHANGED <<vars, refused, metrics, cmd>>

\* The harness derives a run's metrics, in module Campaign one run at a time.
HarnessDerives ==
    /\ DeriveCampaign
    /\ \E s \in tried' \ tried : metrics' = [metrics EXCEPT ![s] = Derive(s, written[s], {})]
    /\ UNCHANGED <<refused, written, cmd>>

\* Everything else the campaign does; a run without a row has no reports.
CampaignGoesOn ==
    /\ Next /\ ~DeriveCampaign
    /\ RunReturns /\ written[k + 1] > 0 => outcome'[k + 1] # "absent"
    /\ UNCHANGED reportVars

-----------------------------------------------------------------------------
(* The report: pure functions of the rows that were read *)

\* Faulty variant: the end is that of the executions that are over.
MetaOfEnded(runs) == [runs |-> Cardinality(runs), ended |-> \E r \in runs : r = "earlier" \/ row # "open"]

\* MetaFromLookup: an end is disclosed when no execution is in flight.
MetaFromLookup(runs) ==
    [runs |-> Cardinality(runs), ended |-> runs # {} /\ ("current" \in runs => row # "open")]

Execution(s) == IF s = 0 THEN "earlier" ELSE "current"

\* CampaignMetricRows and CampaignReasonRows of the matched executions.
CampaignMetricRows(runs) ==
    [s \in {t \in AllSlots : Execution(t) \in runs} |-> metrics[s]]
CampaignReasonRows(runs) ==
    UNION {{[slot |-> s, service |-> Journal[s][j].service, code |-> Journal[s][j].code] :
                j \in {i \in 1..written[s] : i \notin refused[s] /\ Journal[s][i].code # ""}} :
            s \in {t \in AllSlots : Execution(t) \in runs}}

\* CampaignReasonDetailRows, which SummarizeReasonDetails lists: the runs of a
\* bucket, counted in the database.
CampaignReasonDetailRows(R) ==
    [b \in {<<Label[r.slot], r.service, r.code>> : r \in R} |->
        Cardinality({r.slot : r \in {q \in R : <<Label[q.slot], q.service, q.code>> = b}})]

failureType(s) == IF Label[s] = "" THEN "<no_failure>" ELSE Label[s]

\* metricValue and boolMetric: no row and a null count as zero.
True(M, s, v, n) == n \in DOMAIN M[s][v] /\ M[s][v][n] >= 1

BoolMetrics == {"true_positive", "false_negative", "false_positive", "unknown", "maintenance_suppressed",
                "cooldown_suppressed", "cooldown_uncertain", "tls_advisory_detected",
                "tls_advisory_missed", "tls_advisory_false_outage"}

\* percentileNearest: the value at rank ceil(p N) of the samples, p in percent.
percentileNearest(f, p) ==
    LET rank == (p * Cardinality(DOMAIN f) + 99) \div 100
    IN  CHOOSE x \in {f[s] : s \in DOMAIN f} :
            /\ Cardinality({s \in DOMAIN f : f[s] < x}) < rank
            /\ rank <= Cardinality({s \in DOMAIN f : f[s] <= x})

\* The ranks percentileNearestCI takes: floor and ceiling of p N -+ 1.96 times
\* the root of N p (1 - p), brought into 1..N; the root by its square.
Within(n, p, r) == 10000 * (p * n - 100 * r) * (p * n - 100 * r) < 38416 * n * p * (100 - p)
percentileNearestCI(n, p) ==
    LET outside == {r \in 0..n : ~Within(n, p, r)}
    IN  [lower |-> Max({1} \cup {r \in outside : 100 * r <= p * n}),
         upper |-> Min({n} \cup {r \in outside : r >= 1 /\ 100 * r >= p * n})]

\* applyLatencyStats.
LatencyStats(f) ==
    IF DOMAIN f = {} THEN Nothing
    ELSE [min |-> Min({f[s] : s \in DOMAIN f}), max |-> Max({f[s] : s \in DOMAIN f}),
          sum |-> MapThenSumSet(LAMBDA s : f[s], DOMAIN f),
          p50 |-> percentileNearest(f, 50), p95 |-> percentileNearest(f, 95),
          ci50 |-> percentileNearestCI(Cardinality(DOMAIN f), 50),
          ci95 |-> percentileNearestCI(Cardinality(DOMAIN f), 95)]

\* Summarize: one row per failure type and service that has metrics or reasons.
\* The detection rate is a pair, of which the second may be 0: no rate then.
Summarize(M, R) ==
    LET runsOf(t, v) == {s \in DOMAIN M : failureType(s) = t
                           /\ (M[s][v] # Nothing \/ \E r \in R : r.slot = s /\ r.service = v)}
        coded(t, v, c) == {s \in runsOf(t, v) : [slot |-> s, service |-> v, code |-> c] \in R}
        count(t, v, n) == Cardinality({s \in runsOf(t, v) : True(M, s, v, n)})
        timed(t, v) == {s \in runsOf(t, v) : "detection_latency_s" \in DOMAIN M[s][v]}
    IN  [key \in {x \in {failureType(s) : s \in DOMAIN M} \X Services : runsOf(x[1], x[2]) # {}} |->
            [samples |-> Cardinality(runsOf(key[1], key[2])),
             count |-> [n \in BoolMetrics |-> count(key[1], key[2], n)],
             reasonCodes |-> [c \in {r.code : r \in {q \in R : q.slot \in runsOf(key[1], key[2]) /\ q.service = key[2]}} |->
                                Cardinality(coded(key[1], key[2], c))],
             detectionRate |-> <<count(key[1], key[2], "true_positive"),
                                 count(key[1], key[2], "true_positive") + count(key[1], key[2], "false_negative")>>,
             latency |-> LatencyStats([s \in timed(key[1], key[2]) |-> M[s][key[2]]["detection_latency_s"]])]]

-----------------------------------------------------------------------------
(* Scores.  A rate is a pair <<numerator, denominator>>. *)

\* meanScenarioRate over cells of passed and comparable samples.
Mean(rates) ==
    LET den == [r \in DOMAIN rates |-> rates[r][2]]
        product(S) == FoldSet(LAMBDA r, n : n * den[r], 1, S)
    IN  IF DOMAIN rates = {} THEN <<0, 0>>
        ELSE <<MapThenSumSet(LAMBDA r : rates[r][1] * product(DOMAIN rates \ {r}), DOMAIN rates),
               Cardinality(DOMAIN rates) * product(DOMAIN rates)>>

meanCategoryRate(cells) ==
    LET types(c) == {t \in DOMAIN cells : Category[t] = c}
    IN  Mean([c \in {Category[t] : t \in DOMAIN cells} |-> Mean([t \in types(c) |-> cells[t]])])

\* The sample of a run and a service: what its true metrics and its reasons say.
Sample(M, R, s, v) ==
    LET any(names) == \E n \in names : True(M, s, v, n)
        mismatch == [slot |-> s, service |-> v, code |-> "capability_mismatch"] \in R
    IN  [pass |-> any({"true_positive", "tls_advisory_detected"}),
         fail |-> any({"false_negative", "false_positive", "tls_advisory_missed", "tls_advisory_false_outage"}),
         unknown |-> any({"unknown"}),
         mismatch |-> mismatch,
         excluded |-> mismatch \/ any({"unknown", "maintenance_suppressed", "cooldown_suppressed", "cooldown_uncertain"})]

\* The order of the tests: a false alarm spoils a detection.
Outcome(x) == IF x.fail THEN "failed" ELSE IF x.pass THEN "passed" ELSE IF x.excluded THEN "excluded" ELSE "none"

ScoreMetrics(M, R) ==
    LET runsWith(v, S) == {s \in DOMAIN M : Outcome(Sample(M, R, s, v)) \in S}
        n(v, S) == Cardinality(runsWith(v, S))
        cells(v) == [t \in {failureType(s) : s \in runsWith(v, {"passed", "failed"})} |->
                        <<Cardinality({s \in runsWith(v, {"passed"}) : failureType(s) = t}),
                          Cardinality({s \in runsWith(v, {"passed", "failed"}) : failureType(s) = t})>>]
    IN  [v \in {w \in Services : n(w, {"passed", "failed", "excluded"}) > 0} |->
            [total |-> n(v, {"passed", "failed", "excluded"}),
             passed |-> n(v, {"passed"}), failed |-> n(v, {"failed"}),
             comparable |-> n(v, {"passed", "failed"}), excluded |-> n(v, {"excluded"}),
             unknown |-> Cardinality({s \in DOMAIN M : Sample(M, R, s, v).unknown}),
             mismatch |-> Cardinality({s \in DOMAIN M : Sample(M, R, s, v).mismatch}),
             sampleWeighted |-> <<n(v, {"passed"}), n(v, {"passed", "failed"})>>,
             scenarioNormalized |-> Mean(cells(v)),
             categoryNormalized |-> meanCategoryRate(cells(v))]]

-----------------------------------------------------------------------------
(* Bias checks over the summaries S *)

\* exceedsFivePercentSkew of minMax.
Skewed(counts) ==
    LET all == {counts[v] : v \in DOMAIN counts}
    IN  all # {} /\ Max(all) > 0 /\ 100 * (Max(all) - Min(all)) > 5 * Max(all)

sampleBalanceCheck(S) ==
    LET of(v) == {x \in DOMAIN S : x[2] = v}
    IN  IF Skewed([v \in {x[2] : x \in DOMAIN S} |-> MapThenSumSet(LAMBDA x : S[x].samples, of(v))])
          THEN "warn" ELSE "ok"

\* A service without a row for a failure type has no samples of it.
cellBalanceCheck(S) ==
    IF \E t \in {x[1] : x \in DOMAIN S} :
         Skewed([v \in {x[2] : x \in DOMAIN S} |-> IF <<t, v>> \in DOMAIN S THEN S[<<t, v>>].samples ELSE 0])
      THEN "warn" ELSE "ok"

capabilityMismatchCheck(S) ==
    IF \E x \in DOMAIN S : "capability_mismatch" \in DOMAIN S[x].reasonCodes THEN "info" ELSE "ok"

\* Unknown samples less every run with a reason code, unknown or not.
uncategorizedUnknownCheck(S) ==
    IF \E x \in DOMAIN S : S[x].count["unknown"] >
          MapThenSumSet(LAMBDA c : S[x].reasonCodes[c], DOMAIN S[x].reasonCodes)
      THEN "warn" ELSE "ok"

AnalyzeBias(S) ==
    IF DOMAIN S = {} THEN <<>>
    ELSE <<sampleBalanceCheck(S), cellBalanceCheck(S), capabilityMismatchCheck(S), uncategorizedUnknownCheck(S)>>

-----------------------------------------------------------------------------
(* The commands *)

\* ResolveCampaign by the id of the execution or by the campaign's.  Without a
\* match finalize gives up; report prints an empty report.
ResolveCampaign(input) ==
    (IF input = "config" THEN {"earlier"} ELSE {}) \cup (IF row # "none" THEN {"current"} ELSE {})

Resolve ==
    /\ cmd.pc = "idle" /\ offset \in Watched /\ pc \notin {"generate", "sweep"}
    /\ \E input \in {"config", "run"}, finalize \in BOOLEAN :
         LET runs == ResolveCampaign(input)
         IN  /\ runs # {}
             /\ cmd' = [cmd EXCEPT !.pc = IF finalize THEN "list" ELSE "metrics", !.derive = finalize,
                                   !.matched = runs, !.meta = MetaFromLookup(runs)]
    /\ UNCHANGED <<vars, refused, written, metrics>>

\* RunIDsForCampaign of every matched execution; an error skips it.
List ==
    /\ cmd.pc = "list"
    /\ cmd' = [cmd EXCEPT !.pc = "derive",
                          !.todo = {s \in AllSlots : Execution(s) \in cmd.matched /\ written[s] > 0}]
    /\ UNCHANGED <<vars, refused, written, metrics>>

\* Derive of the oldest run: it reads the reports, then writes the metrics.
ReadRun ==
    /\ cmd.pc = "derive" /\ cmd.todo # {}
    /\ cmd' = [cmd EXCEPT !.pc = "upsert", !.seen = written[Min(cmd.todo)]]
    /\ UNCHANGED <<vars, refused, written, metrics>>

UpsertRun ==
    /\ cmd.pc = "upsert"
    /\ \E failing \in {{}, Services} :
         /\ metrics' = [metrics EXCEPT ![Min(cmd.todo)] = Derive(Min(cmd.todo), cmd.seen, failing)]
         /\ cmd' = [cmd EXCEPT !.pc = "derive", !.seen = 0, !.todo = @ \ {Min(cmd.todo)},
                               !.lost = @ \/ failing # {}]
    /\ UNCHANGED <<vars, refused, written>>

LoadMetrics ==
    /\ cmd.pc = "metrics" \/ (cmd.pc = "derive" /\ cmd.todo = {})
    /\ cmd' = [cmd EXCEPT !.pc = "reasons", !.rows = CampaignMetricRows(cmd.matched)]
    /\ UNCHANGED <<vars, refused, written, metrics>>

\* loadReport: reasons are read last, and everything is computed from what was.
LoadReasons ==
    /\ cmd.pc = "reasons"
    /\ LET R == CampaignReasonRows(cmd.matched)
           S == Summarize(cmd.rows, R)
       IN  cmd' = [cmd EXCEPT !.pc = "written", !.rows = Nothing,
                     !.report = [bias |-> AnalyzeBias(S), scores |-> ScoreMetrics(cmd.rows, R),
                                 details |-> CampaignReasonDetailRows(R), summaries |-> S]]
    /\ UNCHANGED <<vars, refused, written, metrics>>

Command == Resolve \/ List \/ ReadRun \/ UpsertRun \/ LoadMetrics \/ LoadReasons

ReportNext == CampaignGoesOn \/ WriteRow \/ HarnessDerives \/ Command

ReportSpec ==
    /\ ReportInit /\ [][ReportNext]_<<vars, reportVars>>
    /\ WF_vars(Step /\ UNCHANGED <<refused, written, cmd>>) /\ WF_vars(Tick /\ UNCHANGED reportVars)

-----------------------------------------------------------------------------
(* Properties *)

\* What the stored rows of a run say of a service: nothing, that it cannot be
\* told, or whether it behaved.
Clean(s, v) ==
    LET R == Rows(s, written[s], v)
    IN  IF R = {} THEN "none"
        ELSE IF \E r \in R : r.status = "unknown" THEN "excluded"
        ELSE IF \E r \in R : r.event = "noise" THEN "failed"
        ELSE IF \E r \in R : r.event = "hit" THEN "passed"
        ELSE IF \E r \in R : r.code = "cooldown_suppressed" THEN "excluded" ELSE "failed"

\* The report is finalize's, gives the campaign's end, and nothing was lost.
Finished == cmd.pc = "written" /\ cmd.derive /\ ~cmd.lost /\ cmd.meta.ended

\* The runs of the report whose rows say o of the service v.
RunsThat(v, o) == {s \in AllSlots : Execution(s) \in cmd.matched /\ Clean(s, v) = o}

\* Every run is scored as its rows call for, and once.
ScoresAreCounted ==
    Finished =>
        \A v \in Services :
            LET n(o) == Cardinality(RunsThat(v, o))
                score == cmd.report.scores[v]
            IN  IF n("passed") + n("failed") + n("excluded") = 0 THEN v \notin DOMAIN cmd.report.scores
                ELSE /\ v \in DOMAIN cmd.report.scores
                     /\ <<score.passed, score.failed, score.excluded>> = <<n("passed"), n("failed"), n("excluded")>>

\* A service that never failed has full marks in every score.
FullMarks ==
    Finished =>
        \A v \in DOMAIN cmd.report.scores :
            LET score == cmd.report.scores[v]
            IN  score.failed = 0 /\ score.passed > 0 =>
                    \A rate \in {score.sampleWeighted, score.scenarioNormalized, score.categoryNormalized} :
                        rate[1] = rate[2]

\* A report by finalize that gives the campaign's end is about the whole
\* campaign: every run of it is scored as its reports call for, although an
\* earlier derivation may have seen half of them and the harness derives at the
\* same time.
FinishedReportIsRight == ScoresAreCounted /\ FullMarks

\* A service of which a run stores that it could not be observed is neither
\* passed nor failed for that run, in whatever report and however early it is
\* taken: what it was derived from then says the same as what is stored at last.
\* The stored rows are all there is: when the insert that says unknown failed,
\* the service is scored from the rows that were stored after it.
UnknownIsNeverScored ==
    cmd.pc = "written" =>
        \A v \in DOMAIN cmd.report.scores :
            cmd.report.scores[v].comparable <=
                Cardinality({s \in AllSlots : /\ Execution(s) \in cmd.matched
                                              /\ Rows(s, Len(Journal[s]), v) # {}
                                              /\ \A r \in Rows(s, Len(Journal[s]), v) : r.status = "known"})
=============================================================================

---------------------------- MODULE CapacityPlan ----------------------------
(***************************************************************************)
(* The pure part of internal/jetmoncapacity that a capacity run is planned *)
(* with: the configuration's validation, the choice of a suite's batches,  *)
(* the rendered SQL plans and the outcomes MySQL can give them, and the    *)
(* replay's hosts.                                                         *)
(*                                                                         *)
(* A configuration is a record                                             *)
(*   targets  number of generated targets      sizes   batch sizes         *)
(*   count    rows reserved per service        first   first URL number    *)
(*   dsn      services with a DSN              on      enabled captures    *)
(*   event    the replay event: its end, its host window, sample, outcome  *)
(*   window   length of a batch window         batch   rows per INSERT     *)
(*   buckets  number of Jetmon buckets                                     *)
(***************************************************************************)
EXTENDS Integers, Sequences, FiniteSets, SequencesExt

CONSTANTS Services        \* the configured services, in order
ServiceSet == {Services[i] : i \in DOMAIN Services}
V2(s) == s = "jetmon-v2"

\* RunConfig.Validate and ServiceLifecycles, over the fields kept here.
ValidateBatchSizes(sizes, targets) ==
    \A i \in DOMAIN sizes :
        /\ sizes[i] > 0
        /\ i > 1 => sizes[i - 1] < sizes[i]
        /\ targets > 0 => sizes[i] <= targets

\* Config.Validate of the planner, and the lifecycle made of it.
ConfigValid(cfg, s) == cfg.count[s] > 0 /\ cfg.first[s] > 0 /\ cfg.batch > 0 /\ cfg.buckets > 0
ServiceLifecycle(cfg, s) == s \in {"jetmon-v1", "jetmon-v2"} /\ ConfigValid(cfg, s)

Validate(cfg) ==
    /\ cfg.targets > 0
    /\ "detect" \in cfg.on => "replay" \in cfg.on
    /\ "replay" \in cfg.on => cfg.event.sample >= 0 /\ cfg.event.hosts >= 0
                              /\ cfg.event.outcome \in {"down_recovery", "up"}
    /\ ValidateBatchSizes(cfg.sizes, cfg.targets)
    /\ \A s \in ServiceSet : ServiceLifecycle(cfg, s)

\* Plan.Validate: what a rendered plan needs of its active count.
PlanValid(cfg, s, op, n) == op = "activate" => n > 0 /\ n <= cfg.count[s]

(***************************************************************************)
(* Suite state and the batches a suite runs.  The file is absent (None),   *)
(* half written (Torn) or the record of the last batch that was written.   *)
(***************************************************************************)
None == [kind |-> "none"]
Torn == [kind |-> "torn"]
Saved(completed, clean, problem) ==
    [kind |-> "saved", completed |-> completed, clean |-> clean, problem |-> problem]

\* batchSizesFrom: from the first size that is large enough, else the last.
BatchSizesFrom(sizes, start) ==
    LET enough == {i \in DOMAIN sizes : sizes[i] >= start}
    IN  IF enough = {} THEN <<Last(sizes)>> ELSE SubSeq(sizes, Min(enough), Len(sizes))

\* selectSuiteBatches: the batches and where the start comes from; <<>> is an
\* error (no sizes, contradicting flags, a state that does not parse).
SelectSuiteBatches(sizes, file, full, start) ==
    LET resume == IF file.clean > 0 THEN file.clean ELSE file.completed IN
    IF sizes = <<>> \/ (full /\ start > 0) THEN [sizes |-> <<>>, source |-> "error"]
    ELSE IF full THEN [sizes |-> sizes, source |-> "full_suite"]
    ELSE IF start > 0 THEN [sizes |-> BatchSizesFrom(sizes, start), source |-> "explicit"]
    ELSE IF file = Torn THEN [sizes |-> <<>>, source |-> "error"]
    ELSE IF file # None /\ resume > 0
         THEN [sizes |-> BatchSizesFrom(sizes, resume), source |-> "state"]
    ELSE [sizes |-> sizes, source |-> "first_configured"]

(***************************************************************************)
(* SQL plans: the statements of a service's reserved range.  A table holds *)
(* the offsets of the benchmark's rows, of rows with other URLs, and of    *)
(* the active rows.  `side' stands for the sidecar tables and the events,  *)
(* which the properties do not look at but which take locks.               *)
(***************************************************************************)
Table(rows, foreign, active) == [rows |-> rows, foreign |-> foreign, active |-> active]
Stmt(op, from, to) == [op |-> op, from |-> from, to |-> to]
Begin  == Stmt("begin", 0, 0)
Commit == Stmt("commit", 0, 0)
Pause  == Stmt("pause", 0, 0)
Side   == Stmt("side", 0, 0)

\* The v2 sidecar tables of the range, and its open events.
Sidecars(s) == IF V2(s) THEN <<Side>> ELSE <<>>
CloseOpenEvents(s) == IF V2(s) THEN <<Side>> ELSE <<>>

\* writeSetRangeActiveSQL: v2 also rewrites the sidecar rows of the range.
SetRangeActive(s, op, n) == <<Stmt(op, 0, n)>> \o Sidecars(s)

WriteActivateSQL(cfg, s, n) ==
    <<Begin>> \o CloseOpenEvents(s)
    \o SetRangeActive(s, "clear", cfg.count[s]) \o SetRangeActive(s, "set", n) \o <<Commit>>

WriteDeactivateSQL(cfg, s) ==
    <<Begin>> \o SetRangeActive(s, "clear", cfg.count[s]) \o <<Commit>>
    \o (IF V2(s) THEN <<Pause, Begin>> \o CloseOpenEvents(s) \o <<Commit, Pause, Begin>>
                      \o CloseOpenEvents(s) \o <<Commit>>
        ELSE <<>>)

InsertBatch(cfg, s, i) ==
    Stmt("insert", (i - 1) * cfg.batch, IF i * cfg.batch < cfg.count[s] THEN i * cfg.batch ELSE cfg.count[s])

WriteSeedSQL(cfg, s) ==
    <<Begin>> \o Sidecars(s) \o <<Stmt("delete", 0, cfg.count[s])>>
    \o [i \in 1..((cfg.count[s] + cfg.batch - 1) \div cfg.batch) |-> InsertBatch(cfg, s, i)] \o <<Commit>>

\* Offsets from..to-1.
Span(st) == st.from..(st.to - 1)

(***************************************************************************)
(* One connection: the committed table, the table the connection sees, and *)
(* whether a transaction is open.  External: what MySQL does.              *)
(***************************************************************************)
Session(t) == [com |-> t, work |-> t, tx |-> FALSE, ok |-> TRUE, hit |-> FALSE]

Change(t, st) ==
    CASE st.op = "clear"  -> [t EXCEPT !.active = @ \ Span(st)]
      [] st.op = "set"    -> [t EXCEPT !.active = @ \cup (Span(st) \cap (t.rows \cup t.foreign))]
      [] st.op = "delete" -> Table(t.rows \ Span(st), t.foreign \ Span(st), t.active \ Span(st))
      [] st.op = "insert" -> [t EXCEPT !.rows = @ \cup Span(st)]
      [] OTHER            -> t

Closed(ss) == [ss EXCEPT !.work = ss.com, !.tx = FALSE, !.ok = FALSE]

\* A statement that is executed; a duplicate key is an error of the plan.
Run1(ss, st) ==
    IF st.op = "begin" THEN [ss EXCEPT !.tx = TRUE]
    ELSE IF st.op = "commit" THEN [ss EXCEPT !.com = ss.work, !.tx = FALSE]
    ELSE IF st.op = "insert" /\ Span(st) \cap (ss.work.rows \cup ss.work.foreign) # {} THEN Closed(ss)
    ELSE LET t == Change(ss.work, st)
         IN  [ss EXCEPT !.work = t, !.com = IF ss.tx THEN @ ELSE t]

\* A deadlock (1213) rolls the whole transaction back; shouldRetryStatement
\* then repeats the statement alone.
Retried(ss, st) == Run1([ss EXCEPT !.work = ss.com, !.tx = FALSE, !.hit = TRUE], st)

\* ExecuteSQL on one statement.
ExecStatement(ss, st, faulty) ==
    IF ~ss.ok THEN {ss}
    ELSE {Run1(ss, st)} \cup
         IF ~faulty \/ ss.hit THEN {}
         ELSE {[Closed(ss) EXCEPT !.hit = TRUE]}
              \cup (IF st.op = "commit" THEN {[Closed(Run1(ss, st)) EXCEPT !.hit = TRUE]} ELSE {})
              \cup (IF st.op \in {"begin", "commit", "pause"} THEN {} ELSE {Retried(ss, st)})

\* ExecuteSQL: every way a plan can end.  `hit' tells that something failed.
ExecuteSQL(t, plan, faulty) ==
    LET after[i \in 0..Len(plan)] ==
            IF i = 0 THEN {Session(t)} ELSE UNION {ExecStatement(ss, plan[i], faulty) : ss \in after[i - 1]}
    IN  after[Len(plan)]

(***************************************************************************)
(* Samples of the target preflight, and the hosts of a replay event.       *)
(***************************************************************************)
SampleOffsets(n, buckets) ==
    {0, n \div 2, n - 1} \cup {o \in 0..(n - 1) : o < buckets}

\* targetSamplesFromResult and the pattern check after it: every sampled row
\* is active, and its URL is the one generated for its offset.
TargetSamplesMatch(t, n, buckets) ==
    \A o \in SampleOffsets(n, buckets) : o \in t.active /\ o \in t.rows

\* capacityReplayHostNumbers: a random sample of the event's host window
\* (external: the generator's permutation).
ReplayHostNumbers(event, n, first) ==
    LET from == IF event.start = 0 THEN first ELSE event.start
        hosts == IF event.hosts <= 0 \/ event.hosts > n THEN n ELSE event.hosts
        all == IF event.sample <= 0 THEN (IF hosts > 25 THEN 25 ELSE hosts) ELSE event.sample
        size == IF all > hosts THEN hosts ELSE all
    IN  {S \in SUBSET (from..(from + hosts - 1)) : Cardinality(S) = size}

\* capacityReplayServiceHostsForNumbers: of the event's hosts, a service's own.
HostsForNumbers(cfg, s, hosts, n) == hosts \cap cfg.first[s]..(cfg.first[s] + n - 1)

\* buildCapacityReplayPlan: the event must end within the window; all
\* the hosts it fails, and per service those within its active range.
ReplayPlanFits(cfg) == cfg.event.end <= cfg.window

ReplayPlans(cfg, svcs, n) ==
    IF cfg.event.start > 0
    THEN {[hosts |-> S, of |-> [s \in svcs |-> HostsForNumbers(cfg, s, S, n)]] :
              S \in ReplayHostNumbers(cfg.event, n, 0)}
    ELSE {[hosts |-> UNION {f[s] : s \in svcs}, of |-> f] :
              f \in {g \in [svcs -> SUBSET UNION {cfg.first[s]..(cfg.first[s] + n - 1) : s \in svcs}] :
                        \A s \in svcs : g[s] \in ReplayHostNumbers(cfg.event, n, cfg.first[s])}}

SpecsFromTargets(cfg, s, hosts) ==
    {h - cfg.first[Services[1]] : h \in hosts} \cap 0..(cfg.count[s] - 1)

\* replayDetectionHostSpecs: the rows whose event history is looked at.
ReplayDetectionHostSpecs(cfg, s, hosts) ==
    {h - cfg.first[s] : h \in hosts} \cap 0..(cfg.count[s] - 1)
=============================================================================

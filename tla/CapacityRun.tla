---------------------------- MODULE CapacityRun -----------------------------
(***************************************************************************)
(* uptime-bench-jetmon-capacity-run: invocations of the capacity runner    *)
(* against the databases of the Jetmon services, with the replay goroutine *)
(* beside the batch window, the suite-state file that outlives a process,  *)
(* cancellation by signal, failing calls, and crashes.  The active-run     *)
(* lock (ActiveGuard) keeps two applied invocations apart, so they follow  *)
(* one another here.                                                       *)
(***************************************************************************)
EXTENDS CapacityAnalysis

CONSTANTS Configs,        \* run configurations, see CapacityPlan
          Invocations,    \* command lines: mode, apply, force, full, start, size
          Tables,         \* what a service's reserved range may hold at first
          Histories,      \* event histories of a replayed host
          Limits,         \* thresholds: cpu, up, missed, never, stale
          ActivatedAt, DeactivatedAt, CollectedAt, Padding,  \* replay detection
          MaxInvocations, \* bound: invocations
          MaxFaults       \* bound: failing calls and measurements over a limit

ASSUME CapacityAssumption ==
    /\ Services \in Seq({"jetmon-v1", "jetmon-v2"}) /\ Services # <<>>
    /\ MaxInvocations \in Nat \ {0} /\ MaxFaults \in Nat
    /\ ActivatedAt < DeactivatedAt /\ DeactivatedAt <= CollectedAt

\* What is configured, asked for and found at first.  An active row is a row.
ASSUME ConfigsAssumption == \A c \in Configs :
    /\ c.targets \in Int /\ c.sizes \in Seq(Int) /\ c.dsn \subseteq ServiceSet /\ c.batch \in Int
    /\ \A s \in ServiceSet : c.count[s] \in Int /\ c.first[s] \in Int
    /\ c.event.start \in Int /\ c.event.hosts \in Int /\ c.event.sample \in Int
ASSUME InvocationsAssumption == \A i \in Invocations :
    /\ i.mode \in {"plan", "seed", "verify", "activate", "deactivate", "run-batch", "run-suite"}
    /\ {i.apply, i.force, i.full} \subseteq BOOLEAN /\ i.start \in Int /\ i.size \in Int
ASSUME TablesAssumption ==
    \A t \in Tables : t = Table(t.rows, t.foreign, t.active) /\ t.active \subseteq t.rows \cup t.foreign

VARIABLES cfg,       \* the configuration
          db,        \* per service, the committed table
          file,      \* the suite-state file
          inv,       \* the running or last invocation
          m,         \* the manifest of the current batch
          rp,        \* the replay goroutine
          failing,   \* hosts the target fails for the replay
          cancelled, \* the invocation's context is done
          faults,    \* failing calls so far
          look       \* the input and the result of the last analysis

vars == <<cfg, db, file, inv, m, rp, failing, cancelled, faults, look>>
outside == <<cfg, rp, failing>>

NoLook == [kind |-> "none"]
NoReplay == [pc |-> "none", todo |-> {}, plan |-> [hosts |-> {}], bad |-> FALSE, hit |-> {}]
Parts == {"prom", "observer", "replay", "detect", "network", "stream"}
NewManifest == [life |-> "unset", cleanup |-> "unset", health |-> "unset", err |-> FALSE, over |-> FALSE, stop |-> FALSE,
                parts |-> [p \in Parts |-> "unset"], db |-> "unset", disk |-> "unset", got |-> {}, prom |-> None,
                replayed |-> FALSE]
NoInvocation ==
    [n |-> 0, mode |-> "none", apply |-> FALSE, force |-> FALSE, pc |-> "idle", todo |-> <<>>,
     act |-> <<>>, size |-> 0, rest |-> <<>>, source |-> "none", clean |-> 0, problem |-> 0,
     out |-> "none", sql |-> 0, touched |-> {}, exact |-> FALSE]

Init ==
    /\ cfg \in Configs
    /\ db \in {d \in [ServiceSet -> Tables] :
                  \A s \in ServiceSet : d[s].rows \cup d[s].foreign \subseteq 0..(cfg.count[s] - 1)}
    /\ file = None /\ inv = NoInvocation /\ m = NewManifest /\ rp = NoReplay
    /\ failing = {} /\ cancelled = FALSE /\ faults = 0 /\ look = NoLook

At(pc) == inv.pc = pc
Goto(pc) == inv' = [inv EXCEPT !.pc = pc]
On(part) == part \in cfg.on
Active(s) == Cardinality(db[s].active)
Prefix(s, n) == db[s].active = 0..(n - 1)

\* A call under the run's context.
Ask == IF cancelled THEN {"err"} ELSE IF faults < MaxFaults THEN {"ok", "err"} ELSE {"ok"}
\* One call per service; Note counts a failure that is not the cancellation's.
AskEach == {a \in [ServiceSet -> Ask] : Cardinality({s \in ServiceSet : a[s] = "err"}) <= 1 \/ cancelled}
Note(bad) == faults' = IF bad /\ ~cancelled THEN faults + 1 ELSE faults
\* A measurement: the good value, or one of the bad ones.
Measure(good, bad) == {good} \cup (IF faults < MaxFaults THEN bad ELSE {})

(***************************************************************************)
(* The end of an invocation and of a batch.  A batch that returns an error *)
(* runs the deferred cleanup over the activated services first.            *)
(***************************************************************************)
Ended(out) == [inv EXCEPT !.pc = "idle", !.out = out, !.todo = <<>>, !.act = <<>>, !.rest = <<>>]
End(out) == inv' = Ended(out) /\ rp' = NoReplay
BatchFailed(why) ==
    /\ inv' = [inv EXCEPT !.pc = IF inv.act = <<>> THEN "batchend" ELSE "cleanup", !.todo = inv.act]
    /\ m' = [why EXCEPT !.err = TRUE]
LifeFailed == [m EXCEPT !.life = "fail"]

\* Cut off by the signal in the middle of a plan.
Interrupted(s, plan, fresh) ==
    IF fresh \/ cancelled THEN {} ELSE {r \in ExecuteSQL(db[s], plan, TRUE) : r.hit /\ ~r.ok}
\* applyAction writes the statements to a file first; when that fails none is sent.
NotWritten(s) ==
    IF faults < MaxFaults THEN {[Session(db[s]) EXCEPT !.ok = FALSE, !.hit = TRUE]} ELSE {}
Executed(s, plan, fresh) ==
    NotWritten(s) \cup
    IF s \notin cfg.dsn \/ (cancelled /\ ~fresh) THEN {[Session(db[s]) EXCEPT !.ok = FALSE]}
    ELSE ExecuteSQL(db[s], plan, faults < MaxFaults)

\* applyAction for one service, a plan that changes the table: the invocation
\* goes on as `next' or, after an error, as `err'.
Exec(s, plan, fresh, next, err) ==
    \/ \E r \in Executed(s, plan, fresh) :
          /\ db' = [db EXCEPT ![s] = r.com]
          /\ faults' = IF r.hit THEN faults + 1 ELSE faults
          /\ inv' = [(IF r.ok THEN next ELSE err) EXCEPT !.sql = IF r.hit THEN @ + 1 ELSE @]
          /\ UNCHANGED cancelled
    \/ \E r \in Interrupted(s, plan, fresh) :
          /\ db' = [db EXCEPT ![s] = r.com]
          /\ inv' = err /\ cancelled' = TRUE /\ UNCHANGED faults

(***************************************************************************)
(* Run: options, validation, and the modes.                                *)
(***************************************************************************)
Start ==
    /\ At("idle") /\ inv.n < MaxInvocations
    /\ \E i \in Invocations :
        LET base == [NoInvocation EXCEPT !.n = inv.n + 1, !.mode = i.mode, !.apply = i.apply,
                                         !.force = i.force, !.size = i.size]
            pick == SelectSuiteBatches(cfg.sizes, file, i.full, i.start)
            refused ==
                \/ ~Validate(cfg) \/ (i.apply /\ i.mode = "plan")
                \/ i.mode \in {"activate", "run-batch"} /\ (i.size <= 0 \/ i.size > cfg.targets)
                \/ i.mode = "run-suite" /\ pick.sizes = <<>>
            sizes == IF i.mode = "run-suite" THEN pick.sizes
                     ELSE IF i.mode = "plan" THEN cfg.sizes ELSE <<i.size>>
            \* Without -apply the plans are rendered and written, no more.
            renders == i.mode \in {"plan", "activate", "run-batch", "run-suite"} =>
                          \A k \in DOMAIN sizes, s \in ServiceSet : PlanValid(cfg, s, "activate", sizes[k])
            first == [base EXCEPT !.todo = Services, !.source = pick.source,
                                  !.pc = CASE i.mode = "seed" -> "seedcheck"
                                           [] i.mode = "run-batch" -> "prom"
                                           [] i.mode = "run-suite" -> "suite"
                                           [] OTHER -> i.mode,
                                  !.rest = IF i.mode = "run-suite" THEN sizes ELSE <<>>]
        IN  inv' = IF refused THEN [base EXCEPT !.out = "err"]
                   ELSE IF ~i.apply THEN [base EXCEPT !.out = IF renders THEN "ok" ELSE "err"]
                   ELSE first
    /\ m' = NewManifest /\ cancelled' = FALSE /\ look' = NoLook
    /\ UNCHANGED <<outside, db, file, faults>>

\* assertSeedSafe
AssertSeedSafe ==
    /\ At("seedcheck")
    /\ \E o \in Ask :
          LET s == Head(inv.todo)
              total == Cardinality(db[s].rows \cup db[s].foreign)
              safe == total = 0 \/ (db[s].foreign = {} /\ inv.force)
          IN  /\ IF o = "ok" /\ s \in cfg.dsn /\ safe THEN Goto("seed") /\ UNCHANGED rp ELSE End("err")
              /\ Note(o = "err")
    /\ UNCHANGED <<cfg, failing, db, file, m, cancelled, look>>

Next1 == IF Len(inv.todo) = 1 THEN Ended("ok")
         ELSE [inv EXCEPT !.todo = Tail(@), !.pc = IF inv.mode = "seed" THEN "seedcheck" ELSE @]

Seed ==
    /\ At("seed")
    /\ LET s == Head(inv.todo) IN Exec(s, WriteSeedSQL(cfg, s), FALSE, Next1, Ended("err"))
    /\ UNCHANGED <<outside, file, m, look>>

Verify ==
    /\ At("verify")
    /\ \E o \in Ask :
          /\ inv' = IF o = "ok" /\ Head(inv.todo) \in cfg.dsn THEN Next1 ELSE Ended("err")
          /\ Note(o = "err")
    /\ UNCHANGED <<outside, db, file, m, cancelled, look>>

(***************************************************************************)
(* activateServices: one service after the other, each verified; a failure *)
(* deactivates the ones tried so far under a fresh context, and its own    *)
(* error is dropped.                                                       *)
(***************************************************************************)
Partial(i) == [i EXCEPT !.pc = "partial", !.todo = i.act]

Activate ==
    /\ At("activate")
    /\ LET s == Head(inv.todo)
           tried == [inv EXCEPT !.act = Append(@, s), !.touched = @ \cup {s}]
       IN  IF PlanValid(cfg, s, "activate", inv.size)
           THEN Exec(s, WriteActivateSQL(cfg, s, inv.size), FALSE,
                     [tried EXCEPT !.pc = "count"], Partial(tried))
           ELSE inv' = Partial(tried) /\ UNCHANGED <<db, faults, cancelled>>
    /\ m' = [m EXCEPT !.life = "running"]
    /\ UNCHANGED <<outside, file, look>>

\* verifyActiveCount, then verifyActiveCheckInterval.
VerifyActiveCount ==
    /\ At("count")
    /\ \E o \in Ask :
          LET s == Head(inv.todo)
              last == Len(inv.todo) = 1
              next == IF ~last THEN [inv EXCEPT !.pc = "activate", !.todo = Tail(@)]
                      ELSE IF inv.mode = "activate" THEN Ended("ok")
                      ELSE [inv EXCEPT !.pc = "targets", !.todo = Services]
          IN  /\ inv' = IF o = "ok" /\ Active(s) = inv.size THEN next ELSE Partial(inv)
              /\ Note(o = "err")
    /\ UNCHANGED <<outside, db, file, m, cancelled, look>>

PartialActivationCleanup ==
    /\ At("partial")
    /\ LET s == Head(inv.todo)
           over == IF inv.mode = "activate" THEN Ended("err")
                   ELSE [inv EXCEPT !.pc = "batchend", !.act = <<>>, !.todo = <<>>]
       IN  Exec(s, WriteDeactivateSQL(cfg, s), TRUE,
                IF Len(inv.todo) = 1 THEN over ELSE [inv EXCEPT !.todo = Tail(@)], over)
    /\ m' = [LifeFailed EXCEPT !.err = TRUE]
    /\ UNCHANGED <<outside, file, look>>

(***************************************************************************)
(* runSuite: preflight, baseline and the state kept from earlier suites,   *)
(* then one batch after the other.                                         *)
(***************************************************************************)
NextBatch(i) == [i EXCEPT !.size = Head(i.rest), !.rest = Tail(@), !.pc = "prom"]

RunSuite ==
    /\ At("suite")
    /\ \E o \in Ask :
          LET kept == IF file.kind = "saved" /\ file.clean > 0 /\ file.clean < Head(inv.rest)
                      THEN file.clean ELSE 0
          IN  /\ IF o = "err" \/ file = Torn THEN End("err")
                 ELSE inv' = NextBatch([inv EXCEPT !.clean = kept]) /\ UNCHANGED rp
              /\ Note(o = "err")
    /\ UNCHANGED <<cfg, failing, db, file, m, cancelled, look>>

PreflightPrometheus ==
    /\ At("prom")
    /\ \E o \in Ask :
          /\ IF o = "ok" THEN /\ inv' = [inv EXCEPT !.pc = "activate", !.todo = Services]
                              /\ m' = [m EXCEPT !.parts["prom"] = "preflight_pass"]
             ELSE BatchFailed([m EXCEPT !.parts["prom"] = "preflight_failed"])
          /\ Note(o = "err")
    /\ UNCHANGED <<outside, db, file, cancelled, look>>

(***************************************************************************)
(* runBatch between activation and the window: each part may end the batch.*)
(***************************************************************************)
PreflightActivatedTargets ==
    /\ At("targets")
    /\ \E a \in AskEach :
          LET good == \A s \in ServiceSet : a[s] = "ok" /\ TargetSamplesMatch(db[s], inv.size, cfg.buckets)
          IN  /\ IF good THEN Goto("observer") /\ UNCHANGED m ELSE BatchFailed(LifeFailed)
              /\ Note(\E s \in ServiceSet : a[s] = "err")
    /\ UNCHANGED <<outside, db, file, cancelled, look>>

ResetTargetObserver ==
    /\ At("observer")
    /\ \E o \in IF On("observer") THEN Ask ELSE {"ok"} :
          /\ IF o = "ok" THEN Goto("network") /\ UNCHANGED m
             ELSE BatchFailed([LifeFailed EXCEPT !.parts["observer"] = "preflight_failed"])
          /\ Note(o = "err")
    /\ UNCHANGED <<outside, db, file, cancelled, look>>

ResetNetworkBuckets ==
    /\ At("network")
    /\ \E a \in IF On("network") THEN AskEach ELSE {[s \in ServiceSet |-> "ok"]} :
          /\ IF PerHost(a) = "pass" THEN Goto("start") /\ UNCHANGED m
             ELSE BatchFailed([LifeFailed EXCEPT !.parts["network"] = "preflight_failed"])
          /\ Note(PerHost(a) = "fail")
    /\ UNCHANGED <<outside, db, file, cancelled, look>>

\* captureDBOperationalMetrics: one service after the other; an error only
\* makes the capture partial.
CaptureDB(answers) == IF ~On("db") THEN "unset" ELSE IF PerHost(answers) = "pass" THEN "start" ELSE "partial"
CaptureDBEnd(answers) ==
    IF m.db = "unset" THEN "unset" ELSE IF m.db = "start" /\ PerHost(answers) = "pass" THEN "pass" ELSE "partial"

\* The start captures: the database's, and startDiskIOAttribution.
StartCaptures ==
    /\ At("start")
    /\ \E a \in AskEach, b \in Ask :
          /\ m' = [m EXCEPT !.db = CaptureDB(a),
                            !.disk = IF ~On("disk") THEN "unset" ELSE IF b = "ok" THEN "start" ELSE "partial"]
          /\ Note(PerHost(a) = "fail" \/ b = "err")
    /\ inv' = [inv EXCEPT !.pc = "replay", !.exact = \A s \in ServiceSet : Prefix(s, inv.size)]
    /\ UNCHANGED <<outside, db, file, cancelled, look>>

\* startCapacityReplay
StartCapacityReplay ==
    /\ At("replay")
    /\ IF ~On("replay") THEN Goto("window") /\ UNCHANGED <<m, rp>>
       ELSE IF ReplayPlanFits(cfg)
       THEN /\ \E plan \in ReplayPlans(cfg, ServiceSet, inv.size) :
                  rp' = [pc |-> "wait", todo |-> plan.hosts, plan |-> plan, bad |-> FALSE, hit |-> {}]
            /\ Goto("window")
            /\ m' = [m EXCEPT !.parts["replay"] = "running"]
       ELSE BatchFailed([LifeFailed EXCEPT !.parts["replay"] = "fail"]) /\ UNCHANGED rp
    /\ UNCHANGED <<cfg, failing, db, file, cancelled, faults, look>>

SleepWindow ==
    /\ At("window")
    /\ IF cancelled THEN BatchFailed(LifeFailed) ELSE Goto("end") /\ UNCHANGED m
    /\ UNCHANGED <<outside, db, file, cancelled, faults, look>>

(***************************************************************************)
(* executeCapacityReplay: the goroutine.  It sleeps, fails the hosts one   *)
(* by one, sleeps, and clears them one by one.  An Activate whose answer   *)
(* is lost has taken effect.                                               *)
(***************************************************************************)
ReplayWake ==
    /\ rp.pc \in {"wait", "on"}
    /\ rp' = IF cancelled THEN [rp EXCEPT !.pc = "done", !.bad = TRUE]
             ELSE IF rp.pc = "wait" THEN [rp EXCEPT !.pc = "activate"]
             ELSE [rp EXCEPT !.pc = "off", !.todo = rp.plan.hosts]
    /\ UNCHANGED <<cfg, db, file, inv, m, failing, cancelled, faults, look>>

Calls == IF cancelled THEN {"refused"} ELSE IF faults < MaxFaults THEN {"ok", "refused", "lost"} ELSE {"ok"}

ReplayCall(from, to, Effect(_)) ==
    /\ rp.pc = from
    /\ IF rp.todo = {} THEN rp' = [rp EXCEPT !.pc = to] /\ UNCHANGED <<failing, faults>>
       ELSE \E h \in rp.todo, o \in Calls :
              /\ \A g \in rp.todo : h <= g
              /\ rp' = [rp EXCEPT !.todo = @ \ {h}, !.bad = @ \/ o # "ok",
                                  !.hit = IF from = "activate" /\ o # "refused" THEN @ \cup {h} ELSE @]
              /\ failing' = IF o = "refused" THEN failing ELSE Effect(h)
              /\ Note(o # "ok")
    /\ UNCHANGED <<cfg, db, file, inv, m, cancelled, look>>
ReplayActivate == ReplayCall("activate", "on", LAMBDA h : failing \cup {h})
ReplayDeactivate == ReplayCall("off", "done", LAMBDA h : failing \ {h})

\* External: the target drops a failure whose duration, the event's and 30
\* seconds more, is over.
Expire ==
    /\ rp.pc \in {"off", "done", "none"} /\ failing # {}
    /\ \E h \in failing : failing' = failing \ {h}
    /\ UNCHANGED <<cfg, db, file, inv, m, rp, cancelled, faults, look>>

(***************************************************************************)
(* runBatch after the window: the captures only mark their part.           *)
(***************************************************************************)
EndCaptures ==
    /\ At("end")
    /\ \E a \in AskEach, b \in Ask :
          /\ m' = [m EXCEPT !.db = CaptureDBEnd(a),
                            !.disk = IF @ = "start" /\ b = "ok" THEN "pass" ELSE IF @ = "unset" THEN "unset" ELSE "partial"]
          /\ Note(PerHost(a) = "fail" \/ b = "err")
    /\ Goto("finish")
    /\ UNCHANGED <<outside, db, file, cancelled, look>>

FinishIgnoresCalls ==
    /\ At("finish")
    /\ IF rp.pc = "none" THEN m' = m
       ELSE \/ cancelled /\ m' = [m EXCEPT !.parts["replay"] = "fail"]
            \/ rp.pc = "done" /\ m' = [m EXCEPT !.parts["replay"] = "pass", !.replayed = TRUE]
    /\ Goto("detect")
    /\ look' = NoLook
    /\ UNCHANGED <<outside, db, file, cancelled, faults>>

\* finishCapacityReplay: waits for the goroutine or for the context.
FinishCapacityReplay ==
    /\ At("finish")
    /\ IF rp.pc = "none" THEN m' = m
       ELSE \/ cancelled /\ m' = [m EXCEPT !.parts["replay"] = "fail"]
            \/ rp.pc = "done" /\ m' = [m EXCEPT !.parts["replay"] = IF rp.bad THEN "fail" ELSE "pass",
                                                !.replayed = TRUE]
    /\ Goto("detect")
    /\ look' = NoLook
    /\ UNCHANGED <<outside, db, file, cancelled, faults>>

\* collectReplayDetections.  Every host of the event is given the same
\* history, as each service recorded it.
CollectReplayDetections ==
    /\ At("detect")
    /\ IF ~(On("detect") /\ m.replayed) THEN UNCHANGED <<m, look, faults>>
       ELSE \E a \in AskEach, h \in Histories :
              LET since == ActivatedAt - Padding
                  until == CollectedAt
                  specs == [s \in ServiceSet |-> ReplayDetectionHostSpecs(cfg, s, rp.plan.of[s])]
                  events(s) == IF V2(s) THEN CollectV2ReplayEvents(h, since, until)
                               ELSE CollectV1ReplayEvents(h, since, until)
                  host(s) == AnalyzeReplayDetectionHost(events(s), ActivatedAt, DeactivatedAt)
                  listed == {s \in ServiceSet : rp.plan.of[s] # {}}
                  asked == {s \in ServiceSet : a[s] = "ok" /\ ~cancelled /\ specs[s] # {}}
                  verdict == [s \in ServiceSet |->
                                 s \in asked /\ DetectionPasses({host(s)}, cfg.event.outcome, cfg.strict)]
              IN  /\ m' = [m EXCEPT !.parts["detect"] =
                              IF \A s \in listed : verdict[s] THEN "pass" ELSE "fail"]
                  /\ look' = [kind |-> "detect", history |-> h, specs |-> specs,
                              asked |-> asked, verdict |-> verdict]
                  /\ Note(\E s \in ServiceSet : a[s] = "err")
    /\ Goto("snapshot")
    /\ UNCHANGED <<outside, db, file, cancelled>>

SnapshotTargetObserver ==
    /\ At("snapshot")
    /\ IF ~On("observer") THEN UNCHANGED <<m, faults>>
       ELSE \E o \in Ask, seen \in Measure([never |-> 0, stale |-> 0],
                                           {[never |-> Limits.never + 1, stale |-> 0],
                                            [never |-> 0, stale |-> Limits.stale + 1]}) :
              LET found == IF o = "err" THEN {} ELSE EvaluateTargetObserverThresholds({seen}, Limits)
              IN  /\ m' = [m EXCEPT !.parts["observer"] = IF o = "ok" THEN "pass" ELSE "fail",
                                    !.over = @ \/ "fail" \in found]
                  /\ Note(o = "err" \/ "fail" \in found)
    /\ Goto("netsnap")
    /\ look' = NoLook
    /\ UNCHANGED <<outside, db, file, cancelled>>

SnapshotNetworkBuckets ==
    /\ At("netsnap")
    /\ IF ~On("network") THEN UNCHANGED <<m, faults>>
       ELSE \E a \in AskEach : /\ m' = [m EXCEPT !.parts["network"] = PerHost(a)]
                               /\ Note(PerHost(a) = "fail")
    /\ Goto("stream")
    /\ UNCHANGED <<outside, db, file, cancelled, look>>

CollectStreamingTelemetry ==
    /\ At("stream")
    /\ IF ~On("stream") THEN UNCHANGED <<m, faults>>
       ELSE \E d \in Ask, j \in Ask \cup Measure("ok", {"empty"}) :
              LET c == StreamingCollect([h \in {"host"} |->
                           [dashboard |-> d, journal |-> IF cancelled THEN "err" ELSE j]])
              IN  m' = [m EXCEPT !.parts["stream"] = c] /\ Note(c # "pass")
    /\ inv' = [inv EXCEPT !.pc = "endverify"]
    /\ UNCHANGED <<outside, db, file, cancelled, look>>

\* verifyServices with the expected number of active rows.
Healths(action, expected, stale) ==
    {ServiceHealthFromVerify(s, action, Active(s), IF stale THEN Active(s) ELSE 0, expected) : s \in ServiceSet}

WindowEndVerify ==
    /\ At("endverify")
    /\ \E a \in AskEach, stale \in Measure(FALSE, {TRUE}) :
          /\ IF \A s \in ServiceSet : a[s] = "ok"
             THEN /\ m' = [m EXCEPT !.got = @ \cup Healths("window-end-verify", inv.size, stale)]
                  /\ inv' = [inv EXCEPT !.pc = "deactivate", !.todo = Services]
             ELSE BatchFailed(LifeFailed)
          /\ Note(stale \/ \E s \in ServiceSet : a[s] = "err")
    /\ UNCHANGED <<outside, db, file, cancelled, look>>

\* applyAction(deactivate) under the run's context, of a batch and of
\* -mode=deactivate.
Deactivate ==
    /\ At("deactivate")
    /\ LET s == Head(inv.todo)
           batch == inv.mode # "deactivate"
           next == IF Len(inv.todo) > 1 THEN [inv EXCEPT !.todo = Tail(@)]
                   ELSE IF batch THEN [inv EXCEPT !.pc = "prom2", !.todo = <<>>, !.act = <<>>]
                   ELSE Ended("ok")
           err == IF batch THEN [inv EXCEPT !.pc = "cleanup", !.todo = inv.act] ELSE Ended("err")
       IN  /\ Exec(s, WriteDeactivateSQL(cfg, s), FALSE, next, err)
           /\ m' = CASE inv'.pc = "prom2"   -> [m EXCEPT !.cleanup = "deactivated"]
                     [] inv'.pc = "cleanup" -> [m EXCEPT !.cleanup = "fail", !.err = TRUE]
                     [] OTHER               -> m
    /\ UNCHANGED <<outside, file, look>>

CollectPrometheus ==
    /\ At("prom2")
    /\ \E o \in Ask, cpu \in Measure(Limits.cpu, {Limits.cpu + 1}), up \in Measure(Limits.up, {Limits.up - 1}) :
          /\ m' = [m EXCEPT !.parts["prom"] = IF o = "ok" THEN "pass" ELSE "fail",
                            !.prom = IF o = "ok" THEN [kind |-> "report", cpu |-> {cpu}, up |-> {up}] ELSE None]
          /\ Note(o = "err" \/ cpu > Limits.cpu \/ up < Limits.up)
    /\ Goto("postverify")
    /\ UNCHANGED <<outside, db, file, cancelled, look>>

VerifiesWithoutExpectation ==
    /\ At("postverify")
    /\ \E a \in AskEach :
          /\ IF \A s \in ServiceSet : a[s] = "ok"
             THEN Goto("judge") /\ m' = [m EXCEPT !.got = @ \cup Healths("post-deactivate-verify", -1, FALSE)]
             ELSE BatchFailed([m EXCEPT !.cleanup = "fail"])
          /\ Note(\E s \in ServiceSet : a[s] = "err")
    /\ UNCHANGED <<outside, db, file, cancelled, look>>

\* A mismatch is a failed health row, not an error.
PostDeactivateVerify ==
    /\ At("postverify")
    /\ \E a \in AskEach :
          /\ IF \A s \in ServiceSet : a[s] = "ok"
             THEN Goto("judge") /\ m' = [m EXCEPT !.got = @ \cup Healths("post-deactivate-verify", 0, FALSE)]
             ELSE BatchFailed([m EXCEPT !.cleanup = "fail"])
          /\ Note(\E s \in ServiceSet : a[s] = "err")
    /\ UNCHANGED <<outside, db, file, cancelled, look>>

\* EvaluateThresholds, setHealthStatus, setStopRecommendation.
Judge ==
    /\ At("judge")
    /\ LET found == EvaluateThresholds(m.got, m.prom, Limits)
           missed == \E h \in m.got : h.action = "window-end-verify" /\ Limits.missed > 0 /\ h.missed > Limits.missed
           over == m.over \/ "fail" \in found
       IN  m' = [m EXCEPT !.cleanup = "pass", !.life = "pass", !.over = over,
                          !.health = IF missed \/ \E h \in m.got : h.status = "fail" THEN "fail" ELSE "pass",
                          !.stop = over \/ m.parts["detect"] = "fail"]
    /\ Goto("batchend")
    /\ UNCHANGED <<outside, db, file, cancelled, faults, look>>

CleanupUnderRunContext ==
    /\ At("cleanup")
    /\ LET s == Head(inv.todo)
       IN  Exec(s, WriteDeactivateSQL(cfg, s), FALSE,
                [inv EXCEPT !.todo = Tail(@), !.pc = IF Len(inv.todo) = 1 THEN "batchend" ELSE @],
                [inv EXCEPT !.pc = "batchend"])
    /\ m' = IF inv'.pc = "cleanup" THEN m
            ELSE [m EXCEPT !.cleanup = IF inv'.todo = <<>> THEN "pass" ELSE "fail"]
    /\ UNCHANGED <<outside, file, look>>

\* The deferred cleanup, under a context of its own.
DeferredCleanup ==
    /\ At("cleanup")
    /\ LET s == Head(inv.todo)
       IN  Exec(s, WriteDeactivateSQL(cfg, s), TRUE,
                [inv EXCEPT !.todo = Tail(@), !.pc = IF Len(inv.todo) = 1 THEN "batchend" ELSE @],
                [inv EXCEPT !.pc = "batchend"])
    /\ m' = IF inv'.pc = "cleanup" THEN m
            ELSE [m EXCEPT !.cleanup = IF inv'.todo = <<>> THEN "pass" ELSE "fail"]
    /\ UNCHANGED <<outside, file, look>>

(***************************************************************************)
(* The end of a batch: run-batch returns; a suite saves its state, and     *)
(* stops or cools down.  writeSuiteState overwrites the file in place.     *)
(***************************************************************************)
Closing(i) == [i EXCEPT !.todo = <<>>, !.act = <<>>]
BatchState ==
    LET clean == SuiteBatchStatus(m) = "pass"
    IN  Saved(inv.size, IF clean THEN inv.size ELSE inv.clean,
              IF ~clean /\ inv.problem = 0 THEN inv.size ELSE inv.problem)

BatchEnd ==
    /\ At("batchend")
    /\ IF inv.mode = "run-batch" \/ m.err
       THEN End(IF m.err THEN "err" ELSE "ok") /\ UNCHANGED <<file, faults>>
       ELSE \/ /\ file' = BatchState
               /\ rp' = NoReplay
               /\ inv' = IF m.stop \/ inv.rest = <<>> THEN Ended("ok")
                         ELSE [Closing(inv) EXCEPT !.pc = "cooldown", !.clean = file'.clean,
                                                   !.problem = file'.problem]
               /\ UNCHANGED faults
            \/ /\ faults < MaxFaults /\ faults' = faults + 1
               /\ file' \in {file, Torn}
               /\ End("err")
    /\ UNCHANGED <<cfg, failing, db, m, cancelled, look>>

Cooldown ==
    /\ At("cooldown")
    /\ IF cancelled THEN inv' = Ended("err") /\ UNCHANGED m ELSE inv' = NextBatch(inv) /\ m' = NewManifest
    /\ UNCHANGED <<outside, db, file, cancelled, faults, look>>

\* SIGINT or SIGTERM ends the run's context.
Cancel ==
    /\ ~At("idle") /\ ~cancelled
    /\ cancelled' = TRUE
    /\ UNCHANGED <<cfg, db, file, inv, m, rp, failing, faults, look>>

\* The process dies; during the write of the state file it may leave half.
Crash ==
    /\ ~At("idle") /\ faults < MaxFaults /\ faults' = faults + 1
    /\ file' \in {file} \cup (IF At("batchend") /\ inv.mode = "run-suite" /\ ~m.err THEN {Torn} ELSE {})
    /\ End("crash") /\ look' = NoLook
    /\ UNCHANGED <<cfg, db, m, failing, cancelled>>

Next ==
    \/ Start \/ AssertSeedSafe \/ Seed \/ Verify \/ RunSuite \/ PreflightPrometheus
    \/ Activate \/ VerifyActiveCount \/ PartialActivationCleanup
    \/ PreflightActivatedTargets \/ ResetTargetObserver \/ ResetNetworkBuckets \/ StartCaptures
    \/ StartCapacityReplay \/ SleepWindow \/ EndCaptures \/ FinishCapacityReplay
    \/ CollectReplayDetections \/ SnapshotTargetObserver \/ SnapshotNetworkBuckets
    \/ CollectStreamingTelemetry \/ WindowEndVerify \/ Deactivate \/ CollectPrometheus
    \/ PostDeactivateVerify \/ Judge \/ DeferredCleanup \/ BatchEnd \/ Cooldown
    \/ ReplayWake \/ ReplayActivate \/ ReplayDeactivate \/ Expire \/ Cancel \/ Crash

Spec == Init /\ [][Next]_vars

(***************************************************************************)
(* Properties.                                                             *)
(***************************************************************************)
\* Whenever a batch or a suite has returned, by itself or because of a signal
\* at any moment, and the databases did what they were asked, no row of a
\* service it tried to activate is left active (the deferred cleanup and the
\* partial-activation cleanup run under a context of their own).
InterruptedCleansUp ==
    At("idle") /\ inv.apply /\ inv.mode \in {"run-batch", "run-suite"} /\ inv.out \in {"ok", "err"} /\ inv.sql = 0
        => \A s \in inv.touched \cap cfg.dsn : db[s].active = {}

\* Rows a batch leaves active, also those a retried statement left behind
\* after its transaction was rolled back, are never passed over: the batch
\* has an error or its health failed.
LeftActiveIsReported ==
    At("batchend") /\ (\E s \in inv.touched \cap cfg.dsn : db[s].active # {}) => m.err \/ m.health = "fail"

\* A suite calls a batch clean only when the replay's failures have been
\* withdrawn from the target, no row is active any more, and the window ran
\* with exactly the rows asked for.  The last holds unless a statement failed
\* on the way: a deadlock can undo the activation behind its plan's back, and
\* the rows that were active before, as many, pass the count and the samples.
CleanBatchWasClean ==
    [][file' # file /\ file'.kind = "saved" /\ file'.clean = inv.size
        => /\ inv.sql = 0 => inv.exact
           /\ rp.pc # "none" => failing \cap rp.plan.hosts = {}
           /\ \A s \in ServiceSet : db[s].active = {}]_vars

\* The rows whose event history replay detection reads, each with its service's
\* own first URL number, have a host that the target did fail for this replay,
\* unless the replay is recorded as failed; and they were active all the while,
\* unless a statement failed on the way.
DetectionHostsWereFailed ==
    look.kind = "detect" => \A s \in ServiceSet : \A o \in look.specs[s] :
        /\ m.parts["replay"] = "pass" => cfg.first[s] + o \in rp.hit
        /\ inv.sql = 0 => o \in db[s].active

\* One history of outages gets one verdict, whether it is read as jetmon-v1's
\* status changes or as jetmon-v2's events, provided no outage began before
\* the padded window.  Only jetmon-v2's events tell a check interval, so one that
\* is not the expected may fail that service alone, when it is asked to.
SameHistorySameVerdict ==
    look.kind = "detect" /\ (\A i \in DOMAIN look.history : look.history[i].from >= ActivatedAt - Padding)
        => \A s, t \in look.asked :
              \/ look.verdict[s] = look.verdict[t]
              \/ cfg.strict /\ \E i \in DOMAIN look.history : look.history[i].interval = "other"

\* planner.go, writeDeactivateSQL: after a cleanup that passed, no benchmark
\* row is active.
CleanupPassMeansInactive ==
    At("batchend") /\ m.cleanup = "pass" => \A s \in inv.touched \cap cfg.dsn : db[s].active = {}
=============================================================================

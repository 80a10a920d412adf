------------------------------ MODULE Adapters ------------------------------
(***************************************************************************)
(* One service adapter (internal/adapter), driven by the scenario runner   *)
(* (gate, Provision, Retrieve, Deprovision with retries) and, at the same  *)
(* time, by the uptime-bench-cleanup command (CleanupStale), against the   *)
(* account of a monitoring service.  The service is external: it holds     *)
(* monitors and maintenance windows, and every call to it is a step with   *)
(* one of the outcomes                                                     *)
(*                                                                         *)
(*   "ok"       applied and answered;                                      *)
(*   "lost"     applied, but the call fails (timeout, decoding error);     *)
(*   "unnamed"  applied and answered, but without the new monitor's id,    *)
(*              told from a failed call by uptimerobot alone;              *)
(*   "refused"  not applied, transport or server error;                    *)
(*   "denied"   not applied, an answered API error;                        *)
(*   "cancelled" not sent: the context of the call is done.                *)
(*                                                                         *)
(* The run can be cancelled (its calls then fail, the calls made under a   *)
(* fresh context do not) and the harness can crash between two calls.      *)
(***************************************************************************)
EXTENDS AdapterReports, FiniteSets

CONSTANTS Types,              \* adapter types of this instance
          Configs,            \* provision configurations, see ConfigType
          Logs,               \* what a service may have recorded for a monitor
          MaxRuns, MaxFaults, \* bounds: runs, failing calls
          MaxCreateAttempts,  \* jetmon-v2: blog ids tried
          RetrieveRetries,    \* pingdom: retrieveRetryAttempts
          DeprovisionAttempts,
          PageLimit           \* uptimerobot: monitors per page of a listing

AllTypes == {"uptimerobot", "pingdom", "datadog", "better-uptime",
             "jetmon-v1", "jetmon-v2", "gatus", "uptime-kuma"}

\* adapter.ProvisionConfig as far as an adapter decides by it: the keyword
\* check, the shape of the maintenance window, the check frequency in seconds.
ConfigType == [keyword : {"none", "present", "absent"},
               window : {"none", "day", "midnight", "short"}, freq : Nat]

ASSUME AdapterAssumption ==
    /\ Types \subseteq AllTypes /\ Configs \subseteq ConfigType
    /\ {MaxRuns, MaxFaults, MaxCreateAttempts, RetrieveRetries, DeprovisionAttempts,
        PageLimit} \subseteq Nat \ {0}

VARIABLES ad,        \* the adapter's type
          auth,      \* its services.toml options: head, write, readonly (bridge)
          scope,     \* cleanup scope: the fleet's hosts
          mons,      \* the service's monitors
          wins,      \* the service's maintenance windows
          ids,       \* identifiers the service has given out
          run,       \* the runner's use of the adapter
          cl,        \* the cleanup command
          cancelled, \* the run's context is done
          faults,    \* failing calls so far
          trouble    \* history: the failing calls of this run

vars == <<ad, auth, scope, mons, wins, ids, run, cl, cancelled, faults, trouble>>
account == <<mons, wins, ids>>
fixed == <<ad, auth, scope>>

Monitor(id, by, name, host, cfg) ==
    [id |-> id, by |-> by, name |-> name, host |-> host, cfg |-> cfg, mw |-> FALSE]
NoConfig == [keyword |-> "none", window |-> "none", freq |-> 0]

Idle == [n |-> 0, pc |-> "idle", cfg |-> NoConfig, mon |-> 0, win |-> 0, tries |-> 0,
         todo |-> {}, out |-> "none", reports |-> <<>>, log |-> <<>>]
CleanupIdle == [pc |-> "idle", dry |-> FALSE, off |-> 0, todo |-> {}, began |-> 0,
                alone |-> FALSE, failed |-> FALSE]

(***************************************************************************)
(* Capabilities and the runner's gate.                                     *)
(***************************************************************************)
Caps(freq, keyword, inverted, window) ==
    [freq |-> freq, keyword |-> keyword, inverted |-> inverted, window |-> window]

UptimeRobotCapabilities == Caps(300, ~auth.head, ~auth.head, TRUE)
PingdomCapabilities     == Caps(60, TRUE, TRUE, TRUE)
DatadogCapabilities     == Caps(30, ~auth.head, ~auth.head, TRUE)
BetterUptimeCapabilities == Caps(180, ~auth.head, ~auth.head, TRUE)
JetmonV1Capabilities    == Caps(60, FALSE, FALSE, FALSE)
JetmonV2Capabilities    == Caps(60, TRUE, TRUE, TRUE)
GatusCapabilities       == Caps(1, ~auth.head, ~auth.head, FALSE)
UptimeKumaCapabilities  == Caps(20, ~auth.head, FALSE, FALSE)

Capabilities ==
    CASE ad = "uptimerobot"   -> UptimeRobotCapabilities
      [] ad = "pingdom"       -> PingdomCapabilities
      [] ad = "datadog"       -> DatadogCapabilities
      [] ad = "better-uptime" -> BetterUptimeCapabilities
      [] ad = "jetmon-v1"     -> JetmonV1Capabilities
      [] ad = "jetmon-v2"     -> JetmonV2Capabilities
      [] ad = "gatus"         -> GatusCapabilities
      [] ad = "uptime-kuma"   -> UptimeKumaCapabilities

\* provisionAdapters: the capability gates a configuration passes.
PassesGate(cfg) ==
    /\ cfg.freq >= Capabilities.freq
    /\ cfg.keyword # "none" => Capabilities.keyword
    /\ cfg.keyword = "absent" => Capabilities.inverted
    /\ cfg.window # "none" => Capabilities.window

\* adapterfactory: the HTTP method is an option of five types, write mode of
\* jetmon-v1; whether its bridge accepts writes is the bridge's business.
Registry(type) ==
    {a \in [head : BOOLEAN, write : BOOLEAN, readonly : BOOLEAN] :
        /\ a.head => type \in {"uptimerobot", "better-uptime", "datadog", "gatus", "uptime-kuma"}
        /\ (a.write \/ a.readonly) => type = "jetmon-v1"}

\* External: the account also holds an operator's own monitor of the same
\* host, a benchmark monitor of another fleet, and (gatus) the bridge's
\* bootstrap endpoint; jetmon-v1's pre-seeded site where writes are off.
Foreign(type, a) ==
    {Monitor(1, 0, "operator", "target", NoConfig), Monitor(2, 0, "bench", "other", NoConfig)}
    \cup (IF type = "jetmon-v1" /\ (~a.write \/ a.readonly)
          THEN {Monitor(3, 0, "seed", "target", NoConfig)} ELSE {})
    \cup (IF type = "gatus" THEN {Monitor(3, 0, "bootstrap", "local", NoConfig)} ELSE {})

Init ==
    /\ ad \in Types
    /\ auth \in Registry(ad)
    /\ scope = {"target"}
    /\ mons = Foreign(ad, auth)
    /\ wins = {} /\ ids = 3
    /\ run = Idle /\ cl = CleanupIdle
    /\ cancelled = FALSE /\ faults = 0 /\ trouble = {}

(***************************************************************************)
(* Calls.                                                                  *)
(***************************************************************************)
At(type, pc) == ad = type /\ run.pc = pc

\* do / postJSON: `fresh' calls do not run under the run's context.
Outcomes(fresh) ==
    IF cancelled /\ ~fresh THEN {"cancelled"}
    ELSE IF faults < MaxFaults THEN {"ok", "lost", "refused"} ELSE {"ok"}

\* Where the adapter tells an answered error from a failed call.
Answers(fresh) ==
    Outcomes(fresh) \cup (IF "lost" \in Outcomes(fresh) THEN {"denied"} ELSE {})

Note(o, what) ==
    /\ faults' = IF o \in {"ok", "gone", "cancelled"} THEN faults ELSE faults + 1
    /\ trouble' = IF o \in {"ok", "gone", "cancelled"} THEN trouble ELSE trouble \cup {<<what, o>>}

Applied(o) == o \in {"ok", "lost", "unnamed"}

Goto(pc) == run' = [run EXCEPT !.pc = pc]
Return(out) ==
    run' = [run EXCEPT !.pc = "idle", !.out = out, !.todo = {}, !.mon = 0, !.win = 0, !.tries = 0]

\* Provision returns before any call.
Reject == Return("rejected") /\ UNCHANGED <<account, faults, trouble>>

\* POST of a new monitor; `next' when the answer names it, `err' otherwise.
Create(o, next, err) ==
    LET m == Monitor(ids + 1, run.n, "bench", "target", run.cfg) IN
    /\ mons' = IF Applied(o) THEN mons \cup {m} ELSE mons
    /\ ids' = IF Applied(o) THEN ids + 1 ELSE ids
    /\ run' = IF o = "ok" THEN [run EXCEPT !.pc = next, !.mon = m.id]
              ELSE [run EXCEPT !.pc = err, !.out = "failed", !.tries = 0]
    /\ Note(o, run.pc)
    /\ UNCHANGED wins

AfterCreate == IF run.cfg.window = "none" THEN "live" ELSE "maintenance"

\* POST of a maintenance window.
CreateWindow(o, next, err) ==
    /\ wins' = IF Applied(o) THEN wins \cup {[id |-> ids + 1, by |-> run.n, mon |-> run.mon]} ELSE wins
    /\ ids' = IF Applied(o) THEN ids + 1 ELSE ids
    /\ run' = IF o = "ok" THEN [run EXCEPT !.pc = next, !.win = ids + 1] ELSE [run EXCEPT !.pc = err]
    /\ Note(o, "window")
    /\ UNCHANGED mons

\* PATCH or edit that attaches the window to the monitor.
Attach(o, next, err) ==
    /\ mons' = IF Applied(o)
               THEN {IF m.id = run.mon THEN [m EXCEPT !.mw = TRUE] ELSE m : m \in mons} ELSE mons
    /\ Goto(IF o = "ok" THEN next ELSE err)
    /\ Note(o, "window")
    /\ UNCHANGED <<wins, ids>>

WithoutMon(id) == {m \in mons : m.id # id}
WithoutWin(id) == {w \in wins : w.id # id}

(***************************************************************************)
(* Provision, adapter by adapter.                                          *)
(***************************************************************************)
PingdomProvision ==
    /\ At("pingdom", "provision")
    /\ \E o \in Outcomes(FALSE) : Create(o, AfterCreate, "idle")

PingdomCreateMaintenance ==
    /\ At("pingdom", "maintenance")
    /\ \E o \in Outcomes(FALSE) : CreateWindow(o, "live", "rollback")

DatadogProvision ==
    /\ At("datadog", "provision")
    /\ IF auth.head /\ run.cfg.keyword # "none" THEN Reject
       ELSE \E o \in Outcomes(FALSE) : Create(o, AfterCreate, "idle")

\* fetchMonitorID: the monitor behind a new test may not be linked yet.
DatadogFetchMonitorID ==
    /\ At("datadog", "maintenance")
    /\ \E o \in Outcomes(FALSE) : Goto(IF o = "ok" THEN "attach" ELSE "rollback") /\ Note(o, "window")
    /\ UNCHANGED account

DatadogCreateDowntime ==
    /\ At("datadog", "attach")
    /\ \E o \in Outcomes(FALSE) : CreateWindow(o, "live", "rollback")

BetterUptimeProvision ==
    /\ At("better-uptime", "provision")
    /\ IF auth.head /\ run.cfg.keyword # "none" THEN Reject
       ELSE \E o \in Outcomes(FALSE) : Create(o, AfterCreate, "idle")

\* A window across midnight cannot be expressed: rolled back without a call.
BetterUptimeApplyMaintenance ==
    /\ At("better-uptime", "maintenance")
    /\ \/ run.cfg.window = "midnight" /\ Goto("rollback") /\ UNCHANGED <<account, faults, trouble>>
       \/ run.cfg.window # "midnight" /\ \E o \in Outcomes(FALSE) : Attach(o, "live", "rollback")

\* checkIntervalMinutes, then up to MaxCreateAttempts random blog ids: a
\* conflict with an existing one ("denied") is tried again.
JetmonV2Provision ==
    /\ At("jetmon-v2", "provision")
    /\ IF run.cfg.freq % 60 # 0 THEN Reject
       ELSE \E o \in Answers(FALSE) :
                IF o = "denied" /\ run.tries + 1 < MaxCreateAttempts
                THEN /\ run' = [run EXCEPT !.tries = @ + 1]
                     /\ Note(o, run.pc) /\ UNCHANGED account
                ELSE Create(o, AfterCreate, "idle")

JetmonV2ApplyMaintenance ==
    /\ At("jetmon-v2", "maintenance")
    /\ \E o \in Outcomes(FALSE) : Attach(o, "live", "rollback")

\* provisionWrite; a bridge that is read-only answers 405 and the adapter
\* looks the pre-seeded monitor up instead.
JetmonV1ProvisionWrite ==
    /\ At("jetmon-v1", "provision") /\ auth.write
    /\ IF auth.readonly
       THEN \E o \in Outcomes(FALSE) :
                /\ IF o = "ok" THEN Goto("lookup") ELSE Return("failed")
                /\ Note(o, run.pc) /\ UNCHANGED account
       ELSE \E o \in Outcomes(FALSE) : Create(o, "live", "idle")

JetmonV1ProvisionRead ==
    /\ ad = "jetmon-v1"
    /\ run.pc = "lookup" \/ (run.pc = "provision" /\ ~auth.write)
    /\ \E o \in Outcomes(FALSE) :
          LET seeded == {m \in mons : m.name = "seed" /\ m.host = "target"} IN
          /\ IF o = "ok" /\ seeded # {}
             THEN run' = [run EXCEPT !.pc = "live", !.mon = (CHOOSE m \in seeded : TRUE).id]
             ELSE Return("failed")
          /\ Note(o, run.pc)
    /\ UNCHANGED account

\* The id is the adapter's own, so an answer without one changes nothing.
GatusProvision ==
    /\ At("gatus", "provision")
    /\ IF run.cfg.freq < 1 \/ (auth.head /\ run.cfg.keyword # "none") THEN Reject
       ELSE \E o \in Outcomes(FALSE) : Create(o, "live", "idle")

UptimeKumaProvision ==
    /\ At("uptime-kuma", "provision")
    /\ IF \/ run.cfg.freq < 20 \/ (auth.head /\ run.cfg.keyword # "none")
          \/ run.cfg.keyword = "absent"
       THEN Reject
       ELSE \E o \in Outcomes(FALSE) : Create(o, "live", "idle")

(***************************************************************************)
(* UptimeRobot: the account refuses a second monitor of the same URL, and  *)
(* a create whose outcome is unknown is resolved by looking for it.        *)
(***************************************************************************)
Duplicates == {m \in mons : m.name = "bench" /\ m.host = "target"}

\* createMonitor: "exists" is the answered error already_exists; only a failed
\* call leaves the adapter uncertain, an answer without the id does not.
CreateMonitor(next, exists, uncertain, err) ==
    IF auth.head /\ run.cfg.keyword # "none" THEN Reject
    ELSE \E o \in Answers(FALSE) \cup (IF "lost" \in Outcomes(FALSE) THEN {"unnamed"} ELSE {}) :
            \/ /\ Duplicates # {} /\ o \in {"ok", "lost"}
               /\ run' = [run EXCEPT !.pc = IF o = "ok" THEN exists ELSE uncertain, !.out = "failed"]
               /\ Note(o, run.pc) /\ UNCHANGED account
            \/ /\ Duplicates = {} \/ o \in {"refused", "denied", "cancelled"}
               /\ Create(o, next, IF o \in {"denied", "unnamed"} THEN err ELSE uncertain)

UptimeRobotProvision ==
    /\ At("uptimerobot", "provision")
    /\ CreateMonitor(AfterCreate, "find", "adopt", "idle")

\* adoptSingleMatchingBenchmarkMonitor under a context of its own.
AdoptSingleMatching ==
    /\ At("uptimerobot", "adopt")
    /\ \E o \in Outcomes(TRUE) :
          /\ Note(o, "adopt")
          /\ IF o = "ok" /\ Cardinality(Duplicates) = 1
             THEN run' = [run EXCEPT !.pc = AfterCreate, !.mon = (CHOOSE m \in Duplicates : TRUE).id]
             ELSE Goto("recreate")
    /\ UNCHANGED account

Recreate ==
    /\ At("uptimerobot", "recreate")
    /\ CreateMonitor(AfterCreate, "find", "idle", "idle")

\* Slip: an account that already has such a monitor is taken as ours.
FindTakesTheMatch ==
    /\ At("uptimerobot", "find")
    /\ \E o \in Outcomes(FALSE) :
          /\ Note(o, "find")
          /\ IF o = "ok" /\ Duplicates # {}
             THEN run' = [run EXCEPT !.pc = AfterCreate, !.mon = (CHOOSE m \in Duplicates : TRUE).id]
             ELSE Return("failed")
    /\ UNCHANGED account

\* deleteMatchingBenchmarkMonitors: list, then delete each match.
FindMatching ==
    /\ At("uptimerobot", "find")
    /\ \E o \in Outcomes(FALSE) :
          /\ Note(o, "find")
          /\ IF o = "ok"
             THEN run' = [run EXCEPT !.pc = "purge", !.todo = {m.id : m \in Duplicates}]
             ELSE Return("failed")
    /\ UNCHANGED account

PurgeMatching ==
    /\ At("uptimerobot", "purge")
    /\ \/ run.todo = {} /\ Goto("retry") /\ UNCHANGED <<account, faults, trouble>>
       \/ \E id \in {i \in run.todo : \A j \in run.todo : i <= j}, o \in Outcomes(FALSE) :
             /\ mons' = IF Applied(o) THEN WithoutMon(id) ELSE mons
             /\ IF o = "ok" THEN run' = [run EXCEPT !.todo = @ \ {id}] ELSE Return("failed")
             /\ Note(o, "find") /\ UNCHANGED <<wins, ids>>

CreateAfterPurge ==
    /\ At("uptimerobot", "retry")
    /\ CreateMonitor(AfterCreate, "idle", "idle", "idle")

UptimeRobotCreateMWindow ==
    /\ At("uptimerobot", "maintenance")
    /\ \/ /\ run.cfg.window \in {"midnight", "short"}
          /\ Goto("rollback") /\ UNCHANGED <<account, faults, trouble>>
       \/ /\ run.cfg.window = "day"
          /\ \E o \in Outcomes(FALSE) : CreateWindow(o, "attach", "rollback")

UptimeRobotAttachMWindow ==
    /\ At("uptimerobot", "attach")
    /\ \E o \in Outcomes(FALSE) : Attach(o, "live", "rollback")

RollbackUnderRunContext ==
    /\ run.pc = "rollback"
    /\ \E o \in Outcomes(FALSE) :
          /\ mons' = IF Applied(o) THEN WithoutMon(run.mon) ELSE mons
          /\ wins' = IF Applied(o) THEN WithoutWin(run.win) ELSE wins
          /\ Return("failed") /\ Note(o, "rollback")
    /\ UNCHANGED ids

\* The rollback of a half-provisioned monitor: the window when its id is
\* known, then the monitor, errors ignored, never under the run's context.
Rollback ==
    /\ run.pc = "rollback"
    /\ \E o \in Outcomes(TRUE), p \in Outcomes(TRUE) :
          /\ o # "ok" => p = "ok"
          /\ wins' = IF Applied(p) THEN WithoutWin(run.win) ELSE wins
          /\ mons' = IF Applied(o) THEN WithoutMon(run.mon) ELSE mons
          /\ Return("failed") /\ Note(IF o = "ok" THEN p ELSE o, "rollback")
    /\ UNCHANGED ids

Provision ==
    /\ \/ PingdomProvision \/ PingdomCreateMaintenance
       \/ DatadogProvision \/ DatadogFetchMonitorID \/ DatadogCreateDowntime
       \/ BetterUptimeProvision \/ BetterUptimeApplyMaintenance
       \/ JetmonV2Provision \/ JetmonV2ApplyMaintenance
       \/ JetmonV1ProvisionWrite \/ JetmonV1ProvisionRead
       \/ GatusProvision \/ UptimeKumaProvision
       \/ UptimeRobotProvision \/ AdoptSingleMatching \/ Recreate
       \/ FindMatching \/ PurgeMatching \/ CreateAfterPurge
       \/ UptimeRobotCreateMWindow \/ UptimeRobotAttachMWindow
       \/ Rollback
    /\ UNCHANGED <<fixed, cl, cancelled>>

(***************************************************************************)
(* Retrieve.  Every error is an `unknown' result, never an empty one.      *)
(***************************************************************************)
Watched == \E m \in mons : m.id = run.mon

Known(log, reports) == [run EXCEPT !.pc = "retrieved", !.out = "known", !.log = log, !.reports = reports]
Unknown == [run EXCEPT !.pc = "retrieved", !.out = "unknown"]

\* A monitor the service does not know is an error for most of them.
RetrieveWith(type, Reports(_)) ==
    /\ At(type, "live")
    /\ \E o \in Outcomes(FALSE) :
          /\ \/ o = "ok" /\ Watched /\ \E log \in Logs : run' = Known(log, Reports(log))
             \/ (o # "ok" \/ ~Watched) /\ run' = Unknown
          /\ Note(o, "retrieve")

UptimeRobotRetrieve  == RetrieveWith("uptimerobot", UptimeRobotReports)
DatadogRetrieve      == RetrieveWith("datadog", DatadogReports)
BetterUptimeRetrieve == RetrieveWith("better-uptime", BetterUptimeReports)
JetmonV1Retrieve     == RetrieveWith("jetmon-v1", JetmonV1Reports)
JetmonV2Retrieve     == RetrieveWith("jetmon-v2", JetmonV2Reports)
UptimeKumaRetrieve   == RetrieveWith("uptime-kuma", UptimeKumaReports)

\* The bridge turns a missing endpoint into an empty list of results.
GatusRetrieve ==
    /\ At("gatus", "live")
    /\ \E o \in Outcomes(FALSE) :
          /\ \/ o = "ok" /\ \E log \in IF Watched THEN Logs ELSE {<<>>} : run' = Known(log, GatusReports(log))
             \/ o # "ok" /\ run' = Unknown
          /\ Note(o, "retrieve")

PingdomGivesUpEmpty ==
    /\ At("pingdom", "live")
    /\ \E o \in Outcomes(FALSE) :
          /\ \/ o = "ok" /\ Watched /\ \E log \in Logs : run' = Known(log, PingdomReports(log))
             \/ (o # "ok" \/ ~Watched) /\ run' = Known(<<>>, <<>>)
          /\ Note(o, "retrieve")

\* pingdom: 429 and 5xx ("denied") are tried again, with a pause that ends
\* early when the run is cancelled.
PingdomRetrieve ==
    /\ At("pingdom", "live")
    /\ \E o \in Answers(FALSE) :
          /\ \/ o = "ok" /\ Watched /\ \E log \in Logs : run' = Known(log, PingdomReports(log))
             \/ o = "denied" /\ run.tries + 1 < RetrieveRetries /\ run' = [run EXCEPT !.tries = @ + 1]
             \/ /\ o # "ok" \/ ~Watched
                /\ o = "denied" => run.tries + 1 >= RetrieveRetries
                /\ run' = Unknown
          /\ Note(o, "retrieve")

Retrieve ==
    /\ \/ UptimeRobotRetrieve \/ PingdomRetrieve \/ DatadogRetrieve \/ BetterUptimeRetrieve
       \/ JetmonV1Retrieve \/ JetmonV2Retrieve \/ GatusRetrieve \/ UptimeKumaRetrieve
    /\ UNCHANGED <<fixed, account, cl, cancelled>>

(***************************************************************************)
(* Deprovision.  Deleted(o, id) is the answer to the delete call: a monitor*)
(* that is gone already is a success, except for uptime-kuma's bridge.     *)
(***************************************************************************)
DeleteFails(type, o, id) ==
    \/ o # "ok"
    \/ type = "uptime-kuma" /\ \A m \in mons : m.id # id

Torn(o) ==
    IF ~DeleteFails(ad, o, run.mon) THEN Return("gone")
    ELSE IF run.tries + 1 < DeprovisionAttempts THEN run' = [run EXCEPT !.tries = @ + 1]
    ELSE Return("error")

DeleteMonitor(o) ==
    /\ mons' = IF Applied(o) THEN WithoutMon(run.mon) ELSE mons
    /\ Torn(o) /\ Note(o, "delete") /\ UNCHANGED <<wins, ids>>

DeleteMonitorOnly(type) ==
    At(type, "teardown") /\ \E o \in Outcomes(TRUE) : DeleteMonitor(o)

\* The window first, its failure tolerated, then the monitor.
DeleteWindowFirst(type) ==
    /\ At(type, "teardown")
    /\ \/ /\ run.win # 0
          /\ \E o \in Outcomes(TRUE) :
                /\ wins' = IF Applied(o) THEN WithoutWin(run.win) ELSE wins
                /\ run' = [run EXCEPT !.win = 0] /\ Note(o, "deletewindow")
          /\ UNCHANGED <<mons, ids>>
       \/ run.win = 0 /\ \E o \in Outcomes(TRUE) : DeleteMonitor(o)

UptimeRobotDeprovision  == DeleteWindowFirst("uptimerobot")
PingdomDeprovision      == DeleteWindowFirst("pingdom")
DatadogDeprovision      == DeleteWindowFirst("datadog")
BetterUptimeDeprovision == DeleteMonitorOnly("better-uptime")
JetmonV2Deprovision     == DeleteMonitorOnly("jetmon-v2")
GatusDeprovision        == DeleteMonitorOnly("gatus")
UptimeKumaDeprovision   == DeleteMonitorOnly("uptime-kuma")

\* A no-op unless in write mode; a bridge that is read-only refuses it.
JetmonV1Deprovision ==
    /\ At("jetmon-v1", "teardown")
    /\ \/ ~auth.write /\ Return("gone") /\ UNCHANGED <<account, faults, trouble>>
       \/ auth.write /\ ~auth.readonly /\ \E o \in Outcomes(TRUE) : DeleteMonitor(o)
       \/ auth.write /\ auth.readonly /\ Torn("denied") /\ UNCHANGED <<account, faults, trouble>>

Deprovision ==
    /\ \/ UptimeRobotDeprovision \/ PingdomDeprovision \/ DatadogDeprovision
       \/ BetterUptimeDeprovision \/ JetmonV1Deprovision \/ JetmonV2Deprovision
       \/ GatusDeprovision \/ UptimeKumaDeprovision
    /\ UNCHANGED <<fixed, cl, cancelled>>

(***************************************************************************)
(* The run around the adapter.                                             *)
(***************************************************************************)
Begin ==
    /\ run.pc = "idle" /\ run.n < MaxRuns
    /\ \E cfg \in Configs :
          run' = [Idle EXCEPT !.n = run.n + 1, !.cfg = cfg,
                              !.pc = IF PassesGate(cfg) THEN "provision" ELSE "idle",
                              !.out = IF PassesGate(cfg) THEN "none" ELSE "mismatch"]
    /\ cancelled' = FALSE /\ trouble' = {}
    /\ UNCHANGED <<fixed, account, cl, faults>>

\* deprovisionAll runs on every way out of a run that got a handle.
Teardown ==
    /\ run.pc = "retrieved" \/ (run.pc = "live" /\ cancelled)
    /\ run' = [run EXCEPT !.pc = "teardown", !.tries = 0, !.reports = <<>>, !.log = <<>>]
    /\ UNCHANGED <<fixed, account, cl, cancelled, faults, trouble>>

\* Once the run is being torn down no call of it runs under its context.
Cancel ==
    /\ run.pc \notin {"idle", "rollback", "retrieved", "teardown"} /\ ~cancelled
    /\ cancelled' = TRUE
    /\ UNCHANGED <<fixed, account, run, cl, faults, trouble>>

Crash ==
    /\ run.pc # "idle" /\ run.n < MaxRuns
    /\ run' = [Idle EXCEPT !.n = run.n, !.out = "crashed"]
    /\ UNCHANGED <<fixed, account, cl, cancelled, faults, trouble>>

(***************************************************************************)
(* uptime-bench-cleanup and CleanupStale.                                  *)
(***************************************************************************)
StaleCleaner == ad \notin {"jetmon-v1", "jetmon-v2"}

\* main.  The active-run lock it looks at is taken by capacity runs alone, so
\* nothing keeps a cleanup from starting, or deleting, while a run is under
\* way; an adapter without CleanupStale is skipped.
StartCleanup ==
    /\ cl.pc = "idle"
    /\ \E dry \in BOOLEAN :
          cl' = [CleanupIdle EXCEPT !.dry = dry, !.began = run.n, !.alone = run.pc = "idle",
                                    !.pc = IF StaleCleaner THEN "list" ELSE "done"]

\* CleanupScope.MatchesURL: an empty scope matches everything; a URL of the
\* fleet always has a host of the fleet.
MatchesURL(m) == scope = {} \/ m.host \in scope

\* Of the benchmark's monitors in a listing: outside the scope it is skipped,
\* in a dry run only reported.
Candidates(owned) == {m \in owned : MatchesURL(m) /\ ~cl.dry}

Listed(owned) ==
    /\ cl.pc = "list"
    /\ \E o \in Outcomes(TRUE) :
          /\ cl' = IF o = "ok" THEN [cl EXCEPT !.pc = "sweep", !.todo = Candidates(owned)]
                   ELSE [cl EXCEPT !.pc = "done", !.failed = TRUE]
          /\ faults' = IF o = "ok" THEN faults ELSE faults + 1
    /\ UNCHANGED mons

\* One candidate, in the order of the listing, is deleted through Deprovision
\* with a bare handle; an error makes the command exit with 1.
SweepOne ==
    /\ cl.pc = "sweep"
    /\ \E m \in cl.todo, o \in Outcomes(TRUE) :
        /\ \A x \in cl.todo : m.id <= x.id
        /\ mons' = IF Applied(o) THEN WithoutMon(m.id) ELSE mons
        /\ cl' = [cl EXCEPT !.todo = @ \ {m}, !.failed = @ \/ DeleteFails(ad, o, m.id)]
        /\ faults' = IF o = "ok" THEN faults ELSE faults + 1

Swept == cl.pc = "sweep" /\ cl.todo = {} /\ cl' = [cl EXCEPT !.pc = "done"] /\ UNCHANGED <<mons, faults>>

Sweep(owned) == Listed(owned) \/ SweepOne \/ Swept

Named(name) == {m \in mons : m.name = name}

PingdomCleanupStale      == ad = "pingdom" /\ Sweep(Named("bench"))
DatadogCleanupStale      == ad = "datadog" /\ Sweep(Named("bench"))
BetterUptimeCleanupStale == ad = "better-uptime" /\ Sweep(Named("bench"))
GatusCleanupStale        == ad = "gatus" /\ Sweep(Named("bench"))
UptimeKumaCleanupStale   == ad = "uptime-kuma" /\ Sweep(Named("bench"))

\* The page of the listing at an offset: the service orders by id.
Page(off) ==
    LET Rank(m) == Cardinality({x \in mons : x.id < m.id}) IN
    {m \in mons : off <= Rank(m) /\ Rank(m) < off + PageLimit}

ListStopsEarly ==
    /\ cl.pc = "list"
    /\ LET found == {m \in Page(cl.off) : m.name = "bench"} IN
       cl' = [cl EXCEPT !.todo = @ \cup Candidates(found), !.off = @ + PageLimit,
                        !.pc = IF Cardinality(found) < PageLimit THEN "sweep" ELSE @]
    /\ UNCHANGED <<mons, faults>>

\* listBenchmarkMonitors: page by page until a short one.
ListPage ==
    /\ cl.pc = "list"
    /\ \E o \in Outcomes(TRUE) :
          /\ cl' = IF o # "ok" THEN [cl EXCEPT !.pc = "done", !.failed = TRUE, !.todo = {}]
                   ELSE [cl EXCEPT !.todo = @ \cup Candidates({m \in Page(cl.off) : m.name = "bench"}),
                                   !.off = @ + PageLimit,
                                   !.pc = IF Cardinality(Page(cl.off)) < PageLimit THEN "sweep" ELSE @]
          /\ faults' = IF o = "ok" THEN faults ELSE faults + 1
    /\ UNCHANGED mons

UptimeRobotCleanupStale == ad = "uptimerobot" /\ (ListPage \/ SweepOne \/ Swept)

Cleanup ==
    /\ \/ StartCleanup /\ UNCHANGED <<mons, faults>>
       \/ PingdomCleanupStale \/ DatadogCleanupStale \/ BetterUptimeCleanupStale
       \/ GatusCleanupStale \/ UptimeKumaCleanupStale \/ UptimeRobotCleanupStale
    /\ UNCHANGED <<fixed, wins, ids, run, cancelled, trouble>>

Next ==
    Begin \/ Provision \/ Retrieve \/ Teardown \/ Deprovision \/ Cancel \/ Crash \/ Cleanup

Spec == Init /\ [][Next]_vars

(***************************************************************************)
(* Properties.                                                             *)
(***************************************************************************)
Creates == {"provision", "recreate", "retry"}
Failed(what) == \E t \in trouble : t[1] = what
Orphaned(pc) == {<<pc, "lost">>, <<pc, "unnamed">>} \cap trouble # {}

\* Every way out of a run takes its monitor along: a monitor outlives its
\* run only when the answer to its creation did not name it, or the delete of
\* the rollback failed, or when the runner reported all attempts to delete
\* it failed (runner.go:1111, the rollbacks under context.Background()).
LeaksAreReported ==
    run.pc = "idle" /\ run.out \in {"rejected", "failed", "gone", "mismatch"} =>
        \A m \in mons : m.by = run.n /\ run.n > 0 =>
            Failed("rollback") \/ \E pc \in Creates : Orphaned(pc)

\* uptimerobot.go:276: one lost answer to newMonitor does not leak the
\* monitor, even when the run is cancelled in between: the adapter looks for
\* it under a context of its own.  An answer without an id, and the creates
\* that follow a purge or a failed search, have no such second look.
LostCreateRecovered ==
    ad = "uptimerobot" /\ run.pc = "idle" /\ run.out \in {"failed", "gone"} =>
        \A m \in mons : m.by = run.n /\ run.n > 0 =>
            \/ Failed("adopt") \/ Failed("rollback") \/ Failed("recreate") \/ Failed("retry")
            \/ <<"provision", "unnamed">> \in trouble

\* No run leaves a monitor behind unnoticed, after a lost answer either.
NoSilentLeak == LeaksAreReported /\ LostCreateRecovered

\* A run watches the monitor it asked for.  Only an UptimeRobot create that
\* never arrived (or was cut off by a cancel), with a monitor of an earlier
\* run still in the account, makes it adopt one that may be configured
\* otherwise (uptimerobot.go:276).
HandleIsOurs ==
    run.pc \in {"live", "maintenance", "attach"} /\ ad # "jetmon-v1" =>
        \A m \in mons : m.id = run.mon =>
            m.by = run.n \/ (ad = "uptimerobot" /\ (Failed("provision") \/ cancelled))

\* A run that asked for a maintenance window does not go ahead without one
\* (the rollbacks of applyMaintenance, createMaintenance, createDowntime and
\* attachMWindow).
WindowIsSet ==
    run.pc = "live" /\ run.cfg.window # "none" =>
        /\ run.win # 0 \/ ad \in {"better-uptime", "jetmon-v2"}
        /\ ad \in {"better-uptime", "jetmon-v2", "uptimerobot"} =>
              \A m \in mons : m.id = run.mon => m.mw

\* A run that goes ahead has what it asked for: its own monitor, and the
\* maintenance window.
RunHasWhatItAsked == HandleIsOurs /\ WindowIsSet

\* No adapter reports `known' about a monitor that is not there: a failed
\* or impossible retrieval, of a monitor a cleanup has deleted under the run
\* for one, never looks like a service that saw nothing.
\* (gatus is excepted: its bridge answers for a missing endpoint.)
KnownMeansWatched ==
    [][run'.pc = "retrieved" /\ run'.out = "known" /\ ad # "gatus" /\ run' # run => Watched]_vars

\* What the adapters that are given single samples make of them.  The self-hosted
\* services report one outage whatever the order of the samples: a good one among
\* the failing ones, or one before the end of the failure, neither ends nor
\* splits it.  datadog takes every run of failing samples as an outage of its own.
SamplesMakeOutages ==
    run.pc = "retrieved" /\ run.out = "known" =>
        /\ ad = "gatus" => OneOutage(run.log, run.reports, States \ {"up"})
        /\ ad = "uptime-kuma" => OneOutage(run.log, run.reports, {"down"})
        /\ ad = "datadog" => OutagePerRun(run.log, run.reports)

\* A deleting cleanup that exits with 0 has left no benchmark monitor of the
\* fleet behind, page by page or not, unless a run was under way when it
\* started or has begun since.
CleanExitMeansClean ==
    cl.pc = "done" /\ StaleCleaner /\ ~cl.dry /\ ~cl.failed
    /\ cl.alone /\ run.n = cl.began =>
        \A m \in mons : ~(m.name = "bench" /\ MatchesURL(m))
=============================================================================

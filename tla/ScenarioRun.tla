----------------------------- MODULE ScenarioRun -----------------------------
(***************************************************************************)
(* One scenario run: runner.Run (internal/runner/runner.go) with the fleet *)
(* members it commands, the database it records in and the monitoring      *)
(* services it provisions.                                                 *)
(*                                                                         *)
(* Run is one goroutine; what makes it hard is everything it talks to.  A  *)
(* signal cancels its context at any moment: every database and HTTP call  *)
(* that takes the context and is in flight fails, carried out or not, and  *)
(* every later one fails at once.  A control call may fail with or without *)
(* having been carried out, and the member may carry it out after the      *)
(* client gave up.  A database write may fail with or without having been  *)
(* stored.  The process may be killed.  A failure on a member expires by   *)
(* itself.                                                                 *)
(*                                                                         *)
(* Clock: now counts from earliestStart, the instant at which the failure  *)
(* timeline is laid out.  Expiry on a member is eager here, which          *)
(* MemberProofs shows the registry's lazy expiry to implement.             *)
(***************************************************************************)
EXTENDS Naturals, Sequences, FiniteSets

CONSTANTS
    Scenarios,      \* scenarios, each with the environment its run meets
    GracePeriod,    \* pause between the last deactivation and retrieval
    Margin,         \* the 30 s that auto-expiry outlasts the grace period by
    Attempts,       \* deprovisionAttempts
    MaxLag,         \* bound on how late the harness handles a due event
    MaxTime         \* bound on the clock

FaultKinds == {"db", "control", "late", "adapter", "cancel", "crash"}

\* A scenario c: c.failures in file order, each with
\*    dns       injected on nameservers and probed
\*    members   the control members chosen for it, {} when the fleet has too
\*              few nameservers
\*    key       (type, host, path), its registry key
\*    offset    its start after earliestStart, duration its effective duration
\* c.adapters in the order of the monitor list, each with its service (a list
\* may repeat one), whether a capability gate lets it through (supported) and
\* the retrieve budget of the service (0: no limit); tlsOnly when every failure
\* is a tls_ one, for which DNS baselines are taken; maintenance when it
\* declares a maintenance window; faults, the kinds of fault its run may meet.
ASSUME ScenarioAssumption == \A c \in Scenarios :
    /\ Len(c.failures) \in Nat \ {0} /\ DOMAIN c.failures = 1..Len(c.failures)
    /\ Len(c.adapters) \in Nat /\ DOMAIN c.adapters = 1..Len(c.adapters)
    /\ \A f \in DOMAIN c.failures :
        /\ c.failures[f].dns \in BOOLEAN
        /\ c.failures[f].offset \in Nat /\ c.failures[f].duration \in Nat \ {0}
        /\ c.failures[f].members = {} => c.failures[f].dns
    /\ \A i \in DOMAIN c.adapters :
        c.adapters[i].supported \in BOOLEAN /\ c.adapters[i].budget \in Nat
    /\ c.tlsOnly \in BOOLEAN /\ c.maintenance \in BOOLEAN
    /\ c.faults \subseteq FaultKinds

ASSUME HarnessAssumption ==
    /\ GracePeriod \in Nat /\ Margin \in Nat
    /\ Attempts \in Nat \ {0}
    /\ MaxLag \in Nat \ {0} /\ MaxTime \in Nat

\* The harness is never later than the auto-expiry allows for.
ASSUME LagAssumption == MaxLag <= GracePeriod + Margin

VARIABLE sc     \* the scenario of this run

Failures == DOMAIN sc.failures
IsDNS(f) == sc.failures[f].dns
Members(f) == sc.failures[f].members
Key(f) == sc.failures[f].key
Offset(f) == sc.failures[f].offset
End(f) == Offset(f) + sc.failures[f].duration
AllMembers == UNION {Members(f) : f \in Failures}

Adapters == DOMAIN sc.adapters
NumAdapters == Len(sc.adapters)
Service(i) == sc.adapters[i].service
Budget(i) == sc.adapters[i].budget
Unsupported == {i \in Adapters : ~sc.adapters[i].supported}

TLSOnly == sc.tlsOnly
Maintenance == sc.maintenance
Faults == sc.faults

-----------------------------------------------------------------------------
(* The failure timeline: scheduleFailureEvents *)

failureEvents ==
    {[at |-> Offset(f), activate |-> TRUE, failure |-> f] : f \in Failures}
      \cup {[at |-> End(f), activate |-> FALSE, failure |-> f] : f \in Failures}

\* The order of the stable sort: by time, activations before deactivations at
\* one instant, file order among the rest.
Before(d, e) ==
    \/ d.at < e.at
    \/ d.at = e.at /\ d.activate /\ ~e.activate
    \/ d.at = e.at /\ d.activate = e.activate /\ d.failure < e.failure

latestFailureEndOffset ==
    CHOOSE t \in {End(f) : f \in Failures} : \A f \in Failures : End(f) <= t

\* Faulty variant: the expiry does not outlast the grace period.
targetAutoExpiryShort == latestFailureEndOffset

targetAutoExpiry == latestFailureEndOffset + GracePeriod + Margin

-----------------------------------------------------------------------------
VARIABLES
    pc,         \* where Run is
    ctx,        \* the run's context: "live" or "cancelled"
    now,        \* time since earliestStart
    reason,     \* resolutionReason, in memory
    run,        \* the scenario_runs row: "none", "open", or its reason
    truth,      \* ground_truth_events rows: <<event type, failure or 0>>
    reports,    \* monitor_reports rows: <<service, status or reason code>>
    next,       \* adapter the provision or retrieve loop is at
    handles,    \* adapters provisioned: the handles slice
    monitor,    \* adapters whose monitor exists at the service
    calls,      \* adapter calls made
    callsMade,  \* services the retrieve loop has called, with counts
    pending,    \* timeline events not yet handled
    ev,         \* the event being handled
    todo,       \* members the current control call has not reached
    active,     \* registry entries: [member, failure, expires]
    late,       \* control requests given up on but still to be carried out
    baselines,  \* dnsBaselineActive
    unstable,   \* some DNS baseline failed
    tries       \* deprovision attempts made

runVars == <<run, truth, reports>>
adapterVars == <<next, handles, monitor, calls, callsMade, tries>>
timelineVars == <<pending, ev, todo>>
fleetVars == <<active, late>>
baselineVars == <<baselines, unstable>>
vars == <<sc, pc, ctx, now, reason, runVars, adapterVars, timelineVars, fleetVars, baselineVars>>

NoEvent == [at |-> 0, activate |-> FALSE, failure |-> 0]

Init ==
    /\ sc \in Scenarios
    /\ pc = "insert_run" /\ ctx = "live" /\ now = 0
    /\ reason = "planned_completion"
    /\ run = "none" /\ truth = {} /\ reports = {}
    /\ next = 1 /\ handles = {} /\ monitor = {}
    /\ calls = [i \in Adapters |-> 0]
    /\ callsMade = [s \in {Service(i) : i \in Adapters} |-> 0]
    /\ tries = [i \in Adapters |-> 0]
    /\ pending = failureEvents /\ ev = NoEvent /\ todo = {}
    /\ active = {} /\ late = {}
    /\ baselines = 0 /\ unstable = FALSE

-----------------------------------------------------------------------------
(* Outcomes of the calls Run makes *)

Goto(l) == pc' = l /\ UNCHANGED reason
Fail(l, r) == pc' = l /\ reason' = r

\* SIGINT or SIGTERM: signal.NotifyContext cancels the context.
Interrupted == "cancel" \in Faults /\ ctx = "live" /\ ctx' = "cancelled"

\* A call under the run's context is in flight: a signal may fall before it
\* returns.
Calling == UNCHANGED ctx \/ Interrupted

\* A call that takes the context can succeed.
Reaches == ctx = "live"

\* A call can fail: its context is cancelled before it returns, or faults of its
\* kind happen.
MayFail(kind) == ctx' = "cancelled" \/ kind \in Faults

\* A failed call had its effect all the same: the answer was lost, or the
\* signal fell while it was on its way.  With a context cancelled beforehand
\* nothing is sent.
MayTakeEffect(kind) == ctx = "live" /\ (kind \in Faults \/ ctx' = "cancelled")

\* InsertGroundTruthEvent for the rows E, success.
Logged(E) == Reaches /\ truth' = truth \cup E

\* ... and failure.
NotLogged(E) ==
    /\ MayFail("db")
    /\ \/ UNCHANGED truth
       \/ MayTakeEffect("db") /\ truth' = truth \cup E

\* logMonitorReport for a set of rows: errors are only printed, so any of the
\* rows may be missing afterwards.
Reported(R) ==
    \E lost \in SUBSET R :
        /\ lost # {} => MayFail("db")
        /\ ctx = "cancelled" => lost = R
        /\ reports' = reports \cup (R \ lost)

\* The report on an adapter call that failed; the signal that made it fail
\* makes the report fail, too.
ErrorReported(s) ==
    /\ Reported({<<s, "adapter_error">>})
    /\ ctx' # ctx => reports' = reports

\* The registry of member m after Set, and after Remove, of f's key.
Removed(m, f) == {a \in active : ~(a.member = m /\ Key(a.failure) = Key(f))}
Set(m, f) == Removed(m, f) \cup
                 {[member |-> m, failure |-> f, expires |-> now + targetAutoExpiry]}

Request == [op : {"activate", "deactivate"}, member : AllMembers, failure : Failures]

\* A control call fails: not carried out, carried out with the answer lost, or
\* still to be carried out when the client stops waiting.
ControlFails(op, m, f, effect) ==
    /\ MayFail("control")
    /\ \/ UNCHANGED <<active, late>>
       \/ MayTakeEffect("control") /\ active' = effect /\ UNCHANGED late
       \/ /\ MayTakeEffect("late")
          /\ late' = late \cup {[op |-> op, member |-> m, failure |-> f]}
          /\ UNCHANGED active

-----------------------------------------------------------------------------
(* Before the timeline *)

AfterStart == IF TLSOnly THEN "baseline_pre" ELSE "maintenance"

InsertRun ==
    /\ pc = "insert_run" /\ Calling
    /\ \/ Reaches /\ run' = "open" /\ Goto("run_start")
       \/ MayFail("db") /\ run' \in {"none"} \cup (IF MayTakeEffect("db") THEN {"open"} ELSE {})
                        /\ Goto("done")
    /\ UNCHANGED <<sc, now, truth, reports, adapterVars, timelineVars,
                   fleetVars, baselineVars>>

\* logEvent run_start; on failure Run returns before any monitor exists, so the
\* only deferred call is the one that closes the row.
LogRunStart ==
    /\ pc = "run_start" /\ Calling
    /\ \/ Logged({<<"run_start", 0>>}) /\ Goto(AfterStart)
       \/ NotLogged({<<"run_start", 0>>}) /\ Fail("run_end", "ground_truth_log_failure")
    /\ UNCHANGED <<sc, now, run, reports, adapterVars, timelineVars,
                   fleetVars, baselineVars>>

\* dnsBaseline.record: sample the resolvers, note instability, store the row.
\* The samples themselves are not modelled; a cancelled context fails them.
Record(ok, fail, why) ==
    /\ Calling
    /\ unstable' \in {TRUE} \cup (IF Reaches THEN {unstable} ELSE {})
    /\ \/ Reaches /\ Goto(ok)
       \/ MayFail("db") /\ Fail(fail, why)
    /\ UNCHANGED <<sc, now, runVars, adapterVars, timelineVars, fleetVars>>

BaselinePreProvision ==
    /\ pc = "baseline_pre"
    /\ Record("maintenance", "run_end", "ground_truth_log_failure")
    /\ UNCHANGED baselines

\* maintenance_start and maintenance_end are both written now, for the
\* configured times.
LogMaintenanceStart ==
    /\ pc = "maintenance" /\ Calling
    /\ \/ ~Maintenance /\ Goto("provision") /\ UNCHANGED truth
       \/ /\ Maintenance
          /\ \/ Logged({<<"maintenance_start", 0>>}) /\ Goto("maintenance_end")
             \/ /\ NotLogged({<<"maintenance_start", 0>>})
                /\ Fail("run_end", "ground_truth_log_failure")
    /\ UNCHANGED <<sc, now, run, reports, adapterVars, timelineVars,
                   fleetVars, baselineVars>>

LogMaintenanceEnd ==
    /\ pc = "maintenance_end" /\ Calling
    /\ \/ Logged({<<"maintenance_end", 0>>}) /\ Goto("provision")
       \/ NotLogged({<<"maintenance_end", 0>>}) /\ Fail("run_end", "ground_truth_log_failure")
    /\ UNCHANGED <<sc, now, run, reports, adapterVars, timelineVars,
                   fleetVars, baselineVars>>

-----------------------------------------------------------------------------
(* provisionAdapters *)

Called(i) == calls' = [calls EXCEPT ![i] = @ + 1]

SkipUnsupported ==
    /\ pc = "provision" /\ next \in Unsupported /\ Calling
    /\ Reported({<<Service(next), "capability_mismatch">>})
    /\ next' = next + 1
    /\ Goto("provision")
    /\ UNCHANGED <<sc, now, run, truth, handles, monitor, calls, callsMade, tries,
                   timelineVars, fleetVars, baselineVars>>

\* A Provision that fails may have created the monitor, also when what makes it
\* fail is a signal that falls while its request is in flight; no handle is kept.
Provision ==
    /\ pc = "provision" /\ next \in Adapters \ Unsupported /\ Calling
    /\ \/ /\ Reaches
          /\ handles' = handles \cup {next}
          /\ monitor' = monitor \cup {next}
          /\ Goto("provision")
          /\ UNCHANGED reports
       \/ /\ MayFail("adapter")
          /\ monitor' \in {monitor} \cup
               (IF MayTakeEffect("adapter") THEN {monitor \cup {next}} ELSE {})
          /\ ErrorReported(Service(next))
          /\ Fail("provision", "adapter_error")
          /\ UNCHANGED handles
    /\ Called(next)
    /\ next' = next + 1
    /\ UNCHANGED <<sc, now, run, truth, callsMade, tries, timelineVars,
                   fleetVars, baselineVars>>

Provisioned ==
    /\ pc = "provision" /\ next > NumAdapters
    /\ next' = 1
    /\ IF handles = {} THEN Goto("deprovision") ELSE Goto("timeline")
    /\ UNCHANGED <<sc, ctx, now, runVars, handles, monitor, calls, callsMade, tries,
                   timelineVars, fleetVars, baselineVars>>

-----------------------------------------------------------------------------
(* The timeline *)

\* The event the loop is at.
AtHead(e) == e \in pending /\ \A d \in pending \ {e} : Before(e, d)

\* The wait for an event ends early when the context is cancelled.
AbortWait ==
    /\ pc = "timeline" /\ ctx = "cancelled"
    /\ \E e \in pending : AtHead(e) /\ now < e.at
    /\ Fail("deprovision", "aborted")
    /\ UNCHANGED <<sc, ctx, now, runVars, adapterVars, timelineVars, fleetVars, baselineVars>>

\* While a TLS failure is active the wait samples DNS on every tick of its
\* own; a failed write counts as an abort when the context is cancelled.
BaselinePeriodic ==
    /\ pc = "timeline" /\ TLSOnly /\ baselines > 0
    /\ \E e \in pending : AtHead(e) /\ now < e.at
    /\ Record("timeline", "deprovision",
              IF ctx' = "cancelled" THEN "aborted" ELSE "ground_truth_log_failure")
    /\ UNCHANGED baselines

\* An event is due.  An activation without members to send it to is reported
\* as an exposure failure (only a DNS failure can lack members).
Dispatch ==
    /\ pc = "timeline"
    /\ \E e \in pending :
        /\ AtHead(e) /\ now >= e.at
        /\ ev' = e
        /\ todo' = Members(e.failure)
        /\ \/ e.activate /\ Members(e.failure) = {} /\ Goto("log_exposure")
           \/ e.activate /\ Members(e.failure) # {} /\ Goto("activate")
           \/ ~e.activate /\ Goto("deactivate")
    /\ UNCHANGED <<sc, ctx, now, runVars, adapterVars, pending, fleetVars, baselineVars>>

Finished(e) == pending' = pending \ {e}

\* activateFailure: one member after the other, the first error ends the run.
\* Members already reached keep the failure.
Activate ==
    /\ pc = "activate" /\ Calling
    /\ \E m \in todo :
        \/ /\ Reaches
           /\ active' = Set(m, ev.failure)
           /\ todo' = todo \ {m}
           /\ Goto(IF todo' # {} THEN "activate"
                   ELSE IF IsDNS(ev.failure) THEN "probe" ELSE "log_start")
           /\ UNCHANGED late
        \/ /\ ControlFails("activate", m, ev.failure, Set(m, ev.failure))
           /\ Fail("deprovision", "adapter_error")
           /\ UNCHANGED todo
    /\ UNCHANGED <<sc, now, runVars, adapterVars, pending, ev, baselineVars>>

\* checkDNSFailureExposure asks every member; its verdict is left open.
Probe ==
    /\ pc = "probe"
    /\ \/ Goto("log_start") /\ UNCHANGED todo
       \/ Goto("undo") /\ todo' = Members(ev.failure)
    /\ UNCHANGED <<sc, ctx, now, runVars, adapterVars, pending, ev, fleetVars, baselineVars>>

\* deactivateFailure asks every member and only prints errors.
DeactivateAt(l, after) ==
    /\ pc = l /\ Calling
    /\ \E m \in todo :
        /\ todo' = todo \ {m}
        /\ Goto(IF todo' # {} THEN l ELSE after)
        /\ \/ Reaches /\ active' = Removed(m, ev.failure) /\ UNCHANGED late
           \/ ControlFails("deactivate", m, ev.failure, Removed(m, ev.failure))
    /\ UNCHANGED <<sc, now, runVars, adapterVars, pending, ev, baselineVars>>

Undo == DeactivateAt("undo", "log_exposure")
Deactivate == DeactivateAt("deactivate", "log_end")

\* Faulty variant: the exposure failure is recorded and the run goes on.
LogExposureGoOn ==
    /\ pc = "log_exposure" /\ Calling
    /\ Logged({<<"setup_exposure_failure", ev.failure>>})
    /\ Goto("log_start")
    /\ UNCHANGED <<sc, now, run, reports, adapterVars, timelineVars,
                   fleetVars, baselineVars>>

LogExposure ==
    /\ pc = "log_exposure" /\ Calling
    /\ \/ /\ Logged({<<"setup_exposure_failure", ev.failure>>})
          /\ Reported({<<Service(i), "failure_not_observable">> : i \in handles})
          /\ Fail("deprovision", "setup_exposure_failure")
       \/ /\ NotLogged({<<"setup_exposure_failure", ev.failure>>})
          /\ Fail("deprovision", "ground_truth_log_failure")
          /\ UNCHANGED reports
    /\ UNCHANGED <<sc, now, run, adapterVars, timelineVars, fleetVars, baselineVars>>

\* failure_start is recorded once the failure is in effect.
LogFailureStart ==
    /\ pc = "log_start" /\ Calling
    /\ \/ /\ Logged({<<"failure_start", ev.failure>>})
          /\ Finished(ev)
          /\ baselines' = IF TLSOnly THEN baselines + 1 ELSE baselines
          /\ Goto(IF TLSOnly THEN "baseline_start" ELSE "timeline")
       \/ /\ NotLogged({<<"failure_start", ev.failure>>})
          /\ Fail("deprovision", "ground_truth_log_failure")
          /\ UNCHANGED <<pending, baselines>>
    /\ UNCHANGED <<sc, now, run, reports, adapterVars, ev, todo, fleetVars, unstable>>

BaselineActiveStart ==
    /\ pc = "baseline_start"
    /\ Record("timeline", "deprovision", "ground_truth_log_failure")
    /\ UNCHANGED baselines

\* failure_end is recorded whether or not the members answered.
LogFailureEnd ==
    /\ pc = "log_end" /\ Calling
    /\ \/ /\ Logged({<<"failure_end", ev.failure>>})
          /\ Finished(ev)
          /\ Goto(IF TLSOnly THEN "baseline_end" ELSE "timeline")
       \/ /\ NotLogged({<<"failure_end", ev.failure>>})
          /\ Fail("deprovision", "ground_truth_log_failure")
          /\ UNCHANGED pending
    /\ UNCHANGED <<sc, now, run, reports, adapterVars, ev, todo, fleetVars, baselineVars>>

BaselinePostDeactivation ==
    /\ pc = "baseline_end"
    /\ Record("timeline", "deprovision", "ground_truth_log_failure")
    /\ baselines' = IF pc' = "timeline" /\ baselines > 0 THEN baselines - 1 ELSE baselines

\* The loop is over; from here the event's time is the end of the grace period.
TimelineDone ==
    /\ pc = "timeline" /\ pending = {}
    /\ ev' = [at |-> now + GracePeriod, activate |-> FALSE, failure |-> 0]
    /\ Goto("grace")
    /\ UNCHANGED <<sc, ctx, now, runVars, adapterVars, pending, todo, fleetVars, baselineVars>>

-----------------------------------------------------------------------------
(* Grace period and retrieval *)

Grace ==
    /\ pc = "grace"
    /\ \/ now >= ev.at /\ Goto(IF TLSOnly THEN "baseline_recovery" ELSE "retrieve")
       \/ ctx = "cancelled" /\ Fail("deprovision", "aborted")
    /\ UNCHANGED <<sc, ctx, now, runVars, adapterVars, timelineVars, fleetVars, baselineVars>>

\* The last DNS sample; instability seen in any sample marks the run and every
\* provisioned service.
BaselinePostRecovery ==
    /\ pc = "baseline_recovery" /\ Calling
    /\ unstable' \in {TRUE} \cup (IF Reaches THEN {unstable} ELSE {})
    /\ \/ /\ Reaches
          /\ pc' = "retrieve"
          /\ IF unstable'
               THEN /\ reason' = IF reason = "planned_completion"
                                   THEN "setup_environment_dns_unstable" ELSE reason
                    /\ Reported({<<Service(i), "setup_environment_dns_unstable">> : i \in handles})
               ELSE UNCHANGED <<reason, reports>>
       \/ /\ MayFail("db")
          /\ Fail("deprovision", "ground_truth_log_failure")
          /\ UNCHANGED reports
    /\ UNCHANGED <<sc, now, run, truth, adapterVars, timelineVars, fleetVars, baselines>>

\* One turn of the retrieve loop.  The budget counts retrieve calls of one
\* service only, so it can run out only when the list names a service twice.
Retrieve ==
    /\ pc = "retrieve" /\ next \in handles /\ Calling
    /\ LET s == Service(next)
       IN  \/ /\ Budget(next) > 0 /\ callsMade[s] >= Budget(next)
              /\ Reported({<<s, "budget_exceeded">>})
              /\ Fail("retrieve", "budget_exceeded")
              /\ UNCHANGED <<calls, callsMade>>
           \/ /\ ~(Budget(next) > 0 /\ callsMade[s] >= Budget(next))
              /\ callsMade' = [callsMade EXCEPT ![s] = @ + 1]
              /\ Called(next)
              /\ \/ Reaches /\ Reported({<<s, "retrieved">>}) /\ Goto("retrieve")
                 \/ /\ MayFail("adapter")
                    /\ ErrorReported(s)
                    /\ Fail("retrieve", "adapter_error")
    /\ next' = next + 1
    /\ UNCHANGED <<sc, now, run, truth, handles, monitor, tries, timelineVars, fleetVars,
                   baselineVars>>

RetrieveSkip ==
    /\ pc = "retrieve" /\ next \in Adapters \ handles
    /\ next' = next + 1
    /\ UNCHANGED <<sc, pc, ctx, now, reason, runVars, handles, monitor, calls, callsMade, tries,
                   timelineVars, fleetVars, baselineVars>>

Retrieved ==
    /\ pc = "retrieve" /\ next > NumAdapters
    /\ Goto("deprovision")
    /\ UNCHANGED <<sc, ctx, now, runVars, adapterVars, timelineVars, fleetVars, baselineVars>>

-----------------------------------------------------------------------------
(* Deferred calls, last one first *)

\* Faulty variants: a cleanup that is tried for ever, and one under the run's
\* own context.
DeprovisionForever(i) ==
    /\ pc = "deprovision" /\ i \in handles
    /\ \/ /\ monitor' = monitor \ {i}
          /\ handles' = handles \ {i}
          /\ UNCHANGED tries
       \/ /\ "adapter" \in Faults
          /\ tries' = [tries EXCEPT ![i] = IF @ + 1 = Attempts THEN 0 ELSE @ + 1]
          /\ UNCHANGED <<monitor, handles>>
    /\ UNCHANGED <<sc, pc, ctx, now, reason, runVars, next, calls, callsMade, timelineVars,
                   fleetVars, baselineVars>>

DeprovisionRunContext(i) ==
    /\ pc = "deprovision" /\ i \in handles /\ tries[i] < Attempts
    /\ Called(i)
    /\ IF Reaches
         THEN monitor' = monitor \ {i} /\ handles' = handles \ {i} /\ UNCHANGED tries
         ELSE tries' = [tries EXCEPT ![i] = @ + 1] /\ UNCHANGED <<monitor, handles>>
    /\ UNCHANGED <<sc, pc, ctx, now, reason, runVars, next, callsMade, timelineVars, fleetVars,
                   baselineVars>>

\* deprovisionOne for one handle, in a goroutine of its own and under a fresh
\* context: a cancelled run still cleans up.
DeprovisionAttempt(i) ==
    /\ pc = "deprovision" /\ i \in handles /\ tries[i] < Attempts
    /\ Called(i)
    /\ \/ /\ monitor' = monitor \ {i}
          /\ handles' = handles \ {i}
          /\ UNCHANGED tries
       \/ /\ "adapter" \in Faults
          /\ monitor' \in {monitor, monitor \ {i}}
          /\ tries' = [tries EXCEPT ![i] = @ + 1]
          /\ UNCHANGED handles
    /\ UNCHANGED <<sc, pc, ctx, now, reason, runVars, next, callsMade, timelineVars, fleetVars,
                   baselineVars>>

\* Faulty variant: cleanup errors are not counted.
DeprovisionedQuietly ==
    /\ pc = "deprovision" /\ \A i \in handles : tries[i] = Attempts
    /\ Goto("run_end")
    /\ UNCHANGED <<sc, ctx, now, runVars, adapterVars, timelineVars, fleetVars, baselineVars>>

\* wg.Wait is over: the handles left are the errors.
Deprovisioned ==
    /\ pc = "deprovision" /\ \A i \in handles : tries[i] = Attempts
    /\ pc' = "run_end"
    /\ reason' = IF handles # {} /\ reason = "planned_completion" THEN "cleanup_error" ELSE reason
    /\ UNCHANGED <<sc, ctx, now, runVars, adapterVars, timelineVars, fleetVars, baselineVars>>

LogRunEnd ==
    /\ pc = "run_end" /\ Calling
    /\ Logged({<<"run_end", 0>>}) \/ NotLogged({<<"run_end", 0>>})
    /\ Goto("close_run")
    /\ UNCHANGED <<sc, now, run, reports, adapterVars, timelineVars,
                   fleetVars, baselineVars>>

\* CloseRun takes the run's own context.
CloseRun ==
    /\ pc = "close_run" /\ Calling
    /\ \/ Reaches /\ run' = reason
       \/ MayFail("db") /\ run' \in {run} \cup (IF MayTakeEffect("db") THEN {reason} ELSE {})
    /\ Goto("done")
    /\ UNCHANGED <<sc, now, truth, reports, adapterVars, timelineVars,
                   fleetVars, baselineVars>>

-----------------------------------------------------------------------------
(* The world around the run *)

Ended == {"done", "killed"}

\* A signal between two calls, or in a wait.
Cancel ==
    /\ pc \notin Ended
    /\ Interrupted
    /\ UNCHANGED <<sc, pc, now, reason, runVars, adapterVars, timelineVars,
                   fleetVars, baselineVars>>

\* The process is killed: no deferred call runs.
Kill ==
    /\ "crash" \in Faults /\ pc \notin Ended
    /\ pc' = "killed"
    /\ UNCHANGED <<sc, ctx, now, reason, runVars, adapterVars, timelineVars,
                   fleetVars, baselineVars>>

\* A member carries out a request its client gave up on, within MaxLag of the
\* last moment at which one can have been sent.
CarryOutLate ==
    /\ now <= latestFailureEndOffset + MaxLag
    /\ \E r \in late :
        /\ late' = late \ {r}
        /\ active' = IF r.op = "activate" THEN Set(r.member, r.failure)
                                          ELSE Removed(r.member, r.failure)
    /\ UNCHANGED <<sc, pc, ctx, now, reason, runVars, adapterVars, timelineVars, baselineVars>>

Laid == {"insert_run", "run_start", "baseline_pre", "maintenance", "maintenance_end",
         "provision"}
InTimeline == {"timeline", "activate", "probe", "undo", "log_exposure", "log_start",
               "baseline_start", "deactivate", "log_end", "baseline_end"}

\* Faulty variant: entries do not expire.
TickNoExpiry ==
    /\ now < MaxTime /\ pc \notin Laid
    /\ pc \in InTimeline => pending # {} /\ \A e \in pending : now < e.at + MaxLag
    /\ now' = now + 1
    /\ UNCHANGED <<sc, pc, ctx, reason, runVars, adapterVars, timelineVars,
                   fleetVars, baselineVars>>

\* Time passes, once the timeline is laid out, and entries expire.  The harness
\* keeps up with the timeline to within MaxLag and leaves the loop at once.
Tick ==
    /\ now < MaxTime /\ pc \notin Laid
    /\ pc \in InTimeline => pending # {} /\ \A e \in pending : now < e.at + MaxLag
    /\ now' = now + 1
    /\ active' = {a \in active : now' <= a.expires}
    /\ UNCHANGED <<sc, pc, ctx, reason, runVars, adapterVars, timelineVars, late, baselineVars>>

Terminated ==
    /\ pc \in Ended
    /\ UNCHANGED vars

Harness ==
    \/ InsertRun \/ LogRunStart \/ BaselinePreProvision
    \/ LogMaintenanceStart \/ LogMaintenanceEnd
    \/ SkipUnsupported \/ Provision \/ Provisioned
    \/ AbortWait \/ BaselinePeriodic \/ Dispatch \/ Activate \/ Probe \/ Undo \/ LogExposure
    \/ LogFailureStart \/ BaselineActiveStart
    \/ Deactivate \/ LogFailureEnd \/ BaselinePostDeactivation
    \/ TimelineDone \/ Grace \/ BaselinePostRecovery
    \/ Retrieve \/ RetrieveSkip \/ Retrieved
    \/ \E i \in Adapters : DeprovisionAttempt(i)
    \/ Deprovisioned \/ LogRunEnd \/ CloseRun

Next == Harness \/ Cancel \/ Kill \/ CarryOutLate \/ Tick \/ Terminated

Spec == Init /\ [][Next]_vars

\* The goroutine keeps running (every call it makes has a timeout) and time
\* passes.
FairSpec == Spec /\ WF_vars(Harness) /\ WF_vars(Tick)

-----------------------------------------------------------------------------
(* Properties *)

Reasons == {"planned_completion", "ground_truth_log_failure", "adapter_error", "aborted",
            "setup_exposure_failure", "setup_environment_dns_unstable", "budget_exceeded",
            "cleanup_error"}

Entry == [member : AllMembers, failure : Failures, expires : Nat]

\* event_type of ground_truth_events, and status or reason_code of monitor_reports.
EventTypes == {"run_start", "run_end", "maintenance_start", "maintenance_end",
               "failure_start", "failure_end", "setup_exposure_failure"}
ReportCodes == {"retrieved", "capability_mismatch", "adapter_error", "budget_exceeded",
                "failure_not_observable", "setup_environment_dns_unstable"}

Services == {Service(i) : i \in Adapters}

\* Every variable of a run holds a value of its type.
TypeOK ==
    /\ pc \in Laid \cup InTimeline \cup Ended \cup
              {"grace", "baseline_recovery", "retrieve", "deprovision", "run_end", "close_run"}
    /\ ctx \in {"live", "cancelled"}
    /\ now \in Nat
    /\ reason \in Reasons
    /\ run \in {"none", "open"} \cup Reasons
    /\ truth \subseteq EventTypes \X (Failures \cup {0})
    /\ reports \subseteq Services \X ReportCodes
    /\ next \in 1..(NumAdapters + 1)
    /\ handles \subseteq Adapters /\ monitor \subseteq Adapters
    /\ calls \in [Adapters -> Nat] /\ tries \in [Adapters -> 0..Attempts]
    /\ callsMade \in [Services -> Nat]
    /\ pending \subseteq failureEvents
    /\ ev \in failureEvents \cup [at : Nat, activate : {FALSE}, failure : {0}]
    /\ todo \subseteq AllMembers
    /\ active \subseteq Entry
    /\ late \subseteq Request
    /\ baselines \in Nat /\ unstable \in BOOLEAN

\* The log has an open window for f.
Open(f) == <<"failure_start", f>> \in truth /\ <<"failure_end", f>> \notin truth

\* Run is taking f down.
Closing(f) == pc \in {"deactivate", "log_end"} /\ ev.failure = f

InEffect(m, f) == \E a \in active : a.member = m /\ a.failure = f

\* What the ground-truth log says is what the fleet does: from the moment
\* failure_start is stored until Run starts to take the failure down, every
\* member it was injected on still has it, whatever was cancelled, lost or
\* carried out late in between, and however late within MaxLag Run is.  The
\* auto-expiry margin of Run ("must outlast the latest deactivate plus a
\* generous safety margin") is what this rests on.
GroundTruthHolds ==
    pc \in InTimeline =>
        \A f \in Failures : Open(f) /\ ~Closing(f) => \A m \in Members(f) : InEffect(m, f)

\* A run recorded as planned_completion has the complete window of every failure
\* in its log, or none at all when every service was turned away by a capability
\* gate and no failure was injected; it has left no monitor behind at any
\* service and, as long as the database stores what it is given, has a verdict
\* from every service: its retrieved state or a capability mismatch.
PlannedIsComplete ==
    run = "planned_completion" =>
        /\ \A f \in Failures :
             LET window == {<<"failure_start", f>>, <<"failure_end", f>>}
             IN  IF Unsupported = Adapters THEN window \cap truth = {}
                                           ELSE window \subseteq truth
        /\ monitor = {}
        /\ "db" \notin Faults =>
              \A i \in Adapters : {<<Service(i), "retrieved">>,
                                   <<Service(i), "capability_mismatch">>} \cap reports # {}

\* A failure the DNS probes could not see is never scored: its window is not in
\* the log, no service's state is retrieved for the run, and the row says why.
ExposureFailureExcludes ==
    \A f \in Failures : <<"setup_exposure_failure", f>> \in truth =>
        /\ <<"failure_start", f>> \notin truth
        /\ \A i \in Adapters : <<Service(i), "retrieved">> \notin reports
        /\ run \in {"open", "setup_exposure_failure", "ground_truth_log_failure"}

\* Every run comes to an end, however it is disturbed.
RunEnds == <>(pc \in Ended)

\* Whatever happens to the harness, it killed included, and to its messages,
\* the fleet is free of injected failures from some time on: the auto-expiry
\* is "a safety net even if the harness fails to send a deactivate command".
FleetRecovers == <>[](active = {})

\* A run that ends by itself, cancelled or not, deletes at services that answer
\* every monitor whose Provision returned: cleanup does not depend on the context
\* it was reached with.  What a signal can leave behind is one monitor, the one
\* whose creation it fell into: Run has no handle of it, asks the service for
\* nothing more, and cannot close its row.
MonitorsDeleted ==
    pc = "done" /\ "adapter" \notin Faults =>
        /\ \A i, j \in monitor : i = j
        /\ \A i \in monitor : calls[i] = 1
        /\ monitor # {} => ctx = "cancelled" /\ run = "open"
=============================================================================

-------------------------- MODULE ScenarioRunProofs --------------------------
(***************************************************************************)
(* Proofs about ScenarioRun, for any scenarios, members, adapters, budgets *)
(* and faults: what the ground-truth log reports as active is in effect,   *)
(* a run that closes as planned has its whole timeline and a verdict from  *)
(* every service, a failure that was not seen excludes the run, cleanup    *)
(* leaves no monitor, and the fleet is free once the expiries are over.    *)
(*                                                                         *)
(* The argument follows the one control flow of Run.  The event at hand is *)
(* the first of those left, so the log and the timeline still to come are  *)
(* complementary (LogInv).  From there the proofs go separate ways: what   *)
(* is logged decides the close of the run (RowInv, ExposureInv), what      *)
(* Provision did decides what cleanup has to undo (HandleInv, MonitorInv)  *)
(* and what may be retrieved (VerdictInv, CompleteInv), and the expiry of  *)
(* an activation outlasts the last event by more than Run can be late, so  *)
(* that an entry leaves a registry only by a deactivation (ClockInv,       *)
(* LateInv, EffectInv).                                                    *)
(*                                                                         *)
(* The last of these needs DistinctKeys: two failures on one member must   *)
(* have different registry keys, for an activation replaces the entry of   *)
(* its key and the end of either failure removes it.                       *)
(***************************************************************************)
EXTENDS ScenarioRun, WellFoundedInduction, TLAPS

-----------------------------------------------------------------------------
(* The invariants *)

\* The phases of a run after the timeline.
Watching == {"grace", "baseline_recovery", "retrieve"}
Leaving == {"deprovision", "run_end", "close_run"}

\* An event of the timeline is being handled.
Activating == {"activate", "probe", "undo", "log_exposure", "log_start"}
Deactivating == {"deactivate", "log_end"}

\* While an event is being handled it is the first of those that are left, and
\* the members still to be called are members of its failure.
EventAtHand ==
    /\ pc \in Activating \cup Deactivating => AtHead(ev)
    /\ pc \in Activating => ev.activate
    /\ pc \in Deactivating => ~ev.activate
    /\ pc \in {"activate", "undo", "deactivate"} => todo \subseteq Members(ev.failure)
    /\ pc \in {"probe", "log_start"} => todo = {}

\* The invariant every proof starts from.
RunTypes == sc \in Scenarios /\ TypeOK /\ EventAtHand

\* The row an event leaves in the log.
Row(e) == <<IF e.activate THEN "failure_start" ELSE "failure_end", e.failure>>

\* The log and what is left of the timeline go together: what is done is in the
\* log, what is left is not (until a write whose answer was lost ends the run),
\* and a failure ends after it began.
LogInv ==
    /\ pc \in Laid => pending = failureEvents
    /\ \A e \in failureEvents : e \notin pending => Row(e) \in truth
    /\ pc \in Laid \cup InTimeline => \A e \in pending : Row(e) \notin truth
    /\ pc \in Watching => pending = {}
    /\ \A d \in pending, e \in failureEvents :
         d.activate /\ ~e.activate /\ d.failure = e.failure => e \in pending

\* The row of the run is open from its insertion to its close.
RowInv ==
    /\ pc = "insert_run" => run = "none"
    /\ pc \in (Laid \ {"insert_run"}) \cup InTimeline \cup Watching \cup Leaving => run = "open"
    /\ run \in Reasons => pc = "done"

\* Nothing is retrieved before the grace period is over; an exposure failure in
\* the log means that Run is on its way out, for a reason that says so.
ExposureInv ==
    /\ pc \in Laid \cup InTimeline \cup {"grace", "baseline_recovery"} =>
         \A s \in Services : <<s, "retrieved">> \notin reports
    /\ \A f \in Failures : <<"setup_exposure_failure", f>> \in truth =>
         /\ pc \in Leaving \cup Ended
         /\ reason \in {"setup_exposure_failure", "ground_truth_log_failure"}
    /\ ExposureFailureExcludes

\* Handles are kept of services that were let through only, and of all of those
\* as long as nothing went wrong.
HandleInv ==
    /\ handles \cap Unsupported = {}
    /\ pc \in Laid \ {"provision"} => handles = {}
    /\ pc \in InTimeline \cup Watching => handles # {}
    /\ pc \in (Laid \ {"provision"}) \cup InTimeline \cup {"grace", "baseline_recovery"} => next = 1
    /\ reason = "planned_completion" =>
         /\ pc = "provision" => \A i \in Adapters \ Unsupported : i < next => i \in handles
         /\ pc \in InTimeline \cup Watching => Adapters \ Unsupported \subseteq handles

\* Every monitor has its handle when nothing went wrong, and the handles are gone
\* once cleanup is over, also when the adapters do not fail.
MonitorInv ==
    /\ "adapter" \notin Faults => \A i \in Adapters : tries[i] = 0
    /\ reason = "planned_completion" => monitor \subseteq handles
    /\ reason = "planned_completion" \/ "adapter" \notin Faults =>
         (pc \in {"run_end", "close_run", "done"} => handles = {})

\* The monitors that exist without a handle.
Leaked == monitor \ handles

\* When the adapters do not fail, a monitor is without a handle only when the
\* signal fell into its creation: there is one signal, and no call after it.
LeakInv ==
    /\ pc \in Laid => \A i \in Adapters : i >= next => calls[i] = 0
    /\ "adapter" \notin Faults =>
         /\ \A i, j \in Leaked : i = j
         /\ \A i \in Leaked : calls[i] = 1
         /\ Leaked # {} => ctx = "cancelled" /\ run = "open"

Mismatch(i) == <<Service(i), "capability_mismatch">> \in reports
Verdict(i) == <<Service(i), "retrieved">> \in reports \/ Mismatch(i)

\* The reports a run has stored so far when nothing went wrong.
VerdictInv ==
    ctx = "live" /\ "db" \notin Faults /\ reason = "planned_completion" =>
        /\ pc = "provision" => \A i \in Unsupported : i < next => Mismatch(i)
        /\ pc \in InTimeline \cup Watching => \A i \in Unsupported : Mismatch(i)
        /\ pc = "retrieve" => \A i \in Adapters : i < next => Verdict(i)
        /\ pc \in Leaving => \A i \in Adapters : Verdict(i)

\* A run that is leaving with nothing wrong is through with the timeline, unless
\* every service was turned away, in which case it never entered it.
CompleteInv ==
    /\ reason = "planned_completion" /\ pc \in Leaving => pending = {} \/ Unsupported = Adapters
    /\ Unsupported = Adapters =>
         \A f \in Failures : {<<"failure_start", f>>, <<"failure_end", f>>} \cap truth = {}
    /\ PlannedIsComplete

\* The last moment at which an entry on a member can still be in effect.
FreedBy == latestFailureEndOffset + MaxLag + targetAutoExpiry

\* Entries outlast the timeline by more than Run can be late, and no more than
\* one expiry period beyond the last moment at which one can be made.
ClockInv ==
    /\ pc \in Laid => now = 0 /\ late = {}
    /\ pc \in InTimeline => now <= latestFailureEndOffset + MaxLag
    /\ \A a \in active : /\ a.member \in Members(a.failure)
                         /\ targetAutoExpiry <= a.expires /\ a.expires <= FreedBy
                         /\ now <= a.expires
    /\ \A r \in late : r.member \in Members(r.failure)

\* A deactivation that is still to be carried out is of a failure that is being
\* taken down, or whose end is in the log.
LateInv ==
    pc \in InTimeline =>
        \A r \in late : r.op = "deactivate" =>
            \/ <<"failure_end", r.failure>> \in truth
            \/ pc \in Deactivating \cup {"undo", "log_exposure"} /\ ev.failure = r.failure

\* Failures on one member have registry keys of their own.
DistinctKeys ==
    \A f, g \in Failures : f # g /\ Members(f) \cap Members(g) # {} => Key(f) # Key(g)

\* Failure f has an entry of member m among the entries A.
Present(A, m, f) == \E a \in A : a.member = m /\ a.failure = f

\* The members reached so far have the failure that is being activated, and
\* what the log reports as active is.
EffectInv ==
    /\ pc \in {"activate", "probe", "log_start"} =>
         \A m \in Members(ev.failure) \ todo : InEffect(m, ev.failure)
    /\ GroundTruthHolds

-----------------------------------------------------------------------------
(* The scenario *)

\* A nonempty set of numbers has a least element.
LEMMA LeastNumber ==
    ASSUME NEW S \in SUBSET Nat, S # {}
    PROVE  \E m \in S : \A s \in S : m <= s
<1> DEFINE R == OpToRel(<, Nat)
<1>1. PICK m \in S : \A s \in S : ~(<<s, m>> \in R)
  <2>1. IsWellFoundedOn(R, Nat)
    BY NatLessThanWellFounded
  <2> HIDE DEF R
  <2> QED BY <2>1, WFMin
<1>2. \A s \in S : ~(s < m)
  BY <1>1 DEF OpToRel
<1> QED BY <1>2

\* What ScenarioAssumption says of the scenario of a run.
LEMMA ScenarioFacts ==
    ASSUME sc \in Scenarios
    PROVE  /\ \E n \in Nat \ {0} : Failures = 1..n
           /\ NumAdapters \in Nat /\ Adapters = 1..NumAdapters
           /\ \A f \in Failures : /\ f \in Nat \ {0}
                                  /\ Offset(f) \in Nat /\ End(f) \in Nat
                                  /\ Offset(f) < End(f)
BY ScenarioAssumption DEF Failures, NumAdapters, Adapters, Offset, End

\* One of the failures ends last, and latestFailureEndOffset is its end.
LEMMA LatestEnd ==
    ASSUME sc \in Scenarios
    PROVE  /\ latestFailureEndOffset \in Nat
           /\ \A f \in Failures : End(f) <= latestFailureEndOffset
<1>1. PICK n \in Nat \ {0} : Failures = 1..n
  BY ScenarioFacts
<1>2. \A f \in 1..n : End(f) \in Nat
  BY <1>1, ScenarioFacts
<1> DEFINE HasLast(k) == \E f \in 1..k : \A g \in 1..k : End(g) <= End(f)
           Without == {k \in 1..n : ~HasLast(k)}
<1>3. Without = {}
  <2> SUFFICES ASSUME Without # {} PROVE FALSE
    OBVIOUS
  <2>1. Without \in SUBSET Nat
    OBVIOUS
  <2>2. PICK k \in Without : \A j \in Without : k <= j
    <3> HIDE DEF Without
    <3> QED BY <2>1, LeastNumber
  <2>3. k \in 1..n /\ ~HasLast(k)
    BY <2>2
  <2>4. k # 1
    <3> SUFFICES ASSUME k = 1 PROVE HasLast(1)
      BY <2>3
    <3>1. 1 \in 1..1 /\ \A g \in 1..1 : End(g) <= End(1)
      BY <1>2
    <3> QED BY <3>1
  <2>5. k - 1 \in 1..n /\ k - 1 \notin Without
    <3>1. k - 1 \in 1..n /\ ~(k <= k - 1)
      BY <2>3, <2>4
    <3> HIDE DEF Without
    <3> QED BY <2>2, <3>1
  <2>6. PICK f \in 1..(k - 1) : \A g \in 1..(k - 1) : End(g) <= End(f)
    BY <2>5
  <2>7. End(f) \in Nat /\ End(k) \in Nat /\ f \in 1..k /\ k \in 1..k
    BY <1>2, <2>3, <2>6
  <2>8. \A g \in 1..k : g = k \/ g \in 1..(k - 1)
    BY <2>3
  <2>9. CASE End(k) <= End(f)
    BY <2>3, <2>6, <2>7, <2>8, <2>9
  <2>10. CASE End(f) <= End(k)
    <3>1. \A g \in 1..(k - 1) : End(g) \in Nat
      BY <1>2, <2>3
    <3>2. \A g \in 1..k : End(g) <= End(k)
      BY <2>6, <2>7, <2>8, <2>10, <3>1
    <3> QED BY <2>3, <2>7, <3>2
  <2> QED BY <2>7, <2>9, <2>10
<1>4. HasLast(n)
  <2>1. n \in 1..n
    OBVIOUS
  <2> QED BY <1>3, <2>1
<1>5. PICK f \in Failures : \A g \in Failures : End(g) <= End(f)
  BY <1>1, <1>4
<1>6. \E t \in {End(g) : g \in Failures} : \A g \in Failures : End(g) <= t
  BY <1>5
<1>7. /\ latestFailureEndOffset \in {End(g) : g \in Failures}
      /\ \A g \in Failures : End(g) <= latestFailureEndOffset
  BY <1>6 DEF latestFailureEndOffset
<1> QED BY <1>1, <1>2, <1>7

\* The expiry of an activation outlasts every event by GracePeriod + Margin.
LEMMA ExpiryFacts ==
    ASSUME sc \in Scenarios
    PROVE  /\ targetAutoExpiry \in Nat
           /\ latestFailureEndOffset + MaxLag <= targetAutoExpiry
BY LatestEnd, HarnessAssumption, LagAssumption DEF targetAutoExpiry

\* An event is the start or the end of one failure.
LEMMA EventFacts ==
    ASSUME sc \in Scenarios, NEW e \in failureEvents
    PROVE  /\ e.failure \in Failures /\ e.activate \in BOOLEAN /\ e.at \in Nat
           /\ e.at = IF e.activate THEN Offset(e.failure) ELSE End(e.failure)
           /\ e.at <= latestFailureEndOffset
           /\ e = [at |-> e.at, activate |-> e.activate, failure |-> e.failure]
<1>1. /\ e.failure \in Failures /\ e.activate \in BOOLEAN
      /\ e.at = IF e.activate THEN Offset(e.failure) ELSE End(e.failure)
      /\ e = [at |-> e.at, activate |-> e.activate, failure |-> e.failure]
  <2>1. CASE \E f \in Failures : e = [at |-> Offset(f), activate |-> TRUE, failure |-> f]
    BY <2>1
  <2>2. CASE \E f \in Failures : e = [at |-> End(f), activate |-> FALSE, failure |-> f]
    BY <2>2
  <2> QED BY <2>1, <2>2 DEF failureEvents
<1>2. Offset(e.failure) \in Nat /\ End(e.failure) \in Nat /\ Offset(e.failure) < End(e.failure)
  BY <1>1, ScenarioFacts
<1> QED BY <1>1, <1>2, LatestEnd

-----------------------------------------------------------------------------
(* Types *)

\* A step does not touch the scenario.
LEMMA ScenarioFixed == [Next]_vars => sc' = sc
<1> SUFFICES ASSUME [Next]_vars PROVE sc' = sc
  OBVIOUS
<1>1. CASE Harness
  BY <1>1 DEF Harness, InsertRun, LogRunStart, BaselinePreProvision, LogMaintenanceStart,
     LogMaintenanceEnd, SkipUnsupported, Provision, Provisioned, AbortWait, BaselinePeriodic,
     Dispatch, Activate, Probe, Undo, LogExposure, LogFailureStart, BaselineActiveStart,
     Deactivate, LogFailureEnd, BaselinePostDeactivation, TimelineDone, Grace,
     BaselinePostRecovery, Retrieve, RetrieveSkip, Retrieved, DeprovisionAttempt, Deprovisioned,
     LogRunEnd, CloseRun, Record, DeactivateAt
<1>2. CASE Cancel \/ Kill \/ CarryOutLate \/ Tick \/ UNCHANGED vars
  BY <1>2 DEF Cancel, Kill, CarryOutLate, Tick, vars
<1> QED BY <1>1, <1>2 DEF Next, Terminated

\* The names and types that depend on the scenario alone keep their values.
LEMMA ScenarioTypesFixed ==
    sc' = sc => /\ Adapters' = Adapters /\ NumAdapters' = NumAdapters /\ Services' = Services
                /\ Failures' = Failures /\ failureEvents' = failureEvents
                /\ AllMembers' = AllMembers /\ Entry' = Entry /\ Request' = Request
                /\ Unsupported' = Unsupported /\ Faults' = Faults
BY DEF Adapters, NumAdapters, Services, Service, Failures, failureEvents, Offset, End,
       AllMembers, Members, Entry, Request, Unsupported, Faults

\* The steps that move the control state or end the run.
LEMMA ControlFrame ==
    ASSUME [Next]_vars
    PROVE  Harness \/ Cancel \/ Kill \/ UNCHANGED <<pc, ctx, reason, run>>
BY DEF Next, CarryOutLate, Tick, Terminated, vars, runVars

\* The steps that write to the ground-truth log.
LEMMA LogFrame ==
    ASSUME [Next]_vars
    PROVE  \/ LogRunStart \/ LogMaintenanceStart \/ LogMaintenanceEnd \/ LogExposure
           \/ LogFailureStart \/ LogFailureEnd \/ LogRunEnd
           \/ UNCHANGED truth
BY DEF Next, Harness, InsertRun, BaselinePreProvision,
     SkipUnsupported, Provision, Provisioned, AbortWait, BaselinePeriodic,
     Dispatch, Activate, Probe, Undo, BaselineActiveStart,
     Deactivate, BaselinePostDeactivation, TimelineDone, Grace,
     BaselinePostRecovery, Retrieve, RetrieveSkip, Retrieved, DeprovisionAttempt, Deprovisioned,
     CloseRun, Record, DeactivateAt, Cancel, Kill, CarryOutLate, Tick, Terminated,
     vars, runVars

\* The steps that write service reports.
LEMMA ReportFrame ==
    ASSUME [Next]_vars
    PROVE  \/ SkipUnsupported \/ Provision \/ LogExposure \/ BaselinePostRecovery \/ Retrieve
           \/ UNCHANGED reports
BY DEF Next, Harness, InsertRun, LogRunStart, BaselinePreProvision, LogMaintenanceStart,
     LogMaintenanceEnd, Provisioned, AbortWait, BaselinePeriodic,
     Dispatch, Activate, Probe, Undo, LogFailureStart, BaselineActiveStart,
     Deactivate, LogFailureEnd, BaselinePostDeactivation, TimelineDone, Grace,
     RetrieveSkip, Retrieved, DeprovisionAttempt, Deprovisioned,
     LogRunEnd, CloseRun, Record, DeactivateAt, Cancel, Kill, CarryOutLate, Tick, Terminated,
     vars, runVars

\* The steps that change what a service holds or is asked for.
LEMMA AdapterFrame ==
    ASSUME [Next]_vars
    PROVE  \/ SkipUnsupported \/ Provision \/ Provisioned \/ Retrieve \/ RetrieveSkip
           \/ \E i \in Adapters : DeprovisionAttempt(i)
           \/ UNCHANGED adapterVars
BY DEF Next, Harness, InsertRun, LogRunStart, BaselinePreProvision, LogMaintenanceStart,
     LogMaintenanceEnd, AbortWait, BaselinePeriodic,
     Dispatch, Activate, Probe, Undo, LogExposure, LogFailureStart, BaselineActiveStart,
     Deactivate, LogFailureEnd, BaselinePostDeactivation, TimelineDone, Grace,
     BaselinePostRecovery, Retrieved, Deprovisioned,
     LogRunEnd, CloseRun, Record, DeactivateAt, Cancel, Kill, CarryOutLate, Tick, Terminated,
     vars

\* The steps that move along the timeline.
LEMMA TimelineFrame ==
    ASSUME [Next]_vars
    PROVE  \/ Dispatch \/ Activate \/ Probe \/ Undo \/ LogFailureStart
           \/ Deactivate \/ LogFailureEnd \/ TimelineDone
           \/ UNCHANGED timelineVars
BY DEF Next, Harness, InsertRun, LogRunStart, BaselinePreProvision, LogMaintenanceStart,
     LogMaintenanceEnd, SkipUnsupported, Provision, Provisioned, AbortWait, BaselinePeriodic,
     LogExposure, BaselineActiveStart, BaselinePostDeactivation, Grace,
     BaselinePostRecovery, Retrieve, RetrieveSkip, Retrieved, DeprovisionAttempt, Deprovisioned,
     LogRunEnd, CloseRun, Record, Cancel, Kill, CarryOutLate, Tick, Terminated, vars

\* The steps that change the members' registries.
LEMMA FleetFrame ==
    ASSUME [Next]_vars
    PROVE  Activate \/ Undo \/ Deactivate \/ CarryOutLate \/ Tick \/ UNCHANGED fleetVars
BY DEF Next, Harness, InsertRun, LogRunStart, BaselinePreProvision, LogMaintenanceStart,
     LogMaintenanceEnd, SkipUnsupported, Provision, Provisioned, AbortWait, BaselinePeriodic,
     Dispatch, Probe, LogExposure, LogFailureStart, BaselineActiveStart,
     LogFailureEnd, BaselinePostDeactivation, TimelineDone, Grace,
     BaselinePostRecovery, Retrieve, RetrieveSkip, Retrieved, DeprovisionAttempt, Deprovisioned,
     LogRunEnd, CloseRun, Record, Cancel, Kill, Terminated, vars

\* The steps that take a baseline reading.
LEMMA BaselineFrame ==
    ASSUME [Next]_vars
    PROVE  \/ BaselinePreProvision \/ BaselinePeriodic \/ LogFailureStart \/ BaselineActiveStart
           \/ BaselinePostDeactivation \/ BaselinePostRecovery
           \/ UNCHANGED baselineVars
BY DEF Next, Harness, InsertRun, LogRunStart, LogMaintenanceStart,
     LogMaintenanceEnd, SkipUnsupported, Provision, Provisioned, AbortWait,
     Dispatch, Activate, Probe, Undo, LogExposure,
     Deactivate, LogFailureEnd, TimelineDone, Grace,
     Retrieve, RetrieveSkip, Retrieved, DeprovisionAttempt, Deprovisioned,
     LogRunEnd, CloseRun, DeactivateAt, Cancel, Kill, CarryOutLate, Tick, Terminated, vars

\* The steps that write the row of the run.
LEMMA RunFrame ==
    ASSUME [Next]_vars
    PROVE  InsertRun \/ CloseRun \/ UNCHANGED run
BY DEF Next, Harness, LogRunStart, BaselinePreProvision, LogMaintenanceStart,
     LogMaintenanceEnd, SkipUnsupported, Provision, Provisioned, AbortWait, BaselinePeriodic,
     Dispatch, Activate, Probe, Undo, LogExposure, LogFailureStart, BaselineActiveStart,
     Deactivate, LogFailureEnd, BaselinePostDeactivation, TimelineDone, Grace,
     BaselinePostRecovery, Retrieve, RetrieveSkip, Retrieved, DeprovisionAttempt, Deprovisioned,
     LogRunEnd, Record, DeactivateAt, Cancel, Kill, CarryOutLate, Tick, Terminated, vars, runVars

\* The steps that let time pass.
LEMMA ClockFrame ==
    ASSUME [Next]_vars
    PROVE  Tick \/ UNCHANGED now
BY DEF Next, Harness, InsertRun, LogRunStart, BaselinePreProvision, LogMaintenanceStart,
     LogMaintenanceEnd, SkipUnsupported, Provision, Provisioned, AbortWait, BaselinePeriodic,
     Dispatch, Activate, Probe, Undo, LogExposure, LogFailureStart, BaselineActiveStart,
     Deactivate, LogFailureEnd, BaselinePostDeactivation, TimelineDone, Grace,
     BaselinePostRecovery, Retrieve, RetrieveSkip, Retrieved, DeprovisionAttempt, Deprovisioned,
     LogRunEnd, CloseRun, Record, DeactivateAt, Cancel, Kill, CarryOutLate, Terminated, vars

\* The control state, its context and its outcome keep their types.
LEMMA ControlType ==
    ASSUME TypeOK, [Next]_vars
    PROVE  /\ pc' \in Laid \cup InTimeline \cup Ended \cup
                 {"grace", "baseline_recovery", "retrieve", "deprovision", "run_end", "close_run"}
           /\ ctx' \in {"live", "cancelled"} /\ reason' \in Reasons
           /\ run' \in {"none", "open"} \cup Reasons
<1> USE DEF Goto, Fail, Calling, Interrupted, Laid, InTimeline, Ended, Reasons, runVars
<1>0. /\ pc \in Laid \cup InTimeline \cup Ended \cup
                 {"grace", "baseline_recovery", "retrieve", "deprovision", "run_end", "close_run"}
      /\ ctx \in {"live", "cancelled"} /\ reason \in Reasons /\ run \in {"none", "open"} \cup Reasons
  BY DEF TypeOK
<1>1. CASE \/ InsertRun \/ LogRunStart \/ BaselinePreProvision
           \/ LogMaintenanceStart \/ LogMaintenanceEnd
  BY <1>0, <1>1 DEF InsertRun, LogRunStart, BaselinePreProvision, Record,
     LogMaintenanceStart, LogMaintenanceEnd, AfterStart
<1>2. CASE SkipUnsupported \/ Provision \/ Provisioned
  BY <1>0, <1>2 DEF SkipUnsupported, Provision, Provisioned
<1>3. CASE AbortWait \/ BaselinePeriodic \/ Dispatch
  BY <1>0, <1>3 DEF AbortWait, BaselinePeriodic, Record, Dispatch
<1>4. CASE Activate \/ Probe \/ Undo \/ Deactivate
  BY <1>0, <1>4 DEF Activate, Probe, Undo, Deactivate, DeactivateAt
<1>5. CASE LogExposure \/ LogFailureStart \/ LogFailureEnd
  BY <1>0, <1>5 DEF LogExposure, LogFailureStart, LogFailureEnd
<1>6. CASE BaselineActiveStart \/ BaselinePostDeactivation
  BY <1>0, <1>6 DEF BaselineActiveStart, BaselinePostDeactivation, Record
<1>7. CASE TimelineDone \/ Grace \/ BaselinePostRecovery
  BY <1>0, <1>7 DEF TimelineDone, Grace, BaselinePostRecovery
<1>8. CASE Retrieve \/ RetrieveSkip \/ Retrieved
  BY <1>0, <1>8 DEF Retrieve, RetrieveSkip, Retrieved
<1>9. CASE (\E i \in Adapters : DeprovisionAttempt(i)) \/ Deprovisioned
  BY <1>0, <1>9 DEF DeprovisionAttempt, Deprovisioned
<1>10. CASE LogRunEnd \/ CloseRun
  BY <1>0, <1>10 DEF LogRunEnd, CloseRun
<1>11. CASE Cancel \/ Kill \/ UNCHANGED <<pc, ctx, reason, run>>
  BY <1>0, <1>11 DEF Cancel, Kill
<1> QED
  BY ControlFrame, <1>1, <1>2, <1>3, <1>4, <1>5, <1>6, <1>7, <1>8, <1>9, <1>10, <1>11 DEF Harness

\* The event being handled stays the first one left until it is taken off.
LEMMA EventAtHandStep ==
    ASSUME TypeOK, EventAtHand, [Next]_vars
    PROVE  EventAtHand'
<1> USE ScenarioFixed DEF EventAtHand, Activating, Deactivating, AtHead, Goto, Fail
<1>1. CASE Dispatch
  BY <1>1 DEF Dispatch, Members
<1>2. CASE Activate \/ Probe \/ Undo \/ Deactivate
  BY <1>2 DEF Activate, Probe, Undo, Deactivate, DeactivateAt, Members
<1>3. CASE LogFailureStart \/ LogFailureEnd \/ TimelineDone \/ LogExposure
  BY <1>3 DEF LogFailureStart, LogFailureEnd, TimelineDone, LogExposure
<1>4. CASE InsertRun \/ LogRunStart \/ BaselinePreProvision
           \/ LogMaintenanceStart \/ LogMaintenanceEnd
           \/ SkipUnsupported \/ Provision \/ Provisioned
  BY <1>4 DEF InsertRun, LogRunStart, BaselinePreProvision, Record,
     LogMaintenanceStart, LogMaintenanceEnd, AfterStart, SkipUnsupported, Provision, Provisioned
<1>5. CASE AbortWait \/ BaselinePeriodic \/ BaselineActiveStart \/ BaselinePostDeactivation
  BY <1>5 DEF AbortWait, BaselinePeriodic, BaselineActiveStart, BaselinePostDeactivation, Record
<1>6. CASE Grace \/ BaselinePostRecovery \/ Retrieve \/ RetrieveSkip \/ Retrieved
  BY <1>6 DEF Grace, BaselinePostRecovery, Retrieve, RetrieveSkip, Retrieved
<1>7. CASE (\E i \in Adapters : DeprovisionAttempt(i)) \/ Deprovisioned \/ LogRunEnd \/ CloseRun
  BY <1>7 DEF DeprovisionAttempt, Deprovisioned, LogRunEnd, CloseRun
<1>8. CASE Cancel \/ Kill \/ CarryOutLate \/ Tick \/ UNCHANGED vars
  BY <1>8 DEF Cancel, Kill, CarryOutLate, Tick, vars, timelineVars, Members
<1> QED
  BY <1>1, <1>2, <1>3, <1>4, <1>5, <1>6, <1>7, <1>8 DEF Next, Harness, Terminated

\* The ground-truth log keeps its type.
LEMMA LogType ==
    ASSUME sc \in Scenarios, TypeOK, EventAtHand, [Next]_vars
    PROVE  truth' \subseteq EventTypes \X (Failures \cup {0})
<1>1. truth \subseteq EventTypes \X (Failures \cup {0})
  BY DEF TypeOK
<1>2. CASE LogRunStart \/ LogMaintenanceStart \/ LogMaintenanceEnd \/ LogRunEnd
  BY <1>1, <1>2 DEF LogRunStart, LogMaintenanceStart, LogMaintenanceEnd, LogRunEnd,
     Logged, NotLogged, EventTypes
<1>3. CASE LogExposure \/ LogFailureStart \/ LogFailureEnd
  <2>1. ev.failure \in Failures
    <3>1. ev \in failureEvents
      BY <1>3 DEF EventAtHand, Activating, Deactivating, AtHead, TypeOK,
                  LogExposure, LogFailureStart, LogFailureEnd
    <3> QED BY <3>1, EventFacts
  <2> QED
    BY <1>1, <1>3, <2>1 DEF LogExposure, LogFailureStart, LogFailureEnd, Logged, NotLogged, EventTypes
<1> QED BY LogFrame, <1>1, <1>2, <1>3

\* The services' reports keep their types.
LEMMA ReportType ==
    ASSUME sc \in Scenarios, TypeOK, [Next]_vars
    PROVE  reports' \subseteq Services \X ReportCodes
<1>1. reports \subseteq Services \X ReportCodes /\ handles \subseteq Adapters
  BY DEF TypeOK
<1>2. \A i \in Adapters : Service(i) \in Services
  BY DEF Services
<1>3. ASSUME NEW R, R \subseteq Services \X ReportCodes, Reported(R)
      PROVE  reports' \subseteq Services \X ReportCodes
  BY <1>1, <1>3 DEF Reported
<1>5. CASE SkipUnsupported
  <2>1. {<<Service(next), "capability_mismatch">>} \subseteq Services \X ReportCodes
    BY <1>2, <1>5 DEF SkipUnsupported, Unsupported, ReportCodes
  <2> QED BY <1>3, <1>5, <2>1 DEF SkipUnsupported
<1>6. CASE Provision
  <2>1. {<<Service(next), "adapter_error">>} \subseteq Services \X ReportCodes
    BY <1>2, <1>6 DEF Provision, ReportCodes
  <2> QED BY <1>1, <1>3, <1>6, <2>1 DEF Provision, ErrorReported
<1>7. CASE LogExposure
  <2>1. {<<Service(i), "failure_not_observable">> : i \in handles} \subseteq Services \X ReportCodes
    BY <1>1, <1>2 DEF ReportCodes
  <2> QED BY <1>1, <1>3, <1>7, <2>1 DEF LogExposure
<1>8. CASE BaselinePostRecovery
  <2>1. {<<Service(i), "setup_environment_dns_unstable">> : i \in handles}
           \subseteq Services \X ReportCodes
    BY <1>1, <1>2 DEF ReportCodes
  <2> QED BY <1>1, <1>3, <1>8, <2>1 DEF BaselinePostRecovery
<1>9. CASE Retrieve
  <2>1. /\ {<<Service(next), "budget_exceeded">>} \subseteq Services \X ReportCodes
        /\ {<<Service(next), "retrieved">>} \subseteq Services \X ReportCodes
        /\ {<<Service(next), "adapter_error">>} \subseteq Services \X ReportCodes
    BY <1>1, <1>2, <1>9 DEF Retrieve, ReportCodes
  <2> QED BY <1>1, <1>3, <1>9, <2>1 DEF Retrieve, ErrorReported
<1> QED BY ReportFrame, <1>1, <1>5, <1>6, <1>7, <1>8, <1>9

\* The services' handles and retry counts keep their types.
LEMMA AdapterType ==
    ASSUME sc \in Scenarios, TypeOK, [Next]_vars
    PROVE  /\ next' \in 1..(NumAdapters + 1)
           /\ handles' \subseteq Adapters /\ monitor' \subseteq Adapters
           /\ calls' \in [Adapters -> Nat] /\ tries' \in [Adapters -> 0..Attempts]
           /\ callsMade' \in [Services -> Nat]
<1>1. /\ next \in 1..(NumAdapters + 1)
      /\ handles \subseteq Adapters /\ monitor \subseteq Adapters
      /\ calls \in [Adapters -> Nat] /\ tries \in [Adapters -> 0..Attempts]
      /\ callsMade \in [Services -> Nat]
  BY DEF TypeOK
<1>2. NumAdapters \in Nat /\ Adapters = 1..NumAdapters
  BY ScenarioFacts
<1>3. next \in Adapters => next + 1 \in 1..(NumAdapters + 1)
  BY <1>2
<1>4. \A i \in Adapters : Service(i) \in Services
  BY DEF Services
<1>5. CASE SkipUnsupported \/ RetrieveSkip
  BY <1>1, <1>3, <1>5 DEF SkipUnsupported, RetrieveSkip, Unsupported
<1>6. CASE Provision
  <2>1. calls' \in [Adapters -> Nat]
    BY <1>1, <1>6 DEF Provision, Called
  <2>2. handles' \subseteq Adapters /\ monitor' \subseteq Adapters
    BY <1>1, <1>6 DEF Provision
  <2> QED BY <1>1, <1>3, <1>6, <2>1, <2>2 DEF Provision
<1>7. CASE Provisioned
  BY <1>1, <1>2, <1>7 DEF Provisioned
<1>8. CASE Retrieve
  <2>1. next \in Adapters /\ next + 1 \in 1..(NumAdapters + 1)
    BY <1>1, <1>3, <1>8 DEF Retrieve
  <2>2. calls' \in [Adapters -> Nat]
    BY <1>1, <1>8, <2>1 DEF Retrieve, Called
  <2>3. callsMade' \in [Services -> Nat]
    BY <1>1, <1>4, <1>8, <2>1 DEF Retrieve
  <2> QED BY <1>1, <1>8, <2>1, <2>2, <2>3 DEF Retrieve
<1>9. CASE \E i \in Adapters : DeprovisionAttempt(i)
  <2>1. PICK i \in Adapters : DeprovisionAttempt(i)
    BY <1>9
  <2>2. calls' \in [Adapters -> Nat]
    BY <1>1, <2>1 DEF DeprovisionAttempt, Called
  <2>3. tries' \in [Adapters -> 0..Attempts]
    <3>1. tries[i] \in 0..Attempts /\ tries[i] < Attempts => tries[i] + 1 \in 0..Attempts
      BY HarnessAssumption
    <3> QED BY <1>1, <2>1, <3>1 DEF DeprovisionAttempt
  <2> QED BY <1>1, <2>1, <2>2, <2>3 DEF DeprovisionAttempt
<1> QED BY AdapterFrame, <1>1, <1>5, <1>6, <1>7, <1>8, <1>9 DEF adapterVars

\* The timeline and the members still to be called keep their types.
LEMMA TimelineType ==
    ASSUME sc \in Scenarios, TypeOK, EventAtHand, [Next]_vars
    PROVE  /\ pending' \subseteq failureEvents
           /\ ev' \in failureEvents \cup [at : Nat, activate : {FALSE}, failure : {0}]
           /\ todo' \subseteq AllMembers
<1>1. /\ pending \subseteq failureEvents
      /\ ev \in failureEvents \cup [at : Nat, activate : {FALSE}, failure : {0}]
      /\ todo \subseteq AllMembers
  BY DEF TypeOK
<1>2. \A e \in failureEvents : Members(e.failure) \subseteq AllMembers
  BY EventFacts DEF AllMembers
<1>3. CASE Dispatch
  BY <1>1, <1>2, <1>3 DEF Dispatch
<1>4. CASE Activate \/ Undo \/ Deactivate
  BY <1>1, <1>4 DEF Activate, Undo, Deactivate, DeactivateAt
<1>5. CASE Probe
  <2>1. ev \in failureEvents
    BY <1>1, <1>5 DEF Probe, EventAtHand, Activating, AtHead
  <2> QED BY <1>1, <1>2, <1>5, <2>1 DEF Probe
<1>6. CASE LogFailureStart \/ LogFailureEnd
  BY <1>1, <1>6 DEF LogFailureStart, LogFailureEnd, Finished
<1>7. CASE TimelineDone
  <2>1. now + GracePeriod \in Nat
    BY HarnessAssumption DEF TypeOK
  <2> QED BY <1>1, <1>7, <2>1 DEF TimelineDone
<1> QED BY TimelineFrame, <1>1, <1>3, <1>4, <1>5, <1>6, <1>7 DEF timelineVars

\* Registry entries after Set and Remove.
LEMMA RegistryTypes ==
    ASSUME sc \in Scenarios, TypeOK, NEW m \in AllMembers, NEW f \in Failures
    PROVE  Set(m, f) \subseteq Entry /\ Removed(m, f) \subseteq Entry
<1>1. active \subseteq Entry /\ now + targetAutoExpiry \in Nat
  BY ExpiryFacts DEF TypeOK
<1> QED BY <1>1 DEF Set, Removed, Entry

\* The registries and the requests on their way keep their types.
LEMMA FleetType ==
    ASSUME sc \in Scenarios, TypeOK, EventAtHand, [Next]_vars
    PROVE  active' \subseteq Entry /\ late' \subseteq Request
<1>1. active \subseteq Entry /\ late \subseteq Request /\ todo \subseteq AllMembers
  BY DEF TypeOK
<1>2. ASSUME NEW m \in AllMembers, NEW f \in Failures, NEW op \in {"activate", "deactivate"},
             NEW effect, effect \subseteq Entry, ControlFails(op, m, f, effect)
      PROVE  active' \subseteq Entry /\ late' \subseteq Request
  BY <1>1, <1>2 DEF ControlFails, Request
<1>3. CASE Activate \/ Undo \/ Deactivate
  <2>1. ev.failure \in Failures
    <3>1. ev \in failureEvents
      BY <1>3 DEF TypeOK, EventAtHand, Activating, Deactivating, AtHead, Activate, Undo, Deactivate,
                  DeactivateAt
    <3> QED BY <3>1, EventFacts
  <2>2. \A m \in todo : /\ m \in AllMembers
                        /\ Set(m, ev.failure) \subseteq Entry /\ Removed(m, ev.failure) \subseteq Entry
    BY <1>1, <2>1, RegistryTypes
  <2>3. CASE Activate
    <3>1. PICK m \in todo :
            \/ active' = Set(m, ev.failure) /\ UNCHANGED late
            \/ ControlFails("activate", m, ev.failure, Set(m, ev.failure))
      BY <2>3 DEF Activate
    <3> QED BY <1>1, <1>2, <2>1, <2>2, <3>1
  <2>4. CASE Undo \/ Deactivate
    <3>1. PICK m \in todo :
            \/ active' = Removed(m, ev.failure) /\ UNCHANGED late
            \/ ControlFails("deactivate", m, ev.failure, Removed(m, ev.failure))
      BY <2>4 DEF Undo, Deactivate, DeactivateAt
    <3> QED BY <1>1, <1>2, <2>1, <2>2, <3>1
  <2> QED BY <1>3, <2>3, <2>4
<1>4. CASE CarryOutLate
  <2>1. PICK r \in late :
          /\ late' = late \ {r}
          /\ active' = IF r.op = "activate" THEN Set(r.member, r.failure)
                                            ELSE Removed(r.member, r.failure)
    BY <1>4 DEF CarryOutLate
  <2>2. r.member \in AllMembers /\ r.failure \in Failures
    BY <1>1 DEF Request
  <2> QED BY <1>1, <2>1, <2>2, RegistryTypes
<1>5. CASE Tick
  BY <1>1, <1>5 DEF Tick
<1> QED BY FleetFrame, <1>1, <1>3, <1>4, <1>5 DEF fleetVars

\* The baseline readings keep their types.
LEMMA BaselineType ==
    ASSUME TypeOK, [Next]_vars
    PROVE  baselines' \in Nat /\ unstable' \in BOOLEAN
<1>1. baselines \in Nat /\ unstable \in BOOLEAN
  BY DEF TypeOK
<1>2. CASE BaselinePreProvision \/ BaselinePeriodic \/ BaselineActiveStart
  BY <1>1, <1>2 DEF BaselinePreProvision, BaselinePeriodic, BaselineActiveStart, Record
<1>3. CASE LogFailureStart
  <2>1. baselines' \in Nat
    BY <1>1, <1>3 DEF LogFailureStart
  <2> QED BY <1>1, <1>3, <2>1 DEF LogFailureStart
<1>4. CASE BaselinePostDeactivation
  <2>1. unstable' \in BOOLEAN
    BY <1>1, <1>4 DEF BaselinePostDeactivation, Record
  <2>2. baselines' \in Nat
    BY <1>1, <1>4 DEF BaselinePostDeactivation
  <2> QED BY <2>1, <2>2
<1>5. CASE BaselinePostRecovery
  BY <1>1, <1>5 DEF BaselinePostRecovery
<1> QED BY BaselineFrame, <1>1, <1>2, <1>3, <1>4, <1>5 DEF baselineVars

\* A step keeps the types, given the same of each group of variables.
LEMMA TypeStep ==
    ASSUME RunTypes, [Next]_vars
    PROVE  RunTypes'
<1> USE DEF RunTypes
<1>1. sc' = sc
  BY ScenarioFixed
<1>2. now' \in Nat
  BY ClockFrame DEF TypeOK, Tick
<1>3. TypeOK'
  BY <1>1, <1>2, ScenarioTypesFixed, ControlType, LogType, ReportType, AdapterType, TimelineType,
     FleetType, BaselineType DEF TypeOK, Ended, Laid, InTimeline, Reasons, EventTypes, ReportCodes
<1> QED BY <1>1, <1>3, EventAtHandStep

\* A run starts with its variables of their types.
LEMMA TypeInit == Init => RunTypes
<1> SUFFICES ASSUME Init PROVE RunTypes
  OBVIOUS
<1>1. sc \in Scenarios /\ NumAdapters \in Nat
  BY ScenarioFacts DEF Init
<1>2. EventAtHand
  BY DEF Init, EventAtHand, Activating, Deactivating
<1>3. calls \in [Adapters -> Nat] /\ tries \in [Adapters -> 0..Attempts]
  BY HarnessAssumption DEF Init
<1>4. callsMade \in [Services -> Nat]
  BY DEF Init, Services
<1>5. next \in 1..(NumAdapters + 1)
  BY <1>1 DEF Init
<1>6. ev \in [at : Nat, activate : {FALSE}, failure : {0}]
  BY DEF Init, NoEvent
<1> QED
  BY <1>1, <1>2, <1>3, <1>4, <1>5, <1>6 DEF Init, RunTypes, TypeOK, Laid, Reasons

\* The type invariant, with the event at hand, holds throughout.
LEMMA TypesHold == Spec => []RunTypes
BY TypeInit, TypeStep, PTL DEF Spec

\* Every variable of a run keeps its type, whatever the scenarios and the bounds.
THEOREM TypeCorrect == Spec => []TypeOK
<1>1. RunTypes => TypeOK
  BY DEF RunTypes
<1> QED BY TypesHold, <1>1, PTL

-----------------------------------------------------------------------------
(* Phases *)

\* The phases follow one another: setting up, timeline, watching, leaving, end.
\* The timeline is entered with a handle and left with nothing pending or for
\* good; what went wrong stays so.
LEMMA PhaseStep ==
    ASSUME [Next]_vars
    PROVE  /\ pc' \in Laid => pc \in Laid
           /\ pc' \in InTimeline => pc \in InTimeline \/ (Provisioned /\ handles # {})
           /\ pc' \in Watching => pc \in Watching \/ TimelineDone
           /\ pc \in Leaving => pc' \in Leaving \cup Ended
           /\ pc \in Ended => pc' = pc
           /\ reason' = "planned_completion" => reason = "planned_completion"
           /\ ctx' = "live" => ctx = "live"
<1> USE DEF Goto, Fail, Calling, Interrupted, Laid, InTimeline, Watching, Leaving, Ended
<1>1. CASE \/ InsertRun \/ LogRunStart \/ BaselinePreProvision
           \/ LogMaintenanceStart \/ LogMaintenanceEnd
  BY <1>1 DEF InsertRun, LogRunStart, BaselinePreProvision, Record,
     LogMaintenanceStart, LogMaintenanceEnd, AfterStart
<1>2. CASE SkipUnsupported \/ Provision \/ Provisioned
  BY <1>2 DEF SkipUnsupported, Provision, Provisioned
<1>3. CASE AbortWait \/ BaselinePeriodic \/ Dispatch
  BY <1>3 DEF AbortWait, BaselinePeriodic, Record, Dispatch
<1>4. CASE Activate \/ Probe \/ Undo \/ Deactivate
  BY <1>4 DEF Activate, Probe, Undo, Deactivate, DeactivateAt
<1>5. CASE LogExposure \/ LogFailureStart \/ LogFailureEnd
  BY <1>5 DEF LogExposure, LogFailureStart, LogFailureEnd
<1>6. CASE BaselineActiveStart \/ BaselinePostDeactivation
  BY <1>6 DEF BaselineActiveStart, BaselinePostDeactivation, Record
<1>7. CASE TimelineDone \/ Grace \/ BaselinePostRecovery
  BY <1>7 DEF TimelineDone, Grace, BaselinePostRecovery
<1>8. CASE Retrieve \/ RetrieveSkip \/ Retrieved
  BY <1>8 DEF Retrieve, RetrieveSkip, Retrieved
<1>9. CASE (\E i \in Adapters : DeprovisionAttempt(i)) \/ Deprovisioned
  BY <1>9 DEF DeprovisionAttempt, Deprovisioned
<1>10. CASE LogRunEnd \/ CloseRun
  BY <1>10 DEF LogRunEnd, CloseRun
<1>11. CASE Cancel \/ Kill \/ CarryOutLate \/ Tick \/ UNCHANGED vars
  BY <1>11 DEF Cancel, Kill, CarryOutLate, Tick, vars
<1> QED
  BY <1>1, <1>2, <1>3, <1>4, <1>5, <1>6, <1>7, <1>8, <1>9, <1>10, <1>11 DEF Next, Harness, Terminated

-----------------------------------------------------------------------------
(* The log *)

\* Events of a timeline differ in what they start or end.
LEMMA RowFacts ==
    ASSUME sc \in Scenarios, NEW d \in failureEvents, NEW e \in failureEvents
    PROVE  /\ Row(d) = Row(e) => d = e
           /\ d.activate /\ ~e.activate /\ d.failure = e.failure => Before(d, e) /\ ~Before(e, d)
<1>1. /\ d.failure \in Failures /\ d.activate \in BOOLEAN /\ d.at \in Nat
      /\ d.at = IF d.activate THEN Offset(d.failure) ELSE End(d.failure)
      /\ d = [at |-> d.at, activate |-> d.activate, failure |-> d.failure]
  BY EventFacts
<1>2. /\ e.failure \in Failures /\ e.activate \in BOOLEAN /\ e.at \in Nat
      /\ e.at = IF e.activate THEN Offset(e.failure) ELSE End(e.failure)
      /\ e = [at |-> e.at, activate |-> e.activate, failure |-> e.failure]
  BY EventFacts
<1>3. ASSUME Row(d) = Row(e) PROVE d = e
  <2>1. d.failure = e.failure /\ (d.activate <=> e.activate)
    BY <1>3 DEF Row
  <2>2. d.activate = e.activate
    BY <1>1, <1>2, <2>1
  <2>3. d.at = e.at
    BY <1>1, <1>2, <2>1, <2>2
  <2> QED BY <1>1, <1>2, <2>1, <2>2, <2>3, Zenon
<1>4. ASSUME d.activate, ~e.activate, d.failure = e.failure PROVE Before(d, e) /\ ~Before(e, d)
  <2>1. d.at = Offset(d.failure) /\ e.at = End(d.failure)
    BY <1>1, <1>2, <1>4
  <2>2. d.at < e.at /\ d.at \in Nat /\ e.at \in Nat
    BY <1>1, <1>2, <2>1, ScenarioFacts
  <2>3. ~(e.at < d.at) /\ e.at # d.at
    BY <2>2
  <2> QED BY <2>2, <2>3, Zenon DEF Before
<1> QED BY <1>3, <1>4

\* Rows in the log stay there.
LEMMA LogGrows ==
    ASSUME [Next]_vars
    PROVE  truth \subseteq truth'
BY LogFrame DEF LogRunStart, LogMaintenanceStart, LogMaintenanceEnd, LogExposure,
   LogFailureStart, LogFailureEnd, LogRunEnd, Logged, NotLogged

\* Only the two steps that write a failure's row write one, and only they take
\* its event off the timeline.
LEMMA RowWritten ==
    ASSUME RunTypes, [Next]_vars, NEW e \in failureEvents
    PROVE  \/ LogFailureStart /\ ev.activate /\ ev \in failureEvents
           \/ LogFailureEnd /\ ~ev.activate /\ ev \in failureEvents
           \/ (Row(e) \in truth' => Row(e) \in truth) /\ pending' = pending
<1>1. CASE LogFailureStart \/ LogFailureEnd
  BY <1>1 DEF LogFailureStart, LogFailureEnd, RunTypes, TypeOK, EventAtHand, Activating,
     Deactivating, AtHead
<1>2. CASE LogRunStart \/ LogMaintenanceStart \/ LogMaintenanceEnd \/ LogExposure \/ LogRunEnd
  BY <1>2 DEF LogRunStart, LogMaintenanceStart, LogMaintenanceEnd, LogExposure, LogRunEnd,
     Logged, NotLogged, Row, timelineVars
<1>3. CASE UNCHANGED truth /\ ~LogFailureStart /\ ~LogFailureEnd
  BY <1>3, TimelineFrame DEF Dispatch, Activate, Probe, Undo, Deactivate, DeactivateAt,
     TimelineDone, timelineVars
<1> QED BY <1>1, <1>2, <1>3, LogFrame

\* A step keeps what the log says of the timeline done so far.
LEMMA LogStep ==
    ASSUME RunTypes, LogInv, [Next]_vars
    PROVE  LogInv'
<1>1. sc' = sc /\ failureEvents' = failureEvents /\ sc \in Scenarios
  BY ScenarioFixed, ScenarioTypesFixed DEF RunTypes
<1>2. pending \subseteq failureEvents
  BY DEF RunTypes, TypeOK
<1>3. pc' \in Laid \cup InTimeline => pc \in Laid \cup InTimeline
  BY PhaseStep DEF Provisioned, Laid
<1>4. CASE LogFailureStart \/ LogFailureEnd
  <2>1. AtHead(ev) /\ ev \in failureEvents /\ pc \in InTimeline
    BY <1>2, <1>4 DEF LogFailureStart, LogFailureEnd, RunTypes, EventAtHand, Activating,
       Deactivating, AtHead, InTimeline
  <2>2. \/ truth' = truth \cup {Row(ev)} /\ pending' = pending \ {ev}
        \/ truth' \in {truth, truth \cup {Row(ev)}} /\ pending' = pending /\ pc' = "deprovision"
    BY <1>4 DEF LogFailureStart, LogFailureEnd, Logged, NotLogged, Finished, Fail, Row, RunTypes,
       EventAtHand, Activating, Deactivating
  <2>3. pc' \notin Watching /\ pc' \notin Laid
    BY <1>4 DEF LogFailureStart, LogFailureEnd, Goto, Fail, Watching, Laid
  <2>4. \A e \in failureEvents : e \notin pending' => Row(e) \in truth'
    BY <2>2 DEF LogInv
  <2>5. pc' \in Laid \cup InTimeline => \A e \in pending' : Row(e) \notin truth'
    <3> SUFFICES ASSUME pc' \in Laid \cup InTimeline, NEW e \in pending'
                 PROVE  Row(e) \notin truth'
      OBVIOUS
    <3>1. truth' = truth \cup {Row(ev)} /\ e \in pending /\ e # ev
      BY <2>2 DEF Laid, InTimeline
    <3>2. Row(e) # Row(ev) /\ Row(e) \notin truth
      BY <1>1, <1>2, <2>1, <3>1, RowFacts DEF LogInv
    <3> QED BY <3>1, <3>2
  <2>6. \A d \in pending', e \in failureEvents :
          d.activate /\ ~e.activate /\ d.failure = e.failure => e \in pending'
    <3> SUFFICES ASSUME NEW d \in pending', NEW e \in failureEvents,
                        d.activate, ~e.activate, d.failure = e.failure
                 PROVE  e \in pending'
      OBVIOUS
    <3>1. d \in pending /\ e \in pending
      BY <2>2 DEF LogInv
    <3>2. ~Before(e, d) /\ d # e
      BY <1>1, <1>2, <3>1, RowFacts
    <3>3. e # ev
      BY <2>1, <3>1, <3>2 DEF AtHead
    <3> QED BY <2>2, <3>1, <3>3
  <2> QED BY <1>1, <2>3, <2>4, <2>5, <2>6 DEF LogInv, Row
<1>5. CASE ~(LogFailureStart \/ LogFailureEnd)
  <2>1. pending' = pending
    <3>1. PICK n \in Nat \ {0} : Failures = 1..n
      BY <1>1, ScenarioFacts
    <3>2. [at |-> Offset(1), activate |-> TRUE, failure |-> 1] \in failureEvents
      <4>1. 1 \in Failures
        BY <3>1
      <4> QED BY <4>1, Zenon DEF failureEvents
    <3> QED BY <1>5, <3>2, RowWritten
  <2>2. \A e \in failureEvents : Row(e) \in truth' <=> Row(e) \in truth
    BY <1>5, RowWritten, LogGrows
  <2>3. (pc' \in Watching => pending' = {}) /\ (pc' \in Laid => pending' = failureEvents)
    BY <2>1, PhaseStep DEF LogInv, TimelineDone
  <2> QED BY <1>1, <1>2, <1>3, <2>1, <2>2, <2>3 DEF LogInv, Row
<1> QED BY <1>4, <1>5

\* An empty log agrees with a timeline of which nothing is done.
LEMMA LogInit == Init => LogInv
BY DEF Init, LogInv, Watching, Row

-----------------------------------------------------------------------------
(* Exposure failures *)

\* A step keeps the row of the run open until its close.
LEMMA RowStep ==
    ASSUME RunTypes, RowInv, [Next]_vars
    PROVE  RowInv'
<1> USE DEF RowInv, Goto, Fail, Laid, InTimeline, Watching, Leaving, Ended, Reasons, runVars
<1>0. pc \in Laid \cup InTimeline \cup Watching \cup Leaving \cup Ended /\ reason \in Reasons
  BY DEF RunTypes, TypeOK
<1>1. CASE InsertRun
  BY <1>0, <1>1 DEF InsertRun
<1>2. CASE CloseRun
  BY <1>0, <1>2 DEF CloseRun
<1>3. CASE \/ LogRunStart \/ BaselinePreProvision \/ LogMaintenanceStart \/ LogMaintenanceEnd
           \/ SkipUnsupported \/ Provision \/ Provisioned
  BY <1>0, <1>3 DEF LogRunStart, BaselinePreProvision, Record, LogMaintenanceStart,
     LogMaintenanceEnd, AfterStart, SkipUnsupported, Provision, Provisioned
<1>4. CASE AbortWait \/ BaselinePeriodic \/ Dispatch \/ Activate \/ Probe \/ Undo \/ Deactivate
  BY <1>0, <1>4 DEF AbortWait, BaselinePeriodic, Record, Dispatch, Activate, Probe, Undo, Deactivate,
     DeactivateAt
<1>5. CASE LogExposure \/ LogFailureStart \/ LogFailureEnd \/ BaselineActiveStart
           \/ BaselinePostDeactivation
  BY <1>0, <1>5 DEF LogExposure, LogFailureStart, LogFailureEnd, BaselineActiveStart,
     BaselinePostDeactivation, Record
<1>6. CASE TimelineDone \/ Grace \/ BaselinePostRecovery \/ Retrieve \/ RetrieveSkip \/ Retrieved
  BY <1>0, <1>6 DEF TimelineDone, Grace, BaselinePostRecovery, Retrieve, RetrieveSkip, Retrieved
<1>7. CASE (\E i \in Adapters : DeprovisionAttempt(i)) \/ Deprovisioned \/ LogRunEnd
  BY <1>0, <1>7 DEF DeprovisionAttempt, Deprovisioned, LogRunEnd
<1>8. CASE Cancel \/ Kill \/ CarryOutLate \/ Tick \/ UNCHANGED vars
  BY <1>0, <1>8 DEF Cancel, Kill, CarryOutLate, Tick, vars
<1> QED BY <1>1, <1>2, <1>3, <1>4, <1>5, <1>6, <1>7, <1>8 DEF Next, Harness, Terminated

\* The row of the run is open as long as it should be.
LEMMA RowHolds == Spec => []RowInv
<1>1. Init => RowInv
  BY DEF Init, RowInv, Laid, Leaving, Reasons, InTimeline, Watching, Ended
<1> QED BY <1>1, TypesHold, RowStep, PTL DEF Spec

\* Services' states are retrieved in the retrieve loop only.
LEMMA RetrievedOnlyThere ==
    ASSUME [Next]_vars, NEW s
    PROVE  <<s, "retrieved">> \in reports' => <<s, "retrieved">> \in reports \/ Retrieve
<1>1. ASSUME NEW R, Reported(R), <<s, "retrieved">> \notin R
      PROVE  <<s, "retrieved">> \in reports' => <<s, "retrieved">> \in reports
  BY <1>1 DEF Reported
<1>2. CASE SkipUnsupported
  BY <1>1, <1>2 DEF SkipUnsupported
<1>3. CASE Provision
  BY <1>1, <1>3 DEF Provision, ErrorReported
<1>4. CASE LogExposure
  BY <1>1, <1>4 DEF LogExposure
<1>5. CASE BaselinePostRecovery
  BY <1>1, <1>5 DEF BaselinePostRecovery
<1> QED BY ReportFrame, <1>2, <1>3, <1>4, <1>5

\* An exposure failure is logged by the step of that name only.
LEMMA ExposureOnlyThere ==
    ASSUME [Next]_vars, NEW f
    PROVE  <<"setup_exposure_failure", f>> \in truth' =>
              <<"setup_exposure_failure", f>> \in truth \/ (LogExposure /\ f = ev.failure)
<1>1. CASE LogExposure
  BY <1>1 DEF LogExposure, Logged, NotLogged
<1>2. CASE LogRunStart \/ LogMaintenanceStart \/ LogMaintenanceEnd \/ LogRunEnd
           \/ LogFailureStart \/ LogFailureEnd
  BY <1>2 DEF LogRunStart, LogMaintenanceStart, LogMaintenanceEnd, LogRunEnd,
   LogFailureStart, LogFailureEnd, Logged, NotLogged
<1> QED BY <1>1, <1>2, LogFrame

\* A step retrieves nothing once an exposure failure is logged.
LEMMA ExposureStep ==
    ASSUME RunTypes, LogInv, RowInv, ExposureInv, [Next]_vars
    PROVE  ExposureInv'
<1>1. sc' = sc /\ Failures' = Failures /\ Services' = Services /\ Adapters' = Adapters
      /\ sc \in Scenarios
  BY ScenarioFixed, ScenarioTypesFixed DEF RunTypes
<1> DEFINE Quiet == Laid \cup InTimeline \cup {"grace", "baseline_recovery"}
           Why == {"setup_exposure_failure", "ground_truth_log_failure"}
<1>2. /\ pc' \in Quiet => pc \in Quiet
      /\ pc = "log_exposure" => pc \in Quiet
      /\ Retrieve => pc = "retrieve" /\ pc' = "retrieve"
      /\ "retrieve" \notin Quiet \cup Leaving \cup Ended
  <2>1. pc' \in Quiet => pc \in Quiet \/ pc = "retrieve"
    BY PhaseStep DEF Provisioned, TimelineDone, Laid, InTimeline, Watching
  <2>2. pc = "retrieve" => pc' \in {"retrieve", "deprovision", "killed"}
    <3>1. pc = "retrieve" => \/ Retrieve \/ RetrieveSkip \/ Retrieved
                             \/ Cancel \/ Kill \/ CarryOutLate \/ Tick \/ UNCHANGED vars
      BY DEF Next, Harness, InsertRun, LogRunStart, BaselinePreProvision, LogMaintenanceStart,
         LogMaintenanceEnd, SkipUnsupported, Provision, Provisioned, AbortWait, BaselinePeriodic,
         Dispatch, Activate, Probe, Undo, LogExposure, LogFailureStart, BaselineActiveStart,
         Deactivate, LogFailureEnd, BaselinePostDeactivation, TimelineDone, Grace,
         BaselinePostRecovery, DeprovisionAttempt, Deprovisioned,
         LogRunEnd, CloseRun, DeactivateAt, Terminated
    <3> QED BY <3>1 DEF Retrieve, RetrieveSkip, Retrieved, Cancel, Kill, CarryOutLate, Tick, vars,
               Goto, Fail
  <2> QED BY <2>1, <2>2 DEF Retrieve, Goto, Fail, Laid, InTimeline, Leaving, Ended
<1>3. pc' \in Quiet => \A s \in Services : <<s, "retrieved">> \notin reports'
  BY <1>2, RetrievedOnlyThere DEF ExposureInv
<1>4. ASSUME NEW f \in Failures, <<"setup_exposure_failure", f>> \in truth'
      PROVE  /\ pc' \in Leaving \cup Ended /\ reason' \in Why
             /\ <<"failure_start", f>> \notin truth'
             /\ \A i \in Adapters : <<Service(i), "retrieved">> \notin reports'
             /\ run' \in {"open", "setup_exposure_failure", "ground_truth_log_failure"}
  <2>1. \A i \in Adapters : Service(i) \in Services
    BY DEF Services
  <2>2. CASE <<"setup_exposure_failure", f>> \in truth
    <3>1. /\ pc \in Leaving \cup Ended /\ reason \in Why
          /\ <<"failure_start", f>> \notin truth
          /\ \A i \in Adapters : <<Service(i), "retrieved">> \notin reports
          /\ run \in {"open", "setup_exposure_failure", "ground_truth_log_failure"}
      BY <2>2 DEF ExposureInv, ExposureFailureExcludes
    <3>2. pc' \in Leaving \cup Ended
      BY <3>1, PhaseStep
    <3>3. <<"failure_start", f>> \notin truth'
      <4>1. ~LogFailureStart
        BY <3>1 DEF LogFailureStart, Leaving, Ended
      <4> QED BY <3>1, <4>1, LogFrame DEF LogRunStart, LogMaintenanceStart, LogMaintenanceEnd,
                 LogExposure, LogFailureEnd, LogRunEnd, Logged, NotLogged
    <3>4. \A i \in Adapters : <<Service(i), "retrieved">> \notin reports'
      BY <1>2, <3>1, RetrievedOnlyThere
    <3>5. CASE (\E i \in Adapters : DeprovisionAttempt(i)) \/ Deprovisioned \/ LogRunEnd \/ CloseRun
      BY <3>1, <3>2, <3>3, <3>4, <3>5
         DEF DeprovisionAttempt, Deprovisioned, LogRunEnd, CloseRun, Goto, runVars
    <3>6. CASE Cancel \/ Kill \/ CarryOutLate \/ Tick \/ UNCHANGED vars
      BY <3>1, <3>2, <3>3, <3>4, <3>6 DEF Cancel, Kill, CarryOutLate, Tick, vars, runVars
    <3>7. \/ (\E i \in Adapters : DeprovisionAttempt(i)) \/ Deprovisioned \/ LogRunEnd \/ CloseRun
          \/ Cancel \/ Kill \/ CarryOutLate \/ Tick \/ UNCHANGED vars
      BY <3>1 DEF Leaving, Ended, Next, Harness, InsertRun, LogRunStart, BaselinePreProvision,
         LogMaintenanceStart,
         LogMaintenanceEnd, SkipUnsupported, Provision, Provisioned, AbortWait, BaselinePeriodic,
         Dispatch, Activate, Probe, Undo, LogExposure, LogFailureStart, BaselineActiveStart,
         Deactivate, LogFailureEnd, BaselinePostDeactivation, TimelineDone, Grace,
         BaselinePostRecovery, Retrieve, RetrieveSkip, Retrieved, DeactivateAt, Terminated
    <3> QED BY <3>5, <3>6, <3>7
  <2>3. CASE LogExposure /\ f = ev.failure
    <3>1. ev \in pending /\ ev.activate /\ pc = "log_exposure"
      BY <2>3 DEF LogExposure, RunTypes, EventAtHand, Activating, AtHead
    <3>2. <<"failure_start", f>> \notin truth
      BY <2>3, <3>1 DEF LogInv, InTimeline, Row
    <3>3. <<"failure_start", f>> \notin truth'
      BY <2>3, <3>2 DEF LogExposure, Logged, NotLogged
    <3>4. \A i \in Adapters : <<Service(i), "retrieved">> \notin reports'
      <4>1. \A s \in Services : <<s, "retrieved">> \notin reports
        BY <1>2, <3>1 DEF ExposureInv
      <4> QED BY <1>2, <2>1, <3>1, <4>1, RetrievedOnlyThere
    <3>5. run' = "open"
      BY <2>3, <3>1 DEF LogExposure, RowInv, InTimeline, Laid
    <3> QED BY <2>3, <3>3, <3>4, <3>5 DEF LogExposure, Fail, Leaving
  <2> QED BY <1>4, <2>2, <2>3, ExposureOnlyThere
<1>5. ExposureFailureExcludes'
  BY <1>1, <1>4 DEF ExposureFailureExcludes, Service
<1> QED BY <1>1, <1>3, <1>4, <1>5 DEF ExposureInv, Laid, InTimeline, Leaving, Ended

\* Whatever the scenario and whatever happens to the run, a failure that the DNS
\* probes could not see is not scored: no failure_start, no retrieved state, and
\* a resolution reason that excludes the run.
THEOREM ExposureCorrect == Spec => []ExposureFailureExcludes
<1>1. Init => RowInv /\ ExposureInv
  BY DEF Init, RowInv, ExposureInv, ExposureFailureExcludes, Laid, Leaving, Reasons, InTimeline,
     Watching
<1>2. RunTypes /\ LogInv /\ RowInv /\ ExposureInv /\ [Next]_vars
        => (LogInv /\ RowInv /\ ExposureInv)'
  BY LogStep, RowStep, ExposureStep
<1>3. ExposureInv => ExposureFailureExcludes
  BY DEF ExposureInv
<1> QED BY TypesHold, LogInit, <1>1, <1>2, <1>3, PTL DEF Spec

-----------------------------------------------------------------------------
(* Monitors *)

\* A step keeps handles of services that were let through, and of all of those.
LEMMA HandleStep ==
    ASSUME RunTypes, HandleInv, [Next]_vars
    PROVE  HandleInv'
<1>0. /\ sc' = sc /\ Adapters' = Adapters /\ Unsupported' = Unsupported
      /\ NumAdapters \in Nat /\ Adapters = 1..NumAdapters /\ Unsupported \subseteq Adapters
      /\ next \in Nat /\ handles \subseteq Adapters
  BY ScenarioFixed, ScenarioTypesFixed, ScenarioFacts DEF RunTypes, TypeOK, Unsupported
<1> USE <1>0 DEF HandleInv, Goto, Fail, Laid, InTimeline, Watching, adapterVars
<1>1. CASE SkipUnsupported
  <2>1. \A i \in Adapters \ Unsupported : i < next + 1 => i < next
    BY <1>1 DEF SkipUnsupported
  <2> QED BY <1>1, <2>1 DEF SkipUnsupported
<1>2. CASE Provision
  <2>1. \A i \in Adapters \ Unsupported : i < next + 1 => i < next \/ i = next
    BY <1>2 DEF Provision
  <2> QED BY <1>2, <2>1 DEF Provision
<1>3. CASE Provisioned
  <2>1. \A i \in Adapters : i < next
    BY <1>3 DEF Provisioned
  <2> QED BY <1>3, <2>1 DEF Provisioned
<1>4. CASE \/ InsertRun \/ LogRunStart \/ BaselinePreProvision \/ LogMaintenanceStart
           \/ LogMaintenanceEnd
  <2>1. pc \in Laid \ {"provision"} /\ UNCHANGED adapterVars /\ pc' \notin InTimeline \cup Watching
    BY <1>4 DEF InsertRun, LogRunStart, BaselinePreProvision, Record, LogMaintenanceStart,
       LogMaintenanceEnd, AfterStart
  <2>2. next = 1 /\ handles = {} /\ next' = next /\ handles' = handles
    BY <2>1
  <2>3. \A i \in Adapters : ~(i < next)
    BY <2>2
  <2> HIDE DEF InTimeline, Watching
  <2> QED BY <2>1, <2>2, <2>3
<1>5. CASE AbortWait \/ BaselinePeriodic \/ Dispatch \/ Activate \/ Probe \/ Undo \/ Deactivate
  BY <1>5 DEF AbortWait, BaselinePeriodic, Record, Dispatch, Activate, Probe, Undo, Deactivate,
     DeactivateAt
<1>6. CASE LogExposure \/ LogFailureStart \/ LogFailureEnd \/ BaselineActiveStart
           \/ BaselinePostDeactivation
  BY <1>6 DEF LogExposure, LogFailureStart, LogFailureEnd, BaselineActiveStart,
     BaselinePostDeactivation, Record
<1>7. CASE TimelineDone \/ Grace \/ BaselinePostRecovery
  BY <1>7 DEF TimelineDone, Grace, BaselinePostRecovery
<1>8. CASE Retrieve \/ RetrieveSkip \/ Retrieved
  BY <1>8 DEF Retrieve, RetrieveSkip, Retrieved
<1>9. CASE (\E i \in Adapters : DeprovisionAttempt(i)) \/ Deprovisioned \/ LogRunEnd \/ CloseRun
  BY <1>9 DEF DeprovisionAttempt, Deprovisioned, LogRunEnd, CloseRun
<1>10. CASE Cancel \/ Kill \/ CarryOutLate \/ Tick \/ UNCHANGED vars
  BY <1>10 DEF Cancel, Kill, CarryOutLate, Tick, vars
<1> QED BY <1>1, <1>2, <1>3, <1>4, <1>5, <1>6, <1>7, <1>8, <1>9, <1>10 DEF Next, Harness, Terminated

\* Cleanup is over, or never needed.
Cleaned == {"run_end", "close_run", "done"}

\* A step keeps the account of the monitors still to be deleted.
LEMMA MonitorStep ==
    ASSUME RunTypes, HandleInv, MonitorInv, [Next]_vars
    PROVE  MonitorInv'
<1>0. /\ sc' = sc /\ Adapters' = Adapters /\ Faults' = Faults
      /\ handles \subseteq Adapters /\ tries \in [Adapters -> 0..Attempts]
      /\ Attempts \in Nat \ {0}
  BY ScenarioFixed, ScenarioTypesFixed, HarnessAssumption DEF RunTypes, TypeOK
<1> DEFINE Fine == reason = "planned_completion" \/ "adapter" \notin Faults
<1>1. Fine' => Fine
  BY <1>0, PhaseStep
<1>2. "adapter" \notin Faults => \A i \in Adapters : tries'[i] = 0
  <2>1. CASE \E i \in Adapters : DeprovisionAttempt(i)
    BY <1>0, <2>1 DEF MonitorInv, DeprovisionAttempt
  <2>2. CASE ~\E i \in Adapters : DeprovisionAttempt(i)
    <3>1. tries' = tries
      BY <2>2, AdapterFrame DEF adapterVars, SkipUnsupported, Provision, Provisioned, Retrieve,
         RetrieveSkip
    <3> QED BY <3>1 DEF MonitorInv
  <2> QED BY <2>1, <2>2
<1>3. reason' = "planned_completion" => monitor' \subseteq handles'
  <2> SUFFICES ASSUME reason' = "planned_completion" PROVE monitor' \subseteq handles'
    OBVIOUS
  <2>1. monitor \subseteq handles
    BY PhaseStep DEF MonitorInv
  <2>2. CASE Provision
    BY <2>1, <2>2 DEF Provision, Fail
  <2>3. CASE \E i \in Adapters : DeprovisionAttempt(i)
    BY <2>1, <2>3 DEF DeprovisionAttempt
  <2>4. CASE SkipUnsupported \/ Provisioned \/ Retrieve \/ RetrieveSkip \/ UNCHANGED adapterVars
    BY <2>1, <2>4 DEF SkipUnsupported, Provisioned, Retrieve, RetrieveSkip, adapterVars
  <2> QED BY <2>2, <2>3, <2>4, AdapterFrame
<1>4. ASSUME Fine', pc' \in Cleaned
      PROVE  handles' = {}
  <2>1. CASE pc \in Cleaned
    <3>1. handles = {}
      BY <1>1, <1>4, <2>1 DEF MonitorInv, Cleaned
    <3>2. UNCHANGED adapterVars
      BY <2>1, AdapterFrame DEF Cleaned, SkipUnsupported, Provision, Provisioned, Retrieve,
         RetrieveSkip, DeprovisionAttempt
    <3> QED BY <3>1, <3>2 DEF adapterVars
  <2>2. CASE pc \notin Cleaned /\ Deprovisioned
    <3>1. handles' = handles
      BY <2>2 DEF Deprovisioned, adapterVars
    <3>2. reason = "planned_completion" => handles = {} \/ reason' = "cleanup_error"
      BY <2>2 DEF Deprovisioned
    <3>3. "adapter" \notin Faults => handles = {}
      BY <1>0, <2>2 DEF MonitorInv, Deprovisioned
    <3>4. reason' = "planned_completion" => reason = "planned_completion"
      BY PhaseStep
    <3> QED BY <1>0, <1>4, <3>1, <3>2, <3>3, <3>4
  <2>3. CASE pc \notin Cleaned /\ ~Deprovisioned
    <3>1. pc \in Laid \ {"provision"} /\ UNCHANGED adapterVars
      <4>1. InsertRun \/ LogRunStart \/ BaselinePreProvision \/ LogMaintenanceStart \/ LogMaintenanceEnd
        <5>1. CASE SkipUnsupported \/ Provision \/ Provisioned
          BY <1>4, <2>3, <5>1 DEF Cleaned, SkipUnsupported, Provision, Provisioned, Goto, Fail
        <5>2. CASE AbortWait \/ BaselinePeriodic \/ Dispatch \/ Activate \/ Probe \/ Undo \/ Deactivate
          BY <1>4, <2>3, <5>2 DEF Cleaned, AbortWait, BaselinePeriodic, Record, Dispatch, Activate,
             Probe, Undo, Deactivate, DeactivateAt, Goto, Fail
        <5>3. CASE LogExposure \/ LogFailureStart \/ LogFailureEnd \/ BaselineActiveStart
                   \/ BaselinePostDeactivation
          BY <1>4, <2>3, <5>3 DEF Cleaned, LogExposure, LogFailureStart, LogFailureEnd,
             BaselineActiveStart, BaselinePostDeactivation, Record, Goto, Fail
        <5>4. CASE TimelineDone \/ Grace \/ BaselinePostRecovery \/ Retrieve \/ RetrieveSkip \/ Retrieved
          BY <1>4, <2>3, <5>4 DEF Cleaned, TimelineDone, Grace, BaselinePostRecovery, Retrieve,
             RetrieveSkip, Retrieved, Goto, Fail
        <5>5. CASE (\E i \in Adapters : DeprovisionAttempt(i)) \/ LogRunEnd \/ CloseRun
          BY <1>4, <2>3, <5>5 DEF Cleaned, DeprovisionAttempt, LogRunEnd, CloseRun
        <5>6. CASE Cancel \/ Kill \/ CarryOutLate \/ Tick \/ UNCHANGED vars
          BY <1>4, <2>3, <5>6 DEF Cleaned, Cancel, Kill, CarryOutLate, Tick, vars
        <5> QED BY <2>3, <5>1, <5>2, <5>3, <5>4, <5>5, <5>6 DEF Next, Harness, Terminated
      <4> QED BY <4>1 DEF InsertRun, LogRunStart, BaselinePreProvision, Record, LogMaintenanceStart,
                          LogMaintenanceEnd, Laid
    <3> QED BY <3>1 DEF HandleInv, adapterVars
  <2> QED BY <2>1, <2>2, <2>3
<1> QED BY <1>0, <1>2, <1>3, <1>4 DEF MonitorInv, Cleaned

\* A step keeps the account of the monitors without a handle.
LEMMA LeakStep ==
    ASSUME RunTypes, RowInv, HandleInv, LeakInv, [Next]_vars
    PROVE  LeakInv'
<1>0. /\ Adapters' = Adapters /\ Faults' = Faults
      /\ NumAdapters \in Nat /\ Adapters = 1..NumAdapters /\ next \in 1..(NumAdapters + 1)
      /\ handles \subseteq Adapters /\ monitor \subseteq Adapters /\ calls \in [Adapters -> Nat]
  BY ScenarioFixed, ScenarioTypesFixed, ScenarioFacts DEF RunTypes, TypeOK
<1>1. pc' \in Laid => pc \in Laid
  BY PhaseStep
<1>2. ctx = "cancelled" /\ run = "open" => ctx' = "cancelled" /\ run' = "open"
  <2> SUFFICES ASSUME ctx = "cancelled", run = "open" PROVE ctx' = "cancelled" /\ run' = "open"
    OBVIOUS
  <2>1. ctx' \in {"live", "cancelled"} /\ ctx' # "live"
    BY PhaseStep, ControlType DEF RunTypes
  <2>2. CASE InsertRun
    <3>1. run = "none"
      BY <2>2 DEF RowInv, InsertRun
    <3> QED BY <3>1
  <2>3. CASE CloseRun
    <3>1. run' = run
      BY <2>3 DEF CloseRun, Reaches, MayTakeEffect
    <3> QED BY <2>1, <3>1
  <2>4. CASE ~InsertRun /\ ~CloseRun
    BY <2>1, <2>4, RunFrame
  <2> QED BY <2>1, <2>2, <2>3, <2>4
<1>3. ASSUME Leaked' \subseteq Leaked, \A i \in Leaked : calls'[i] = calls[i]
      PROVE  "adapter" \notin Faults =>
               /\ \A i, j \in Leaked' : i = j
               /\ \A i \in Leaked' : calls'[i] = 1
               /\ Leaked' # {} => ctx' = "cancelled" /\ run' = "open"
  BY <1>2, <1>3 DEF LeakInv
<1>4. CASE Provision
  <2>1. next \in Adapters /\ pc \in Laid /\ run = "open" /\ run' = "open" /\ next' = next + 1
    BY <1>4 DEF Provision, Laid, RowInv
  <2>2. calls' = [calls EXCEPT ![next] = calls[next] + 1] /\ calls[next] = 0
    BY <1>0, <1>4, <2>1 DEF Provision, Called, LeakInv
  <2>3. \A i \in Adapters : i >= next + 1 => calls'[i] = 0
    <3>1. \A i \in Adapters : i >= next + 1 => i >= next /\ i # next
      BY <1>0, <2>1
    <3> QED BY <1>0, <2>1, <2>2, <3>1 DEF LeakInv
  <2>4. CASE handles' = handles \cup {next} /\ monitor' = monitor \cup {next} /\ ctx = "live"
    <3> SUFFICES ASSUME "adapter" \notin Faults PROVE Leaked' = {}
      BY <1>0, <2>1, <2>3, <2>4 DEF LeakInv
    <3>1. Leaked = {}
      BY <2>4 DEF LeakInv
    <3> QED BY <2>4, <3>1 DEF Leaked
  <2>5. CASE handles' = handles /\ monitor' = monitor
    <3> SUFFICES ASSUME "adapter" \notin Faults
                 PROVE  \A i \in Leaked : calls'[i] = calls[i]
      BY <1>0, <1>3, <2>1, <2>3, <2>5 DEF LeakInv, Leaked
    <3>1. \A i \in Leaked : i \in Adapters /\ calls[i] = 1
      BY <1>0 DEF LeakInv, Leaked
    <3>2. next \notin Leaked
      BY <2>2, <3>1
    <3> QED BY <1>0, <2>2, <3>1, <3>2
  <2>6. CASE /\ handles' = handles /\ monitor' = monitor \cup {next}
             /\ ctx = "live" /\ ("adapter" \in Faults \/ ctx' = "cancelled")
    <3> SUFFICES ASSUME "adapter" \notin Faults
                 PROVE  Leaked' \subseteq {next} /\ calls'[next] = 1 /\ ctx' = "cancelled"
      BY <1>0, <2>1, <2>3, <2>6 DEF LeakInv
    <3>1. Leaked = {}
      BY <2>6 DEF LeakInv
    <3>2. calls'[next] = 1
      BY <1>0, <2>1, <2>2
    <3> QED BY <2>6, <3>1, <3>2 DEF Leaked
  <2> QED BY <1>4, <2>4, <2>5, <2>6 DEF Provision, Reaches, MayTakeEffect
<1>5. CASE SkipUnsupported
  <2>1. next \in Nat /\ next' = next + 1 /\ UNCHANGED <<handles, monitor, calls>>
    BY <1>0, <1>5 DEF SkipUnsupported
  <2>2. \A i \in Adapters : i >= next + 1 => i >= next
    BY <1>0, <2>1
  <2> QED BY <1>0, <1>1, <1>3, <2>1, <2>2 DEF LeakInv, Leaked
<1>6. CASE Provisioned \/ RetrieveSkip
  <2>1. pc' \notin Laid /\ UNCHANGED <<handles, monitor, calls>>
    BY <1>6 DEF Provisioned, RetrieveSkip, Goto, Laid
  <2>2. Leaked' = Leaked
    BY <2>1 DEF Leaked
  <2> QED BY <1>0, <1>3, <2>1, <2>2 DEF LeakInv
<1>7. CASE Retrieve
  <2>1. /\ pc' \notin Laid /\ UNCHANGED <<handles, monitor>> /\ next \in handles
        /\ calls' = calls \/ calls' = [calls EXCEPT ![next] = calls[next] + 1]
    BY <1>7 DEF Retrieve, Goto, Fail, Laid, Called
  <2>2. \A i \in Leaked : calls'[i] = calls[i]
    BY <1>0, <2>1 DEF Leaked
  <2>3. Leaked' = Leaked
    BY <2>1 DEF Leaked
  <2> QED BY <1>0, <1>3, <2>1, <2>2, <2>3 DEF LeakInv
<1>8. CASE \E i \in Adapters : DeprovisionAttempt(i)
  <2>1. PICK i \in Adapters : DeprovisionAttempt(i)
    BY <1>8
  <2>2. /\ pc' \notin Laid /\ i \in handles /\ calls' = [calls EXCEPT ![i] = calls[i] + 1]
        /\ monitor' \ handles' \subseteq monitor \ handles
    BY <2>1 DEF DeprovisionAttempt, Called, Laid
  <2>3. \A j \in Leaked : calls'[j] = calls[j]
    BY <1>0, <2>2 DEF Leaked
  <2>4. Leaked' \subseteq Leaked
    BY <2>2 DEF Leaked
  <2> QED BY <1>0, <1>3, <2>2, <2>3, <2>4 DEF LeakInv
<1>9. CASE UNCHANGED adapterVars
  <2>1. UNCHANGED <<next, handles, monitor, calls>>
    BY <1>9 DEF adapterVars
  <2> QED BY <1>0, <1>1, <1>3, <2>1 DEF LeakInv, Leaked
<1> QED BY <1>4, <1>5, <1>6, <1>7, <1>8, <1>9, AdapterFrame

\* Handles and monitors agree throughout.
LEMMA MonitorsHold == Spec => [](HandleInv /\ MonitorInv /\ LeakInv)
<1>1. Init => HandleInv /\ MonitorInv /\ LeakInv
  <2> SUFFICES ASSUME Init PROVE HandleInv /\ MonitorInv /\ LeakInv
    OBVIOUS
  <2>1. sc \in Scenarios /\ pc = "insert_run" /\ next = 1 /\ handles = {} /\ monitor = {}
        /\ \A i \in Adapters : tries[i] = 0 /\ calls[i] = 0
    BY DEF Init
  <2> QED BY <2>1 DEF HandleInv, MonitorInv, LeakInv, Leaked, Laid, InTimeline, Watching
<1> QED BY <1>1, TypesHold, RowHolds, HandleStep, MonitorStep, LeakStep, PTL DEF Spec

\* Whatever the scenario, the number of attempts and the moment of a signal: a
\* run that ends by itself has deleted, at services that answer, every monitor
\* whose Provision returned; what is left is at most the one whose creation the
\* signal fell into.
THEOREM MonitorsCorrect == Spec => []MonitorsDeleted
<1>1. MonitorInv /\ LeakInv => MonitorsDeleted
  BY DEF MonitorInv, LeakInv, Leaked, MonitorsDeleted
<1> QED BY <1>1, MonitorsHold, PTL

-----------------------------------------------------------------------------
(* Planned completion *)

\* Reports stay in the database.
LEMMA ReportsGrow ==
    ASSUME [Next]_vars
    PROVE  reports \subseteq reports'
<1>1. ASSUME NEW R, Reported(R) PROVE reports \subseteq reports'
  BY <1>1 DEF Reported
<1>2. CASE SkipUnsupported
  BY <1>1, <1>2 DEF SkipUnsupported
<1>3. CASE Provision
  BY <1>1, <1>3 DEF Provision, ErrorReported
<1>4. CASE LogExposure
  BY <1>1, <1>4 DEF LogExposure
<1>5. CASE BaselinePostRecovery
  BY <1>1, <1>5 DEF BaselinePostRecovery
<1>6. CASE Retrieve
  BY <1>1, <1>6 DEF Retrieve, ErrorReported
<1> QED BY ReportFrame, <1>2, <1>3, <1>4, <1>5, <1>6

\* A step keeps the account of the verdicts the retrieve loop has stored.
LEMMA VerdictStep ==
    ASSUME RunTypes, HandleInv, VerdictInv, [Next]_vars
    PROVE  VerdictInv'
<1>0. /\ sc' = sc /\ Adapters' = Adapters /\ Unsupported' = Unsupported /\ Faults' = Faults
      /\ NumAdapters \in Nat /\ Adapters = 1..NumAdapters /\ Unsupported \subseteq Adapters
      /\ next \in Nat /\ handles \subseteq Adapters
  BY ScenarioFixed, ScenarioTypesFixed, ScenarioFacts DEF RunTypes, TypeOK, Unsupported
<1> DEFINE MismatchN(i) == <<Service(i), "capability_mismatch">> \in reports'
           VerdictN(i) == <<Service(i), "retrieved">> \in reports' \/ MismatchN(i)
<1> SUFFICES ASSUME ctx' = "live", "db" \notin Faults, reason' = "planned_completion"
             PROVE  /\ pc' = "provision" => \A i \in Unsupported : i < next' => MismatchN(i)
                    /\ pc' \in InTimeline \cup Watching => \A i \in Unsupported : MismatchN(i)
                    /\ pc' = "retrieve" => \A i \in Adapters : i < next' => VerdictN(i)
                    /\ pc' \in Leaving => \A i \in Adapters : VerdictN(i)
  BY <1>0 DEF VerdictInv, Mismatch, Verdict, Service, InTimeline, Watching, Leaving
<1>1. ctx = "live" /\ reason = "planned_completion"
  BY PhaseStep
<1>2. /\ pc = "provision" => \A i \in Unsupported : i < next => Mismatch(i)
      /\ pc \in InTimeline \cup Watching => \A i \in Unsupported : Mismatch(i)
      /\ pc = "retrieve" => \A i \in Adapters : i < next => Verdict(i)
      /\ pc \in Leaving => \A i \in Adapters : Verdict(i)
  BY <1>1 DEF VerdictInv
<1>3. \A i : (Mismatch(i) => MismatchN(i)) /\ (Verdict(i) => VerdictN(i))
  BY ReportsGrow DEF Mismatch, Verdict
<1>4. ASSUME NEW R, Reported(R) PROVE R \subseteq reports'
  BY <1>1, <1>4 DEF Reported, MayFail
<1> HIDE DEF MismatchN, VerdictN
<1> USE DEF Goto, Fail, Laid, InTimeline, Watching, Leaving
<1>5. CASE SkipUnsupported
  <2>1. MismatchN(next)
    BY <1>4, <1>5 DEF SkipUnsupported, MismatchN
  <2>2. \A i \in Unsupported : i < next + 1 => i < next \/ i = next
    BY <1>0
  <2> QED BY <1>2, <1>3, <1>5, <2>1, <2>2 DEF SkipUnsupported
<1>6. CASE Provision
  <2>1. \A i \in Unsupported : i < next + 1 => i < next
    BY <1>0, <1>6 DEF Provision
  <2> QED BY <1>2, <1>3, <1>6, <2>1 DEF Provision
<1>7. CASE Provisioned
  <2>1. \A i \in Adapters : i < next
    BY <1>0, <1>7 DEF Provisioned
  <2>2. \A i \in Unsupported : MismatchN(i)
    BY <1>0, <1>2, <1>3, <1>7, <2>1 DEF Provisioned
  <2>3. handles = {} => Adapters = Unsupported
    BY <1>0, <1>1, <1>7, <2>1 DEF Provisioned, HandleInv
  <2> QED BY <1>7, <2>2, <2>3 DEF Provisioned, VerdictN
<1>8. CASE \/ InsertRun \/ LogRunStart \/ BaselinePreProvision \/ LogMaintenanceStart
           \/ LogMaintenanceEnd
  <2>1. /\ pc \in Laid \ {"provision"} /\ UNCHANGED adapterVars
        /\ pc' \notin InTimeline \cup Watching \cup Leaving
    BY <1>8 DEF InsertRun, LogRunStart, BaselinePreProvision, Record, LogMaintenanceStart,
       LogMaintenanceEnd, AfterStart
  <2>2. next' = 1
    BY <2>1 DEF HandleInv, adapterVars
  <2>3. \A i \in Adapters : ~(i < next')
    BY <1>0, <2>2
  <2> QED BY <1>0, <2>1, <2>3
<1>9. CASE AbortWait \/ BaselinePeriodic \/ Dispatch \/ Activate \/ Probe \/ Undo \/ Deactivate
  BY <1>2, <1>3, <1>9 DEF AbortWait, BaselinePeriodic, Record, Dispatch, Activate, Probe, Undo,
     Deactivate, DeactivateAt
<1>10. CASE LogExposure \/ LogFailureStart \/ LogFailureEnd \/ BaselineActiveStart
           \/ BaselinePostDeactivation
  BY <1>2, <1>3, <1>10 DEF LogExposure, LogFailureStart, LogFailureEnd, BaselineActiveStart,
     BaselinePostDeactivation, Record
<1>11. CASE TimelineDone \/ Grace \/ BaselinePostRecovery
  <2>1. next = 1 /\ next' = next
    BY <1>11 DEF TimelineDone, Grace, BaselinePostRecovery, HandleInv, adapterVars
  <2>2. \A i \in Adapters : ~(i < next')
    BY <1>0, <2>1
  <2> QED BY <1>2, <1>3, <1>11, <2>2 DEF TimelineDone, Grace, BaselinePostRecovery
<1>12. CASE Retrieve
  <2>1. VerdictN(next)
    BY <1>4, <1>12 DEF Retrieve, VerdictN
  <2>2. \A i \in Adapters : i < next + 1 => i < next \/ i = next
    BY <1>0
  <2> QED BY <1>2, <1>3, <1>12, <2>1, <2>2 DEF Retrieve
<1>13. CASE RetrieveSkip
  <2>1. next \in Unsupported
    BY <1>0, <1>1, <1>13 DEF RetrieveSkip, HandleInv
  <2>2. VerdictN(next)
    BY <1>2, <1>3, <1>13, <2>1 DEF RetrieveSkip, Verdict
  <2>3. \A i \in Adapters : i < next + 1 => i < next \/ i = next
    BY <1>0
  <2> QED BY <1>2, <1>3, <1>13, <2>2, <2>3 DEF RetrieveSkip
<1>14. CASE Retrieved
  <2>1. \A i \in Adapters : i < next
    BY <1>0, <1>14 DEF Retrieved
  <2> QED BY <1>2, <1>3, <1>14, <2>1 DEF Retrieved
<1>15. CASE (\E i \in Adapters : DeprovisionAttempt(i)) \/ Deprovisioned \/ LogRunEnd \/ CloseRun
  BY <1>2, <1>3, <1>15 DEF DeprovisionAttempt, Deprovisioned, LogRunEnd, CloseRun
<1>16. CASE Cancel \/ Kill \/ CarryOutLate \/ Tick \/ UNCHANGED vars
  BY <1>2, <1>3, <1>16 DEF Cancel, Kill, CarryOutLate, Tick, vars, adapterVars
<1> QED BY <1>5, <1>6, <1>7, <1>8, <1>9, <1>10, <1>11, <1>12, <1>13, <1>14, <1>15, <1>16
           DEF Next, Harness, Terminated

\* A step keeps the account of what a run that is still on plan has logged.
LEMMA CompleteStep ==
    ASSUME RunTypes, LogInv, RowInv, HandleInv, MonitorInv, VerdictInv, CompleteInv, [Next]_vars
    PROVE  CompleteInv'
<1>0. /\ sc' = sc /\ Adapters' = Adapters /\ Unsupported' = Unsupported /\ Faults' = Faults
      /\ Failures' = Failures /\ sc \in Scenarios
      /\ NumAdapters \in Nat /\ Adapters = 1..NumAdapters
      /\ next \in Nat /\ handles \subseteq Adapters
  BY ScenarioFixed, ScenarioTypesFixed, ScenarioFacts DEF RunTypes, TypeOK
<1> DEFINE Window(f) == {<<"failure_start", f>>, <<"failure_end", f>>}
<1>1. \A f \in Failures : pending = {} => Window(f) \subseteq truth
  <2> SUFFICES ASSUME NEW f \in Failures, pending = {} PROVE Window(f) \subseteq truth
    OBVIOUS
  <2> DEFINE d == [at |-> Offset(f), activate |-> TRUE, failure |-> f]
             e == [at |-> End(f), activate |-> FALSE, failure |-> f]
  <2>1. d \in failureEvents /\ e \in failureEvents
    BY Zenon DEF failureEvents
  <2>2. Row(d) = <<"failure_start", f>> /\ Row(e) = <<"failure_end", f>>
    BY DEF Row
  <2> HIDE DEF d, e
  <2> QED BY <2>1, <2>2 DEF LogInv
<1>2. reason' = "planned_completion" /\ pc' \in Leaving => pending' = {} \/ Unsupported' = Adapters'
  <2> SUFFICES ASSUME reason' = "planned_completion", pc' \in Leaving
               PROVE  pending' = {} \/ Unsupported = Adapters
    BY <1>0
  <2>1. reason = "planned_completion"
    BY PhaseStep
  <2> USE DEF Goto, Fail, Leaving
  <2>2. CASE \/ InsertRun \/ LogRunStart \/ BaselinePreProvision \/ LogMaintenanceStart
             \/ LogMaintenanceEnd \/ SkipUnsupported \/ Provision
    BY <2>2 DEF InsertRun, LogRunStart, BaselinePreProvision, Record, LogMaintenanceStart,
       LogMaintenanceEnd, AfterStart, SkipUnsupported, Provision
  <2>3. CASE Provisioned
    <3>1. \A i \in Adapters : i < next
      BY <1>0, <2>3 DEF Provisioned
    <3>2. handles = {}
      BY <2>3 DEF Provisioned
    <3> QED BY <2>1, <2>3, <3>1, <3>2 DEF Provisioned, HandleInv, Unsupported
  <2>4. CASE AbortWait \/ BaselinePeriodic \/ Dispatch \/ Activate \/ Probe \/ Undo \/ Deactivate
    BY <2>4 DEF AbortWait, BaselinePeriodic, Record, Dispatch, Activate, Probe, Undo,
       Deactivate, DeactivateAt
  <2>5. CASE LogExposure \/ LogFailureStart \/ LogFailureEnd \/ BaselineActiveStart
             \/ BaselinePostDeactivation \/ TimelineDone \/ Grace \/ BaselinePostRecovery
    BY <2>5 DEF LogExposure, LogFailureStart, LogFailureEnd, BaselineActiveStart,
       BaselinePostDeactivation, Record, TimelineDone, Grace, BaselinePostRecovery
  <2>6. CASE Retrieve \/ RetrieveSkip \/ Retrieved
    BY <2>6 DEF Retrieve, RetrieveSkip, Retrieved, LogInv, Watching, timelineVars
  <2>7. CASE (\E i \in Adapters : DeprovisionAttempt(i)) \/ Deprovisioned \/ LogRunEnd \/ CloseRun
    BY <2>1, <2>7 DEF DeprovisionAttempt, Deprovisioned, LogRunEnd, CloseRun, CompleteInv,
       timelineVars
  <2>8. CASE Cancel \/ Kill \/ CarryOutLate \/ Tick \/ UNCHANGED vars
    BY <2>1, <2>8 DEF Cancel, Kill, CarryOutLate, Tick, vars, CompleteInv, timelineVars
  <2> QED BY <2>2, <2>3, <2>4, <2>5, <2>6, <2>7, <2>8 DEF Next, Harness, Terminated
<1>3. Unsupported = Adapters => \A f \in Failures : Window(f) \cap truth' = {}
  <2> SUFFICES ASSUME Unsupported = Adapters, NEW f \in Failures PROVE Window(f) \cap truth' = {}
    OBVIOUS
  <2>1. pc \notin InTimeline
    BY <1>0 DEF HandleInv
  <2>2. ~LogFailureStart /\ ~LogFailureEnd
    BY <2>1 DEF LogFailureStart, LogFailureEnd, InTimeline
  <2>3. Window(f) \cap truth = {}
    BY DEF CompleteInv
  <2> QED BY <2>2, <2>3, LogFrame DEF LogRunStart, LogMaintenanceStart, LogMaintenanceEnd,
             LogExposure, LogRunEnd, Logged, NotLogged
<1>4. ASSUME run' = "planned_completion"
      PROVE  /\ \A f \in Failures : IF Unsupported = Adapters THEN Window(f) \cap truth' = {}
                                                              ELSE Window(f) \subseteq truth'
             /\ monitor' = {}
             /\ "db" \notin Faults =>
                  \A i \in Adapters : {<<Service(i), "retrieved">>,
                                       <<Service(i), "capability_mismatch">>} \cap reports' # {}
  <2>1. CASE run = "planned_completion"
    <3>1. pc = "done"
      BY <2>1 DEF RowInv, Reasons
    <3>2. monitor' = monitor
      BY <3>1, AdapterFrame DEF SkipUnsupported, Provision, Provisioned, Retrieve, RetrieveSkip,
         DeprovisionAttempt, adapterVars
    <3>3. truth \subseteq truth' /\ reports \subseteq reports'
      BY LogGrows, ReportsGrow
    <3> QED BY <1>3, <2>1, <3>2, <3>3 DEF CompleteInv, PlannedIsComplete
  <2>2. CASE run # "planned_completion"
    <3>1. /\ CloseRun /\ reason = "planned_completion" /\ ctx = "live" /\ pc = "close_run"
      <4>1. InsertRun \/ CloseRun \/ UNCHANGED run
        BY DEF Next, Harness, LogRunStart, BaselinePreProvision, LogMaintenanceStart,
         LogMaintenanceEnd, SkipUnsupported, Provision, Provisioned, AbortWait, BaselinePeriodic,
         Dispatch, Activate, Probe, Undo, LogExposure, LogFailureStart, BaselineActiveStart,
         Deactivate, LogFailureEnd, BaselinePostDeactivation, TimelineDone, Grace,
         BaselinePostRecovery, Retrieve, RetrieveSkip, Retrieved, DeprovisionAttempt, Deprovisioned,
         LogRunEnd, Record, DeactivateAt, Cancel, Kill, CarryOutLate, Tick, Terminated,
         vars, runVars
      <4> QED BY <1>4, <2>2, <4>1 DEF InsertRun, CloseRun, Reaches, MayTakeEffect
    <3>2. UNCHANGED <<truth, reports, monitor>>
      BY <3>1 DEF CloseRun, adapterVars
    <3>3. pending = {} \/ Unsupported = Adapters
      BY <3>1 DEF CompleteInv, Leaving
    <3>4. monitor = {}
      BY <3>1 DEF MonitorInv
    <3>5. "db" \notin Faults => \A i \in Adapters : Verdict(i)
      BY <3>1 DEF VerdictInv, Leaving
    <3> QED BY <1>1, <1>3, <3>2, <3>3, <3>4, <3>5 DEF Verdict, Mismatch
  <2> QED BY <2>1, <2>2
<1>5. PlannedIsComplete'
  BY <1>0, <1>4 DEF PlannedIsComplete, Service
<1> QED BY <1>0, <1>2, <1>3, <1>5 DEF CompleteInv, Leaving

\* Whatever the scenario and whatever happens to the run: planned_completion in
\* its row means a complete log, no monitor left and, with a database that
\* stores what it is given, a verdict from every service.
THEOREM PlannedCorrect == Spec => []PlannedIsComplete
<1>1. Init => RowInv /\ VerdictInv /\ CompleteInv
  BY DEF Init, RowInv, VerdictInv, CompleteInv, PlannedIsComplete, Laid, Leaving, Reasons, InTimeline,
     Watching
<1>2. RunTypes /\ LogInv /\ RowInv /\ HandleInv /\ MonitorInv /\ VerdictInv /\ CompleteInv
      /\ [Next]_vars => (LogInv /\ RowInv /\ VerdictInv /\ CompleteInv)'
  BY LogStep, RowStep, VerdictStep, CompleteStep
<1>3. CompleteInv => PlannedIsComplete
  BY DEF CompleteInv
<1> QED BY TypesHold, LogInit, MonitorsHold, <1>1, <1>2, <1>3, PTL DEF Spec

-----------------------------------------------------------------------------
(* Ground truth *)

\* The times that depend on the scenario alone keep their values.
LEMMA TimesFixed ==
    sc' = sc => /\ latestFailureEndOffset' = latestFailureEndOffset
                /\ targetAutoExpiry' = targetAutoExpiry
                /\ FreedBy' = FreedBy
BY DEF latestFailureEndOffset, targetAutoExpiry, FreedBy, Failures, End, Offset

\* A step keeps entries outlasting the timeline, by a bounded time.
LEMMA ClockStep ==
    ASSUME RunTypes, ClockInv, [Next]_vars
    PROVE  ClockInv'
<1>0. /\ sc' = sc /\ sc \in Scenarios /\ latestFailureEndOffset' = latestFailureEndOffset
      /\ targetAutoExpiry' = targetAutoExpiry /\ FreedBy' = FreedBy
      /\ now \in Nat /\ late \subseteq Request /\ active \subseteq Entry
      /\ pending \subseteq failureEvents
  BY ScenarioFixed, TimesFixed DEF RunTypes, TypeOK
<1>1. /\ latestFailureEndOffset \in Nat /\ targetAutoExpiry \in Nat /\ MaxLag \in Nat
      /\ FreedBy = latestFailureEndOffset + MaxLag + targetAutoExpiry
  BY <1>0, LatestEnd, ExpiryFacts, HarnessAssumption DEF FreedBy
<1> DEFINE Good(a) == /\ a.member \in Members(a.failure)
                      /\ targetAutoExpiry <= a.expires /\ a.expires <= FreedBy
           Fits(r) == r.member \in Members(r.failure)
<1>2. (\A a \in active : Good(a) /\ now <= a.expires) /\ (\A r \in late : Fits(r))
  BY DEF ClockInv
<1>3. ASSUME NEW f, NEW m \in Members(f), now <= latestFailureEndOffset + MaxLag
      PROVE  \A a \in Set(m, f) \cup Removed(m, f) : Good(a) /\ now <= a.expires
  BY <1>0, <1>1, <1>2, <1>3 DEF Set, Removed
<1>4. /\ pc' \in Laid => now' = 0 /\ late' = {}
      /\ pc' \in InTimeline => now' <= latestFailureEndOffset + MaxLag
      /\ \A a \in active' : Good(a) /\ now' <= a.expires
      /\ \A r \in late' : Fits(r)
  <2>1. CASE Tick
    <3>1. pc' = pc /\ now' = now + 1 /\ late' = late /\ pc \notin Laid
          /\ active' = {a \in active : now' <= a.expires}
      BY <2>1 DEF Tick
    <3>2. ASSUME pc \in InTimeline PROVE now' <= latestFailureEndOffset + MaxLag
      <4>1. PICK e \in pending : now < e.at + MaxLag
        BY <2>1, <3>2 DEF Tick
      <4>2. e.at \in Nat /\ e.at <= latestFailureEndOffset
        BY <1>0, EventFacts
      <4> QED BY <1>0, <1>1, <3>1, <4>1, <4>2
    <3> QED BY <1>2, <3>1, <3>2
  <2>2. CASE ~Tick
    <3>1. now' = now
      BY <2>2, ClockFrame
    <3>2. pc' \in InTimeline => now' <= latestFailureEndOffset + MaxLag
      <4>1. Provisioned => now = 0
        BY DEF Provisioned, ClockInv, Laid
      <4> QED BY <1>1, <3>1, <4>1, PhaseStep DEF ClockInv
    <3>3. pc' \in Laid => pc \in Laid /\ now = 0 /\ late = {}
      BY PhaseStep DEF ClockInv
    <3>4. CASE UNCHANGED <<active, late>>
      BY <1>2, <3>1, <3>2, <3>3, <3>4
    <3>5. CASE Activate \/ Undo \/ Deactivate
      <4>1. pc \in InTimeline \ Laid /\ todo \subseteq Members(ev.failure)
        BY <3>5 DEF Activate, Undo, Deactivate, DeactivateAt, RunTypes, EventAtHand, InTimeline, Laid
      <4>2. PICK m \in todo :
              /\ active' \in {active, Set(m, ev.failure), Removed(m, ev.failure)}
              /\ \E op : late' \in {late, late \cup {[op |-> op, member |-> m, failure |-> ev.failure]}}
        BY <3>5 DEF Activate, Undo, Deactivate, DeactivateAt, ControlFails
      <4>3. \A a \in active' : Good(a) /\ now' <= a.expires
        BY <1>2, <1>3, <3>1, <4>1, <4>2 DEF ClockInv
      <4>4. \A r \in late' : Fits(r)
        BY <1>2, <4>1, <4>2
      <4>5. pc' \notin Laid
        BY <3>3, <4>1
      <4> QED BY <3>2, <4>3, <4>4, <4>5
    <3>6. CASE CarryOutLate
      <4>1. PICK r \in late :
              /\ late' = late \ {r}
              /\ active' \in {Set(r.member, r.failure), Removed(r.member, r.failure)}
        BY <3>6 DEF CarryOutLate
      <4>2. \A a \in active' : Good(a) /\ now' <= a.expires
        BY <1>2, <1>3, <3>1, <3>6, <4>1 DEF CarryOutLate
      <4> QED BY <1>2, <3>2, <3>3, <4>1, <4>2
    <3> QED BY <2>2, <3>4, <3>5, <3>6, FleetFrame DEF fleetVars
  <2> QED BY <2>1, <2>2
<1> QED BY <1>0, <1>4 DEF ClockInv, Laid, InTimeline, Members

\* A failure that is being taken down stays so until its end is in the log or
\* the timeline is over.
LEMMA TakenDownStep ==
    ASSUME RunTypes, [Next]_vars, pc \in Deactivating \cup {"undo", "log_exposure"},
           pc' \in InTimeline
    PROVE  \/ /\ ev' = ev /\ pc' \in Deactivating \cup {"undo", "log_exposure"}
              /\ pc \in Deactivating => pc' \in Deactivating
           \/ <<"failure_end", ev.failure>> \in truth'
<1> USE DEF Deactivating, Goto, Fail, InTimeline
<1>1. \/ Undo \/ LogExposure \/ Deactivate \/ LogFailureEnd
      \/ Cancel \/ Kill \/ CarryOutLate \/ Tick \/ UNCHANGED vars
  BY DEF Next, Harness, InsertRun, LogRunStart, BaselinePreProvision, LogMaintenanceStart,
     LogMaintenanceEnd, SkipUnsupported, Provision, Provisioned, AbortWait, BaselinePeriodic,
     Dispatch, Activate, Probe, LogFailureStart, BaselineActiveStart,
     BaselinePostDeactivation, TimelineDone, Grace,
     BaselinePostRecovery, Retrieve, RetrieveSkip, Retrieved, DeprovisionAttempt, Deprovisioned,
     LogRunEnd, CloseRun, Terminated
<1>2. CASE Undo \/ Deactivate \/ LogExposure
  BY <1>2 DEF Undo, Deactivate, DeactivateAt, LogExposure
<1>3. CASE LogFailureEnd
  BY <1>3 DEF LogFailureEnd, Logged
<1>4. CASE Cancel \/ Kill \/ CarryOutLate \/ Tick \/ UNCHANGED vars
  BY <1>4 DEF Cancel, Kill, CarryOutLate, Tick, vars, timelineVars
<1> QED BY <1>1, <1>2, <1>3, <1>4

\* The member an activation has reached has the failure.
LEMMA SetPresent == \A m, f : Present(Set(m, f), m, f)
<1> SUFFICES ASSUME NEW m, NEW f PROVE Present(Set(m, f), m, f)
  OBVIOUS
<1> DEFINE a == [member |-> m, failure |-> f, expires |-> now + targetAutoExpiry]
<1>1. a \in Set(m, f)
  BY DEF Set
<1>2. a.member = m /\ a.failure = f
  OBVIOUS
<1> HIDE DEF a
<1> QED BY <1>1, <1>2 DEF Present

\* A deactivation is left to be carried out late only where one was called for.
LEMMA LateStep ==
    ASSUME RunTypes, ClockInv, LateInv, [Next]_vars
    PROVE  LateInv'
<1> SUFFICES ASSUME pc' \in InTimeline, NEW r \in late', r.op = "deactivate"
             PROVE  \/ <<"failure_end", r.failure>> \in truth'
                    \/ pc' \in Deactivating \cup {"undo", "log_exposure"} /\ ev'.failure = r.failure
  BY DEF LateInv, InTimeline, Deactivating
<1>1. CASE r \in late
  <2>1. pc \in InTimeline
    BY <1>1, PhaseStep DEF Provisioned, ClockInv, Laid
  <2>2. CASE <<"failure_end", r.failure>> \in truth
    BY <2>2, LogGrows
  <2>3. CASE pc \in Deactivating \cup {"undo", "log_exposure"} /\ ev.failure = r.failure
    BY <2>3, TakenDownStep
  <2> QED BY <1>1, <2>1, <2>2, <2>3 DEF LateInv
<1>2. CASE r \notin late
  <2>1. (Undo \/ Deactivate) /\ ev' = ev /\ r.failure = ev.failure
    <3>1. CASE Activate
      BY <1>2, <3>1 DEF Activate, ControlFails
    <3>2. CASE Undo \/ Deactivate
      <4>1. PICK m \in todo :
              late' \in {late, late \cup {[op |-> "deactivate", member |-> m, failure |-> ev.failure]}}
        BY <3>2 DEF Undo, Deactivate, DeactivateAt, ControlFails
      <4>2. ev' = ev
        BY <3>2 DEF Undo, Deactivate, DeactivateAt
      <4> QED BY <1>2, <3>2, <4>1, <4>2
    <3>3. CASE CarryOutLate \/ Tick
      BY <1>2, <3>3 DEF CarryOutLate, Tick
    <3> QED BY <1>2, <3>1, <3>2, <3>3, FleetFrame DEF fleetVars
  <2> QED BY <2>1 DEF Undo, Deactivate, DeactivateAt, Goto, Deactivating
<1> QED BY <1>1, <1>2

\* An entry leaves a registry during the timeline only when its own failure is
\* taken down: other failures have other keys, and its expiry is further away
\* than Run can be late.
LEMMA EffectStays ==
    ASSUME RunTypes, ClockInv, DistinctKeys, [Next]_vars, pc \in InTimeline
    PROVE  \A f \in Failures : \A m \in Members(f) :
              (/\ InEffect(m, f)
               /\ ~(pc \in {"undo", "deactivate"} /\ ev.failure = f)
               /\ \A r \in late : r.op = "deactivate" => r.failure # f)
              => Present(active', m, f)
<1> SUFFICES ASSUME NEW f \in Failures, NEW m \in Members(f), InEffect(m, f),
                    ~(pc \in {"undo", "deactivate"} /\ ev.failure = f),
                    \A r \in late : r.op = "deactivate" => r.failure # f
             PROVE  Present(active', m, f)
  OBVIOUS
<1>0. /\ sc \in Scenarios /\ active \subseteq Entry /\ late \subseteq Request
      /\ pending \subseteq failureEvents /\ now \in Nat
  BY DEF RunTypes, TypeOK
<1>1. PICK a \in active : a.member = m /\ a.failure = f
  BY DEF InEffect
<1>2. ASSUME NEW g \in Failures, NEW n \in Members(g), g # f PROVE a \in Removed(n, g)
  BY <1>1, <1>2 DEF Removed, DistinctKeys
<1>3. ASSUME NEW g \in Failures, NEW n \in Members(g), active' = Set(n, g) PROVE Present(active', m, f)
  <2>1. CASE g # f
    BY <1>1, <1>2, <1>3, <2>1 DEF Set, Present
  <2>2. CASE g = f /\ n # m
    BY <1>1, <1>3, <2>2 DEF Set, Removed, Present
  <2>3. CASE g = f /\ n = m
    BY <1>3, <2>3, SetPresent
  <2> QED BY <2>1, <2>2, <2>3
<1>4. CASE UNCHANGED <<active, late>>
  BY <1>1, <1>4 DEF Present
<1>5. CASE Activate \/ Undo \/ Deactivate
  <2>1. ev \in failureEvents /\ todo \subseteq Members(ev.failure)
    BY <1>0, <1>5 DEF Activate, Undo, Deactivate, DeactivateAt, RunTypes, EventAtHand, AtHead,
       Activating, Deactivating
  <2>2. ev.failure \in Failures
    BY <1>0, <2>1, EventFacts
  <2>3. CASE Activate
    <3>1. PICK n \in todo : active' \in {active, Set(n, ev.failure)}
      BY <2>3 DEF Activate, ControlFails
    <3>2. CASE active' = active
      BY <1>1, <3>2 DEF Present
    <3> QED BY <1>3, <2>1, <2>2, <3>1, <3>2
  <2>4. CASE Undo \/ Deactivate
    <3>1. PICK n \in todo : active' \in {active, Removed(n, ev.failure)}
      BY <2>4 DEF Undo, Deactivate, DeactivateAt, ControlFails
    <3>2. ev.failure # f
      BY <2>4 DEF Undo, Deactivate, DeactivateAt
    <3>3. a \in active'
      BY <1>1, <1>2, <2>1, <2>2, <3>1, <3>2
    <3> QED BY <1>1, <3>3 DEF Present
  <2> QED BY <1>5, <2>3, <2>4
<1>6. CASE CarryOutLate
  <2>1. PICK r \in late :
          active' = IF r.op = "activate" THEN Set(r.member, r.failure) ELSE Removed(r.member, r.failure)
    BY <1>6 DEF CarryOutLate
  <2>2. r.member \in Members(r.failure) /\ r.failure \in Failures /\ r.op \in {"activate", "deactivate"}
    BY <1>0 DEF ClockInv, Request
  <2>3. CASE r.op = "activate"
    BY <1>3, <2>1, <2>2, <2>3
  <2>4. CASE r.op = "deactivate"
    <3>1. r.failure # f /\ active' = Removed(r.member, r.failure)
      BY <2>1, <2>4
    <3> QED BY <1>1, <1>2, <2>2, <3>1 DEF Present
  <2> QED BY <2>2, <2>3, <2>4
<1>7. CASE Tick
  <2>1. now' <= latestFailureEndOffset + MaxLag
    BY <1>7, ClockStep, ScenarioFixed, TimesFixed DEF ClockInv, Tick, InTimeline
  <2>2. targetAutoExpiry <= a.expires /\ a.expires \in Nat
    BY <1>0, <1>1 DEF ClockInv, Entry
  <2>3. now' \in Nat /\ latestFailureEndOffset \in Nat /\ MaxLag \in Nat
    BY <1>0, <1>7, LatestEnd, HarnessAssumption DEF Tick
  <2>4. now' <= a.expires
    BY <1>0, <2>1, <2>2, <2>3, ExpiryFacts
  <2> QED BY <1>1, <1>7, <2>4 DEF Tick, Present
<1> QED BY <1>4, <1>5, <1>6, <1>7, FleetFrame DEF fleetVars

\* A step keeps a logged, undisturbed failure in effect at its member.
LEMMA EffectStep ==
    ASSUME RunTypes, LogInv, ClockInv, LateInv, DistinctKeys, EffectInv, [Next]_vars
    PROVE  EffectInv'
<1>0. /\ sc' = sc /\ Failures' = Failures /\ sc \in Scenarios /\ pending \subseteq failureEvents
  BY ScenarioFixed, ScenarioTypesFixed DEF RunTypes, TypeOK
<1> DEFINE Start(f) == <<"failure_start", f>>
           Ends(f) == <<"failure_end", f>>
           Reaching == {"activate", "probe", "log_start"}
<1>1. ASSUME pc \in Activating
      PROVE  /\ ev.failure \in Failures /\ pc \in InTimeline
             /\ Start(ev.failure) \notin truth /\ Ends(ev.failure) \notin truth
  <2>1. ev \in pending /\ ev.activate /\ ev \in failureEvents /\ pc \in InTimeline
    BY <1>0, <1>1 DEF RunTypes, EventAtHand, AtHead, Activating, InTimeline
  <2>2. ev.failure \in Failures
    BY <1>0, <2>1, EventFacts
  <2>3. Start(ev.failure) \notin truth
    BY <2>1 DEF LogInv, Row
  <2> DEFINE e == [at |-> End(ev.failure), activate |-> FALSE, failure |-> ev.failure]
  <2>4. e \in failureEvents
    BY <2>2, Zenon DEF failureEvents
  <2>5. ~e.activate /\ e.failure = ev.failure /\ Row(e) = Ends(ev.failure)
    BY DEF Row
  <2> HIDE DEF e
  <2>6. e \in pending
    BY <2>1, <2>4, <2>5 DEF LogInv
  <2>7. Row(e) \notin truth
    BY <2>1, <2>6 DEF LogInv
  <2> QED BY <2>1, <2>2, <2>3, <2>5, <2>7
<1>2. ASSUME pc \in Reaching, NEW m \in Members(ev.failure), InEffect(m, ev.failure)
      PROVE  Present(active', m, ev.failure)
  <2>1. pc \in Activating /\ pc \notin Deactivating \cup {"undo", "log_exposure"}
        /\ pc \notin {"undo", "deactivate"}
    BY <1>2 DEF Activating, Deactivating
  <2>2. ev.failure \in Failures /\ pc \in InTimeline /\ Ends(ev.failure) \notin truth
    BY <1>1, <2>1
  <2>3. \A r \in late : r.op = "deactivate" => r.failure # ev.failure
    BY <2>1, <2>2 DEF LateInv
  <2> QED BY <1>2, <2>1, <2>2, <2>3, EffectStays
<1>3. ASSUME pc' \in Reaching, NEW m \in Members(ev'.failure) \ todo'
      PROVE  Present(active', m, ev'.failure)
  <2> USE DEF Goto, Fail
  <2>1. CASE Dispatch
    BY <1>3, <2>1 DEF Dispatch
  <2>2. CASE Activate
    <3>1. ev' = ev /\ pc = "activate"
      BY <2>2 DEF Activate
    <3>2. PICK n \in todo : active' = Set(n, ev.failure) /\ todo' = todo \ {n}
      BY <1>3, <2>2 DEF Activate
    <3>3. CASE m = n
      BY <3>1, <3>2, <3>3, SetPresent
    <3>4. CASE m # n
      <4>1. m \in Members(ev.failure) \ todo
        BY <1>3, <3>1, <3>2, <3>4
      <4> QED BY <1>2, <3>1, <4>1 DEF EffectInv
    <3> QED BY <3>3, <3>4
  <2>3. CASE Probe \/ Cancel \/ CarryOutLate \/ Tick \/ UNCHANGED vars
    <3>1. ev' = ev /\ todo' = todo /\ pc \in Reaching
      BY <1>3, <2>3 DEF Probe, Cancel, CarryOutLate, Tick, vars, timelineVars
    <3> QED BY <1>2, <1>3, <3>1 DEF EffectInv
  <2>4. Dispatch \/ Activate \/ Probe \/ Cancel \/ CarryOutLate \/ Tick \/ UNCHANGED vars
    <3>1. CASE \/ InsertRun \/ LogRunStart \/ BaselinePreProvision \/ LogMaintenanceStart
               \/ LogMaintenanceEnd \/ SkipUnsupported \/ Provision \/ Provisioned
      BY <1>3, <3>1 DEF InsertRun, LogRunStart, BaselinePreProvision, Record, LogMaintenanceStart,
         LogMaintenanceEnd, AfterStart, SkipUnsupported, Provision, Provisioned
    <3>2. CASE AbortWait \/ BaselinePeriodic \/ Undo \/ Deactivate \/ LogExposure \/ LogFailureStart
               \/ LogFailureEnd \/ BaselineActiveStart \/ BaselinePostDeactivation
      BY <1>3, <3>2 DEF AbortWait, BaselinePeriodic, Record, Undo, Deactivate, DeactivateAt,
         LogExposure, LogFailureStart, LogFailureEnd, BaselineActiveStart, BaselinePostDeactivation
    <3>3. CASE TimelineDone \/ Grace \/ BaselinePostRecovery \/ Retrieve \/ RetrieveSkip \/ Retrieved
      BY <1>3, <3>3 DEF TimelineDone, Grace, BaselinePostRecovery, Retrieve, RetrieveSkip, Retrieved
    <3>4. CASE \/ \E i \in Adapters : DeprovisionAttempt(i)
               \/ Deprovisioned \/ LogRunEnd \/ CloseRun \/ Kill
      BY <1>3, <3>4 DEF DeprovisionAttempt, Deprovisioned, LogRunEnd, CloseRun, Kill
    <3> QED BY <3>1, <3>2, <3>3, <3>4 DEF Next, Harness, Terminated
  <2> QED BY <2>1, <2>2, <2>3, <2>4
<1>4. ASSUME pc' \in InTimeline, NEW f \in Failures, Start(f) \in truth', Ends(f) \notin truth',
             ~(pc' \in Deactivating /\ ev'.failure = f), NEW m \in Members(f)
      PROVE  Present(active', m, f)
  <2>1. Ends(f) \notin truth
    BY <1>4, LogGrows
  <2>2. CASE Start(f) \in truth
    <3>1. pc \in InTimeline
      <4>1. pc \notin Laid
        <5> DEFINE d == [at |-> Offset(f), activate |-> TRUE, failure |-> f]
        <5>1. d \in failureEvents
          BY Zenon DEF failureEvents
        <5>2. Row(d) = Start(f)
          BY DEF Row
        <5> HIDE DEF d
        <5> QED BY <2>2, <5>1, <5>2 DEF LogInv
      <4> QED BY <1>4, <4>1, PhaseStep DEF Provisioned, Laid
    <3>2. ~(pc \in Deactivating /\ ev.failure = f)
      BY <1>4, TakenDownStep
    <3>3. ~(pc \in Activating /\ ev.failure = f)
      BY <1>1, <2>2
    <3>4. InEffect(m, f)
      BY <2>1, <2>2, <3>1, <3>2 DEF EffectInv, GroundTruthHolds, Open, Closing, Deactivating
    <3>5. ~(pc \in {"undo", "deactivate"} /\ ev.failure = f)
      BY <3>2, <3>3 DEF Activating, Deactivating
    <3>6. \A r \in late : r.op = "deactivate" => r.failure # f
      BY <2>1, <3>1, <3>2, <3>3 DEF LateInv, Activating
    <3> QED BY <3>1, <3>4, <3>5, <3>6, EffectStays
  <2>3. CASE Start(f) \notin truth
    <3>1. LogFailureStart /\ f = ev.failure
      BY <1>4, <2>3, LogFrame DEF LogRunStart, LogMaintenanceStart, LogMaintenanceEnd, LogExposure,
         LogFailureStart, LogFailureEnd, LogRunEnd, Logged, NotLogged
    <3>2. pc = "log_start" /\ active' = active
      BY <3>1 DEF LogFailureStart, fleetVars
    <3>3. m \in Members(ev.failure) \ todo
      BY <3>1, <3>2 DEF RunTypes, EventAtHand
    <3> QED BY <3>1, <3>2, <3>3 DEF EffectInv, InEffect, Present
  <2> QED BY <2>2, <2>3
<1>5. GroundTruthHolds'
  BY <1>0, <1>4 DEF GroundTruthHolds, Open, Closing, InEffect, Present, Members, InTimeline,
     Deactivating
<1> QED BY <1>0, <1>3, <1>5 DEF EffectInv, InEffect, Present, Members

\* The clock invariant holds throughout.
LEMMA ClockHolds == Spec => []ClockInv
<1>1. Init => ClockInv
  BY DEF Init, ClockInv, InTimeline
<1> QED BY <1>1, TypesHold, ClockStep, PTL DEF Spec

\* Whatever the scenario, the periods and the lag within the expiry's margin:
\* when failures on one member have different registry keys, what the log
\* reports as active is in effect on every member, whatever calls were lost,
\* failed or came late.
THEOREM GroundTruthCorrect == Spec => [](DistinctKeys => GroundTruthHolds)
<1>1. Init => LateInv /\ EffectInv
  BY DEF Init, LateInv, EffectInv, GroundTruthHolds, InTimeline
<1>2. DistinctKeys' /\ [Next]_vars => DistinctKeys
  BY ScenarioFixed DEF DistinctKeys, Failures, Members, Key
<1>3. RunTypes /\ LogInv /\ ClockInv /\ LateInv /\ (DistinctKeys => EffectInv)
      /\ [Next]_vars => (LogInv /\ LateInv /\ (DistinctKeys => EffectInv))'
  BY <1>2, LogStep, LateStep, EffectStep
<1>4. EffectInv => GroundTruthHolds
  BY DEF EffectInv
<1> QED BY TypesHold, LogInit, ClockHolds, <1>1, <1>3, <1>4, PTL DEF Spec

\* Whatever happens to the run, it killed included, and to its calls: no failure
\* is in effect on any member later than one expiry period after the last moment
\* at which Run, or a member carrying out a request late, can set one.
THEOREM FleetFreed == Spec => [](now > FreedBy => active = {})
<1>1. RunTypes /\ ClockInv => (now > FreedBy => active = {})
  <2> SUFFICES ASSUME RunTypes, ClockInv, now > FreedBy, NEW a \in active PROVE FALSE
    OBVIOUS
  <2>1. now <= a.expires /\ a.expires <= FreedBy /\ a.expires \in Nat /\ now \in Nat
    BY DEF ClockInv, RunTypes, TypeOK, Entry
  <2>2. FreedBy \in Nat
    BY LatestEnd, ExpiryFacts, HarnessAssumption DEF RunTypes, FreedBy
  <2> QED BY <2>1, <2>2
<1> QED BY <1>1, TypesHold, ClockHolds, PTL
=============================================================================

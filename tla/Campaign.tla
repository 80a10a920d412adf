------------------------------- MODULE Campaign -------------------------------
(***************************************************************************)
(* One campaign of the harness: RunCampaign of internal/runner/campaign.go *)
(* and the derivation of metrics that cmd/harness starts after it.         *)
(*                                                                         *)
(* The schedule CampaignSchedule hands out is compared with the hourly     *)
(* budgets of the services; then its slots are walked one after the other, *)
(* each at its offset or as soon as the replay before it has returned.  A  *)
(* replay is one Run (module ScenarioRun), of which this module keeps how  *)
(* long it took and what it left in scenario_runs.  SIGINT or SIGTERM      *)
(* cancels the context at any moment.                                      *)
(***************************************************************************)
EXTENDS Integers, FiniteSets

CONSTANTS
    N,          \* slots of the schedule
    Duration,   \* offsets lie before it
    Hour,       \* the window budgets are counted in
    Services,   \* services of the adapters of this campaign
    Budget,     \* MaxRunsPerHour of a service, 0 for none
    MaxNow      \* bound: the model's clock stops here

ASSUME ScheduleAssumption == N \in Nat /\ Duration \in Nat /\ Hour \in Nat \ {0}
ASSUME BudgetAssumption == Budget \in [Services -> Nat]

Slots == 1..N
Offsets == {f \in [Slots -> 0..(Duration - 1)] : \A j, k \in Slots : j < k => f[j] <= f[k]}
NotBegun == -1

VARIABLES
    offset,     \* plan.Schedule, sorted by offset
    pc,
    start, end, maxCount,   \* the sweep of maxReplayStartsInWindow
    now,        \* time since startedAt
    cancelled,  \* ctx is done
    k,          \* slots the walk has left behind
    began,      \* when a slot's replay called Run
    outcome,    \* what a slot came to: its row in scenario_runs
    row,        \* the campaign's row: "none", "open", or its resolution reason
    reason,     \* resolutionReason
    tried       \* runs whose metrics DeriveCampaign has tried to derive

sweep == <<start, end, maxCount>>
walk == <<now, k, began, outcome>>
vars == <<offset, pc, sweep, cancelled, walk, row, reason, tried>>

Init ==
    /\ offset \in Offsets
    /\ pc = "generate"
    /\ start = 0 /\ end = 0 /\ maxCount = 0
    /\ now = 0 /\ k = 0 /\ cancelled = FALSE
    /\ began = [s \in Slots |-> NotBegun]
    /\ outcome = [s \in Slots |-> "untried"]
    /\ row = "none" /\ reason = "planned_completion" /\ tried = {}

Cancel ==
    /\ ~cancelled /\ pc # "done"
    /\ cancelled' = TRUE
    /\ UNCHANGED <<offset, pc, sweep, walk, row, reason, tried>>

-----------------------------------------------------------------------------
(* Before the first replay *)

Limited(s) == Budget[s] > 0

\* A host pattern the runner does not support, or a plan that cannot be
\* generated, ends the campaign before anything is recorded.
Generate ==
    /\ pc = "generate"
    /\ pc' \in {"done", IF N > 0 /\ \E s \in Services : Limited(s) THEN "sweep" ELSE "insert"}
    /\ UNCHANGED <<offset, sweep, cancelled, walk, row, reason, tried>>

\* maxReplayStartsInWindow: the window that begins at slot start takes in one
\* more slot, or is counted and the next one begins.
Extends == end < N /\ offset[end + 1] - offset[start + 1] < Hour

Extend ==
    /\ pc = "sweep" /\ start < N /\ Extends
    /\ end' = end + 1
    /\ UNCHANGED <<offset, pc, start, maxCount, cancelled, walk, row, reason, tried>>

\* Faulty variant: the count is the last window's, not the largest.
AdvanceLast ==
    /\ pc = "sweep" /\ start < N /\ ~Extends
    /\ maxCount' = end - start
    /\ start' = start + 1
    /\ end' = IF end < start + 1 THEN start + 1 ELSE end
    /\ UNCHANGED <<offset, pc, cancelled, walk, row, reason, tried>>

Advance ==
    /\ pc = "sweep" /\ start < N /\ ~Extends
    /\ maxCount' = IF end - start > maxCount THEN end - start ELSE maxCount
    /\ start' = start + 1
    /\ end' = IF end < start + 1 THEN start + 1 ELSE end
    /\ UNCHANGED <<offset, pc, cancelled, walk, row, reason, tried>>

CheckBudgets ==
    /\ pc = "sweep" /\ start = N
    /\ pc' = IF \E s \in Services : Limited(s) /\ maxCount > Budget[s] THEN "done" ELSE "insert"
    /\ UNCHANGED <<offset, sweep, cancelled, walk, row, reason, tried>>

\* The row is written with ctx: it fails when the database does, and always
\* once ctx is done.
Insert ==
    /\ pc = "insert"
    /\ \/ pc' = "done" /\ UNCHANGED row
       \/ ~cancelled /\ pc' = "slot" /\ row' = "open"
    /\ UNCHANGED <<offset, sweep, cancelled, walk, reason, tried>>

-----------------------------------------------------------------------------
(* The walk *)

\* A slot that is due goes ahead without a look at the context.
Slot ==
    /\ pc = "slot" /\ k < N
    /\ pc' = IF offset[k + 1] > now THEN "wait" ELSE "replay"
    /\ UNCHANGED <<offset, sweep, cancelled, walk, row, reason, tried>>

Timer ==
    /\ pc = "wait" /\ now >= offset[k + 1]
    /\ pc' = "replay"
    /\ UNCHANGED <<offset, sweep, cancelled, walk, row, reason, tried>>

\* While a slot is waited for, the cancelled context ends the campaign; when the
\* timer has fired as well, select takes either.
CtxDone ==
    /\ pc = "wait" /\ cancelled
    /\ reason' = "aborted" /\ pc' = "close"
    /\ UNCHANGED <<offset, sweep, cancelled, walk, row, tried>>

\* ToScenario cannot express the design: the slot is skipped.
Skip ==
    /\ pc = "replay"
    /\ outcome' = [outcome EXCEPT ![k + 1] = "skipped"]
    /\ k' = k + 1 /\ pc' = "slot"
    /\ UNCHANGED <<offset, sweep, cancelled, now, began, row, reason, tried>>

StartRun ==
    /\ pc = "replay" /\ ~cancelled
    /\ began' = [began EXCEPT ![k + 1] = now]
    /\ pc' = "running"
    /\ UNCHANGED <<offset, sweep, cancelled, now, k, outcome, row, reason, tried>>

\* Run on a context that is done fails to insert its row and returns at once.
RunCancelled ==
    /\ pc = "replay" /\ cancelled
    /\ began' = [began EXCEPT ![k + 1] = now]
    /\ outcome' = [outcome EXCEPT ![k + 1] = "absent"]
    /\ k' = k + 1 /\ pc' = "slot"
    /\ UNCHANGED <<offset, sweep, cancelled, now, row, reason, tried>>

\* Faulty variant: a replay that leaves no closed row is run again.
RunReturnsRetry ==
    /\ pc = "running"
    /\ \E o \in {"absent", "open", "closed"} :
         /\ outcome' = [outcome EXCEPT ![k + 1] = o]
         /\ IF o = "closed" THEN k' = k + 1 /\ pc' = "slot" ELSE k' = k /\ pc' = "replay"
    /\ UNCHANGED <<offset, sweep, cancelled, now, began, row, reason, tried>>

\* Run returns, with an error or without, and the campaign goes on either way.
\* A database failure or a signal leaves no row or one that is never closed; a
\* signal that comes after the close leaves a closed one.
RunReturns ==
    /\ pc = "running"
    /\ \E o \in {"absent", "open", "closed"} :
         /\ outcome' = [outcome EXCEPT ![k + 1] = o]
    /\ k' = k + 1 /\ pc' = "slot"
    /\ UNCHANGED <<offset, sweep, cancelled, now, began, row, reason, tried>>

WalkEnds ==
    /\ pc = "slot" /\ k = N
    /\ pc' = "close"
    /\ UNCHANGED <<offset, sweep, cancelled, walk, row, reason, tried>>

\* Time passes while the walk waits and while a replay runs.
Tick ==
    /\ pc \in {"wait", "running"} /\ now < MaxNow
    /\ now' = now + 1
    /\ UNCHANGED <<offset, pc, sweep, cancelled, k, began, outcome, row, reason, tried>>

-----------------------------------------------------------------------------
(* After the walk *)

\* The deferred close takes a context of its own; only the database can fail it.
Close ==
    /\ pc = "close"
    /\ row' \in {"open", reason}
    /\ pc' = "list"
    /\ UNCHANGED <<offset, sweep, cancelled, walk, reason, tried>>

Recorded == {s \in Slots : outcome[s] \in {"open", "closed"}}

\* The harness lists the campaign's runs, again with ctx.
ListRuns ==
    /\ pc = "list"
    /\ \/ pc' = "done"
       \/ ~cancelled /\ pc' = "derive"
    /\ UNCHANGED <<offset, sweep, cancelled, walk, row, reason, tried>>

\* One run after the other in the order they started; an error is kept for the
\* end and stops nothing.
DeriveCampaign ==
    /\ pc = "derive"
    /\ \E s \in Recorded \ tried :
         (\A r \in Recorded \ tried : s <= r) /\ tried' = tried \cup {s}
    /\ UNCHANGED <<offset, pc, sweep, cancelled, walk, row, reason>>

Derived ==
    /\ pc = "derive" /\ Recorded = tried
    /\ pc' = "done"
    /\ UNCHANGED <<offset, sweep, cancelled, walk, row, reason, tried>>

Terminated == pc = "done" /\ UNCHANGED vars

Step ==
    \/ Generate \/ Extend \/ Advance \/ CheckBudgets \/ Insert
    \/ Slot \/ Timer \/ CtxDone \/ Skip \/ StartRun \/ RunCancelled \/ RunReturns \/ WalkEnds
    \/ Close \/ ListRuns \/ DeriveCampaign \/ Derived

Next == Step \/ Tick \/ Cancel \/ Terminated

\* The program goes on as long as it can, a replay returns (ScenarioRun!RunEnds)
\* and time passes; nobody has to send a signal.
Spec == Init /\ [][Next]_vars /\ WF_vars(Step) /\ WF_vars(Tick)

-----------------------------------------------------------------------------
(* Properties *)

\* Every variable holds a value of its type.
TypeOK ==
    /\ offset \in Offsets
    /\ pc \in {"generate", "sweep", "insert", "slot", "wait", "replay", "running",
               "close", "list", "derive", "done"}
    /\ start \in 0..N /\ end \in 0..N /\ maxCount \in 0..N
    /\ now \in Nat /\ k \in 0..N /\ cancelled \in BOOLEAN
    /\ began \in [Slots -> Nat \cup {NotBegun}]
    /\ outcome \in [Slots -> {"untried", "skipped", "absent", "open", "closed"}]
    /\ tried \subseteq Slots
    /\ row \in {"none", "open", "planned_completion", "aborted"}
    /\ reason \in {"planned_completion", "aborted"}

\* The slots of f that fall into the hour that begins at w.
InHour(f, w) == {s \in Slots : w <= f[s] /\ f[s] < w + Hour}

\* A campaign that gets as far as its row has a schedule that keeps the budget of
\* every service in every rolling hour, wherever that hour begins; the code only
\* looks at the hours that begin at a slot, with one pass of two indices.
BudgetPreflight ==
    pc \notin {"generate", "sweep", "done"} =>
        \A s \in Services : Limited(s) =>
            \A w \in 0..Duration : Cardinality(InHour(offset, w)) <= Budget[s]

\* The campaign comes to its end.
CampaignEnds == <>(pc = "done")
=============================================================================

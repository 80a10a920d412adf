---------------------------- MODULE CampaignProofs ----------------------------
(***************************************************************************)
(* Proofs about the campaign, for every schedule, hour and set of budgets, *)
(* about the verdict on a run and a service, for every log and every set   *)
(* of alerts, and about what a report makes of the verdicts, for every     *)
(* journal of the replays.                                                 *)
(***************************************************************************)
EXTENDS CampaignReport, Measurement, FiniteSetTheorems, WellFoundedInduction, TLAPS

-----------------------------------------------------------------------------
(* Types *)

\* The sweep begins at the first slot, its second index never falls behind the
\* first, and a slot that is waited for or run is a slot of the schedule.
InSchedule ==
    /\ start <= end
    /\ pc = "generate" => start = 0
    /\ pc \in {"wait", "replay", "running"} => k < N

LEMMA TypeStep ==
    ASSUME TypeOK, InSchedule, [Next]_vars
    PROVE  TypeOK' /\ InSchedule'
<1> USE ScheduleAssumption DEF TypeOK, InSchedule, sweep, walk, Slots
<1>1. CASE Generate
  BY <1>1 DEF Generate
<1>2. CASE Extend
  BY <1>2 DEF Extend, Extends
<1>3. CASE Advance
  BY <1>3 DEF Advance
<1>4. CASE CheckBudgets
  BY <1>4 DEF CheckBudgets
<1>5. CASE Insert
  BY <1>5 DEF Insert
<1>6. CASE Slot \/ Timer \/ CtxDone
  BY <1>6 DEF Slot, Timer, CtxDone
<1>7. ASSUME pc \in {"replay", "running"}
      PROVE  k + 1 \in Slots /\ k + 1 \in 0..N /\ k \in Nat
  BY <1>7
<1>8. CASE Skip
  <2>1. outcome' \in [Slots -> {"untried", "skipped", "absent", "open", "closed"}]
    BY <1>8 DEF Skip
  <2> QED BY <1>7, <1>8, <2>1 DEF Skip
<1>9. CASE StartRun
  <2>1. began' \in [Slots -> Nat \cup {NotBegun}]
    BY <1>9 DEF StartRun
  <2> QED BY <1>7, <1>9, <2>1 DEF StartRun
<1>10. CASE RunCancelled
  <2>1. began' \in [Slots -> Nat \cup {NotBegun}]
    BY <1>10 DEF RunCancelled
  <2>2. outcome' \in [Slots -> {"untried", "skipped", "absent", "open", "closed"}]
    BY <1>10 DEF RunCancelled
  <2> QED BY <1>7, <1>10, <2>1, <2>2 DEF RunCancelled
<1>11. CASE RunReturns
  <2>1. outcome' \in [Slots -> {"untried", "skipped", "absent", "open", "closed"}]
    BY <1>11 DEF RunReturns
  <2> QED BY <1>7, <1>11, <2>1 DEF RunReturns
<1>12. CASE WalkEnds
  BY <1>12 DEF WalkEnds
<1>13. CASE Tick
  <2>1. now' \in Nat
    BY <1>13 DEF Tick
  <2> QED BY <1>13, <2>1 DEF Tick
<1>14. CASE Cancel
  <2>1. cancelled' \in BOOLEAN
    BY <1>14 DEF Cancel
  <2>2. UNCHANGED <<offset, pc, sweep, walk, row, reason, tried>>
    BY <1>14 DEF Cancel
  <2> QED BY <2>1, <2>2
<1>15. CASE Close \/ ListRuns \/ DeriveCampaign \/ Derived
  BY <1>15 DEF Close, ListRuns, DeriveCampaign, Derived, Recorded
<1>16. CASE UNCHANGED vars
  BY <1>16 DEF vars
<1> QED
  BY <1>1, <1>2, <1>3, <1>4, <1>5, <1>6, <1>8, <1>9, <1>10, <1>11, <1>12, <1>13,
     <1>14, <1>15, <1>16
     DEF Next, Step, Terminated

LEMMA TypeInit == Init => TypeOK /\ InSchedule
<1> SUFFICES ASSUME Init PROVE TypeOK /\ InSchedule
  OBVIOUS
<1>1. /\ start \in 0..N /\ end \in 0..N /\ maxCount \in 0..N
      /\ now \in Nat /\ k \in 0..N
  BY ScheduleAssumption DEF Init
<1>2. /\ began \in [Slots -> Nat \cup {NotBegun}]
      /\ outcome \in [Slots -> {"untried", "skipped", "absent", "open", "closed"}]
  BY DEF Init
<1>3. /\ pc = "generate" /\ row = "none" /\ reason = "planned_completion"
      /\ tried = {} /\ offset \in Offsets /\ start = 0 /\ end = 0
  BY DEF Init
<1>4. cancelled \in BOOLEAN
  BY DEF Init
<1> QED BY <1>1, <1>2, <1>3, <1>4 DEF TypeOK, InSchedule

\* Every variable of RunCampaign and of the derivation keeps its type.
THEOREM TypeCorrect == Spec => []TypeOK
<1>1. TypeOK /\ InSchedule /\ [Next]_vars => (TypeOK /\ InSchedule)'
  BY TypeStep
<1> QED BY TypeInit, <1>1, PTL DEF Spec

-----------------------------------------------------------------------------
(* The budgets *)

\* No c + 1 of the slots from the j-th on start within one hour.
AtMost(c, j) == \A m \in Slots : m - j >= c => offset[m] - offset[j] >= Hour

\* The windows counted so far hold no more slots than maxCount; past the check
\* no window holds more than a budget allows.
Counted ==
    /\ pc = "sweep" => \A j \in 1..start : AtMost(maxCount, j)
    /\ pc \notin {"generate", "sweep", "done"} =>
         \A s \in Services : Limited(s) => \A j \in Slots : AtMost(Budget[s], j)

LEMMA CountedStep ==
    ASSUME TypeOK, InSchedule, Counted, [Next]_vars
    PROVE  Counted'
<1> USE ScheduleAssumption, BudgetAssumption DEF Slots
<1>0. \A m, n \in Slots : m <= n => offset[m] \in Int /\ offset[n] \in Int /\ offset[m] <= offset[n]
  BY DEF TypeOK, Offsets
<1>1. CASE Generate
  <2>1. start' = 0
    BY <1>1 DEF Generate, InSchedule, sweep
  <2>2. pc' \notin {"generate", "sweep", "done"} => N = 0 \/ \A s \in Services : ~Limited(s)
    BY <1>1 DEF Generate
  <2> QED BY <2>1, <2>2 DEF Counted, Limited
<1>2. CASE Extend
  BY <1>2 DEF Extend, Counted, AtMost, walk
<1>3. CASE Advance
  <2>1. /\ maxCount \in Nat /\ maxCount' \in Nat /\ start \in Nat /\ end \in Nat
        /\ maxCount <= maxCount' /\ end - start <= maxCount'
        /\ start' = start + 1 /\ start < N
    BY <1>3 DEF Advance, TypeOK
  <2>2. ASSUME NEW j \in 1..start, NEW m \in Slots, m - j >= maxCount'
        PROVE  offset[m] - offset[j] >= Hour
    BY <1>3, <2>1, <2>2 DEF Advance, Counted, AtMost
  <2>3. ASSUME NEW m \in Slots, m - (start + 1) >= maxCount'
        PROVE  offset[m] - offset[start + 1] >= Hour
    <3>1. end + 1 <= m /\ end + 1 \in Slots /\ start + 1 \in Slots
      BY <2>1, <2>3
    <3>2. offset[end + 1] - offset[start + 1] >= Hour
      <4>1. offset[end + 1] \in Int /\ offset[start + 1] \in Int /\ end < N
        BY <1>0, <2>1, <3>1
      <4>2. ~(offset[end + 1] - offset[start + 1] < Hour)
        BY <1>3, <4>1 DEF Advance, Extends
      <4> QED BY <4>1, <4>2
    <3> QED BY <1>0, <3>1, <3>2
  <2>4. \A j \in 1..(start + 1) : j \in 1..start \/ j = start + 1
    BY <2>1
  <2>5. pc' = "sweep" /\ offset' = offset
    BY <1>3 DEF Advance
  <2> QED BY <2>1, <2>2, <2>3, <2>4, <2>5 DEF Counted, AtMost
<1>4. CASE CheckBudgets
  <2>1. CASE \E s \in Services : Limited(s) /\ maxCount > Budget[s]
    BY <1>4, <2>1 DEF CheckBudgets, Counted
  <2>2. CASE ~\E s \in Services : Limited(s) /\ maxCount > Budget[s]
    <3>1. ASSUME NEW s \in Services, Limited(s), NEW j \in Slots, NEW m \in Slots,
                 m - j >= Budget[s]
          PROVE  offset[m] - offset[j] >= Hour
      <4>1. Budget[s] \in Nat /\ maxCount \in Nat /\ maxCount <= Budget[s]
        BY <2>2, <3>1 DEF TypeOK
      <4>2. m - j >= maxCount
        BY <3>1, <4>1
      <4> QED BY <1>4, <4>2 DEF CheckBudgets, Counted, AtMost
    <3> QED BY <1>4, <2>2, <3>1 DEF CheckBudgets, Counted, AtMost, Limited
  <2> QED BY <2>1, <2>2
<1>5. CASE Insert
  BY <1>5 DEF Insert, Counted, AtMost, Limited
<1>6. CASE Slot \/ Timer \/ CtxDone
  BY <1>6 DEF Slot, Timer, CtxDone, Counted, AtMost, Limited
<1>7. CASE Skip \/ StartRun
  BY <1>7 DEF Skip, StartRun, Counted, AtMost, Limited
<1>8. CASE RunCancelled \/ RunReturns
  BY <1>8 DEF RunCancelled, RunReturns, Counted, AtMost, Limited
<1>9. CASE WalkEnds \/ Tick \/ Cancel
  BY <1>9 DEF WalkEnds, Tick, Cancel, Counted, AtMost, Limited, sweep
<1>10. CASE Close \/ ListRuns \/ DeriveCampaign \/ Derived
  BY <1>10 DEF Close, ListRuns, DeriveCampaign, Derived, Counted, AtMost, Limited
<1>11. CASE UNCHANGED vars
  BY <1>11 DEF vars, Counted, AtMost, Limited, sweep
<1> QED
  BY <1>1, <1>2, <1>3, <1>4, <1>5, <1>6, <1>7, <1>8, <1>9, <1>10, <1>11
     DEF Next, Step, Terminated

\* A nonempty set of numbers has a least element.
LEMMA Least ==
    ASSUME NEW S \in SUBSET Nat, S # {}
    PROVE  \E m \in S : \A s \in S : m <= s
<1> DEFINE R == OpToRel(<, Nat)
<1>1. PICK m \in S : \A s \in S : ~(<<s, m>> \in R)
  <2>1. IsWellFoundedOn(R, Nat)
    BY NatLessThanWellFounded
  <2> HIDE DEF R
  <2> QED BY <2>1, WFMin
<1>2. \A s \in S : ~(s < m)
  BY <1>1 DEF OpToRel
<1> QED BY <1>2

\* An hour that holds slots holds them from its first one on, and so no more
\* than the hour that begins at that slot.
LEMMA HourFromFirst ==
    ASSUME TypeOK, NEW c \in Nat, \A j \in Slots : AtMost(c, j), NEW w \in Nat
    PROVE  Cardinality(InHour(offset, w)) <= c
<1> USE ScheduleAssumption DEF Slots
<1> DEFINE S == InHour(offset, w)
<1>1. S \in SUBSET Nat /\ S \in SUBSET Slots
  BY DEF InHour
<1>2. CASE S = {}
  BY <1>2, FS_EmptySet
<1>3. CASE S # {}
  <2>1. PICK f \in S : \A m \in S : f <= m
    <3> HIDE DEF S
    <3> QED BY <1>1, <1>3, Least
  <2>2. f \in Slots /\ f \in Nat /\ offset[f] \in Int /\ w <= offset[f]
    BY <1>1, <2>1 DEF InHour, TypeOK, Offsets
  <2>3. ASSUME NEW m \in S PROVE m \in f..(f + c - 1)
    <3>1. m \in Slots /\ offset[m] \in Int /\ offset[m] < w + Hour
      BY <1>1, <2>3 DEF InHour, TypeOK, Offsets
    <3>2. ~(m - f >= c)
      BY <2>2, <3>1 DEF AtMost
    <3> QED BY <2>1, <2>2, <2>3, <3>1, <3>2
  <2>4. S \subseteq f..(f + c - 1)
    BY <2>3
  <2>5. f + c - 1 \in Int /\ f \in Int
    BY <2>2
  <2>6. f <= f + c - 1
    BY <2>1, <2>2, <2>3
  <2>7. IsFiniteSet(f..(f + c - 1)) /\ Cardinality(f..(f + c - 1)) = c
    BY <2>5, <2>6, <2>2, FS_Interval
  <2>8. Cardinality(S) <= c
    <3> HIDE DEF S
    <3> QED BY <2>4, <2>7, FS_Subset
  <2> QED BY <2>8
<1> QED BY <1>2, <1>3

\* Whatever the schedule, the hour and the budgets: a campaign that reaches its
\* row keeps every budget in every rolling hour of its schedule.
THEOREM BudgetCorrect == Spec => []BudgetPreflight
<1>1. Init => Counted
  BY DEF Init, Counted
<1>2. TypeOK /\ InSchedule /\ Counted /\ [Next]_vars => (TypeOK /\ InSchedule /\ Counted)'
  BY TypeStep, CountedStep
<1>3. TypeOK /\ Counted => BudgetPreflight
  <2> SUFFICES ASSUME TypeOK, Counted, pc \notin {"generate", "sweep", "done"},
                      NEW s \in Services, Limited(s), NEW w \in 0..Duration
               PROVE  Cardinality(InHour(offset, w)) <= Budget[s]
    BY DEF BudgetPreflight
  <2>1. Budget[s] \in Nat /\ w \in Nat
    BY BudgetAssumption, ScheduleAssumption
  <2>2. \A j \in Slots : AtMost(Budget[s], j)
    BY DEF Counted
  <2> QED BY <2>1, <2>2, HourFromFirst
<1> QED BY TypeInit, <1>1, <1>2, <1>3, PTL DEF Spec

-----------------------------------------------------------------------------
(* The verdict: the log *)

\* An event is the start or the end of one failure.
LEMMA EventsAre ==
    /\ \A f \in Failures : Start(f) \in Events /\ End(f) \in Events
    /\ \A f, g \in Failures : Start(f) # End(g) /\ (Start(f) = Start(g) => f = g)
                                                /\ (End(f) = End(g) => f = g)
    /\ \A e \in Events : /\ e[2] \in Failures
                         /\ e[1] = "failure_start" => e = Start(e[2])
                         /\ e[1] = "failure_end" => e = End(e[2])
<1>1. \A e \in Events : \E f \in Failures : e = Start(f) \/ e = End(f)
  BY DEF Events, Start, End
<1>2. \A f \in Failures : /\ Start(f)[1] = "failure_start" /\ Start(f)[2] = f
                          /\ End(f)[1] = "failure_end" /\ End(f)[2] = f
  BY DEF Start, End
<1>3. "failure_start" # "failure_end"
  OBVIOUS
<1>4. \A f \in Failures : Start(f) \in Events /\ End(f) \in Events
  BY DEF Events, Start, End
<1> QED BY <1>1, <1>2, <1>3, <1>4

\* What is given: the plan, the log and the service's rows.
Given ==
    /\ plan \in Plans
    /\ at \in Logs
    /\ alert \in [Alerts -> [reportedAt : AlertTimes \cup {None},
                             class : {"outage", "tls_advisory"}]]
    /\ unknown \in BOOLEAN

\* The log gives every event a time of its own, a failure's start before its end.
LEMMA LogIs ==
  ASSUME Given
  PROVE  /\ \A e \in Events : at[e] \in Nat
         /\ \A d, e \in Events : at[d] = at[e] => d = e
         /\ \A f \in Failures : at[Start(f)] < at[End(f)]
<1>1. at \in [Events -> 1..Cardinality(Events)]
  BY DEF Given, Logs
<1>2. \A x \in 1..Cardinality(Events) : x \in Nat
  OBVIOUS
<1>3. \A e \in Events : at[e] \in Nat
  BY <1>1, <1>2
<1> QED BY <1>3 DEF Given, Logs

LEMMA PlanIs ==
  ASSUME Given
  PROVE  /\ \A f \in Failures : Delay[f] \in Nat /\ Type[f] \in Types
         /\ \A f \in Traps : Type[f] \notin Advisory
BY PlanAssumption DEF Given, Delay, Type, Types, Traps

\* The next event is unread, and before all others that are.
LEMMA OldestIsFirst ==
  ASSUME Given, read \subseteq Events, read # Events
  PROVE  /\ Oldest \in Events /\ Oldest \notin read
         /\ \A d \in Events \ read : at[Oldest] <= at[d]
<1> DEFINE T == {at[e] : e \in Events \ read}
<1>1. T \in SUBSET Nat /\ T # {}
  BY LogIs
<1>2. PICK n \in T : \A m \in T : n <= m
  <2> HIDE DEF T
  <2> QED BY <1>1, Least
<1>3. \E e \in Events \ read : \A d \in Events \ read : at[e] <= at[d]
  BY <1>2
<1> QED BY <1>3 DEF Oldest

-----------------------------------------------------------------------------
(* The verdict: the windows *)

\* What the values are.
Sorts ==
    /\ Given
    /\ stage \in {"events", "alerts", "done"}
    /\ read \subseteq Events /\ scanned \subseteq Alerts
    /\ startsByType \in [Types -> Failures \cup {None}]
    /\ windows \in Seq([of : Failures, start : Nat, end : Nat])
    /\ v \in [truePositive : BOOLEAN, falseNegative : BOOLEAN, falsePositive : BOOLEAN,
              tlsAdvisoryDetected : BOOLEAN, tlsAdvisoryMissed : BOOLEAN,
              tlsAdvisoryFalseOutage : BOOLEAN, maintenanceSuppressed : BOOLEAN,
              cooldownSuppressed : BOOLEAN, cooldownUncertain : BOOLEAN]
    /\ detectionLatency \in Nat \cup {None}

\* The events are read in the order of their times.
InTime == \A e \in read, d \in Events \ read : at[e] < at[d]

\* The start known under a type was read, and a window leads from an earlier to a
\* later time.
Forward ==
    /\ \A t \in Types : startsByType[t] # None => Start(startsByType[t]) \in read
    /\ \A j \in DOMAIN windows : windows[j].start < windows[j].end

\* The start known under a type is that of the failure of the type which is open.
Open ==
    \A f \in Failures :
        startsByType[Type[f]] = f <=> Start(f) \in read /\ End(f) \notin read
KnownUnderItsType == \A t \in Types : startsByType[t] # None => Type[startsByType[t]] = t

\* The windows are those of the failures whose end was read.
Closed ==
    /\ \A j \in DOMAIN windows :
          LET f == windows[j].of
          IN  End(f) \in read /\ windows[j].start = at[Start(f)] /\ windows[j].end = at[End(f)]
    /\ \A f \in Failures : End(f) \in read => \E j \in DOMAIN windows : windows[j].of = f

\* Reading one more event, the oldest, keeps the order.
LEMMA ReadInTime ==
  ASSUME Sorts, InTime, read # Events, read' = read \cup {Oldest}
  PROVE  /\ \A e \in read', d \in Events \ read' : at[e] < at[d]
         /\ \A f \in Failures : Oldest = Start(f) => End(f) \notin read'
         /\ \A f \in Failures : Oldest = End(f) => Start(f) \in read
<1>1. /\ Given /\ read \subseteq Events
      /\ Oldest \in Events /\ Oldest \notin read
      /\ \A d \in Events \ read : at[Oldest] <= at[d]
  BY OldestIsFirst DEF Sorts
<1>2. /\ \A e \in Events : at[e] \in Nat
      /\ \A d, e \in Events : at[d] = at[e] => d = e
      /\ \A f \in Failures : at[Start(f)] < at[End(f)]
  BY <1>1, LogIs
<1>3. \A d \in Events \ read' : at[Oldest] < at[d]
  <2> TAKE d \in Events \ read'
  <2>1. d \in Events \ read /\ d # Oldest
    OBVIOUS
  <2>2. at[Oldest] <= at[d] /\ at[Oldest] # at[d] /\ at[Oldest] \in Nat /\ at[d] \in Nat
    BY <1>1, <1>2, <2>1
  <2> QED BY <2>2
<1>4. \A e \in read', d \in Events \ read' : at[e] < at[d]
  BY <1>3 DEF InTime
<1>5. \A f \in Failures : Start(f) \in Events /\ End(f) \in Events /\ Start(f) # End(f)
  BY EventsAre
<1>6. ASSUME NEW f \in Failures, Oldest = Start(f)
      PROVE  End(f) \notin read'
  <2>1. at[Start(f)] < at[End(f)] /\ at[Start(f)] \in Nat /\ at[End(f)] \in Nat
    BY <1>2, <1>5
  <2>2. End(f) \in read => at[End(f)] < at[Start(f)]
    BY <1>1, <1>5, <1>6 DEF InTime
  <2> QED BY <1>5, <1>6, <2>1, <2>2
<1>7. ASSUME NEW f \in Failures, Oldest = End(f)
      PROVE  Start(f) \in read
  <2>1. at[Start(f)] < at[End(f)] /\ at[Start(f)] \in Nat /\ at[End(f)] \in Nat
    BY <1>2, <1>5
  <2>2. Start(f) \notin read => at[End(f)] <= at[Start(f)]
    BY <1>1, <1>5, <1>7
  <2> QED BY <2>1, <2>2
<1> QED BY <1>4, <1>6, <1>7

\* Two failures of a type are not open at once.
LEMMA OneIsOpen ==
  ASSUME Sorts, InTime, Apart, read # Events,
         NEW f \in Failures, NEW g \in Failures, f # g, Type[f] = Type[g],
         Oldest = Start(g), Start(f) \in read
  PROVE  End(f) \in read
<1>1. /\ Given /\ read \subseteq Events
      /\ Oldest \in Events /\ Oldest \notin read
      /\ \A d \in Events \ read : at[Oldest] <= at[d]
  BY OldestIsFirst DEF Sorts
<1>2. Start(f) \in Events /\ End(f) \in Events /\ Start(g) \in Events /\ End(g) \in Events
  BY EventsAre
<1>3. /\ at[Start(f)] \in Nat /\ at[End(f)] \in Nat /\ at[Start(g)] \in Nat /\ at[End(g)] \in Nat
      /\ at[Start(g)] < at[End(g)]
  BY <1>1, <1>2, LogIs
<1>4. at[End(f)] < at[Start(g)] \/ at[End(g)] < at[Start(f)]
  BY DEF Apart
<1>5. at[Start(f)] < at[Start(g)]
  BY <1>1, <1>2 DEF InTime
<1>6. End(f) \notin read => at[Start(g)] <= at[End(f)]
  BY <1>1, <1>2
<1> QED BY <1>3, <1>4, <1>5, <1>6

LEMMA StartStep ==
  ASSUME Sorts, InTime, Forward, FailureStart
  PROVE  Sorts' /\ InTime' /\ Forward'
<1> DEFINE g == Oldest[2]
<1>1. /\ stage = "events" /\ read # Events /\ Oldest[1] = "failure_start"
      /\ startsByType' = [startsByType EXCEPT ![Type[g]] = g]
      /\ read' = read \cup {Oldest}
      /\ UNCHANGED <<input, stage, windows, scanned, v, detectionLatency>>
  BY DEF FailureStart
<1>2. Oldest \in Events
  BY <1>1, OldestIsFirst DEF Sorts
<1>3. g \in Failures /\ Oldest = Start(g)
  BY <1>1, <1>2, EventsAre
<1>4. Type[g] \in Types
  BY <1>3, PlanIs DEF Sorts
<1> HIDE DEF g
<1>5. plan' = plan /\ at' = at /\ alert' = alert /\ unknown' = unknown
  BY <1>1 DEF input
<1>6. Given'
  BY <1>5 DEF Given, Sorts, Logs
<1>7. startsByType' \in [Types -> Failures \cup {None}]
  BY <1>1, <1>3, <1>4 DEF Sorts
<1>8. Types' = Types
  BY <1>5 DEF Types, Type
<1>9. Sorts'
  BY <1>1, <1>2, <1>6, <1>7, <1>8 DEF Sorts
<1>10. InTime'
  BY <1>1, <1>5, ReadInTime DEF InTime
<1>11. Forward'
  <2>1. \A t \in Types : startsByType'[t] = IF t = Type[g] THEN g ELSE startsByType[t]
    BY <1>1 DEF Sorts
  <2>2. Start(g) \in read' /\ read \subseteq read'
    BY <1>1, <1>3
  <2>3. \A t \in Types : startsByType'[t] # None => Start(startsByType'[t]) \in read'
    BY <2>1, <2>2 DEF Forward
  <2> QED BY <1>1, <1>8, <2>3 DEF Forward
<1> QED BY <1>9, <1>10, <1>11

LEMMA StartOpens ==
  ASSUME Sorts, InTime, Apart, Open, KnownUnderItsType, Closed, FailureStart
  PROVE  Open' /\ KnownUnderItsType' /\ Closed'
<1> DEFINE g == Oldest[2]
<1>1. /\ stage = "events" /\ read # Events /\ Oldest[1] = "failure_start"
      /\ startsByType' = [startsByType EXCEPT ![Type[g]] = g]
      /\ read' = read \cup {Oldest}
      /\ UNCHANGED <<input, stage, windows, scanned, v, detectionLatency>>
  BY DEF FailureStart
<1>2. Oldest \in Events
  BY <1>1, OldestIsFirst DEF Sorts
<1>3. g \in Failures /\ Oldest = Start(g)
  BY <1>1, <1>2, EventsAre
<1>4. \A f \in Failures : Type[f] \in Types
  BY <1>3, PlanIs DEF Sorts
<1>5. plan' = plan /\ at' = at
  BY <1>1 DEF input
<1>6. Types' = Types /\ \A f : Type'[f] = Type[f]
  BY <1>5 DEF Types, Type
<1> HIDE DEF g
<1>7. \A t \in Types : startsByType'[t] = IF t = Type[g] THEN g ELSE startsByType[t]
  BY <1>1 DEF Sorts
<1>8. End(g) \notin read'
  BY <1>1, <1>3, ReadInTime
<1>9. \A f \in Failures : /\ Start(f) \in read' <=> (Start(f) \in read \/ f = g)
                          /\ End(f) \in read' <=> End(f) \in read
  BY <1>1, <1>3, EventsAre
<1>10. Open'
  <2>1. ASSUME NEW f \in Failures
        PROVE  startsByType'[Type[f]] = f <=> Start(f) \in read' /\ End(f) \notin read'
    <3>1. CASE f = g
      BY <1>3, <1>4, <1>7, <1>8, <1>9, <3>1
    <3>2. CASE f # g /\ Type[f] = Type[g]
      <4>1. Start(f) \in read => End(f) \in read
        BY <1>1, <1>3, <3>2, OneIsOpen
      <4> QED BY <1>4, <1>7, <1>9, <3>2, <4>1
    <3>3. CASE Type[f] # Type[g]
      <4>1. f # g
        BY <3>3
      <4> QED BY <1>4, <1>7, <1>9, <3>3, <4>1 DEF Open
    <3> QED BY <3>1, <3>2, <3>3
  <2> QED BY <1>6, <2>1 DEF Open
<1>11. KnownUnderItsType'
  BY <1>6, <1>7 DEF KnownUnderItsType
<1>12. Closed'
  <2>1. windows' = windows
    BY <1>1
  <2>2. \A j \in DOMAIN windows :
          LET f == windows[j].of
          IN  End(f) \in read' /\ windows[j].start = at[Start(f)] /\ windows[j].end = at[End(f)]
    BY <1>1 DEF Closed
  <2>3. \A f \in Failures : End(f) \in read' => \E j \in DOMAIN windows : windows[j].of = f
    BY <1>9 DEF Closed
  <2> QED BY <1>5, <2>1, <2>2, <2>3 DEF Closed
<1> QED BY <1>10, <1>11, <1>12
\* A window leads from a start that was read to the end that is read now.
LEMMA EndStep ==
  ASSUME Sorts, InTime, Forward, FailureEnd
  PROVE  Sorts' /\ InTime' /\ Forward'
<1> DEFINE g == Oldest[2]
           s == startsByType[Type[g]]
           w == Window(s, at[Oldest])
<1>1. /\ stage = "events" /\ read # Events /\ Oldest[1] = "failure_end"
      /\ windows' = IF s = None THEN windows ELSE Append(windows, w)
      /\ startsByType' = [startsByType EXCEPT ![Type[g]] = None]
      /\ read' = read \cup {Oldest}
      /\ UNCHANGED <<input, stage, scanned, v, detectionLatency>>
  BY DEF FailureEnd
<1>2. /\ Oldest \in Events /\ Oldest \notin read
      /\ \A e \in Events : at[e] \in Nat
  BY <1>1, OldestIsFirst, LogIs DEF Sorts
<1>3. g \in Failures /\ Oldest = End(g)
  BY <1>1, <1>2, EventsAre
<1>4. Type[g] \in Types
  BY <1>3, PlanIs DEF Sorts
<1>5. plan' = plan /\ at' = at /\ alert' = alert /\ unknown' = unknown
  BY <1>1 DEF input
<1>6. s \in Failures \cup {None}
  BY <1>4 DEF Sorts
<1>7. s # None => /\ Start(s) \in read /\ Start(s) \in Events
                  /\ w \in [of : Failures, start : Nat, end : Nat]
                  /\ w.start < w.end
  <2> HAVE s # None
  <2>1. s \in Failures /\ Start(s) \in read /\ Start(s) \in Events
    BY <1>4, <1>6, EventsAre DEF Forward
  <2>2. at[Start(s)] < at[Oldest]
    BY <1>2, <2>1 DEF InTime
  <2> HIDE DEF s, g
  <2> QED BY <1>2, <2>1, <2>2 DEF Window
<1>8. Given'
  BY <1>5 DEF Given, Sorts, Logs
<1>9. Types' = Types
  BY <1>5 DEF Types, Type
<1> HIDE DEF g, s, w
<1>10. startsByType' \in [Types -> Failures \cup {None}]
  BY <1>1 DEF Sorts
<1>11. windows \in Seq([of : Failures, start : Nat, end : Nat])
  BY DEF Sorts
<1>12. windows' \in Seq([of : Failures, start : Nat, end : Nat])
  <2> DEFINE R == [of : Failures, start : Nat, end : Nat]
  <2>1. windows \in Seq(R) /\ (s # None => w \in R)
    BY <1>7, <1>11
  <2> HIDE DEF R
  <2>2. windows' \in Seq(R)
    BY <1>1, <2>1
  <2> QED BY <2>2 DEF R
<1>13. Sorts'
  BY <1>1, <1>2, <1>8, <1>9, <1>10, <1>12 DEF Sorts
<1>14. InTime'
  BY <1>1, <1>5, ReadInTime DEF InTime
<1>15. \A j \in DOMAIN windows' : windows'[j].start < windows'[j].end
  <2>1. CASE s = None
    BY <1>1, <2>1 DEF Forward
  <2>2. CASE s # None
    <3>1. \A j \in DOMAIN windows' : j = Len(windows) + 1 \/ j \in DOMAIN windows
      BY <1>1, <1>11, <2>2
    <3>2. /\ windows'[Len(windows) + 1] = w
          /\ \A j \in DOMAIN windows : windows'[j] = windows[j]
      BY <1>1, <1>11, <2>2
    <3> QED BY <1>7, <2>2, <3>1, <3>2 DEF Forward
  <2> QED BY <2>1, <2>2
<1>16. Forward'
  <2>1. \A t \in Types : startsByType'[t] = IF t = Type[g] THEN None ELSE startsByType[t]
    BY <1>1 DEF Sorts
  <2>2. \A t \in Types : startsByType'[t] # None => Start(startsByType'[t]) \in read'
    BY <1>1, <2>1 DEF Forward
  <2> QED BY <1>9, <1>15, <2>2 DEF Forward
<1> QED BY <1>13, <1>14, <1>16

LEMMA EndCloses ==
  ASSUME Sorts, InTime, Apart, Open, KnownUnderItsType, Closed, FailureEnd
  PROVE  Open' /\ KnownUnderItsType' /\ Closed'
<1> DEFINE g == Oldest[2]
           s == startsByType[Type[g]]
<1>1. /\ stage = "events" /\ read # Events /\ Oldest[1] = "failure_end"
      /\ windows' = IF s = None THEN windows ELSE Append(windows, Window(s, at[Oldest]))
      /\ startsByType' = [startsByType EXCEPT ![Type[g]] = None]
      /\ read' = read \cup {Oldest}
      /\ UNCHANGED <<input, stage, scanned, v, detectionLatency>>
  BY DEF FailureEnd
<1>2. /\ Oldest \in Events /\ Oldest \notin read
  BY <1>1, OldestIsFirst DEF Sorts
<1>3. g \in Failures /\ Oldest = End(g)
  BY <1>1, <1>2, EventsAre
<1>4. \A f \in Failures : Type[f] \in Types
  BY <1>3, PlanIs DEF Sorts
<1>5. plan' = plan /\ at' = at
  BY <1>1 DEF input
<1>6. Types' = Types /\ \A f : Type'[f] = Type[f]
  BY <1>5 DEF Types, Type
<1> HIDE DEF g
<1>7. Start(g) \in read
  BY <1>1, <1>3, ReadInTime
<1>8. s = g /\ g # None
  BY <1>2, <1>3, <1>7, MeasureAssumption DEF Open
<1>9. windows' = Append(windows, Window(g, at[End(g)]))
  BY <1>1, <1>3, <1>8
<1> HIDE DEF s
<1>10. \A t \in Types : startsByType'[t] = IF t = Type[g] THEN None ELSE startsByType[t]
  BY <1>1 DEF Sorts
<1>11. \A f \in Failures : /\ Start(f) \in read' <=> Start(f) \in read
                           /\ End(f) \in read' <=> (End(f) \in read \/ f = g)
  BY <1>1, <1>3, EventsAre
<1>12. Open'
  <2>1. ASSUME NEW f \in Failures
        PROVE  startsByType'[Type[f]] = f <=> Start(f) \in read' /\ End(f) \notin read'
    <3>1. CASE Type[f] = Type[g]
      <4>1. startsByType'[Type[f]] # f
        BY <1>4, <1>10, <3>1, MeasureAssumption
      <4>2. f # g => ~(Start(f) \in read /\ End(f) \notin read)
        BY <1>8, <3>1 DEF Open, s
      <4> QED BY <1>11, <4>1, <4>2
    <3>2. CASE Type[f] # Type[g]
      <4>1. f # g
        BY <3>2
      <4> QED BY <1>4, <1>10, <1>11, <3>2, <4>1 DEF Open
    <3> QED BY <3>1, <3>2
  <2> QED BY <1>6, <2>1 DEF Open
<1>13. KnownUnderItsType'
  BY <1>6, <1>10 DEF KnownUnderItsType
<1>14. Closed'
  <2> DEFINE n == Len(windows) + 1
  <2>1. windows \in Seq([of : Failures, start : Nat, end : Nat])
    BY DEF Sorts
  <2>2. /\ windows'[n] = Window(g, at[End(g)]) /\ n \in DOMAIN windows'
        /\ \A j \in DOMAIN windows : windows'[j] = windows[j] /\ j \in DOMAIN windows'
        /\ \A j \in DOMAIN windows' : j = n \/ j \in DOMAIN windows
    BY <1>9, <2>1
  <2>3. /\ windows'[n].of = g /\ windows'[n].start = at[Start(g)]
        /\ windows'[n].end = at[End(g)]
    BY <2>2 DEF Window
  <2>4. End(g) \in read' /\ read \subseteq read'
    BY <1>1, <1>3
  <2> HIDE DEF n
  <2>5. \A j \in DOMAIN windows' :
          LET f == windows'[j].of
          IN  End(f) \in read' /\ windows'[j].start = at[Start(f)] /\ windows'[j].end = at[End(f)]
    BY <2>2, <2>3, <2>4 DEF Closed
  <2>6. \A f \in Failures : End(f) \in read' => \E j \in DOMAIN windows' : windows'[j].of = f
    BY <1>11, <2>2, <2>3 DEF Closed
  <2> QED BY <1>5, <2>5, <2>6 DEF Closed
<1> QED BY <1>12, <1>13, <1>14
-----------------------------------------------------------------------------
(* The verdict: the alerts *)

\* In what was read, a visible failure was felt when the alert was reported.
Seen(S) == \E a \in S \cap Reported, f \in Visible : Detects(a, f)

\* An alert was reported when no failure was felt, those apart that GET survives.
Strayed(S) == \E a \in S \cap Reported : \A f \in Failures \ Traps : ~Detects(a, f)

\* The latency leads from the start of a visible failure to an alert that detects it.
Latency(n) ==
    \E a \in Reported, f \in Visible :
        Detects(a, f) /\ n = alert[a].reportedAt - at[Start(f)]

\* When all is read, the windows of the visible failures and those of the
\* advisories are felt when the failures are.
LEMMA WindowsAre ==
  ASSUME Sorts, Closed, read = Events
  PROVE  /\ \A j \in normalWindows : windows[j].of \in Visible
         /\ \A f \in Visible : \E j \in normalWindows : windows[j].of = f
         /\ \A j \in tlsAdvisoryWindows : windows[j].of \in Failures \ Traps
         /\ \A f \in Failures \ Traps : f \in Visible \/ \E j \in tlsAdvisoryWindows : windows[j].of = f
         /\ \A t : \A j \in DOMAIN windows : containsTime(windows[j], t) <=> Active(windows[j].of, t)
         /\ normalWindows \subseteq DOMAIN windows /\ tlsAdvisoryWindows \subseteq DOMAIN windows
<1>1. Given /\ \A f \in Traps : Type[f] \notin Advisory
  BY PlanIs DEF Sorts
<1>2. \A j \in DOMAIN windows : windows[j].of \in Failures
  <2> DEFINE R == [of : Failures, start : Nat, end : Nat]
  <2>1. windows \in Seq(R)
    BY DEF Sorts
  <2> HIDE DEF R
  <2>2. \A j \in DOMAIN windows : windows[j] \in R
    BY <2>1
  <2> QED BY <2>2 DEF R
<1>3. \A f \in Failures : \E j \in DOMAIN windows : windows[j].of = f
  BY EventsAre DEF Closed
<1>4. \A j : /\ j \in normalWindows <=> /\ j \in DOMAIN windows
                                        /\ Type[windows[j].of] \notin Advisory
                                        /\ windows[j].of \notin Traps
             /\ j \in tlsAdvisoryWindows <=> /\ j \in DOMAIN windows
                                             /\ Type[windows[j].of] \in Advisory
  BY DEF normalWindows, tlsAdvisoryWindows, isTLSAdvisoryFailure, isHealthyGETMethodTrap
<1>5. \A f : f \in Visible <=> f \in Failures /\ Type[f] \notin Advisory /\ f \notin Traps
  BY DEF Visible
<1>6. \A t : \A j \in DOMAIN windows : containsTime(windows[j], t) <=> Active(windows[j].of, t)
  BY DEF Closed, containsTime, effectiveFailureEnd, Active
<1>7. \A j \in normalWindows : windows[j].of \in Visible
  BY <1>2, <1>4, <1>5
<1>8. \A f \in Visible : \E j \in normalWindows : windows[j].of = f
  BY <1>3, <1>4, <1>5
<1>9. \A j \in tlsAdvisoryWindows : windows[j].of \in Failures \ Traps
  BY <1>1, <1>2, <1>4
<1>10. \A f \in Failures \ Traps : f \in Visible \/ \E j \in tlsAdvisoryWindows : windows[j].of = f
  BY <1>3, <1>4, <1>5
<1> QED BY <1>4, <1>6, <1>7, <1>8, <1>9, <1>10

\* The windows an alert falls into tell which failures it detects.
LEMMA AlertFalls ==
  ASSUME Sorts, Closed, read = Events, NEW a \in Reported,
         NEW hits, hits = {j \in normalWindows : containsTime(windows[j], alert[a].reportedAt)},
         NEW advisory,
         advisory = \E j \in tlsAdvisoryWindows : containsTime(windows[j], alert[a].reportedAt)
  PROVE  /\ hits # {} <=> \E f \in Visible : Detects(a, f)
         /\ hits = {} /\ ~advisory <=> \A f \in Failures \ Traps : ~Detects(a, f)
         /\ \A j \in hits : windows[j].of \in Visible /\ Detects(a, windows[j].of)
<1> DEFINE t == alert[a].reportedAt
<1>1. \A j \in DOMAIN windows : containsTime(windows[j], t) <=> Detects(a, windows[j].of)
  BY WindowsAre DEF Detects
<1>2. \A j : j \in hits <=> j \in normalWindows /\ Detects(a, windows[j].of)
  BY <1>1, WindowsAre
<1>3. advisory <=> \E j \in tlsAdvisoryWindows : Detects(a, windows[j].of)
  BY <1>1, WindowsAre
<1>4. hits # {} <=> \E f \in Visible : Detects(a, f)
  BY <1>2, WindowsAre
<1>5. \A f \in Visible : f \in Failures \ Traps
  BY DEF Visible
<1>6. hits = {} /\ ~advisory <=> \A f \in Failures \ Traps : ~Detects(a, f)
  BY <1>3, <1>4, <1>5, WindowsAre
<1> QED BY <1>2, <1>4, <1>6, WindowsAre

\* What has been told of the alerts read so far.
Judged ==
    /\ v.truePositive <=> Seen(scanned)
    /\ v.falsePositive <=> Strayed(scanned)
    /\ detectionLatency # None <=> v.truePositive
    /\ detectionLatency # None => Latency(detectionLatency)

\* While the alerts are read nothing is suppressed, and a run with a visible
\* failure counts as missed until one is detected.
Unexcused ==
    /\ v.falseNegative <=> Visible # {} /\ ~v.truePositive
    /\ ~v.maintenanceSuppressed /\ ~v.cooldownSuppressed /\ ~v.cooldownUncertain

Verdicts == {"truePositive", "falseNegative", "maintenanceSuppressed",
             "cooldownSuppressed", "cooldownUncertain"}

\* One verdict where a failure was visible, else none.
OneIsGiven ==
    /\ Visible = {} => \A x \in Verdicts : ~v[x]
    /\ Visible # {} => \E x \in Verdicts : v[x] /\ \A y \in Verdicts : v[y] => y = x

\* Before and after the pass over the alerts.
Blank == v = NoFlags /\ detectionLatency = None /\ scanned = {}

\* The inductive invariant: the windows, and at each stage what was told.
MeasureInv ==
    /\ Sorts /\ InTime /\ Forward
    /\ stage = "events" => Blank
    /\ stage # "events" => read = Events
    /\ stage = "alerts" => ~unknown
    /\ stage = "done" /\ unknown => Blank
    /\ Apart =>
         /\ Open /\ KnownUnderItsType /\ Closed
         /\ stage # "events" /\ ~unknown => Judged
         /\ stage = "alerts" => Unexcused
         /\ stage = "done" /\ ~unknown => /\ scanned = Alerts /\ OneIsGiven
                                          /\ v.falseNegative => Visible # {} /\ ~v.truePositive
\* Nothing given changes.
LEMMA GivenStays ==
  ASSUME Given, UNCHANGED input
  PROVE  /\ Given' /\ Visible' = Visible /\ Reported' = Reported /\ Types' = Types
         /\ (Apart' <=> Apart)
         /\ \A a, f : Detects(a, f)' <=> Detects(a, f)
         /\ \A n : Latency(n)' <=> Latency(n)
         /\ plan' = plan /\ at' = at /\ unknown' = unknown /\ alert' = alert
         /\ Traps' = Traps /\ maintenance' = maintenance /\ cooldown' = cooldown
<1>1. plan' = plan /\ at' = at /\ alert' = alert /\ unknown' = unknown
      /\ maintenance' = maintenance /\ cooldown' = cooldown
  BY DEF input
<1>2. /\ Given' /\ Visible' = Visible /\ Reported' = Reported /\ Types' = Types /\ Traps' = Traps
      /\ (Apart' <=> Apart)
  BY <1>1 DEF Given, Logs, Visible, Reported, Types, Type, Traps, Apart
<1>3. \A a, f : Detects(a, f)' <=> Detects(a, f)
  BY <1>1 DEF Detects, Active, Delay
<1>4. \A n : Latency(n)' <=> Latency(n)
  BY <1>1, <1>2, <1>3 DEF Latency
<1> QED BY <1>1, <1>2, <1>3, <1>4

\* The windows and the order of reading, where nothing is read any more.
ReadOn ==
    /\ InTime /\ Forward
    /\ Apart => Open /\ KnownUnderItsType /\ Closed

LEMMA ReadOnStays ==
  ASSUME Given, ReadOn, UNCHANGED <<input, read, startsByType, windows>>
  PROVE  ReadOn'
<1>1. plan' = plan /\ at' = at /\ (Apart' <=> Apart)
  BY GivenStays
<1>2. Types' = Types /\ \A f : Type'[f] = Type[f]
  BY <1>1 DEF Types, Type
<1>3. InTime' <=> InTime
  BY <1>1 DEF InTime
<1>4. Forward' <=> Forward
  BY <1>1, <1>2 DEF Forward
<1>5. Open' <=> Open
  BY <1>1, <1>2 DEF Open
<1>6. KnownUnderItsType' <=> KnownUnderItsType
  BY <1>1, <1>2 DEF KnownUnderItsType
<1>7. Closed' <=> Closed
  BY <1>1, <1>2 DEF Closed
<1> QED BY <1>1, <1>3, <1>4, <1>5, <1>6, <1>7 DEF ReadOn

\* The flags a step leaves alone.
Flags == [truePositive : BOOLEAN, falseNegative : BOOLEAN, falsePositive : BOOLEAN,
          tlsAdvisoryDetected : BOOLEAN, tlsAdvisoryMissed : BOOLEAN,
          tlsAdvisoryFalseOutage : BOOLEAN, maintenanceSuppressed : BOOLEAN,
          cooldownSuppressed : BOOLEAN, cooldownUncertain : BOOLEAN]

LEMMA NoneAreSet ==
    /\ NoFlags \in Flags
    /\ \A x \in {"truePositive", "falsePositive"} \cup Verdicts : ~NoFlags[x]
BY DEF NoFlags, Flags, Verdicts

LEMMA EventsReadStep ==
  ASSUME MeasureInv, EventsRead
  PROVE  MeasureInv'
<1>1. /\ stage = "events" /\ read = Events
      /\ stage' = IF unknown THEN "done" ELSE "alerts"
      /\ v' = IF unknown THEN v
              ELSE [v EXCEPT !.falseNegative = normalWindows # {},
                             !.tlsAdvisoryMissed = tlsAdvisoryWindows # {}]
      /\ UNCHANGED input
      /\ UNCHANGED <<input, read, startsByType, windows>>
      /\ UNCHANGED <<scanned, detectionLatency>>
  BY DEF EventsRead
<1>2. Given /\ ReadOn /\ Sorts /\ unknown \in BOOLEAN
  BY DEF MeasureInv, ReadOn, Sorts, Given
<1>3. ReadOn'
  BY <1>1, <1>2, ReadOnStays
<1>4. /\ Given' /\ Types' = Types /\ unknown' = unknown /\ (Apart' <=> Apart)
      /\ Visible' = Visible
  BY <1>1, <1>2, GivenStays
<1>5. v = NoFlags /\ detectionLatency = None /\ scanned = {}
  BY <1>1 DEF MeasureInv, Blank
<1>6. /\ v' \in Flags
      /\ ~unknown => /\ v'.falseNegative <=> normalWindows # {}
                     /\ ~v'.truePositive /\ ~v'.falsePositive /\ ~v'.maintenanceSuppressed
                     /\ ~v'.cooldownSuppressed /\ ~v'.cooldownUncertain
  <2> DEFINE b == normalWindows # {}
             c == tlsAdvisoryWindows # {}
  <2>1. b \in BOOLEAN /\ c \in BOOLEAN
    OBVIOUS
  <2>2. v' = IF unknown THEN v ELSE [v EXCEPT !.falseNegative = b, !.tlsAdvisoryMissed = c]
    BY <1>1
  <2> HIDE DEF b, c
  <2>3. CASE unknown
    BY <1>5, <2>2, <2>3, NoneAreSet
  <2>4. CASE ~unknown
    <3>1. v' = [NoFlags EXCEPT !.falseNegative = b, !.tlsAdvisoryMissed = c]
      BY <1>5, <2>2, <2>4
    <3>2. /\ v' \in Flags /\ v'.falseNegative = b
          /\ ~v'.truePositive /\ ~v'.falsePositive /\ ~v'.maintenanceSuppressed
          /\ ~v'.cooldownSuppressed /\ ~v'.cooldownUncertain
      BY <2>1, <3>1 DEF NoFlags, Flags
    <3> QED BY <2>4, <3>2 DEF b
  <2> QED BY <2>3, <2>4
<1>7. Sorts'
  BY <1>1, <1>2, <1>4, <1>6 DEF Sorts, Flags
<1>8. read' = Events /\ stage' # "events"
  BY <1>1
<1>9. stage' = "alerts" => ~unknown'
  BY <1>1, <1>4
<1>10. stage' = "done" /\ unknown' => Blank'
  BY <1>1, <1>4, <1>5 DEF Blank
<1>11. ASSUME Apart', ~unknown'
       PROVE  stage' = "alerts" /\ Judged' /\ Unexcused'
  <2>1. Closed /\ ~unknown
    BY <1>2, <1>4, <1>11 DEF ReadOn
  <2>2. normalWindows # {} <=> Visible # {}
    BY <1>1, <1>2, <2>1, WindowsAre
  <2>3. Judged'
    <3>1. scanned' = {} /\ detectionLatency' = None /\ ~v'.truePositive /\ ~v'.falsePositive
      BY <1>1, <1>5, <1>6, <2>1
    <3>2. ~Seen(scanned)' /\ ~Strayed(scanned)'
      BY <3>1 DEF Seen, Strayed
    <3> QED BY <3>1, <3>2 DEF Judged
  <2>4. Unexcused'
    BY <1>4, <1>6, <2>1, <2>2 DEF Unexcused, Verdicts
  <2> QED BY <1>1, <2>1, <2>3, <2>4
<1>12. ASSUME unknown' PROVE stage' = "done"
  BY <1>1, <1>4, <1>12
<1> QED BY <1>3, <1>7, <1>8, <1>9, <1>10, <1>11, <1>12 DEF MeasureInv, ReadOn
\* w is u with the six flags that the pass over the alerts sets.
SixSet(w, u, b1, b2, b3, b4, b5, b6) ==
    w = [u EXCEPT !.truePositive = b1, !.falseNegative = b2, !.falsePositive = b3,
                  !.tlsAdvisoryDetected = b4, !.tlsAdvisoryFalseOutage = b5,
                  !.tlsAdvisoryMissed = b6]

\* Three of them as they are set, and the rest as they were.
Kept(w, u, b1, b2, b3) ==
    /\ w \in Flags
    /\ w.maintenanceSuppressed = u.maintenanceSuppressed
    /\ w.cooldownSuppressed = u.cooldownSuppressed
    /\ w.cooldownUncertain = u.cooldownUncertain
    /\ w.truePositive = b1 /\ w.falseNegative = b2 /\ w.falsePositive = b3

\* Setting six flags leaves the rest.
LEMMA FlagsSet ==
  ASSUME NEW u, NEW w, NEW b1, NEW b2, NEW b3, NEW b4, NEW b5, NEW b6,
         u \in Flags, {b1, b2, b3, b4, b5, b6} \subseteq BOOLEAN,
         SixSet(w, u, b1, b2, b3, b4, b5, b6)
  PROVE  Kept(w, u, b1, b2, b3)
<1>1. u = [truePositive |-> u.truePositive, falseNegative |-> u.falseNegative,
           falsePositive |-> u.falsePositive, tlsAdvisoryDetected |-> u.tlsAdvisoryDetected,
           tlsAdvisoryMissed |-> u.tlsAdvisoryMissed,
           tlsAdvisoryFalseOutage |-> u.tlsAdvisoryFalseOutage,
           maintenanceSuppressed |-> u.maintenanceSuppressed,
           cooldownSuppressed |-> u.cooldownSuppressed,
           cooldownUncertain |-> u.cooldownUncertain]
  BY DEF Flags
<1>2. /\ u.maintenanceSuppressed \in BOOLEAN /\ u.cooldownSuppressed \in BOOLEAN
      /\ u.cooldownUncertain \in BOOLEAN
  BY DEF Flags
<1>3. w = [truePositive |-> b1, falseNegative |-> b2,
           falsePositive |-> b3, tlsAdvisoryDetected |-> b4,
           tlsAdvisoryMissed |-> b6,
           tlsAdvisoryFalseOutage |-> b5,
           maintenanceSuppressed |-> u.maintenanceSuppressed,
           cooldownSuppressed |-> u.cooldownSuppressed,
           cooldownUncertain |-> u.cooldownUncertain]
  BY <1>1, Zenon DEF SixSet
<1>4. /\ b1 \in BOOLEAN /\ b2 \in BOOLEAN /\ b3 \in BOOLEAN
      /\ b4 \in BOOLEAN /\ b5 \in BOOLEAN /\ b6 \in BOOLEAN
  OBVIOUS
<1> QED BY <1>2, <1>3, <1>4 DEF Flags, Kept

\* One more alert is judged.  An alert without a time tells nothing.
LEMMA ScanStep ==
  ASSUME MeasureInv, ScanAlert
  PROVE  MeasureInv'
<1>1. PICK a \in Alerts \ scanned :
        LET t == alert[a].reportedAt
            hits == {j \in normalWindows : containsTime(windows[j], t)}
            first == CHOOSE j \in hits : \A i \in hits : j <= i
            advisory == \E j \in tlsAdvisoryWindows : containsTime(windows[j], t)
            detected == advisory /\ alert[a].class = "tls_advisory"
        IN  /\ scanned' = scanned \cup {a}
            /\ IF t = None
                 THEN UNCHANGED <<v, detectionLatency>>
                 ELSE /\ v' = [v EXCEPT
                                !.truePositive = @ \/ hits # {},
                                !.falseNegative = @ /\ hits = {},
                                !.falsePositive = @ \/ (hits = {} /\ ~advisory),
                                !.tlsAdvisoryDetected = @ \/ detected,
                                !.tlsAdvisoryFalseOutage = @ \/ (advisory /\ ~detected),
                                !.tlsAdvisoryMissed = @ /\ ~advisory]
                      /\ detectionLatency' = IF detectionLatency = None /\ hits # {}
                                               THEN t - windows[first].start ELSE detectionLatency
  BY DEF ScanAlert
<1> DEFINE t == alert[a].reportedAt
           hits == {j \in normalWindows : containsTime(windows[j], t)}
           first == CHOOSE j \in hits : \A i \in hits : j <= i
           advisory == \E j \in tlsAdvisoryWindows : containsTime(windows[j], t)
           detected == advisory /\ alert[a].class = "tls_advisory"
<1>2. /\ stage = "alerts" /\ scanned' = scanned \cup {a}
      /\ UNCHANGED input /\ UNCHANGED <<input, read, startsByType, windows>>
      /\ stage' = stage
  BY <1>1 DEF ScanAlert
<1>3. Given /\ ReadOn /\ Sorts /\ v \in Flags /\ ~unknown /\ read = Events
  BY <1>2 DEF MeasureInv, ReadOn, Sorts, Flags
<1>4. ReadOn'
  BY <1>2, <1>3, ReadOnStays
<1>5. /\ Given' /\ Types' = Types /\ unknown' = unknown /\ (Apart' <=> Apart)
      /\ Visible' = Visible /\ Reported' = Reported
      /\ \A b, f : Detects(b, f)' <=> Detects(b, f)
      /\ \A n : Latency(n)' <=> Latency(n)
      /\ alert' = alert /\ Traps' = Traps
  BY <1>2, <1>3, GivenStays
<1>6. t \in AlertTimes \cup {None}
  BY <1>3 DEF Given
<1>7. t # None => t \in Nat
  BY <1>6, MeasureAssumption
<1>8. (t # None) <=> a \in Reported
  BY DEF Reported
<1>9. hits # {} => /\ first \in hits /\ first \in DOMAIN windows
                   /\ windows[first].start \in Nat /\ windows[first].start <= t
  <2> HAVE hits # {}
  <2>1. DOMAIN windows = 1..Len(windows) /\ Len(windows) \in Nat
    BY <1>3 DEF Sorts
  <2>2. hits \in SUBSET Nat
    BY <2>1 DEF normalWindows
  <2>3. \E j \in hits : \A i \in hits : j <= i
    <3> HIDE DEF hits
    <3> QED BY <2>2, Least
  <2>4. first \in hits
    <3> HIDE DEF hits
    <3> QED BY <2>3
  <2>5. first \in DOMAIN windows /\ containsTime(windows[first], t)
    BY <2>4 DEF normalWindows
  <2>6. \A j \in DOMAIN windows : windows[j].start \in Nat
    <3> DEFINE R == [of : Failures, start : Nat, end : Nat]
    <3>1. windows \in Seq(R)
      BY <1>3 DEF Sorts
    <3> HIDE DEF R
    <3>2. \A j \in DOMAIN windows : windows[j] \in R
      BY <3>1
    <3> QED BY <3>2 DEF R
  <2> HIDE DEF first
  <2> QED BY <2>4, <2>5, <2>6 DEF containsTime
<1>10. /\ v' \in Flags
       /\ detectionLatency' \in Nat \cup {None}
       /\ v'.maintenanceSuppressed = v.maintenanceSuppressed
       /\ v'.cooldownSuppressed = v.cooldownSuppressed
       /\ v'.cooldownUncertain = v.cooldownUncertain
       /\ t = None => v' = v /\ detectionLatency' = detectionLatency
       /\ t # None =>
            /\ v'.truePositive <=> v.truePositive \/ hits # {}
            /\ v'.falseNegative <=> v.falseNegative /\ hits = {}
            /\ v'.falsePositive <=> v.falsePositive \/ (hits = {} /\ ~advisory)
            /\ detectionLatency' = IF detectionLatency = None /\ hits # {}
                                     THEN t - windows[first].start ELSE detectionLatency
  <2>0. detectionLatency \in Nat \cup {None}
    BY <1>3 DEF Sorts
  <2>1. CASE t = None
    BY <1>1, <1>3, <2>0, <2>1
  <2>2. CASE t # None
    <3>1. /\ v' = [v EXCEPT
                    !.truePositive = @ \/ hits # {},
                    !.falseNegative = @ /\ hits = {},
                    !.falsePositive = @ \/ (hits = {} /\ ~advisory),
                    !.tlsAdvisoryDetected = @ \/ detected,
                    !.tlsAdvisoryFalseOutage = @ \/ (advisory /\ ~detected),
                    !.tlsAdvisoryMissed = @ /\ ~advisory]
          /\ detectionLatency' = IF detectionLatency = None /\ hits # {}
                                   THEN t - windows[first].start ELSE detectionLatency
      BY <1>1, <2>2
    <3>2. hits # {} => t - windows[first].start \in Nat
      <4> HIDE DEF hits, first, t
      <4> QED BY <1>7, <1>9, <2>2
    <3> HIDE DEF hits, first, t, advisory, detected
    <3>3. detectionLatency' \in Nat \cup {None}
      BY <2>0, <3>1, <3>2
    <3>4. PICK b1 \in BOOLEAN, b2 \in BOOLEAN, b3 \in BOOLEAN, b4 \in BOOLEAN, b5 \in BOOLEAN,
              b6 \in BOOLEAN :
            /\ SixSet(v', v, b1, b2, b3, b4, b5, b6)
            /\ b1 <=> v.truePositive \/ hits # {}
            /\ b2 <=> v.falseNegative /\ hits = {}
            /\ b3 <=> v.falsePositive \/ (hits = {} /\ ~advisory)
      BY <3>1, Zenon DEF SixSet
    <3>5. /\ v' \in Flags
          /\ v'.maintenanceSuppressed = v.maintenanceSuppressed
          /\ v'.cooldownSuppressed = v.cooldownSuppressed
          /\ v'.cooldownUncertain = v.cooldownUncertain
          /\ v'.truePositive = b1 /\ v'.falseNegative = b2 /\ v'.falsePositive = b3
      <4>1. v \in Flags /\ SixSet(v', v, b1, b2, b3, b4, b5, b6)
        BY <1>3, <3>4
      <4>2. {b1, b2, b3, b4, b5, b6} \subseteq BOOLEAN
        OBVIOUS
      <4>3. Kept(v', v, b1, b2, b3)
        BY <4>1, <4>2, FlagsSet, ZenonT(30)
      <4> QED BY <4>3 DEF Kept
    <3> QED BY <2>2, <3>1, <3>3, <3>4, <3>5
  <2> QED BY <2>1, <2>2
<1>11. Sorts'
  BY <1>2, <1>3, <1>5, <1>10 DEF Sorts, Flags
<1> HIDE DEF first
<1>12. ASSUME Apart'
       PROVE  Judged' /\ Unexcused'
  <2>1. Closed /\ Judged /\ Unexcused
    BY <1>2, <1>3, <1>5, <1>12 DEF ReadOn, MeasureInv
  <2>2. a \in Reported =>
          /\ hits # {} <=> \E f \in Visible : Detects(a, f)
          /\ hits = {} /\ ~advisory <=> \A f \in Failures \ Traps : ~Detects(a, f)
          /\ \A j \in hits : windows[j].of \in Visible /\ Detects(a, windows[j].of)
    BY <1>3, <2>1, AlertFalls
  <2>3. hits # {} => windows[first].start = at[Start(windows[first].of)]
    BY <1>9, <2>1 DEF Closed
  <2> HIDE DEF hits, advisory
  <2>4. Seen(scanned)' <=> \/ Seen(scanned)
                           \/ a \in Reported /\ \E f \in Visible : Detects(a, f)
    BY <1>2, <1>5 DEF Seen
  <2>5. Strayed(scanned)' <=> \/ Strayed(scanned)
                              \/ a \in Reported /\ \A f \in Failures \ Traps : ~Detects(a, f)
    BY <1>2, <1>5 DEF Strayed
  <2>6. CASE t = None
    <3>1. a \notin Reported
      BY <1>8, <2>6
    <3>2. v' = v /\ detectionLatency' = detectionLatency
      BY <1>10, <2>6
    <3>3. Judged'
      BY <1>5, <2>1, <2>4, <2>5, <3>1, <3>2 DEF Judged
    <3> QED BY <1>5, <2>1, <3>2, <3>3 DEF Unexcused
  <2>7. CASE t # None
    <3>1. a \in Reported
      BY <1>8, <2>7
    <3>2. v'.truePositive <=> Seen(scanned)'
      BY <1>10, <2>1, <2>2, <2>4, <2>7, <3>1 DEF Judged
    <3>3. v'.falsePositive <=> Strayed(scanned)'
      BY <1>10, <2>1, <2>2, <2>5, <2>7, <3>1 DEF Judged
    <3>4. Unexcused'
      BY <1>5, <1>10, <2>1, <2>7 DEF Unexcused
    <3>5. detectionLatency' # None <=> v'.truePositive
      <4>1. hits # {} => t - windows[first].start \in Nat
        <5> HIDE DEF t
        <5> QED BY <1>7, <1>9, <2>7
      <4>2. \A n \in Nat : n # None
        BY MeasureAssumption
      <4> QED BY <1>10, <2>1, <2>7, <4>1, <4>2 DEF Judged
    <3>6. detectionLatency' # None => Latency(detectionLatency)'
      <4>1. CASE detectionLatency = None /\ hits # {}
        <5>1. detectionLatency' = t - at[Start(windows[first].of)]
          BY <1>10, <2>3, <2>7, <4>1
        <5>2. windows[first].of \in Visible /\ Detects(a, windows[first].of)
          BY <1>9, <2>2, <3>1, <4>1
        <5>3. \E b \in Reported, f \in Visible :
                Detects(b, f) /\ detectionLatency' = alert[b].reportedAt - at[Start(f)]
          BY <3>1, <5>1, <5>2
        <5>4. at' = at
          BY <1>2 DEF input
        <5> QED BY <1>5, <5>3, <5>4 DEF Latency
      <4>2. CASE ~(detectionLatency = None /\ hits # {})
        <5>1. detectionLatency' = detectionLatency
          BY <1>10, <2>7, <4>2
        <5>2. at' = at
          BY <1>2 DEF input
        <5> QED BY <1>5, <2>1, <5>1, <5>2 DEF Judged, Latency
      <4> QED BY <4>1, <4>2
    <3> QED BY <3>2, <3>3, <3>4, <3>5, <3>6 DEF Judged
  <2> QED BY <2>6, <2>7
<1>13. /\ stage' = "alerts" /\ stage' # "events" /\ stage' # "done"
       /\ read' = Events /\ ~unknown'
  BY <1>2, <1>3, <1>5
<1> QED BY <1>4, <1>11, <1>12, <1>13 DEF MeasureInv, ReadOn
\* w is u with the four flags that the search for an excuse sets.
FourSet(w, u, ms, cs, cu, fn) ==
    w = [u EXCEPT !.maintenanceSuppressed = ms, !.cooldownSuppressed = cs,
                  !.cooldownUncertain = cu, !.falseNegative = fn]

Excused(w, u, ms, cs, cu, fn) ==
    /\ w \in Flags
    /\ w.truePositive = u.truePositive /\ w.falsePositive = u.falsePositive
    /\ w.maintenanceSuppressed = ms /\ w.cooldownSuppressed = cs
    /\ w.cooldownUncertain = cu /\ w.falseNegative = fn

LEMMA ExcuseSet ==
  ASSUME NEW u, NEW w, NEW ms, NEW cs, NEW cu, NEW fn,
         u \in Flags, {ms, cs, cu, fn} \subseteq BOOLEAN,
         FourSet(w, u, ms, cs, cu, fn)
  PROVE  Excused(w, u, ms, cs, cu, fn)
<1>1. u = [truePositive |-> u.truePositive, falseNegative |-> u.falseNegative,
           falsePositive |-> u.falsePositive, tlsAdvisoryDetected |-> u.tlsAdvisoryDetected,
           tlsAdvisoryMissed |-> u.tlsAdvisoryMissed,
           tlsAdvisoryFalseOutage |-> u.tlsAdvisoryFalseOutage,
           maintenanceSuppressed |-> u.maintenanceSuppressed,
           cooldownSuppressed |-> u.cooldownSuppressed,
           cooldownUncertain |-> u.cooldownUncertain]
  BY DEF Flags
<1>2. /\ u.truePositive \in BOOLEAN /\ u.falsePositive \in BOOLEAN
      /\ u.tlsAdvisoryDetected \in BOOLEAN /\ u.tlsAdvisoryMissed \in BOOLEAN
      /\ u.tlsAdvisoryFalseOutage \in BOOLEAN
  BY DEF Flags
<1>3. w = [truePositive |-> u.truePositive, falseNegative |-> fn,
           falsePositive |-> u.falsePositive, tlsAdvisoryDetected |-> u.tlsAdvisoryDetected,
           tlsAdvisoryMissed |-> u.tlsAdvisoryMissed,
           tlsAdvisoryFalseOutage |-> u.tlsAdvisoryFalseOutage,
           maintenanceSuppressed |-> ms, cooldownSuppressed |-> cs,
           cooldownUncertain |-> cu]
  BY <1>1, Zenon DEF FourSet
<1>4. /\ ms \in BOOLEAN /\ cs \in BOOLEAN /\ cu \in BOOLEAN /\ fn \in BOOLEAN
  OBVIOUS
<1> QED BY <1>2, <1>3, <1>4 DEF Flags, Excused

\* The five verdicts exclude each other when each excuse is looked for only after
\* those before it failed, and an excused miss is a miss no more.
LEMMA OneExcuse ==
  ASSUME NEW u \in Flags, NEW w, NEW ms \in BOOLEAN, NEW cs \in BOOLEAN, NEW cu \in BOOLEAN,
         NEW fn \in BOOLEAN, Excused(w, u, ms, cs, cu, fn),
         ms => u.falseNegative,
         cs => u.falseNegative /\ ~ms,
         cu => u.falseNegative /\ ~ms /\ ~cs,
         fn <=> u.falseNegative /\ ~ms /\ ~cs /\ ~cu,
         u.falseNegative <=> Visible # {} /\ ~u.truePositive,
         Visible = {} => ~u.truePositive
  PROVE  /\ Visible = {} => \A x \in Verdicts : ~w[x]
         /\ Visible # {} => \E x \in Verdicts : w[x] /\ \A y \in Verdicts : w[y] => y = x
<1> DEFINE seen == u.truePositive
<1>1. /\ w.truePositive = seen /\ w.maintenanceSuppressed = ms /\ w.cooldownSuppressed = cs
      /\ w.cooldownUncertain = cu /\ w.falseNegative = fn
  BY DEF Excused
<1>2. \A x \in Verdicts : \/ x = "truePositive" \/ x = "falseNegative"
                          \/ x = "maintenanceSuppressed" \/ x = "cooldownSuppressed"
                          \/ x = "cooldownUncertain"
  BY DEF Verdicts
<1>3. Visible = {} => ~seen /\ ~ms /\ ~cs /\ ~cu /\ ~fn
  OBVIOUS
<1>4. Visible = {} => \A x \in Verdicts : ~w[x]
  BY <1>1, <1>2, <1>3
<1>5. ASSUME Visible # {}
      PROVE  \E x \in Verdicts : w[x] /\ \A y \in Verdicts : w[y] => y = x
  <2>1. CASE seen
    <3>1. ~ms /\ ~cs /\ ~cu /\ ~fn
      BY <2>1
    <3>2. w["truePositive"] /\ \A y \in Verdicts : w[y] => y = "truePositive"
      BY <1>1, <1>2, <2>1, <3>1
    <3> QED BY <3>2 DEF Verdicts
  <2>2. CASE ms
    <3>1. ~seen /\ ~cs /\ ~cu /\ ~fn
      BY <2>2
    <3>2. w["maintenanceSuppressed"] /\ \A y \in Verdicts : w[y] => y = "maintenanceSuppressed"
      BY <1>1, <1>2, <2>2, <3>1
    <3> QED BY <3>2 DEF Verdicts
  <2>3. CASE cs
    <3>1. ~seen /\ ~ms /\ ~cu /\ ~fn
      BY <2>3
    <3>2. w["cooldownSuppressed"] /\ \A y \in Verdicts : w[y] => y = "cooldownSuppressed"
      BY <1>1, <1>2, <2>3, <3>1
    <3> QED BY <3>2 DEF Verdicts
  <2>4. CASE cu
    <3>1. ~seen /\ ~ms /\ ~cs /\ ~fn
      BY <2>4
    <3>2. w["cooldownUncertain"] /\ \A y \in Verdicts : w[y] => y = "cooldownUncertain"
      BY <1>1, <1>2, <2>4, <3>1
    <3> QED BY <3>2 DEF Verdicts
  <2>5. CASE ~seen /\ ~ms /\ ~cs /\ ~cu
    <3>1. fn
      BY <1>5, <2>5
    <3>2. w["falseNegative"] /\ \A y \in Verdicts : w[y] => y = "falseNegative"
      BY <1>1, <1>2, <2>5, <3>1
    <3> QED BY <3>2 DEF Verdicts
  <2> QED BY <2>1, <2>2, <2>3, <2>4, <2>5
<1> QED BY <1>4, <1>5

\* The excuses are looked for once all alerts are judged.
LEMMA SuppressStep ==
  ASSUME MeasureInv, Suppress
  PROVE  MeasureInv'
<1>1. /\ stage = "alerts" /\ scanned = Alerts
      /\ LET missed == v.falseNegative /\ windows # <<>>
             ms == missed /\ maintenance # None /\ covered
             cs == missed /\ ~ms /\ "suppressed" \in cooldown
             cu == missed /\ ~ms /\ ~cs /\ "uncertain" \in cooldown
         IN  v' = [v EXCEPT !.maintenanceSuppressed = ms, !.cooldownSuppressed = cs,
                            !.cooldownUncertain = cu,
                            !.falseNegative = @ /\ ~ms /\ ~cs /\ ~cu]
      /\ stage' = "done" /\ stage' # "events" /\ stage' # "alerts"
      /\ UNCHANGED input /\ UNCHANGED <<input, read, startsByType, windows>>
      /\ UNCHANGED <<scanned, detectionLatency>>
  BY DEF Suppress
<1>2. Given /\ ReadOn /\ Sorts /\ v \in Flags /\ ~unknown /\ read = Events
  BY <1>1 DEF MeasureInv, ReadOn, Sorts, Flags
<1>3. ReadOn'
  BY <1>1, <1>2, ReadOnStays
<1>4. /\ Given' /\ Types' = Types /\ unknown' = unknown /\ (Apart' <=> Apart)
      /\ Visible' = Visible /\ Reported' = Reported /\ Traps' = Traps
      /\ \A a, f : Detects(a, f)' <=> Detects(a, f)
      /\ \A n : Latency(n)' <=> Latency(n)
  BY <1>1, <1>2, GivenStays
<1>5. PICK ms \in BOOLEAN, cs \in BOOLEAN, cu \in BOOLEAN, fn \in BOOLEAN :
        /\ FourSet(v', v, ms, cs, cu, fn)
        /\ ms => v.falseNegative
        /\ cs => v.falseNegative /\ ~ms
        /\ cu => v.falseNegative /\ ~ms /\ ~cs
        /\ fn <=> v.falseNegative /\ ~ms /\ ~cs /\ ~cu
  <2> DEFINE missed == v.falseNegative /\ windows # <<>>
             ms == missed /\ maintenance # None /\ covered
             cs == missed /\ ~ms /\ "suppressed" \in cooldown
             cu == missed /\ ~ms /\ ~cs /\ "uncertain" \in cooldown
             fn == v.falseNegative /\ ~ms /\ ~cs /\ ~cu
  <2>1. FourSet(v', v, ms, cs, cu, fn)
    BY <1>1, Zenon DEF FourSet
  <2>2. ms \in BOOLEAN /\ cs \in BOOLEAN /\ cu \in BOOLEAN /\ fn \in BOOLEAN
    BY Zenon
  <2>3. /\ ms => v.falseNegative
        /\ cs => v.falseNegative /\ ~ms
        /\ cu => v.falseNegative /\ ~ms /\ ~cs
        /\ fn <=> v.falseNegative /\ ~ms /\ ~cs /\ ~cu
    BY Zenon
  <2> HIDE DEF ms, cs, cu, fn
  <2> QED BY <2>1, <2>2, <2>3, Zenon
<1>6. Excused(v', v, ms, cs, cu, fn)
  <2>1. v \in Flags /\ {ms, cs, cu, fn} \subseteq BOOLEAN
    BY <1>2
  <2> QED BY <1>5, <2>1, ExcuseSet, ZenonT(30)
<1>7. Sorts'
  BY <1>1, <1>2, <1>4, <1>6 DEF Sorts, Flags, Excused
<1>8. ASSUME Apart'
      PROVE  /\ Judged' /\ scanned' = Alerts /\ OneIsGiven'
             /\ v'.falseNegative => Visible' # {} /\ ~v'.truePositive
  <2>1. Judged /\ Unexcused
    BY <1>1, <1>2, <1>4, <1>8 DEF MeasureInv
  <2>2. /\ v'.truePositive = v.truePositive /\ v'.falsePositive = v.falsePositive
        /\ v'.falseNegative = fn
    BY <1>6 DEF Excused
  <2>3. (Seen(scanned)' <=> Seen(scanned)) /\ (Strayed(scanned)' <=> Strayed(scanned))
    BY <1>1, <1>4 DEF Seen, Strayed
  <2>4. Judged'
    BY <1>1, <1>4, <2>1, <2>2, <2>3 DEF Judged
  <2>5. Visible = {} => ~v.truePositive
    BY <2>1 DEF Judged, Seen
  <2>6. v.falseNegative <=> Visible # {} /\ ~v.truePositive
    BY <2>1 DEF Unexcused
  <2>7. /\ Visible = {} => \A x \in Verdicts : ~v'[x]
        /\ Visible # {} => \E x \in Verdicts : v'[x] /\ \A y \in Verdicts : v'[y] => y = x
    BY <1>2, <1>5, <1>6, <2>5, <2>6, OneExcuse
  <2>8. OneIsGiven'
    BY <1>4, <2>7 DEF OneIsGiven, Verdicts
  <2>9. v'.falseNegative => Visible' # {} /\ ~v'.truePositive
    BY <1>4, <1>5, <2>2, <2>6
  <2> QED BY <1>1, <2>4, <2>8, <2>9
<1>9. read' = Events /\ ~unknown'
  BY <1>1, <1>2, <1>4
<1> QED BY <1>1, <1>3, <1>7, <1>8, <1>9 DEF MeasureInv, ReadOn
\* The windows are made event by event.
LEMMA ReadingStep ==
  ASSUME MeasureInv, FailureStart \/ FailureEnd
  PROVE  MeasureInv'
<1>1. Sorts /\ InTime /\ Forward /\ Given /\ stage = "events" /\ Blank
  BY DEF MeasureInv, FailureStart, FailureEnd, Sorts
<1>2. /\ UNCHANGED input /\ stage' = "events"
      /\ v' = v /\ detectionLatency' = detectionLatency /\ scanned' = scanned
  BY <1>1 DEF FailureStart, FailureEnd
<1>3. Sorts' /\ InTime' /\ Forward'
  BY <1>1, StartStep, EndStep
<1>4. Apart' => Open' /\ KnownUnderItsType' /\ Closed'
  <2> HAVE Apart'
  <2>1. Apart /\ Open /\ KnownUnderItsType /\ Closed
    BY <1>1, <1>2, GivenStays DEF MeasureInv
  <2> QED BY <1>1, <2>1, StartOpens, EndCloses
<1>5. Blank'
  BY <1>1, <1>2 DEF Blank, NoFlags
<1> QED BY <1>2, <1>3, <1>4, <1>5 DEF MeasureInv

LEMMA MeasureBegins ==
  ASSUME MeasureInit
  PROVE  MeasureInv
<1>1. Given /\ stage = "events" /\ read = {} /\ Blank
  BY DEF MeasureInit, Given, Blank
<1>2. startsByType = [t \in Types |-> None] /\ windows = <<>> /\ scanned = {}
      /\ v = NoFlags /\ detectionLatency = None
  BY DEF MeasureInit
<1>3. Sorts
  BY <1>1, <1>2, NoneAreSet DEF Sorts, Flags
<1>4. \A t \in Types : startsByType[t] = None
  BY <1>2
<1>5. DOMAIN windows = {}
  BY <1>2
<1>6. InTime /\ Forward
  BY <1>1, <1>4, <1>5 DEF InTime, Forward
<1>7. \A f \in Failures : Type[f] \in Types /\ f # None
  BY <1>1, PlanIs, MeasureAssumption
<1>8. Open /\ KnownUnderItsType /\ Closed
  BY <1>1, <1>4, <1>5, <1>7 DEF Open, KnownUnderItsType, Closed
<1> QED BY <1>1, <1>3, <1>6, <1>8 DEF MeasureInv

LEMMA MeasureStep ==
  ASSUME MeasureInv, [MeasureNext]_measureVars
  PROVE  MeasureInv'
<1>1. CASE FailureStart \/ FailureEnd
  BY <1>1, ReadingStep
<1>2. CASE EventsRead
  BY <1>2, EventsReadStep
<1>3. CASE ScanAlert
  BY <1>3, ScanStep
<1>4. CASE Suppress
  BY <1>4, SuppressStep
<1>5. CASE VerdictGiven \/ UNCHANGED measureVars
  <2>1. UNCHANGED measureVars
    BY <1>5 DEF VerdictGiven
  <2>2. /\ UNCHANGED input /\ UNCHANGED <<input, read, startsByType, windows>>
        /\ stage' = stage /\ scanned' = scanned /\ v' = v /\ read' = read
        /\ detectionLatency' = detectionLatency
        /\ startsByType' = startsByType /\ windows' = windows
    BY <2>1 DEF measureVars
  <2>3. Given /\ ReadOn /\ Sorts
    BY DEF MeasureInv, ReadOn, Sorts
  <2>4. ReadOn'
    BY <2>2, <2>3, ReadOnStays
  <2>5. /\ Given' /\ Types' = Types /\ unknown' = unknown /\ (Apart' <=> Apart)
        /\ Visible' = Visible /\ Reported' = Reported /\ Traps' = Traps
        /\ \A a, f : Detects(a, f)' <=> Detects(a, f)
        /\ \A n : Latency(n)' <=> Latency(n)
    BY <2>2, <2>3, GivenStays
  <2>6. Sorts'
    BY <2>2, <2>3, <2>5 DEF Sorts
  <2>7. Blank' <=> Blank
    BY <2>2 DEF Blank, NoFlags
  <2>8. Judged' <=> Judged
    <3>1. (Seen(scanned)' <=> Seen(scanned)) /\ (Strayed(scanned)' <=> Strayed(scanned))
      BY <2>2, <2>5 DEF Seen, Strayed
    <3> QED BY <2>2, <2>5, <3>1 DEF Judged
  <2>9. (Unexcused' <=> Unexcused) /\ (OneIsGiven' <=> OneIsGiven)
    BY <2>2, <2>5 DEF Unexcused, OneIsGiven, Verdicts
  <2> QED BY <2>2, <2>4, <2>5, <2>6, <2>7, <2>8, <2>9 DEF MeasureInv, ReadOn
<1> QED BY <1>1, <1>2, <1>3, <1>4, <1>5 DEF MeasureNext

\* Whatever happened, the windows are those of the failures and the flags follow.
THEOREM MeasureInvariant == MeasureSpec => []MeasureInv
<1>1. MeasureInit => MeasureInv
  BY MeasureBegins
<1>2. MeasureInv /\ [MeasureNext]_measureVars => MeasureInv'
  BY MeasureStep
<1> QED BY <1>1, <1>2, PTL DEF MeasureSpec

\* The windows, flags and latency of Derive keep their types, and every window
\* leads forward in time.
THEOREM MeasureTypeCorrect == MeasureSpec => []MeasureTypeOK
<1>1. MeasureInv => MeasureTypeOK
  <2> SUFFICES ASSUME MeasureInv PROVE MeasureTypeOK
    OBVIOUS
  <2>1. Sorts /\ Forward
    BY DEF MeasureInv
  <2>2. DOMAIN windows = 1..Len(windows)
    BY <2>1 DEF Sorts
  <2>3. \A j \in DOMAIN windows : windows[j].of \in Failures
    <3> DEFINE R == [of : Failures, start : Nat, end : Nat]
    <3>1. windows \in Seq(R)
      BY <2>1 DEF Sorts
    <3> HIDE DEF R
    <3>2. \A j \in DOMAIN windows : windows[j] \in R
      BY <3>1
    <3> QED BY <3>2 DEF R
  <2>4. v \in Flags
    BY <2>1 DEF Sorts, Flags
  <2>5. v \in [DOMAIN NoFlags -> BOOLEAN]
    BY <2>4 DEF Flags, NoFlags
  <2> QED BY <2>1, <2>2, <2>3, <2>5 DEF Sorts, Forward, MeasureTypeOK
<1> QED BY <1>1, MeasureInvariant, PTL

\* The verdict on a run is the one its failures and the service's alerts call
\* for: a true positive, a false positive and a miss are what they say, just one
\* verdict is given, and a latency is that of a detection.
THEOREM VerdictsAreRight == MeasureSpec => []VerdictRight
<1>1. MeasureInv => VerdictRight
  <2> SUFFICES ASSUME MeasureInv PROVE VerdictRight
    OBVIOUS
  <2>1. v \in Flags
    BY DEF MeasureInv, Sorts, Flags
  <2>2. \A a \in Alerts \cap Reported : a \in Reported
    OBVIOUS
  <2>3. Alerts \cap Reported = Reported
    BY DEF Reported
  <2>4. Seen(Alerts) <=> \E a \in Reported, f \in Visible : Detects(a, f)
    BY <2>3 DEF Seen
  <2>5. Strayed(Alerts) <=> \E a \in Reported : \A f \in Failures \ Traps : ~Detects(a, f)
    BY <2>3 DEF Strayed
  <2>6. VerdictSound
    <3> SUFFICES ASSUME Apart, stage = "done", ~unknown
                 PROVE  /\ v.truePositive = \E a \in Reported, f \in Visible : Detects(a, f)
                        /\ v.falsePositive = \E a \in Reported : \A f \in Failures \ Traps : ~Detects(a, f)
                        /\ v.falseNegative => Visible # {} /\ ~v.truePositive
      BY DEF VerdictSound, Sound
    <3>1. Judged /\ scanned = Alerts /\ (v.falseNegative => Visible # {} /\ ~v.truePositive)
      BY DEF MeasureInv
    <3>2. v.truePositive \in BOOLEAN /\ v.falsePositive \in BOOLEAN
      BY <2>1 DEF Flags
    <3> QED BY <2>4, <2>5, <3>1, <3>2 DEF Judged
  <2>7. OneVerdict
    <3> SUFFICES ASSUME Apart, stage = "done", ~unknown
                 PROVE  Cardinality({x \in Verdicts : v[x]}) = IF Visible = {} THEN 0 ELSE 1
      BY DEF OneVerdict, Verdicts
    <3>1. OneIsGiven
      BY DEF MeasureInv
    <3>2. CASE Visible = {}
      <4>1. {x \in Verdicts : v[x]} = {}
        BY <3>1, <3>2 DEF OneIsGiven
      <4> QED BY <3>2, <4>1, FS_EmptySet
    <3>3. CASE Visible # {}
      <4>1. PICK x \in Verdicts : v[x] /\ \A y \in Verdicts : v[y] => y = x
        BY <3>1, <3>3 DEF OneIsGiven
      <4>2. {y \in Verdicts : v[y]} = {x}
        BY <4>1
      <4> QED BY <3>3, <4>2, FS_Singleton
    <3> QED BY <3>2, <3>3
  <2>8. LatencyOfDetection
    <3> SUFFICES ASSUME stage = "done", Apart
                 PROVE  /\ (detectionLatency # None) = v.truePositive
                        /\ detectionLatency # None => Latency(detectionLatency)
      BY DEF LatencyOfDetection, Latency
    <3>1. v.truePositive \in BOOLEAN
      BY <2>1 DEF Flags
    <3>2. CASE unknown
      <4>1. detectionLatency = None /\ ~v.truePositive
        BY <3>2, NoneAreSet DEF MeasureInv, Blank, NoFlags
      <4> QED BY <3>1, <4>1
    <3>3. CASE ~unknown
      <4>1. Judged
        BY <3>3 DEF MeasureInv
      <4> QED BY <3>1, <4>1 DEF Judged
    <3> QED BY <3>2, <3>3
  <2> QED BY <2>6, <2>7, <2>8 DEF VerdictRight
<1> QED BY <1>1, MeasureInvariant, PTL

-----------------------------------------------------------------------------
(* The report: who was observed *)

\* By all its rows that get stored, the service was observed in the run.
Observed(s, w) ==
    /\ Rows(s, Len(Journal[s]), w) # {}
    /\ \A r \in Rows(s, Len(Journal[s]), w) : r.status = "known"

\* The metrics that make a run count as passed or failed.
Scored == {"true_positive", "tls_advisory_detected", "false_negative", "false_positive",
           "tls_advisory_missed", "tls_advisory_false_outage"}

\* A service the metrics m are scored for was observed.
Founded(m, s, w) == (\E n \in Scored : n \in DOMAIN m /\ m[n] >= 1) => Observed(s, w)

LEMMA JournalIs ==
  ASSUME NEW s \in AllSlots
  PROVE  /\ Len(Journal[s]) \in Nat
         /\ \A j \in 1..Len(Journal[s]) : Journal[s][j].status \in {"known", "unknown"}
         /\ \A i, j \in 1..Len(Journal[s]) :
              i < j /\ Journal[s][i].service = Journal[s][j].service /\ Journal[s][i].status = "known"
                 => Journal[s][j].status = "known"
<1> DEFINE R == [service : Services, status : {"known", "unknown"}, code : STRING,
                 event : {"hit", "noise", "quiet"}, latency : Nat]
<1>1. Journal[s] \in Seq(R)
  BY JournalAssumption
<1>2. Len(Journal[s]) \in Nat /\ \A j \in 1..Len(Journal[s]) : Journal[s][j] \in R
  <2> HIDE DEF R
  <2> QED BY <1>1
<1>3. \A j \in 1..Len(Journal[s]) : Journal[s][j].status \in {"known", "unknown"}
  BY <1>2
<1> QED BY <1>2, <1>3, JournalAssumption

\* Rows that are known at some point are followed by known ones.
LEMMA ObservedSoFar ==
  ASSUME NEW s \in AllSlots, NEW w, NEW n \in 0..Len(Journal[s]),
         Rows(s, n, w) # {}, ~ \E r \in Rows(s, n, w) : r.status = "unknown"
  PROVE  Observed(s, w)
<1>1. /\ Len(Journal[s]) \in Nat
      /\ \A j \in 1..Len(Journal[s]) : Journal[s][j].status \in {"known", "unknown"}
      /\ \A i, j \in 1..Len(Journal[s]) :
           i < j /\ Journal[s][i].service = Journal[s][j].service /\ Journal[s][i].status = "known"
              => Journal[s][j].status = "known"
  BY JournalIs
<1>2. PICK i \in 1..n : i \notin refused[s] /\ Journal[s][i].service = w
  BY DEF Rows
<1>3. i \in 1..Len(Journal[s]) /\ n \in Nat
  BY <1>1
<1>4. \A j \in 1..n : j \notin refused[s] /\ Journal[s][j].service = w => Journal[s][j].status = "known"
  <2> TAKE j \in 1..n
  <2> HAVE j \notin refused[s] /\ Journal[s][j].service = w
  <2>1. Journal[s][j] \in Rows(s, n, w)
    BY DEF Rows
  <2> QED BY <1>1, <2>1
<1>5. \A j \in 1..Len(Journal[s]) : j \notin refused[s] /\ Journal[s][j].service = w => Journal[s][j].status = "known"
  <2> TAKE j \in 1..Len(Journal[s])
  <2> HAVE j \notin refused[s] /\ Journal[s][j].service = w
  <2>1. CASE j <= n
    BY <1>4, <2>1
  <2>2. CASE ~(j <= n)
    <3>1. i < j
      BY <1>1, <1>3, <2>2
    <3> QED BY <1>1, <1>2, <1>3, <1>4, <3>1
  <2> QED BY <2>1, <2>2
<1>6. Journal[s][i] \in Rows(s, Len(Journal[s]), w)
  BY <1>2, <1>3 DEF Rows
<1>7. \A r \in Rows(s, Len(Journal[s]), w) : r.status = "known"
  BY <1>5 DEF Rows
<1> QED BY <1>6, <1>7 DEF Observed

\* computeMetrics writes a scored metric only for a service that is observed.
LEMMA ComputedFounded ==
  ASSUME NEW s \in AllSlots, NEW w, NEW n \in 0..Len(Journal[s]), Rows(s, n, w) # {},
         NEW x \in Scored, x \in DOMAIN computeMetrics(Rows(s, n, w))
  PROVE  Observed(s, w)
<1>1. CASE \E r \in Rows(s, n, w) : r.status = "unknown"
  <2>1. DOMAIN computeMetrics(Rows(s, n, w)) = {"unknown"}
    BY <1>1 DEF computeMetrics
  <2>2. "unknown" \notin Scored
    BY DEF Scored
  <2> QED BY <2>1, <2>2
<1>2. CASE ~ \E r \in Rows(s, n, w) : r.status = "unknown"
  BY <1>2, ObservedSoFar
<1> QED BY <1>1, <1>2

\* Whether or not its upserts fail, a derivation keeps the metrics founded.
LEMMA DeriveFounded ==
  ASSUME NEW s \in AllSlots, NEW n \in 0..Len(Journal[s]), NEW failing, NEW w \in Services,
         Founded(metrics[s][w], s, w)
  PROVE  Founded(Derive(s, n, failing)[w], s, w)
<1> DEFINE R == Rows(s, n, w)
           old == metrics[s][w]
           new == computeMetrics(R)
<1>1. Derive(s, n, failing)[w] =
        IF R = {} \/ w \in failing THEN old ELSE UpsertDerivedMetric(old, new)
  BY DEF Derive
<1>2. CASE R = {} \/ w \in failing
  BY <1>1, <1>2
<1>3. CASE ~(R = {} \/ w \in failing)
  <2>1. SUFFICES ASSUME NEW x \in Scored, x \in DOMAIN UpsertDerivedMetric(old, new),
                        UpsertDerivedMetric(old, new)[x] >= 1
                 PROVE  Observed(s, w)
    BY <1>1, <1>3 DEF Founded
  <2>2. CASE x \in DOMAIN new
    BY <1>3, <2>2, ComputedFounded
  <2>3. CASE x \notin DOMAIN new
    <3> HIDE DEF new, old
    <3>1. x \in DOMAIN old /\ UpsertDerivedMetric(old, new)[x] = old[x]
      BY <2>1, <2>3 DEF UpsertDerivedMetric
    <3> QED BY <2>1, <3>1 DEF Founded, old
  <2> QED BY <2>2, <2>3
<1> QED BY <1>2, <1>3

\* A run passes or fails for a service only by a scored metric.
LEMMA OutcomeFounded ==
  ASSUME NEW M, NEW R, NEW s, NEW w, Founded(M[s][w], s, w),
         Outcome(Sample(M, R, s, w)) \in {"passed", "failed"}
  PROVE  Observed(s, w)
<1> DEFINE passes == \E n \in {"true_positive", "tls_advisory_detected"} : True(M, s, w, n)
           fails == \E n \in {"false_negative", "false_positive", "tls_advisory_missed",
                              "tls_advisory_false_outage"} : True(M, s, w, n)
<1>1. Sample(M, R, s, w).pass = passes /\ Sample(M, R, s, w).fail = fails
  BY DEF Sample
<1>2. passes \/ fails
  <2> HIDE DEF passes, fails
  <2>1. CASE ~passes /\ ~fails
    <3>1. Outcome(Sample(M, R, s, w)) \in {"excluded", "none"}
      BY <1>1, <2>1 DEF Outcome
    <3> QED BY <3>1
  <2> QED BY <2>1
<1>3. \E n \in Scored : n \in DOMAIN M[s][w] /\ M[s][w][n] >= 1
  BY <1>2 DEF Scored, True
<1> QED BY <1>3 DEF Founded

\* What ScoreMetrics counts as comparable.
LEMMA Comparable ==
  ASSUME NEW M, NEW R, NEW w \in DOMAIN ScoreMetrics(M, R)
  PROVE  /\ w \in Services
         /\ ScoreMetrics(M, R)[w].comparable =
              Cardinality({s \in DOMAIN M : Outcome(Sample(M, R, s, w)) \in {"passed", "failed"}})
BY DEF ScoreMetrics

-----------------------------------------------------------------------------
(* The report: what is stored and read *)

CommandFields == {"pc", "derive", "matched", "meta", "todo", "seen", "lost", "rows", "report"}

\* The rows a run has are a part of those it writes, and a derivation under way
\* has seen a part of them.
Stored ==
    /\ written \in [AllSlots -> Nat]
    /\ \A s \in AllSlots : written[s] <= Len(Journal[s])
    /\ DOMAIN metrics = AllSlots
    /\ DOMAIN cmd = CommandFields
    /\ cmd.todo \subseteq AllSlots
    /\ cmd.pc = "upsert" => cmd.todo # {} /\ cmd.seen \in 0..Len(Journal[Min(cmd.todo)])

\* The stored metrics are founded, and so are those a command has read.
MetricsFounded == \A s \in AllSlots, w \in Services : Founded(metrics[s][w], s, w)
RowsFounded ==
    cmd.pc = "reasons" =>
        /\ DOMAIN cmd.rows = {s \in AllSlots : Execution(s) \in cmd.matched}
        /\ \A s \in DOMAIN cmd.rows, w \in Services : Founded(cmd.rows[s][w], s, w)

\* The inductive invariant of UnknownIsNeverScored.
ReportInv == TypeOK /\ InSchedule /\ Stored /\ MetricsFounded /\ RowsFounded /\ UnknownIsNeverScored

\* Numbers that are slots have a least one.
LEMMA FirstSlot ==
  ASSUME NEW S \in SUBSET AllSlots, S # {}
  PROVE  Min(S) \in S
<1>1. AllSlots \subseteq Nat
  BY ScheduleAssumption DEF AllSlots, Slots
<1>2. \E x \in S : \A y \in S : x <= y
  BY <1>1, Least
<1> QED BY <1>2 DEF Min

\* A derivation of rows that are there keeps the metrics founded.
LEMMA DerivedAreFounded ==
  ASSUME Stored, MetricsFounded, NEW s, NEW n, s \in AllSlots => n \in 0..Len(Journal[s]), NEW failing,
         metrics' = [metrics EXCEPT ![s] = Derive(s, n, failing)], refused' = refused
  PROVE  MetricsFounded' /\ DOMAIN metrics' = AllSlots
<1>1. DOMAIN metrics' = AllSlots
  BY DEF Stored
<1>2. \A t \in AllSlots : metrics'[t] = IF t = s THEN Derive(s, n, failing) ELSE metrics[t]
  BY DEF Stored
<1>3. ASSUME NEW t \in AllSlots, NEW w \in Services
      PROVE  Founded(metrics'[t][w], t, w)
  <2>1. CASE t = s
    <3>1. Founded(metrics[s][w], s, w)
      BY <2>1 DEF MetricsFounded
    <3>2. Founded(Derive(s, n, failing)[w], s, w)
      BY <2>1, <3>1, DeriveFounded
    <3>3. metrics'[t] = Derive(s, n, failing)
      BY <1>2, <2>1
    <3> QED BY <2>1, <3>2, <3>3
  <2>2. CASE t # s
    BY <1>2, <2>2 DEF MetricsFounded
  <2> QED BY <2>1, <2>2
<1>4. MetricsFounded'
  BY <1>3 DEF MetricsFounded, Founded, Observed, Rows
<1> QED BY <1>1, <1>4

LEMMA ReportBegins ==
  ASSUME ReportInit
  PROVE  ReportInv
<1>1. Init /\ cmd = NoCommand
      /\ written = [s \in AllSlots |-> IF s = 0 THEN Len(Journal[0]) ELSE 0]
      /\ metrics = [s \in AllSlots |-> [w \in Services |->
                      LET R == Rows(0, Len(Journal[0]), w)
                      IN  IF s = 0 /\ R # {} THEN computeMetrics(R) ELSE Nothing]]
  BY DEF ReportInit
<1>2. TypeOK /\ InSchedule
  BY <1>1, TypeInit
<1>3. 0 \in AllSlots /\ \A s \in AllSlots : Len(Journal[s]) \in Nat
  BY JournalIs DEF AllSlots
<1>4. written \in [AllSlots -> Nat] /\ \A s \in AllSlots : written[s] <= Len(Journal[s])
  BY <1>1, <1>3
<1>5. DOMAIN cmd = CommandFields /\ cmd.pc = "idle" /\ cmd.todo = {}
  BY <1>1 DEF NoCommand, CommandFields
<1>6. MetricsFounded
  <2> SUFFICES ASSUME NEW s \in AllSlots, NEW w \in Services
               PROVE  Founded(metrics[s][w], s, w)
    BY DEF MetricsFounded
  <2> DEFINE R == Rows(0, Len(Journal[0]), w)
  <2>1. metrics[s][w] = IF s = 0 /\ R # {} THEN computeMetrics(R) ELSE Nothing
    BY <1>1
  <2>2. CASE s = 0 /\ R # {}
    <3>1. Len(Journal[s]) \in 0..Len(Journal[s]) /\ R = Rows(s, Len(Journal[s]), w)
      BY <1>3, <2>2
    <3>2. metrics[s][w] = computeMetrics(Rows(s, Len(Journal[s]), w))
      BY <2>1, <2>2, <3>1
    <3>3. \A x \in Scored : x \in DOMAIN metrics[s][w] => Observed(s, w)
      BY <2>2, <3>1, <3>2, ComputedFounded
    <3> QED BY <3>3 DEF Founded
  <2>3. CASE ~(s = 0 /\ R # {})
    <3>1. DOMAIN metrics[s][w] = {}
      BY <2>1, <2>3 DEF Nothing
    <3> QED BY <3>1 DEF Founded
  <2> QED BY <2>2, <2>3
<1>7. Stored
  BY <1>1, <1>4, <1>5 DEF Stored
<1> QED BY <1>2, <1>5, <1>6, <1>7 DEF ReportInv, RowsFounded, UnknownIsNeverScored

\* What the campaign does leaves the command alone.
LEMMA BesideTheCommand ==
  ASSUME ReportInv, TypeOK', InSchedule', cmd' = cmd, refused' = refused, Stored', MetricsFounded'
  PROVE  ReportInv'
<1>1. RowsFounded'
  BY DEF ReportInv, RowsFounded, Founded, Observed, Rows, Execution, AllSlots
<1>2. UnknownIsNeverScored'
  BY DEF ReportInv, UnknownIsNeverScored, Rows, Execution, AllSlots
<1> QED BY <1>1, <1>2 DEF ReportInv

LEMMA CampaignStep ==
  ASSUME ReportInv, WriteRow \/ HarnessDerives \/ CampaignGoesOn \/ UNCHANGED <<vars, reportVars>>
  PROVE  ReportInv'
<1>0. TypeOK /\ InSchedule /\ Stored /\ MetricsFounded
  BY DEF ReportInv
<1>1. CASE WriteRow
  <2>1. /\ pc = "running" /\ written[k + 1] < Len(Journal[k + 1])
        /\ written' = [written EXCEPT ![k + 1] = @ + 1]
        /\ UNCHANGED vars /\ metrics' = metrics /\ cmd' = cmd /\ refused' = refused
    BY <1>1 DEF WriteRow
  <2>2. TypeOK' /\ InSchedule'
    BY <1>0, <2>1, TypeStep
  <2>3. k + 1 \in AllSlots
    BY <1>0, <2>1, ScheduleAssumption DEF TypeOK, InSchedule, AllSlots, Slots
  <2>4. \A s \in AllSlots : Len(Journal[s]) \in Nat
    BY JournalIs
  <2>5. written' \in [AllSlots -> Nat] /\ \A s \in AllSlots : written'[s] <= Len(Journal[s])
    BY <1>0, <2>1, <2>3, <2>4 DEF Stored
  <2>6. Stored'
    BY <1>0, <2>1, <2>5 DEF Stored, AllSlots
  <2>7. MetricsFounded'
    BY <1>0, <2>1 DEF MetricsFounded, Founded, Observed, Rows, AllSlots
  <2> QED BY <2>1, <2>2, <2>6, <2>7, BesideTheCommand
<1>2. CASE HarnessDerives
  <2>1. PICK s : metrics' = [metrics EXCEPT ![s] = Derive(s, written[s], {})]
    BY <1>2 DEF HarnessDerives
  <2>2. Next /\ written' = written /\ cmd' = cmd /\ refused' = refused
    BY <1>2 DEF HarnessDerives, Next, Step
  <2>3. TypeOK' /\ InSchedule'
    BY <1>0, <2>2, TypeStep
  <2>4. s \in AllSlots => written[s] \in 0..Len(Journal[s])
    BY <1>0, JournalIs DEF Stored
  <2>5. MetricsFounded' /\ DOMAIN metrics' = AllSlots
    BY <1>0, <2>1, <2>2, <2>4, DerivedAreFounded
  <2>6. Stored'
    BY <1>0, <2>2, <2>5 DEF Stored
  <2> QED BY <2>2, <2>3, <2>5, <2>6, BesideTheCommand
<1>3. CASE CampaignGoesOn \/ UNCHANGED <<vars, reportVars>>
  <2>1. [Next]_vars /\ UNCHANGED reportVars
    BY <1>3 DEF CampaignGoesOn
  <2>2. TypeOK' /\ InSchedule'
    BY <1>0, <2>1, TypeStep
  <2>3. Stored'
    BY <1>0, <2>1 DEF Stored, reportVars
  <2>4. MetricsFounded'
    BY <1>0, <2>1 DEF MetricsFounded, Founded, Observed, Rows, reportVars
  <2> QED BY <2>1, <2>2, <2>3, <2>4, BesideTheCommand DEF reportVars
<1> QED BY <1>1, <1>2, <1>3
\* The command's own steps.  Until the report is written only what it reads and
\* what it derives matters.
LEMMA CommandStep ==
  ASSUME ReportInv, Command
  PROVE  ReportInv'
<1>0. /\ TypeOK /\ InSchedule /\ Stored /\ MetricsFounded
      /\ DOMAIN cmd = CommandFields /\ DOMAIN metrics = AllSlots /\ cmd.todo \subseteq AllSlots
  BY DEF ReportInv, Stored
<1>1. vars' = vars /\ written' = written /\ refused' = refused
  BY DEF Command, Resolve, List, ReadRun, UpsertRun, LoadMetrics, LoadReasons
<1>2. TypeOK' /\ InSchedule'
  BY <1>0, <1>1, TypeStep
<1>3. ASSUME metrics' = metrics, DOMAIN cmd' = CommandFields, cmd'.pc # "written",
             cmd'.todo \subseteq AllSlots,
             cmd'.pc = "upsert" => cmd'.todo # {} /\ cmd'.seen \in 0..Len(Journal[Min(cmd'.todo)]),
             RowsFounded'
      PROVE  ReportInv'
  <2>1. Stored'
    BY <1>0, <1>1, <1>3 DEF Stored
  <2>2. MetricsFounded'
    BY <1>0, <1>1, <1>3 DEF MetricsFounded, Founded, Observed, Rows
  <2>3. UnknownIsNeverScored'
    BY <1>3 DEF UnknownIsNeverScored
  <2> QED BY <1>2, <1>3, <2>1, <2>2, <2>3 DEF ReportInv
<1>4. CASE Resolve
  <2>1. PICK asked \in {"config", "run"}, finalize \in BOOLEAN :
          cmd' = [cmd EXCEPT !.pc = IF finalize THEN "list" ELSE "metrics", !.derive = finalize,
                             !.matched = ResolveCampaign(asked), !.meta = MetaFromLookup(ResolveCampaign(asked))]
    BY <1>4, Zenon DEF Resolve
  <2>2. metrics' = metrics
    BY <1>4 DEF Resolve
  <2>3. DOMAIN cmd' = CommandFields /\ cmd'.pc \in {"list", "metrics"} /\ cmd'.todo = cmd.todo
    BY <1>0, <2>1 DEF CommandFields
  <2>4. cmd'.pc # "written" /\ cmd'.pc # "upsert" /\ cmd'.pc # "reasons"
    BY <2>3
  <2> QED BY <1>0, <1>3, <2>2, <2>3, <2>4 DEF RowsFounded
<1>5. CASE List
  <2>1. PICK T \in SUBSET AllSlots : cmd' = [cmd EXCEPT !.pc = "derive", !.todo = T]
    BY <1>5 DEF List
  <2>2. metrics' = metrics
    BY <1>5 DEF List
  <2>3. DOMAIN cmd' = CommandFields /\ cmd'.pc = "derive" /\ cmd'.todo = T
    BY <1>0, <2>1 DEF CommandFields
  <2> QED BY <1>3, <2>2, <2>3 DEF RowsFounded
<1>6. CASE ReadRun
  <2>1. /\ cmd.todo # {} /\ metrics' = metrics
        /\ cmd' = [cmd EXCEPT !.pc = "upsert", !.seen = written[Min(cmd.todo)]]
    BY <1>6 DEF ReadRun
  <2>2. /\ DOMAIN cmd' = CommandFields /\ cmd'.pc = "upsert" /\ cmd'.todo = cmd.todo
        /\ cmd'.seen = written[Min(cmd.todo)]
    BY <1>0, <2>1 DEF CommandFields
  <2>3. Min(cmd.todo) \in AllSlots
    BY <1>0, <2>1, FirstSlot
  <2>4. cmd'.seen \in 0..Len(Journal[Min(cmd'.todo)])
    BY <1>0, <2>2, <2>3, JournalIs DEF Stored
  <2>5. RowsFounded'
    BY <2>2 DEF RowsFounded
  <2> QED BY <1>0, <1>3, <2>1, <2>2, <2>4, <2>5
<1>7. CASE UpsertRun
  <2> DEFINE s == Min(cmd.todo)
  <2>1. PICK failing, lost :
          /\ metrics' = [metrics EXCEPT ![s] = Derive(s, cmd.seen, failing)]
          /\ cmd' = [cmd EXCEPT !.pc = "derive", !.seen = 0, !.todo = @ \ {s}, !.lost = lost]
    BY <1>7 DEF UpsertRun
  <2>2. cmd.seen \in 0..Len(Journal[s])
    BY <1>0, <1>7 DEF UpsertRun, Stored
  <2>3. MetricsFounded' /\ DOMAIN metrics' = AllSlots
    <3> HIDE DEF s
    <3> QED BY <1>0, <1>1, <2>1, <2>2, DerivedAreFounded
  <2>4. DOMAIN cmd' = CommandFields /\ cmd'.pc = "derive" /\ cmd'.todo = cmd.todo \ {s}
    BY <1>0, <2>1 DEF CommandFields
  <2>5. Stored'
    BY <1>0, <1>1, <2>3, <2>4 DEF Stored
  <2>6. RowsFounded' /\ UnknownIsNeverScored'
    BY <2>4 DEF RowsFounded, UnknownIsNeverScored
  <2> QED BY <1>2, <2>3, <2>5, <2>6 DEF ReportInv
<1>8. CASE LoadMetrics
  <2> DEFINE M == CampaignMetricRows(cmd.matched)
  <2>1. metrics' = metrics /\ cmd' = [cmd EXCEPT !.pc = "reasons", !.rows = M]
    BY <1>8 DEF LoadMetrics
  <2>2. /\ DOMAIN M = {s \in AllSlots : Execution(s) \in cmd.matched}
        /\ \A s \in DOMAIN M : M[s] = metrics[s]
    BY DEF CampaignMetricRows
  <2> HIDE DEF M
  <2>3. /\ DOMAIN cmd' = CommandFields /\ cmd'.pc = "reasons" /\ cmd'.rows = M
        /\ cmd'.matched = cmd.matched /\ cmd'.todo = cmd.todo
    BY <1>0, <2>1 DEF CommandFields
  <2>4. \A s \in DOMAIN M, w \in Services : Founded(M[s][w], s, w)
    BY <1>0, <2>2 DEF MetricsFounded
  <2>5. RowsFounded'
    BY <1>1, <2>2, <2>3, <2>4 DEF RowsFounded, Founded, Observed, Rows, Execution
  <2> QED BY <1>0, <1>3, <2>1, <2>3, <2>5
<1>9. CASE LoadReasons
  <2> DEFINE R == CampaignReasonRows(cmd.matched)
             M == cmd.rows
             report == [bias |-> AnalyzeBias(Summarize(M, R)), scores |-> ScoreMetrics(M, R),
                        details |-> CampaignReasonDetailRows(R), summaries |-> Summarize(M, R)]
  <2>1. /\ cmd.pc = "reasons" /\ metrics' = metrics
        /\ cmd' = [cmd EXCEPT !.pc = "written", !.rows = Nothing, !.report = report]
    BY <1>9 DEF LoadReasons
  <2>2. report.scores = ScoreMetrics(M, R)
    OBVIOUS
  <2> HIDE DEF R, M, report
  <2>3. /\ DOMAIN cmd' = CommandFields /\ cmd'.pc = "written" /\ cmd'.report = report
        /\ cmd'.matched = cmd.matched /\ cmd'.todo = cmd.todo
    BY <1>0, <2>1 DEF CommandFields
  <2>4. /\ DOMAIN M = {s \in AllSlots : Execution(s) \in cmd.matched}
        /\ \A s \in DOMAIN M, w \in Services : Founded(M[s][w], s, w)
    BY <2>1 DEF ReportInv, RowsFounded, M
  <2>5. IsFiniteSet(AllSlots)
    <3>1. N \in Int /\ 1 \in Int
      BY ScheduleAssumption
    <3>2. IsFiniteSet(1..N)
      BY <3>1, FS_Interval
    <3>3. IsFiniteSet({0})
      BY FS_Singleton
    <3> QED BY <3>2, <3>3, FS_Union DEF AllSlots, Slots
  <2>6. ASSUME NEW w \in DOMAIN report.scores
        PROVE  report.scores[w].comparable <=
                 Cardinality({s \in AllSlots : Execution(s) \in cmd.matched /\ Observed(s, w)})
    <3> DEFINE A == {s \in DOMAIN M : Outcome(Sample(M, R, s, w)) \in {"passed", "failed"}}
               B == {s \in AllSlots : Execution(s) \in cmd.matched /\ Observed(s, w)}
    <3>1. w \in Services /\ report.scores[w].comparable = Cardinality(A)
      BY <2>2, <2>6, Comparable
    <3>2. A \subseteq B
      BY <2>4, <3>1, OutcomeFounded
    <3>3. IsFiniteSet(B)
      BY <2>5, FS_Subset
    <3> HIDE DEF A, B
    <3>4. Cardinality(A) <= Cardinality(B)
      BY <3>2, <3>3, FS_Subset
    <3> QED BY <3>1, <3>4 DEF B
  <2>7. UnknownIsNeverScored'
    BY <1>1, <2>3, <2>6 DEF UnknownIsNeverScored, Observed, Rows, Execution
  <2>8. Stored' /\ RowsFounded'
    BY <1>0, <1>1, <2>1, <2>3 DEF Stored, RowsFounded
  <2>9. MetricsFounded'
    BY <1>0, <1>1, <2>1 DEF MetricsFounded, Founded, Observed, Rows
  <2> QED BY <1>2, <2>7, <2>8, <2>9 DEF ReportInv
<1> QED BY <1>4, <1>5, <1>6, <1>7, <1>8, <1>9 DEF Command

\* A service of which a run stores that it could not be observed is neither passed
\* nor failed for it: whatever the journals, whichever of their inserts fail,
\* however often and early the metrics are derived, by the harness and by finalize
\* at once, and whichever upserts fail.
THEOREM UnknownScoredNever == ReportSpec => []UnknownIsNeverScored
<1>1. ReportInit => ReportInv
  BY ReportBegins
<1>2. ReportInv /\ [ReportNext]_<<vars, reportVars>> => ReportInv'
  BY CampaignStep, CommandStep DEF ReportNext
<1>3. ReportInv => UnknownIsNeverScored
  BY DEF ReportInv
<1> QED BY <1>1, <1>2, <1>3, PTL DEF ReportSpec

-----------------------------------------------------------------------------
(* The report: what a finished one says *)

\* The metrics m say x.
Says(m, x) == x \in DOMAIN m /\ m[x] >= 1

Verdict == {"true_positive", "false_negative", "false_positive", "unknown", "cooldown_suppressed"}

\* The metrics m of a service are those the rows R call for.
Faithful(m, R) ==
    LET u == \E r \in R : r.status = "unknown"
        hit == \E r \in R : r.event = "hit"
        noise == \E r \in R : r.event = "noise"
        cooled == \E r \in R : r.code = "cooldown_suppressed"
    IN  /\ Says(m, "unknown") <=> u
        /\ Says(m, "true_positive") <=> ~u /\ hit
        /\ Says(m, "false_positive") <=> ~u /\ noise
        /\ Says(m, "false_negative") <=> R # {} /\ ~u /\ ~hit /\ ~cooled
        /\ Says(m, "cooldown_suppressed") <=> ~u /\ ~hit /\ cooled
        /\ DOMAIN m \subseteq Verdict \cup {"detection_latency_s"}

\* The names the metrics m of a service may have: one that was not observed in
\* the run never had a verdict.
OfOneKind(m, s, w) ==
    DOMAIN m \subseteq IF Observed(s, w) THEN Verdict \cup {"detection_latency_s"} ELSE {"unknown"}

LEMMA OutageFacts ==
  ASSUME NEW R, R # {}, ~ \E r \in R : r.status = "unknown"
  PROVE  LET m == OutageMetrics(R) IN
         /\ Faithful(m, R) /\ Verdict \subseteq DOMAIN m /\ DOMAIN m \subseteq Verdict \cup {"detection_latency_s"}
<1> DEFINE m == OutageMetrics(R)
           hit == \E r \in R : r.event = "hit"
           noise == \E r \in R : r.event = "noise"
           cooled == \E r \in R : r.code = "cooldown_suppressed"
           coolMiss == ~hit /\ cooled
           X == Verdict \cup (IF hit THEN {"detection_latency_s"} ELSE {})
           lat == (CHOOSE r \in R : r.event = "hit").latency
<1>1. m = [n \in X |-> CASE n = "true_positive" -> (IF hit THEN 1 ELSE 0)
                         [] n = "false_negative" -> (IF ~hit /\ ~coolMiss THEN 1 ELSE 0)
                         [] n = "false_positive" -> (IF noise THEN 1 ELSE 0)
                         [] n = "unknown" -> 0
                         [] n = "cooldown_suppressed" -> (IF coolMiss THEN 1 ELSE 0)
                         [] n = "detection_latency_s" -> lat]
  BY DEF OutageMetrics, Verdict
<1> HIDE DEF m, hit, noise, cooled, lat
<1>2. /\ "true_positive" \in X /\ "false_negative" \in X /\ "false_positive" \in X /\ "unknown" \in X
      /\ "cooldown_suppressed" \in X
  BY DEF Verdict
<1>3. /\ DOMAIN m = X
      /\ m["true_positive"] = IF hit THEN 1 ELSE 0
      /\ m["false_negative"] = IF ~hit /\ ~coolMiss THEN 1 ELSE 0
      /\ m["false_positive"] = IF noise THEN 1 ELSE 0
      /\ m["unknown"] = 0
      /\ m["cooldown_suppressed"] = IF coolMiss THEN 1 ELSE 0
  <2> HIDE DEF X
  <2> QED BY <1>1, <1>2
<1>4. /\ Says(m, "unknown") <=> FALSE
      /\ Says(m, "true_positive") <=> hit
      /\ Says(m, "false_positive") <=> noise
      /\ Says(m, "false_negative") <=> ~hit /\ ~cooled
      /\ Says(m, "cooldown_suppressed") <=> ~hit /\ cooled
  BY <1>2, <1>3 DEF Says
<1>5. DOMAIN m \subseteq Verdict \cup {"detection_latency_s"} /\ Verdict \subseteq DOMAIN m
  BY <1>3
<1>6. Faithful(m, R)
  BY <1>4, <1>5 DEF Faithful, hit, noise, cooled
<1> QED BY <1>5, <1>6 DEF m

LEMMA UpsertNames ==
  ASSUME NEW old, NEW new
  PROVE  DOMAIN UpsertDerivedMetric(old, new) = DOMAIN old \cup DOMAIN new
BY DEF UpsertDerivedMetric

LEMMA UpsertSays ==
  ASSUME NEW old, NEW new, NEW x
  PROVE  Says(UpsertDerivedMetric(old, new), x) <=> IF x \in DOMAIN new THEN Says(new, x) ELSE Says(old, x)
BY DEF Says, UpsertDerivedMetric

\* Whatever an earlier derivation left, the one that has seen the rows R is
\* what the stored metrics say.
LEMMA Rederived ==
  ASSUME NEW s \in AllSlots, NEW w, NEW n \in 0..Len(Journal[s]), Rows(s, n, w) # {},
         NEW old, OfOneKind(old, s, w)
  PROVE  LET m == UpsertDerivedMetric(old, computeMetrics(Rows(s, n, w)))
         IN  Faithful(m, Rows(s, n, w)) /\ OfOneKind(m, s, w) /\ DOMAIN m # {}
<1> DEFINE R == Rows(s, n, w)
           new == computeMetrics(R)
           m == UpsertDerivedMetric(old, new)
<1>1. CASE \E r \in R : r.status = "unknown"
  <2>1. new = [x \in {"unknown"} |-> 1]
    BY <1>1 DEF computeMetrics
  <2>2. ~Observed(s, w)
    <3>1. PICK j \in 1..n : j \notin refused[s] /\ Journal[s][j].service = w /\ Journal[s][j].status = "unknown"
      BY <1>1 DEF Rows
    <3>2. j \in 1..Len(Journal[s])
      BY JournalIs
    <3>3. Journal[s][j] \in Rows(s, Len(Journal[s]), w)
      BY <3>1, <3>2 DEF Rows
    <3> QED BY <3>1, <3>3 DEF Observed
  <2> HIDE DEF R, new, m
  <2>3. DOMAIN new = {"unknown"} /\ Says(new, "unknown")
    BY <2>1 DEF Says
  <2>4. DOMAIN m = {"unknown"} /\ Says(m, "unknown")
    <3>1. DOMAIN m = DOMAIN old \cup DOMAIN new
      BY UpsertNames DEF m
    <3>2. DOMAIN old \subseteq {"unknown"}
      BY <2>2 DEF OfOneKind
    <3> QED BY <2>3, <3>1, <3>2, UpsertSays DEF m
  <2>5. \A x : x # "unknown" => ~Says(m, x)
    BY <2>4 DEF Says
  <2>6. Faithful(m, R)
    BY <1>1, <2>4, <2>5 DEF Faithful, Verdict
  <2> QED BY <2>2, <2>4, <2>6 DEF OfOneKind, m, new, R
<1>2. CASE ~ \E r \in R : r.status = "unknown"
  <2>1. Observed(s, w)
    BY <1>2, ObservedSoFar
  <2>2. new = OutageMetrics(R)
    BY <1>2 DEF computeMetrics
  <2>3. R # {}
    OBVIOUS
  <2> HIDE DEF R, new, m
  <2>4. Faithful(new, R) /\ Verdict \subseteq DOMAIN new /\ DOMAIN new \subseteq Verdict \cup {"detection_latency_s"}
    BY <1>2, <2>2, <2>3, OutageFacts
  <2>5. DOMAIN m \subseteq Verdict \cup {"detection_latency_s"} /\ Verdict \subseteq DOMAIN m
    <3>1. DOMAIN m = DOMAIN old \cup DOMAIN new
      BY UpsertNames DEF m
    <3>2. DOMAIN old \subseteq Verdict \cup {"detection_latency_s"}
      BY <2>1 DEF OfOneKind
    <3> QED BY <2>4, <3>1, <3>2
  <2>6. \A x \in Verdict : Says(m, x) <=> Says(new, x)
    BY <2>4, UpsertSays DEF m
  <2>7. Faithful(m, R)
    BY <2>4, <2>5, <2>6 DEF Faithful, Verdict
  <2> QED BY <2>1, <2>5, <2>7 DEF OfOneKind, Verdict, m, new, R
<1> QED BY <1>1, <1>2

\* A service without rows has no metrics to say anything.
LEMMA NothingIsFaithful ==
  ASSUME NEW m, DOMAIN m = {} PROVE Faithful(m, {})
BY DEF Faithful, Says

-----------------------------------------------------------------------------
(* What stays true while the command runs *)

\* A closed campaign writes no rows any more.
RowOver == row \in {"planned_completion", "aborted"} => pc \in {"list", "derive", "done"}

OfTheirKind ==
    \A s \in AllSlots, w \in Services :
        /\ OfOneKind(metrics[s][w], s, w)
        /\ DOMAIN metrics[s][w] # {} => Rows(s, written[s], w) # {}

Matched == {s \in AllSlots : Execution(s) \in cmd.matched}

\* The metrics M of the runs in S are what their stored rows call for.
AllFaithful(M, S) == \A s \in S, w \in Services : Faithful(M[s][w], Rows(s, written[s], w))

\* The command is one of finalize, and the campaign was over when it began.
Finishing == cmd.pc # "idle" /\ cmd.derive /\ cmd.meta.ended

\* What it has derived stays right.
Settled ==
    /\ cmd.matched \subseteq {"earlier", "current"}
    /\ "current" \in cmd.matched => row \in {"planned_completion", "aborted"}
    /\ cmd.pc # "metrics"
    /\ cmd.pc \in {"derive", "upsert"} => cmd.todo \subseteq Matched
    /\ cmd.pc \in {"derive", "upsert"} /\ ~cmd.lost => AllFaithful(metrics, Matched \ cmd.todo)
    /\ cmd.pc = "upsert" => cmd.seen = written[Min(cmd.todo)]
    /\ cmd.pc = "reasons" /\ ~cmd.lost => AllFaithful(cmd.rows, Matched)

FinishInv ==
    /\ RowOver /\ OfTheirKind
    /\ cmd.pc = "upsert" => cmd.seen <= written[Min(cmd.todo)]
    /\ Finishing => Settled
    /\ ScoresAreCounted

LEMMA RowStays ==
  ASSUME TypeOK, RowOver, [Next]_vars
  PROVE  RowOver' /\ (row \in {"planned_completion", "aborted"} => row' = row)
BY DEF RowOver, TypeOK, Next, Step, Generate, Extend, Advance, CheckBudgets, Insert, Slot, Timer, CtxDone, Skip,
       StartRun, RunCancelled, RunReturns, WalkEnds, Close, ListRuns, DeriveCampaign, Derived, Tick, Cancel,
       Terminated, vars, walk, sweep

LEMMA MoreRows ==
  ASSUME NEW s, NEW n \in Nat, NEW m \in Nat, n <= m, NEW w, Rows(s, n, w) # {}
  PROVE  Rows(s, m, w) # {}
<1>1. PICK j \in 1..n : j \notin refused[s] /\ Journal[s][j].service = w
  BY DEF Rows
<1>2. j \in 1..m
  OBVIOUS
<1>3. Journal[s][j] \in Rows(s, m, w)
  BY <1>1, <1>2 DEF Rows
<1> QED BY <1>3

\* A derivation keeps the kinds, and one that saw all rows and lost nothing
\* leaves what they call for.
LEMMA DerivationIsFaithful ==
  ASSUME Stored, OfTheirKind, NEW s \in AllSlots, NEW n \in 0..Len(Journal[s]), n <= written[s], NEW failing,
         metrics' = [metrics EXCEPT ![s] = Derive(s, n, failing)], written' = written, refused' = refused
  PROVE  /\ OfTheirKind'
         /\ \A t \in AllSlots : t # s => metrics'[t] = metrics[t]
         /\ n = written[s] /\ failing = {} =>
              \A w \in Services : Faithful(metrics'[s][w], Rows(s, written[s], w))
<1>0. n \in Nat /\ written[s] \in Nat /\ Len(Journal[s]) \in Nat
  BY JournalIs DEF Stored
<1>1. \A t \in AllSlots : metrics'[t] = IF t = s THEN Derive(s, n, failing) ELSE metrics[t]
  BY DEF Stored
<1>2. ASSUME NEW w \in Services
      PROVE  /\ OfOneKind(metrics'[s][w], s, w)
             /\ DOMAIN metrics'[s][w] # {} => Rows(s, written[s], w) # {}
             /\ n = written[s] /\ failing = {} => Faithful(metrics'[s][w], Rows(s, written[s], w))
  <2>1. metrics'[s][w] = IF Rows(s, n, w) = {} \/ w \in failing THEN metrics[s][w]
                         ELSE UpsertDerivedMetric(metrics[s][w], computeMetrics(Rows(s, n, w)))
    <3>1. metrics'[s] = Derive(s, n, failing)
      BY <1>1
    <3>2. Derive(s, n, failing)[w] = IF Rows(s, n, w) = {} \/ w \in failing THEN metrics[s][w]
                         ELSE UpsertDerivedMetric(metrics[s][w], computeMetrics(Rows(s, n, w)))
      BY DEF Derive
    <3> QED BY <3>1, <3>2
  <2>2. OfOneKind(metrics[s][w], s, w) /\ (DOMAIN metrics[s][w] # {} => Rows(s, written[s], w) # {})
    BY DEF OfTheirKind
  <2>3. CASE Rows(s, n, w) = {} \/ w \in failing
    <3>1. metrics'[s][w] = metrics[s][w]
      BY <2>1, <2>3
    <3>2. n = written[s] /\ failing = {} => Faithful(metrics[s][w], {}) /\ Rows(s, written[s], w) = {}
      BY <2>2, <2>3, NothingIsFaithful
    <3> QED BY <2>2, <3>1, <3>2
  <2>4. CASE ~(Rows(s, n, w) = {} \/ w \in failing)
    <3>1. Faithful(metrics'[s][w], Rows(s, n, w)) /\ OfOneKind(metrics'[s][w], s, w)
      BY <2>1, <2>2, <2>4, Rederived
    <3>2. Rows(s, written[s], w) # {}
      BY <1>0, <2>4, MoreRows
    <3> QED BY <3>1, <3>2
  <2> QED BY <2>3, <2>4
<1>3. OfTheirKind'
  <2>0. \A t, w : /\ Observed(t, w)' <=> Observed(t, w)
                  /\ Rows(t, written[t], w)' = Rows(t, written[t], w)
    BY DEF Observed, Rows
  <2> SUFFICES ASSUME NEW t \in AllSlots, NEW w \in Services
               PROVE  OfOneKind(metrics'[t][w], t, w) /\ (DOMAIN metrics'[t][w] # {} => Rows(t, written[t], w) # {})
    BY <2>0 DEF OfTheirKind, OfOneKind, AllSlots
  <2>1. CASE t = s
    BY <1>2, <2>1
  <2>2. CASE t # s
    BY <1>1, <2>2 DEF OfTheirKind
  <2> QED BY <2>1, <2>2
<1> QED BY <1>1, <1>2, <1>3

LEMMA FinishBegins == ASSUME ReportInit PROVE FinishInv
<1>2. row = "none" /\ cmd = NoCommand
      /\ written = [s \in AllSlots |-> IF s = 0 THEN Len(Journal[0]) ELSE 0]
      /\ metrics = [s \in AllSlots |-> [w \in Services |->
                      LET R == Rows(0, Len(Journal[0]), w)
                      IN  IF s = 0 /\ R # {} THEN computeMetrics(R) ELSE Nothing]]
  BY DEF ReportInit, Init
<1>3. cmd.pc = "idle"
  BY <1>2 DEF NoCommand
<1>4. OfTheirKind
  <2> SUFFICES ASSUME NEW s \in AllSlots, NEW w \in Services
               PROVE  OfOneKind(metrics[s][w], s, w) /\ (DOMAIN metrics[s][w] # {} => Rows(s, written[s], w) # {})
    BY DEF OfTheirKind
  <2>0. Len(Journal[s]) \in Nat
    BY JournalIs
  <2>1. metrics[s][w] = IF s = 0 /\ Rows(0, Len(Journal[0]), w) # {}
                          THEN computeMetrics(Rows(0, Len(Journal[0]), w)) ELSE Nothing
    BY <1>2
  <2>2. CASE s = 0 /\ Rows(0, Len(Journal[0]), w) # {}
    <3>1. metrics[s][w] = computeMetrics(Rows(s, Len(Journal[s]), w)) /\ Rows(s, Len(Journal[s]), w) # {}
      BY <2>1, <2>2
    <3> DEFINE c == computeMetrics(Rows(s, Len(Journal[s]), w))
               none == [x \in {} |-> 0]
    <3>2. OfOneKind(none, s, w) /\ DOMAIN none = {}
      BY DEF OfOneKind
    <3>3. OfOneKind(UpsertDerivedMetric(none, c), s, w)
      BY <2>0, <3>1, <3>2, Rederived
    <3>4. DOMAIN UpsertDerivedMetric(none, c) = DOMAIN c
      <4> HIDE DEF c, none
      <4>1. DOMAIN UpsertDerivedMetric(none, c) = DOMAIN none \cup DOMAIN c
        BY UpsertNames
      <4> QED BY <3>2, <4>1
    <3>5. OfOneKind(c, s, w)
      BY <3>3, <3>4 DEF OfOneKind
    <3>6. written[s] = Len(Journal[s])
      BY <1>2, <2>2
    <3> QED BY <3>1, <3>5, <3>6
  <2>3. CASE ~(s = 0 /\ Rows(0, Len(Journal[0]), w) # {})
    <3>1. DOMAIN metrics[s][w] = {}
      BY <2>1, <2>3 DEF Nothing
    <3> QED BY <3>1 DEF OfOneKind
  <2> QED BY <2>2, <2>3
<1>5. RowOver /\ ~Finishing
  BY <1>2, <1>3 DEF RowOver, Finishing
<1>6. ScoresAreCounted
  BY <1>3 DEF ScoresAreCounted, Finished
<1> QED BY <1>3, <1>4, <1>5, <1>6 DEF FinishInv

\* Steps beside the command: the rows of a run that is reported on stay as they
\* are, and its metrics are derived from them or stay.
LEMMA BesideTheFinish ==
  ASSUME ReportInv, FinishInv, [Next]_vars, cmd' = cmd, refused' = refused, OfTheirKind',
         \A s \in AllSlots : written'[s] \in Nat /\ written[s] <= written'[s],
         Finishing => \A s \in Matched :
            /\ written'[s] = written[s]
            /\ \A w \in Services : metrics'[s][w] = metrics[s][w] \/ Faithful(metrics'[s][w], Rows(s, written[s], w))
  PROVE  FinishInv'
<1>0. TypeOK /\ RowOver /\ Stored
  BY DEF ReportInv, FinishInv
<1>1. RowOver' /\ (row \in {"planned_completion", "aborted"} => row' = row)
  BY <1>0, RowStays
<1>2. ASSUME cmd.pc = "upsert" PROVE cmd.seen <= written'[Min(cmd.todo)]
  <2>1. cmd.seen \in Nat /\ Min(cmd.todo) \in AllSlots
    <3>1. cmd.todo # {} /\ cmd.todo \in SUBSET AllSlots /\ cmd.seen \in 0..Len(Journal[Min(cmd.todo)])
      BY <1>0, <1>2 DEF Stored
    <3>2. Min(cmd.todo) \in AllSlots
      BY <3>1, FirstSlot
    <3> QED BY <3>1, <3>2, JournalIs
  <2>2. written[Min(cmd.todo)] \in Nat /\ cmd.seen <= written[Min(cmd.todo)]
    BY <1>0, <1>2, <2>1 DEF FinishInv, Stored
  <2> QED BY <2>1, <2>2
<1>3. Matched' = Matched /\ (Finishing' <=> Finishing)
  BY DEF Matched, Finishing, Execution, AllSlots
<1>4. ASSUME Finishing PROVE Settled'
  <2>1. Settled
    BY <1>4 DEF FinishInv
  <2>2. \A s \in Matched :
            /\ written'[s] = written[s]
            /\ \A w \in Services : metrics'[s][w] = metrics[s][w] \/ Faithful(metrics'[s][w], Rows(s, written[s], w))
    BY <1>4
  <2>3. ASSUME AllFaithful(metrics, Matched \ cmd.todo)
        PROVE  \A s \in Matched \ cmd.todo, w \in Services : Faithful(metrics'[s][w], Rows(s, written'[s], w))
    BY <2>2, <2>3 DEF AllFaithful
  <2>4. ASSUME AllFaithful(cmd.rows, Matched)
        PROVE  \A s \in Matched, w \in Services : Faithful(cmd.rows[s][w], Rows(s, written'[s], w))
    BY <2>2, <2>4 DEF AllFaithful
  <2>5. ASSUME cmd.pc = "upsert" PROVE cmd.seen = written'[Min(cmd.todo)]
    <3>1. cmd.todo # {} /\ cmd.todo \in SUBSET AllSlots
      BY <1>0, <2>5 DEF Stored
    <3>2. Min(cmd.todo) \in cmd.todo
      BY <3>1, FirstSlot
    <3>3. cmd.todo \subseteq Matched /\ cmd.seen = written[Min(cmd.todo)]
      BY <2>1, <2>5 DEF Settled
    <3> QED BY <2>2, <3>2, <3>3
  <2>6. (AllFaithful(metrics, Matched \ cmd.todo) => AllFaithful(metrics, Matched \ cmd.todo)')
        /\ (AllFaithful(cmd.rows, Matched) => AllFaithful(cmd.rows, Matched)')
    BY <1>3, <2>3, <2>4 DEF AllFaithful, Faithful, Says, Rows
  <2> QED BY <1>1, <1>3, <2>1, <2>5, <2>6 DEF Settled
<1>5. ScoresAreCounted'
  <2>1. CASE Finished
    <3>1. Finishing
      BY <2>1 DEF Finished, Finishing
    <3>2. \A s \in Matched : written'[s] = written[s]
      BY <3>1
    <3>3. \A s \in Matched : \A w : Clean(s, w)' = Clean(s, w)
      BY <3>2 DEF Clean, Rows
    <3>4. ASSUME NEW w, NEW o PROVE RunsThat(w, o)' = RunsThat(w, o)
      <4>1. RunsThat(w, o) = {s \in Matched : Clean(s, w) = o}
        BY DEF RunsThat, Matched
      <4>2. RunsThat(w, o)' = {s \in Matched' : Clean(s, w)' = o}
        BY DEF RunsThat, Matched
      <4> QED BY <1>3, <3>3, <4>1, <4>2
    <3> QED BY <3>4 DEF FinishInv, ScoresAreCounted, Finished
  <2>2. CASE ~Finished
    BY <2>2 DEF ScoresAreCounted, Finished
  <2> QED BY <2>1, <2>2
<1>6. OfTheirKind' /\ (cmd.pc = "upsert" => cmd.seen <= written[Min(cmd.todo)])'
  BY <1>2 DEF Min
<1> QED BY <1>1, <1>3, <1>4, <1>5, <1>6 DEF FinishInv

LEMMA CampaignFinishes ==
  ASSUME ReportInv, FinishInv, WriteRow \/ HarnessDerives \/ CampaignGoesOn \/ UNCHANGED <<vars, reportVars>>
  PROVE  FinishInv'
<1>0. /\ TypeOK /\ InSchedule /\ Stored /\ OfTheirKind /\ RowOver
      /\ \A s \in AllSlots : written[s] \in Nat /\ Len(Journal[s]) \in Nat /\ written[s] <= Len(Journal[s])
  BY JournalIs DEF ReportInv, FinishInv, Stored
<1>1. CASE WriteRow
  <2>1. /\ pc = "running" /\ written' = [written EXCEPT ![k + 1] = @ + 1]
        /\ UNCHANGED vars /\ metrics' = metrics /\ cmd' = cmd /\ refused' = refused
    BY <1>1 DEF WriteRow
  <2>2. k + 1 \in AllSlots /\ k + 1 # 0
    BY <1>0, <2>1, ScheduleAssumption DEF TypeOK, InSchedule, AllSlots, Slots
  <2>3. \A s \in AllSlots : written'[s] = IF s = k + 1 THEN written[s] + 1 ELSE written[s]
    BY <1>0, <2>1, <2>2 DEF Stored
  <2>4. OfTheirKind'
    <3> SUFFICES ASSUME NEW s \in AllSlots, NEW w \in Services
                 PROVE  /\ OfOneKind(metrics[s][w], s, w)
                        /\ DOMAIN metrics[s][w] # {} => Rows(s, written'[s], w) # {}
      BY <2>1 DEF OfTheirKind, OfOneKind, Observed, Rows, AllSlots
    <3>1. OfOneKind(metrics[s][w], s, w) /\ (DOMAIN metrics[s][w] # {} => Rows(s, written[s], w) # {})
      BY <1>0 DEF OfTheirKind
    <3>2. written[s] \in Nat /\ written'[s] \in Nat /\ written[s] <= written'[s]
      BY <1>0, <2>3
    <3> QED BY <3>1, <3>2, MoreRows
  <2>5. ASSUME Finishing PROVE k + 1 \notin Matched
    <3>1. "current" \notin cmd.matched
      BY <1>0, <2>1, <2>5 DEF FinishInv, Settled, RowOver
    <3> QED BY <2>2, <3>1 DEF Matched, Execution
  <2>6. \A s \in AllSlots : written'[s] \in Nat /\ written[s] <= written'[s]
    BY <1>0, <2>3
  <2>7. Finishing => \A s \in Matched : written'[s] = written[s] /\ metrics'[s] = metrics[s]
    BY <2>1, <2>3, <2>5 DEF Matched
  <2> QED BY <2>1, <2>4, <2>6, <2>7, BesideTheFinish
<1>2. CASE HarnessDerives
  <2>1. PICK s \in AllSlots : metrics' = [metrics EXCEPT ![s] = Derive(s, written[s], {})]
    <3>1. PICK s \in tried' \ tried : metrics' = [metrics EXCEPT ![s] = Derive(s, written[s], {})]
      BY <1>2 DEF HarnessDerives
    <3>2. s \in Slots
      BY <1>2 DEF HarnessDerives, DeriveCampaign, Recorded
    <3> QED BY <3>1, <3>2 DEF AllSlots
  <2>2. Next /\ written' = written /\ cmd' = cmd /\ refused' = refused
    BY <1>2 DEF HarnessDerives, Next, Step
  <2>3. written[s] \in 0..Len(Journal[s]) /\ written[s] <= written[s]
    BY <1>0
  <2>4. /\ OfTheirKind' /\ \A t \in AllSlots : t # s => metrics'[t] = metrics[t]
        /\ \A w \in Services : Faithful(metrics'[s][w], Rows(s, written[s], w))
    BY <1>0, <2>1, <2>2, <2>3, DerivationIsFaithful
  <2>5. \A t \in AllSlots : written'[t] \in Nat /\ written[t] <= written'[t]
    BY <1>0, <2>2
  <2>6. \A t \in Matched :
          /\ written'[t] = written[t]
          /\ \A w \in Services : metrics'[t][w] = metrics[t][w] \/ Faithful(metrics'[t][w], Rows(t, written[t], w))
    <3> TAKE t \in Matched
    <3>1. t \in AllSlots
      BY DEF Matched
    <3>2. CASE t = s
      BY <2>2, <2>4, <3>2
    <3>3. CASE t # s
      BY <2>2, <2>4, <3>1, <3>3
    <3> QED BY <3>2, <3>3
  <2> QED BY <2>2, <2>4, <2>5, <2>6, BesideTheFinish
<1>3. CASE CampaignGoesOn \/ UNCHANGED <<vars, reportVars>>
  <2>1. [Next]_vars /\ written' = written /\ metrics' = metrics /\ cmd' = cmd /\ refused' = refused
    BY <1>3 DEF CampaignGoesOn, reportVars
  <2>2. OfTheirKind'
    BY <1>0, <2>1 DEF OfTheirKind, OfOneKind, Observed, Rows, AllSlots
  <2>3. /\ \A s \in AllSlots : written'[s] \in Nat /\ written[s] <= written'[s]
        /\ \A s \in Matched : written'[s] = written[s] /\ metrics'[s] = metrics[s]
    BY <1>0, <2>1
  <2> QED BY <2>1, <2>2, <2>3, BesideTheFinish
<1> QED BY <1>1, <1>2, <1>3

-----------------------------------------------------------------------------
(* The scores *)

\* What a run counts as, by metrics that are what its rows call for.
LEMMA OutcomeIsClean ==
  ASSUME NEW M, NEW R, NEW s, NEW w, Faithful(M[s][w], Rows(s, written[s], w)),
         [slot |-> s, service |-> w, code |-> "capability_mismatch"] \in R => Rows(s, written[s], w) # {}
  PROVE  Outcome(Sample(M, R, s, w)) = Clean(s, w)
<1> DEFINE m == M[s][w]
           rows == Rows(s, written[s], w)
           missed == [slot |-> s, service |-> w, code |-> "capability_mismatch"] \in R
           any(names) == \E n \in names : True(M, s, w, n)
           u == \E r \in rows : r.status = "unknown"
           hit == \E r \in rows : r.event = "hit"
           noise == \E r \in rows : r.event = "noise"
           cooled == \E r \in rows : r.code = "cooldown_suppressed"
<1>1. /\ Sample(M, R, s, w).pass = any({"true_positive", "tls_advisory_detected"})
      /\ Sample(M, R, s, w).fail = any({"false_negative", "false_positive", "tls_advisory_missed",
                                        "tls_advisory_false_outage"})
      /\ Sample(M, R, s, w).excluded =
           (missed \/ any({"unknown", "maintenance_suppressed", "cooldown_suppressed", "cooldown_uncertain"}))
  BY DEF Sample
<1>2. \A n : True(M, s, w, n) <=> Says(m, n)
  BY DEF True, Says
<1>3. /\ Says(m, "unknown") <=> u
      /\ Says(m, "true_positive") <=> ~u /\ hit
      /\ Says(m, "false_positive") <=> ~u /\ noise
      /\ Says(m, "false_negative") <=> rows # {} /\ ~u /\ ~hit /\ ~cooled
      /\ Says(m, "cooldown_suppressed") <=> ~u /\ ~hit /\ cooled
      /\ DOMAIN m \subseteq Verdict \cup {"detection_latency_s"}
  BY DEF Faithful
<1>4. \A n \in {"tls_advisory_detected", "tls_advisory_missed", "tls_advisory_false_outage",
                "maintenance_suppressed", "cooldown_uncertain"} : ~Says(m, n)
  <2> HIDE DEF m
  <2> QED BY <1>3 DEF Says, Verdict
<1>5. (rows = {} => ~u /\ ~hit /\ ~noise /\ ~cooled) /\ (missed => rows # {})
  OBVIOUS
<1>6. Clean(s, w) = IF rows = {} THEN "none" ELSE IF u THEN "excluded" ELSE IF noise THEN "failed"
                    ELSE IF hit THEN "passed" ELSE IF cooled THEN "excluded" ELSE "failed"
  BY DEF Clean
<1> DEFINE pass == any({"true_positive", "tls_advisory_detected"})
           fail == any({"false_negative", "false_positive", "tls_advisory_missed", "tls_advisory_false_outage"})
           excluded == missed \/ any({"unknown", "maintenance_suppressed", "cooldown_suppressed", "cooldown_uncertain"})
<1> HIDE DEF m, rows, missed, u, hit, noise, cooled
<1>7. /\ pass <=> ~u /\ hit
      /\ fail <=> (rows # {} /\ ~u /\ ~hit /\ ~cooled) \/ (~u /\ noise)
      /\ excluded <=> missed \/ u \/ (~u /\ ~hit /\ cooled)
  BY <1>2, <1>3, <1>4
<1>8. Outcome(Sample(M, R, s, w)) = IF fail THEN "failed" ELSE IF pass THEN "passed"
                                    ELSE IF excluded THEN "excluded" ELSE "none"
  BY <1>1 DEF Outcome
<1> HIDE DEF pass, fail, excluded
<1> QED BY <1>5, <1>6, <1>7, <1>8

LEMMA SlotsFinite == IsFiniteSet(AllSlots)
<1>1. N \in Int /\ 1 \in Int
  BY ScheduleAssumption
<1>2. IsFiniteSet(1..N)
  BY <1>1, FS_Interval
<1>3. IsFiniteSet({0})
  BY FS_Singleton
<1> QED BY <1>2, <1>3, FS_Union DEF AllSlots, Slots

\* A report made of such metrics counts every run once, as its rows call for.
LEMMA Scoring ==
  ASSUME NEW M, NEW R, DOMAIN M = Matched, NEW w \in Services,
         \A s \in Matched : Outcome(Sample(M, R, s, w)) = Clean(s, w)
  PROVE  LET n(o) == Cardinality(RunsThat(w, o))
             scores == ScoreMetrics(M, R)
         IN  IF n("passed") + n("failed") + n("excluded") = 0 THEN w \notin DOMAIN scores
             ELSE /\ w \in DOMAIN scores
                  /\ scores[w].passed = n("passed") /\ scores[w].failed = n("failed")
                  /\ scores[w].excluded = n("excluded")
<1> DEFINE any(S) == {s \in DOMAIN M : Outcome(Sample(M, R, s, w)) \in S}
           all == {"passed", "failed", "excluded"}
           scores == ScoreMetrics(M, R)
<1>1. \A o : any({o}) = RunsThat(w, o)
  BY DEF RunsThat, Matched
<1>2. any(all) = RunsThat(w, "passed") \cup RunsThat(w, "failed") \cup RunsThat(w, "excluded")
  BY DEF RunsThat, Matched
<1>3. /\ w \in DOMAIN scores <=> Cardinality(any(all)) > 0
      /\ w \in DOMAIN scores =>
           /\ scores[w].passed = Cardinality(any({"passed"})) /\ scores[w].failed = Cardinality(any({"failed"}))
           /\ scores[w].excluded = Cardinality(any({"excluded"}))
  BY DEF ScoreMetrics
<1>4. \A o : IsFiniteSet(RunsThat(w, o)) /\ Cardinality(RunsThat(w, o)) \in Nat
             /\ (Cardinality(RunsThat(w, o)) = 0 <=> RunsThat(w, o) = {})
  <2> TAKE o
  <2> DEFINE T == RunsThat(w, o)
  <2>1. T \subseteq AllSlots
    BY DEF RunsThat
  <2> HIDE DEF T
  <2>2. IsFiniteSet(T)
    BY <2>1, SlotsFinite, FS_Subset
  <2>3. Cardinality(T) \in Nat /\ (Cardinality(T) = 0 <=> T = {})
    BY <2>2, FS_CardinalityType, FS_EmptySet
  <2> QED BY <2>2, <2>3 DEF T
<1> DEFINE P == RunsThat(w, "passed")
           F == RunsThat(w, "failed")
           E == RunsThat(w, "excluded")
           A == any(all)
<1>5. A = P \cup F \cup E
  BY <1>2
<1>6. /\ w \in DOMAIN scores <=> Cardinality(A) > 0
      /\ w \in DOMAIN scores => scores[w].passed = Cardinality(P) /\ scores[w].failed = Cardinality(F)
                                /\ scores[w].excluded = Cardinality(E)
  BY <1>1, <1>3
<1>7. /\ Cardinality(P) \in Nat /\ Cardinality(F) \in Nat /\ Cardinality(E) \in Nat
      /\ Cardinality(P) = 0 <=> P = {}
      /\ Cardinality(F) = 0 <=> F = {}
      /\ Cardinality(E) = 0 <=> E = {}
      /\ A \subseteq AllSlots
  BY <1>4, <1>5 DEF RunsThat
<1> HIDE DEF P, F, E, A, scores
<1>8. Cardinality(A) \in Nat /\ (Cardinality(A) = 0 <=> A = {})
  <2>1. IsFiniteSet(A)
    BY <1>7, SlotsFinite, FS_Subset
  <2> QED BY <2>1, FS_CardinalityType, FS_EmptySet
<1>9. IF Cardinality(P) + Cardinality(F) + Cardinality(E) = 0 THEN w \notin DOMAIN scores
      ELSE /\ w \in DOMAIN scores
           /\ scores[w].passed = Cardinality(P) /\ scores[w].failed = Cardinality(F)
           /\ scores[w].excluded = Cardinality(E)
  <2>1. Cardinality(P) + Cardinality(F) + Cardinality(E) = 0 <=> A = {}
    BY <1>5, <1>7
  <2> QED BY <1>6, <1>8, <2>1
<1> QED BY <1>9 DEF P, F, E, scores

LEMMA ReasonHasARow ==
  ASSUME Stored, NEW s \in AllSlots, NEW w, NEW c,
         [slot |-> s, service |-> w, code |-> c] \in CampaignReasonRows(cmd.matched)
  PROVE  Rows(s, written[s], w) # {}
<1>1. PICK t \in AllSlots :
        \E j \in 1..written[t] : j \notin refused[t] /\
          [slot |-> s, service |-> w, code |-> c] = [slot |-> t, service |-> Journal[t][j].service, code |-> Journal[t][j].code]
  BY DEF CampaignReasonRows
<1>2. PICK j \in 1..written[t] : j \notin refused[t] /\
        [slot |-> s, service |-> w, code |-> c] = [slot |-> t, service |-> Journal[t][j].service, code |-> Journal[t][j].code]
  BY <1>1
<1>3. t = s /\ Journal[t][j].service = w
  BY <1>2
<1>4. Journal[s][j] \in Rows(s, written[s], w)
  BY <1>2, <1>3 DEF Rows
<1> QED BY <1>4

-----------------------------------------------------------------------------
(* The command *)

LEMMA CommandFinishes ==
  ASSUME ReportInv, FinishInv, Command
  PROVE  FinishInv'
<1>0. /\ TypeOK /\ Stored /\ OfTheirKind /\ RowOver
      /\ DOMAIN cmd = CommandFields /\ DOMAIN metrics = AllSlots /\ cmd.todo \subseteq AllSlots
      /\ \A s \in AllSlots : written[s] \in Nat /\ Len(Journal[s]) \in Nat /\ written[s] <= Len(Journal[s])
  BY JournalIs DEF ReportInv, FinishInv, Stored
<1>1. vars' = vars /\ written' = written /\ refused' = refused
  BY DEF Command, Resolve, List, ReadRun, UpsertRun, LoadMetrics, LoadReasons
<1>2. RowOver' /\ row' = row
  BY <1>0, <1>1 DEF RowOver, vars
<1>3. ASSUME metrics' = metrics PROVE OfTheirKind'
  BY <1>0, <1>1, <1>3 DEF OfTheirKind, OfOneKind, Observed, Rows, AllSlots
<1>5. ASSUME cmd'.pc # "written" PROVE ScoresAreCounted'
  BY <1>5 DEF ScoresAreCounted, Finished
<1>6. ASSUME cmd'.matched = cmd.matched PROVE Matched' = Matched
  BY <1>6 DEF Matched, Execution, AllSlots
<1>7. CASE Resolve
  <2>1. PICK asked \in {"config", "run"}, finalize \in BOOLEAN :
          cmd' = [cmd EXCEPT !.pc = IF finalize THEN "list" ELSE "metrics", !.derive = finalize,
                             !.matched = ResolveCampaign(asked), !.meta = MetaFromLookup(ResolveCampaign(asked))]
    BY <1>7, Zenon DEF Resolve
  <2>2. metrics' = metrics
    BY <1>7 DEF Resolve
  <2>3. /\ cmd'.pc = IF finalize THEN "list" ELSE "metrics"
        /\ cmd'.derive = finalize /\ cmd'.matched = ResolveCampaign(asked)
        /\ cmd'.meta = MetaFromLookup(ResolveCampaign(asked))
    BY <1>0, <2>1 DEF CommandFields
  <2>4. ResolveCampaign(asked) \subseteq {"earlier", "current"}
        /\ ("current" \in ResolveCampaign(asked) => row # "none")
    BY DEF ResolveCampaign
  <2>5. cmd'.meta.ended => ("current" \in cmd'.matched => row # "open")
    <3>1. cmd'.meta.ended = (MetaFromLookup(ResolveCampaign(asked))).ended
      BY <2>3
    <3>2. (MetaFromLookup(ResolveCampaign(asked))).ended => ("current" \in ResolveCampaign(asked) => row # "open")
      BY DEF MetaFromLookup
    <3> QED BY <2>3, <3>1, <3>2
  <2>6. cmd'.pc \in {"list", "metrics"} /\ (cmd'.derive => cmd'.pc = "list")
    BY <2>3
  <2>7. Finishing' => Settled'
    BY <1>0, <1>2, <2>3, <2>4, <2>5, <2>6 DEF Finishing, Settled, TypeOK
  <2> QED BY <1>2, <1>3, <1>5, <2>2, <2>6, <2>7 DEF FinishInv
<1>8. CASE List
  <2>1. /\ cmd.pc = "list" /\ metrics' = metrics
        /\ cmd' = [cmd EXCEPT !.pc = "derive",
                     !.todo = {s \in AllSlots : Execution(s) \in cmd.matched /\ written[s] > 0}]
    BY <1>8 DEF List
  <2>2. /\ cmd'.pc = "derive" /\ cmd'.derive = cmd.derive /\ cmd'.matched = cmd.matched
        /\ cmd'.meta = cmd.meta /\ cmd'.todo = {s \in Matched : written[s] > 0}
    BY <1>0, <2>1 DEF CommandFields, Matched
  <2>3. Finishing' => Finishing
    BY <2>1, <2>2 DEF Finishing
  <2>4. \A s \in Matched \ cmd'.todo, w \in Services : Faithful(metrics[s][w], Rows(s, written[s], w))
    <3> TAKE s \in Matched \ cmd'.todo, w \in Services
    <3>1. s \in AllSlots /\ written[s] = 0
      BY <1>0, <2>2 DEF Matched
    <3>2. Rows(s, written[s], w) = {}
      BY <3>1 DEF Rows
    <3>3. DOMAIN metrics[s][w] = {}
      BY <1>0, <3>1, <3>2 DEF OfTheirKind
    <3> QED BY <3>2, <3>3, NothingIsFaithful
  <2>5. Finishing => Settled'
    <3>1. Matched' = Matched /\ cmd'.todo \subseteq Matched
      BY <1>6, <2>2
    <3>2. AllFaithful(metrics, Matched \ cmd.todo)'
      BY <1>1, <2>1, <2>4, <3>1 DEF AllFaithful, Rows
    <3> QED BY <1>2, <2>2, <3>1, <3>2 DEF FinishInv, Settled
  <2> QED BY <1>2, <1>3, <1>5, <2>1, <2>2, <2>3, <2>5 DEF FinishInv
<1>9. CASE ReadRun
  <2>1. /\ cmd.pc = "derive" /\ cmd.todo # {} /\ metrics' = metrics
        /\ cmd' = [cmd EXCEPT !.pc = "upsert", !.seen = written[Min(cmd.todo)]]
    BY <1>9 DEF ReadRun
  <2>2. /\ cmd'.pc = "upsert" /\ cmd'.derive = cmd.derive /\ cmd'.matched = cmd.matched
        /\ cmd'.meta = cmd.meta /\ cmd'.todo = cmd.todo /\ cmd'.lost = cmd.lost
        /\ cmd'.seen = written[Min(cmd.todo)]
    BY <1>0, <2>1 DEF CommandFields
  <2>3. Min(cmd.todo) \in AllSlots
    BY <1>0, <2>1, FirstSlot
  <2>4. Matched' = Matched /\ (Finishing' => Finishing)
    BY <1>6, <2>1, <2>2 DEF Finishing
  <2>5. Finishing => Settled'
    <3> SUFFICES ASSUME Finishing PROVE Settled'
      OBVIOUS
    <3>1. Settled
      BY DEF FinishInv
    <3>2. AllFaithful(metrics, Matched \ cmd.todo) => AllFaithful(metrics, Matched \ cmd.todo)'
      BY <1>1, <2>1, <2>2, <2>4 DEF AllFaithful, Rows
    <3>3. (cmd.seen = written[Min(cmd.todo)])'
      BY <1>1, <2>2
    <3> QED BY <1>2, <2>1, <2>2, <2>4, <3>1, <3>2, <3>3 DEF Settled
  <2>6. (cmd.seen <= written[Min(cmd.todo)])'
    <3>1. written[Min(cmd.todo)] <= written[Min(cmd.todo)]
      BY <1>0, <2>3
    <3> QED BY <1>1, <2>2, <3>1
  <2> QED BY <1>2, <1>3, <1>5, <2>1, <2>2, <2>4, <2>5, <2>6 DEF FinishInv
<1>10. CASE UpsertRun
  <2>1. PICK s \in AllSlots : s = Min(cmd.todo) /\ s \in cmd.todo
    <3>1. cmd.todo # {}
      BY <1>0, <1>10 DEF UpsertRun, Stored
    <3> QED BY <1>0, <3>1, FirstSlot
  <2>2. PICK failing \in {{}, Services} :
          /\ metrics' = [metrics EXCEPT ![s] = Derive(s, cmd.seen, failing)]
          /\ cmd' = [cmd EXCEPT !.pc = "derive", !.seen = 0, !.todo = @ \ {s}, !.lost = @ \/ failing # {}]
    BY <1>10, <2>1 DEF UpsertRun
  <2>3. /\ cmd'.pc = "derive" /\ cmd'.derive = cmd.derive /\ cmd'.matched = cmd.matched
        /\ cmd'.meta = cmd.meta /\ cmd'.todo = cmd.todo \ {s} /\ cmd'.lost = (cmd.lost \/ failing # {})
    BY <1>0, <2>2 DEF CommandFields
  <2>4. cmd.pc = "upsert" /\ cmd.seen \in 0..Len(Journal[s]) /\ cmd.seen <= written[s]
    BY <1>0, <1>10, <2>1 DEF UpsertRun, FinishInv, Stored
  <2>5. /\ OfTheirKind'
        /\ \A t \in AllSlots : t # s => metrics'[t] = metrics[t]
        /\ cmd.seen = written[s] /\ failing = {} =>
             \A w \in Services : Faithful(metrics'[s][w], Rows(s, written[s], w))
    BY <1>0, <1>1, <2>2, <2>4, DerivationIsFaithful
  <2>6. Matched' = Matched /\ (Finishing' => Finishing)
    BY <1>6, <2>3, <2>4 DEF Finishing
  <2>7. Finishing => Settled'
    <3> SUFFICES ASSUME Finishing PROVE Settled'
      OBVIOUS
    <3>1. Settled
      BY DEF FinishInv
    <3>2. cmd.todo \subseteq Matched /\ cmd.seen = written[s]
          /\ (~cmd.lost => AllFaithful(metrics, Matched \ cmd.todo))
      BY <2>1, <2>4, <3>1 DEF Settled
    <3>3. ASSUME ~cmd'.lost, NEW t \in Matched \ cmd'.todo, NEW w \in Services
          PROVE  Faithful(metrics'[t][w], Rows(t, written[t], w))
      <4>1. ~cmd.lost /\ failing = {}
        BY <2>3, <3>3
      <4>2. CASE t = s
        BY <2>5, <3>2, <4>1, <4>2
      <4>3. CASE t # s
        <5>1. t \in Matched \ cmd.todo /\ t \in AllSlots
          BY <2>3, <4>3 DEF Matched
        <5> QED BY <2>5, <3>2, <4>1, <4>3, <5>1 DEF AllFaithful
      <4> QED BY <4>2, <4>3
    <3>4. ~cmd'.lost => AllFaithful(metrics, Matched \ cmd.todo)'
      BY <1>1, <2>6, <3>3 DEF AllFaithful, Rows
    <3> QED BY <1>2, <2>3, <2>6, <3>1, <3>2, <3>4 DEF Settled
  <2> QED BY <1>2, <1>5, <2>3, <2>5, <2>6, <2>7 DEF FinishInv
<1>11. CASE LoadMetrics
  <2> DEFINE M == CampaignMetricRows(cmd.matched)
  <2>1. metrics' = metrics /\ cmd' = [cmd EXCEPT !.pc = "reasons", !.rows = M]
        /\ (cmd.pc = "metrics" \/ (cmd.pc = "derive" /\ cmd.todo = {}))
    BY <1>11 DEF LoadMetrics
  <2>2. \A s \in Matched : M[s] = metrics[s]
    BY DEF CampaignMetricRows, Matched
  <2> HIDE DEF M
  <2>3. /\ cmd'.pc = "reasons" /\ cmd'.derive = cmd.derive /\ cmd'.matched = cmd.matched
        /\ cmd'.meta = cmd.meta /\ cmd'.lost = cmd.lost /\ cmd'.rows = M
    BY <1>0, <2>1 DEF CommandFields
  <2>4. Matched' = Matched /\ (Finishing' => Finishing)
    BY <1>6, <2>1, <2>3 DEF Finishing
  <2>5. Finishing => Settled'
    <3> SUFFICES ASSUME Finishing PROVE Settled'
      OBVIOUS
    <3>1. Settled
      BY DEF FinishInv
    <3>2. cmd.pc = "derive" /\ cmd.todo = {}
      BY <2>1, <3>1 DEF Settled
    <3>3. ~cmd.lost => AllFaithful(metrics, Matched)
      BY <3>1, <3>2 DEF Settled
    <3>4. ~cmd.lost => AllFaithful(cmd.rows, Matched)'
      BY <1>1, <2>2, <2>3, <2>4, <3>3 DEF AllFaithful, Rows
    <3> QED BY <1>2, <2>3, <2>4, <3>1, <3>4 DEF Settled
  <2> QED BY <1>2, <1>3, <1>5, <2>1, <2>3, <2>4, <2>5 DEF FinishInv
<1>12. CASE LoadReasons
  <2> DEFINE R == CampaignReasonRows(cmd.matched)
             M == cmd.rows
             report == [bias |-> AnalyzeBias(Summarize(M, R)), scores |-> ScoreMetrics(M, R),
                        details |-> CampaignReasonDetailRows(R), summaries |-> Summarize(M, R)]
  <2>1. /\ cmd.pc = "reasons" /\ metrics' = metrics
        /\ cmd' = [cmd EXCEPT !.pc = "written", !.rows = Nothing, !.report = report]
    BY <1>12 DEF LoadReasons
  <2>2. report.scores = ScoreMetrics(M, R)
    OBVIOUS
  <2> HIDE DEF report
  <2>3. /\ cmd'.pc = "written" /\ cmd'.derive = cmd.derive /\ cmd'.matched = cmd.matched
        /\ cmd'.meta = cmd.meta /\ cmd'.lost = cmd.lost /\ cmd'.report = report
    BY <1>0, <2>1 DEF CommandFields
  <2>4. Matched' = Matched /\ (Finishing' => Finishing)
    BY <1>6, <2>1, <2>3 DEF Finishing
  <2>5. Finishing => Settled'
    <3> SUFFICES ASSUME Finishing PROVE Settled'
      OBVIOUS
    <3>1. Settled
      BY DEF FinishInv
    <3> QED BY <1>2, <2>3, <2>4, <3>1 DEF Settled
  <2>6. ScoresAreCounted'
    <3> SUFFICES ASSUME Finished', NEW w \in Services
                 PROVE  LET n(o) == Cardinality(RunsThat(w, o)')
                        IN  IF n("passed") + n("failed") + n("excluded") = 0 THEN w \notin DOMAIN report.scores
                            ELSE /\ w \in DOMAIN report.scores
                                 /\ report.scores[w].passed = n("passed") /\ report.scores[w].failed = n("failed")
                                 /\ report.scores[w].excluded = n("excluded")
      BY <2>3 DEF ScoresAreCounted
    <3>1. Finishing /\ ~cmd.lost
      BY <2>1, <2>3 DEF Finished, Finishing
    <3>2. AllFaithful(M, Matched)
      BY <2>1, <3>1 DEF FinishInv, Settled
    <3>3. DOMAIN M = Matched
      BY <2>1 DEF ReportInv, RowsFounded, Matched
    <3>4. \A s \in Matched : Outcome(Sample(M, R, s, w)) = Clean(s, w)
      <4> TAKE s \in Matched
      <4>1. s \in AllSlots /\ Faithful(M[s][w], Rows(s, written[s], w))
        BY <3>2 DEF AllFaithful, Matched
      <4>2. [slot |-> s, service |-> w, code |-> "capability_mismatch"] \in R => Rows(s, written[s], w) # {}
        BY <1>0, <4>1, ReasonHasARow
      <4> HIDE DEF M, R
      <4> QED BY <4>1, <4>2, OutcomeIsClean
    <3>5. ASSUME NEW o PROVE RunsThat(w, o)' = RunsThat(w, o)
      <4>1. \A s : Clean(s, w)' = Clean(s, w)
        BY <1>1 DEF Clean, Rows
      <4>2. RunsThat(w, o) = {s \in Matched : Clean(s, w) = o}
        BY DEF RunsThat, Matched
      <4>3. RunsThat(w, o)' = {s \in Matched' : Clean(s, w)' = o}
        BY DEF RunsThat, Matched
      <4> QED BY <2>4, <4>1, <4>2, <4>3
    <3> HIDE DEF M, R
    <3>6. LET n(o) == Cardinality(RunsThat(w, o))
              scores == ScoreMetrics(M, R)
          IN  IF n("passed") + n("failed") + n("excluded") = 0 THEN w \notin DOMAIN scores
              ELSE /\ w \in DOMAIN scores
                   /\ scores[w].passed = n("passed") /\ scores[w].failed = n("failed")
                   /\ scores[w].excluded = n("excluded")
      BY <3>3, <3>4, Scoring
    <3> QED BY <2>2, <3>5, <3>6
  <2> QED BY <1>2, <1>3, <2>1, <2>3, <2>4, <2>5, <2>6 DEF FinishInv
<1> QED BY <1>7, <1>8, <1>9, <1>10, <1>11, <1>12 DEF Command

\* Every run of a finished campaign is scored as its rows call for, and once:
\* whatever the journals, however many runs, however early and often the metrics
\* were derived before, and while the harness derives them as well.
THEOREM ScoresCountedRight == ReportSpec => []ScoresAreCounted
<1> DEFINE Inv == ReportInv /\ FinishInv
<1>1. ReportInit => Inv
  BY ReportBegins, FinishBegins
<1>2. Inv /\ [ReportNext]_<<vars, reportVars>> => Inv'
  BY CampaignStep, CommandStep, CampaignFinishes, CommandFinishes DEF ReportNext
<1>3. Inv => ScoresAreCounted
  BY DEF FinishInv
<1> QED BY <1>1, <1>2, <1>3, PTL DEF ReportSpec
=============================================================================

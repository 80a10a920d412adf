--------------------------- MODULE CampaignSchedule ---------------------------
(***************************************************************************)
(* How a campaign lays its replays out in time: generateSchedule of        *)
(* internal/campaign/generator.go.                                         *)
(*                                                                         *)
(* The requested replays are shuffled and put on a jittered uniform grid.  *)
(* When that grid starts two replays on one target closer together than    *)
(* the campaign's cooldown, a second layout gives every target its own     *)
(* positions 0, cooldown, 2 cooldown, ... and stretches the result over    *)
(* the campaign.  What the seeded random source draws is left open, so     *)
(* everything shown here holds for every seed.                             *)
(*                                                                         *)
(* Time is counted in the smallest unit the code subtracts.  The stretch   *)
(* is exact here; the code multiplies in floating point.                   *)
(***************************************************************************)
EXTENDS Integers, FiniteSets, Functions

CONSTANTS
    Designs,        \* the designs of the campaign
    Replays,        \* Replays[d]: how often design d is replayed
    Targets,        \* hosts
    DesignTargets,  \* DesignTargets[d]: the hosts d's failures hit
    Durations,      \* the durations a campaign may have
    Cooldown        \* cooldown.per_target_minimum

ASSUME PlanAssumption ==
    /\ IsFiniteSet(Designs)
    /\ Replays \in [Designs -> Nat]
    /\ DesignTargets \in [Designs -> SUBSET Targets]

ASSUME TimesAssumption == Durations \subseteq Nat \ {0} /\ Cooldown \in Nat

\* The requested replays, <<design, replay index>>.
Pairs == UNION {{d} \X (0..(Replays[d] - 1)) : d \in Designs}

total == Cardinality(Pairs)

Hits(p) == DesignTargets[p[1]]
Together(p, q) == Hits(p) \cap Hits(q) # {}

\* The orders the pairs can be in.
Orders == Bijection(1..total, Pairs)

VARIABLES
    duration,   \* of the campaign
    pc,         \* where generateSchedule is
    pairs,      \* the shuffled pairs
    i,          \* pairs the cooldown layout has placed
    position,   \* targetPositions
    offset,     \* the offset of each pair's slot
    slots       \* the pairs in the order of the schedule

vars == <<duration, pc, pairs, i, position, offset, slots>>

\* The pairs after the shuffle with a seeded source: any order may come out.
Init ==
    /\ duration \in Durations
    /\ pc = IF total = 0 THEN "done" ELSE "uniform"
    /\ pairs \in Orders /\ slots = pairs
    /\ i = 0
    /\ position = [t \in Targets |-> 0]
    /\ offset = [p \in Pairs |-> 0]

-----------------------------------------------------------------------------
(* The uniform grid *)

slot == duration \div total

Jitter == -(slot \div 4)..(slot \div 4)

clamp(x) == IF x < 0 THEN 0 ELSE IF x >= duration THEN duration - 1 ELSE x

Uniform ==
    /\ pc = "uniform"
    /\ \E jitter \in [1..total -> Jitter] :
         offset' = [p \in Pairs |->
                      LET k == CHOOSE k \in 1..total : pairs[k] = p
                      IN  clamp((k - 1) * slot + jitter[k])]
    /\ pc' = "sort_uniform"
    /\ UNCHANGED <<duration, pairs, i, position, slots>>

\* The slots are walked in the order of their offsets; equal offsets stay in
\* an order of the sort's choosing.
Sorted(s) == \A j, k \in 1..total : j < k => offset[s[j]] <= offset[s[k]]

Sort(from, to) ==
    /\ pc = from
    /\ slots' \in Orders /\ Sorted(slots')
    /\ pc' = to
    /\ UNCHANGED <<duration, pairs, i, position, offset>>

\* Faulty variant: only neighbours in the schedule are compared.
respectsAdjacent ==
    \A j \in 1..(total - 1) : Together(slots[j], slots[j + 1]) =>
        offset[slots[j + 1]] - offset[slots[j]] >= Cooldown

\* One walk over the slots, comparing each with the one its target had last.
scheduleRespectsTargetCooldown ==
    \A j, k \in 1..total : \A t \in Hits(slots[j]) \cap Hits(slots[k]) :
        (j < k /\ \A m \in (j + 1)..(k - 1) : t \notin Hits(slots[m]))
            => offset[slots[k]] - offset[slots[j]] >= Cooldown

CheckUniform ==
    /\ pc = "check_uniform"
    /\ pc' = IF Cooldown = 0 \/ scheduleRespectsTargetCooldown THEN "done" ELSE "count"
    /\ UNCHANGED <<duration, pairs, i, position, offset, slots>>

-----------------------------------------------------------------------------
(* The cooldown layout *)

targetReplayCounts(t) == Cardinality({p \in Pairs : t \in Hits(p)})

\* Faulty variants: the span of n replays taken as n and as n - 2 cooldowns.
CountWide ==
    /\ pc = "count"
    /\ pc' = IF \E t \in Targets : targetReplayCounts(t) * Cooldown >= duration
               THEN "infeasible" ELSE "layout"
    /\ UNCHANGED <<duration, pairs, i, position, offset, slots>>

CountNarrow ==
    /\ pc = "count"
    /\ pc' = IF \E t \in Targets : (targetReplayCounts(t) - 2) * Cooldown >= duration
               THEN "infeasible" ELSE "layout"
    /\ UNCHANGED <<duration, pairs, i, position, offset, slots>>

Count ==
    /\ pc = "count"
    /\ pc' = IF \E t \in Targets :
                  targetReplayCounts(t) > 0 /\ (targetReplayCounts(t) - 1) * Cooldown >= duration
               THEN "infeasible" ELSE "layout"
    /\ UNCHANGED <<duration, pairs, i, position, offset, slots>>

\* The largest position any of p's targets has reached; 0 when it has none.
Reached(p) ==
    LET S == {0} \cup {position[t] : t \in Hits(p)}
    IN  CHOOSE n \in S : \A m \in S : m <= n

\* Faulty variant: the targets stay where they are.
PlaceNoAdvance ==
    /\ pc = "layout" /\ i < total
    /\ offset' = [offset EXCEPT ![pairs[i + 1]] = Reached(pairs[i + 1]) * Cooldown]
    /\ i' = i + 1
    /\ UNCHANGED <<duration, pc, pairs, slots, position>>

\* One turn of the loop: the pair goes to the first free position of the target
\* that is furthest along, and every one of its targets moves one position on.
Place ==
    /\ pc = "layout" /\ i < total
    /\ LET p == pairs[i + 1]
       IN  /\ offset' = [offset EXCEPT ![p] = Reached(p) * Cooldown]
           /\ position' = [t \in Targets |-> IF t \in Hits(p) THEN position[t] + 1 ELSE position[t]]
    /\ i' = i + 1
    /\ UNCHANGED <<duration, pc, pairs, slots>>

latest == CHOOSE x \in {offset[p] : p \in Pairs} : \A p \in Pairs : offset[p] <= x

\* The layout is stretched over the campaign, up to its last instant.
Stretch ==
    /\ pc = "layout" /\ i = total
    /\ offset' = IF latest > 0 /\ duration - 1 > latest
                   THEN [p \in Pairs |-> (offset[p] * (duration - 1)) \div latest]
                   ELSE offset
    /\ pc' = "sort"
    /\ UNCHANGED <<duration, pairs, i, position, slots>>

Check ==
    /\ pc = "check"
    /\ pc' = IF scheduleRespectsTargetCooldown THEN "done" ELSE "internal_error"
    /\ UNCHANGED <<duration, pairs, i, position, offset, slots>>

Returned == {"done", "infeasible", "internal_error"}

Terminated == pc \in Returned /\ UNCHANGED vars

Next ==
    \/ Uniform \/ Sort("sort_uniform", "check_uniform") \/ CheckUniform
    \/ Count \/ Place \/ Stretch \/ Sort("sort", "check") \/ Check
    \/ Terminated

Spec == Init /\ [][Next]_vars

-----------------------------------------------------------------------------
(* Properties *)

\* Every variable of the generator holds a value of its type.
TypeOK ==
    /\ pc \in {"uniform", "sort_uniform", "check_uniform", "count", "layout",
               "sort", "check"} \cup Returned
    /\ duration \in Durations
    /\ pairs \in Orders /\ slots \in Orders
    /\ i \in 0..total
    /\ position \in [Targets -> Nat]
    /\ offset \in [Pairs -> Nat]

SpacedBy(f) ==
    \A p, q \in Pairs : p # q /\ Together(p, q) =>
        f[p] - f[q] >= Cooldown \/ f[q] - f[p] >= Cooldown

\* A schedule that is handed out keeps every target's planned starts at least
\* the cooldown apart, whichever layout it came from: any two of them, although
\* the code compares each start only with the one before it.
Spaced == pc = "done" => SpacedBy(offset)

\* Every slot of a schedule that is handed out lies within the campaign, and the
\* schedule walks the slots in the order of time.
WithinCampaign ==
    pc = "done" => /\ \A p \in Pairs : offset[p] \in 0..(duration - 1)
                   /\ \A j \in 1..(total - 1) : offset[slots[j]] <= offset[slots[j + 1]]

\* A campaign is rejected as infeasible only when no schedule at all would keep
\* the cooldown within the campaign.
RejectedIsInfeasible ==
    pc = "infeasible" => ~\E f \in [Pairs -> 0..(duration - 1)] : SpacedBy(f)

\* The final self-check never fails: generateSchedule says that its second
\* layout "keeps every target's planned starts at least cooldown apart".
NoInternalError == pc # "internal_error"

\* What generateSchedule promises: starts on one target are apart, and the
\* self-check that guards this never turns a feasible campaign down.
ScheduleSound == Spaced /\ NoInternalError

\* A campaign has a schedule within its duration, or there is none.
FitsOrInfeasible == WithinCampaign /\ RejectedIsInfeasible
=============================================================================

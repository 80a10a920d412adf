----------------------------- MODULE CampaignPlan -----------------------------
(***************************************************************************)
(* From a campaign file to replays: Parse, then Generate, which draws one  *)
(* design for every cell and lays the replays of all of them out in time   *)
(* (CampaignSchedule), and ToScenario, which RunCampaign calls for every   *)
(* slot and preflight for every design.                                    *)
(*                                                                         *)
(* Each design has a random source of its own, and its translation depends *)
(* on nothing else, so a behaviour follows one design from the draw to the *)
(* scenario, or the schedule.                                              *)
(***************************************************************************)
EXTENDS CampaignSchedule, CampaignDesign

CONSTANT Files  \* campaign files

VARIABLES
    stage,      \* how far the campaign has come
    campaign,   \* the file, then what Parse returned
    design,     \* the design that is followed
    scenario    \* what ToScenario made of it

planVars == <<stage, campaign, design, scenario>>
allVars == <<vars, planVars>>

NoDesign == [targets |-> <<>>]

\* Generate has not been called: the variables of the schedule have the value
\* of one of its initial states.
PlanInit ==
    /\ campaign \in Files
    /\ stage = "file" /\ design = NoDesign /\ scenario = NoScenario
    /\ duration = (CHOOSE d \in Durations : TRUE)
    /\ pairs = (CHOOSE o \in Orders : TRUE) /\ slots = pairs
    /\ pc = (IF total = 0 THEN "done" ELSE "uniform") /\ i = 0
    /\ position = [t \in Targets |-> 0] /\ offset = [p \in Pairs |-> 0]

Parse ==
    /\ stage = "file"
    /\ \/ validate(campaign) /\ stage' = "parsed" /\ campaign' = Normalised(campaign)
       \/ ~validate(campaign) /\ stage' = "refused" /\ UNCHANGED campaign
    /\ UNCHANGED <<vars, design, scenario>>

\* Preflight draws and translates whatever the patterns are; RunCampaign stops
\* at a pattern other than single.
Draw ==
    /\ stage = "parsed"
    /\ \E cell \in Range(enumerateCells(campaign)) : design' \in generateDesign(campaign, cell)
    /\ stage' = "drawn"
    /\ UNCHANGED <<vars, campaign, scenario>>

Translate ==
    /\ stage = "drawn"
    /\ scenario' = ToScenario(design)
    /\ stage' = "translated"
    /\ UNCHANGED <<vars, campaign, design>>

\* The designs of the schedule are those of the campaign's cells, on hosts that
\* may have been drawn for them.
Planned(c) ==
    LET cells == enumerateCells(c)
    IN  /\ Designs = DOMAIN cells /\ Cooldown = c.cooldown /\ c.duration \in Durations
        /\ \A d \in Designs :
             /\ Replays[d] = SamplesOf(c, cells[d].block.type)
             /\ DesignTargets[d] \in {Range(t) : t \in pickTargets(c.pool, cells[d].pattern)}

Generate ==
    /\ stage = "parsed" /\ validateCampaignRunnerScope(campaign) /\ Planned(campaign)
    /\ duration' = campaign.duration
    /\ pairs' \in Orders /\ slots' = pairs'
    /\ stage' = "schedule"
    /\ UNCHANGED <<pc, i, position, offset, campaign, design, scenario>>

GenerateSchedule == stage = "schedule" /\ Next /\ UNCHANGED planVars

Ended == stage \in {"refused", "translated"} /\ UNCHANGED allVars

PlanNext == Parse \/ Draw \/ Translate \/ Generate \/ GenerateSchedule \/ Ended

PlanSpec == PlanInit /\ [][PlanNext]_allVars

-----------------------------------------------------------------------------
(* Properties *)

WindowEnd(k) == scenario.failures[k].offset + effectiveFailureDuration(scenario, scenario.failures[k])

\* The failure of the cell's type starts with the scenario; no failure outlasts
\* the scenario or is without length; stages that replace each other meet, and
\* stages that recover do not overlap.  A stage without a duration of its own
\* would last as long as the scenario, from its offset on.
WindowsFit ==
    LET fs == scenario.failures
    IN  /\ fs[1].type = design.type /\ fs[1].offset = 0
        /\ \A k \in DOMAIN fs : WindowEnd(k) > fs[k].offset /\ WindowEnd(k) <= scenario.duration
        /\ \A k \in 1..(Len(fs) - 1) :
             /\ design.escalation.pattern = "layered" => WindowEnd(k) = scenario.duration
             /\ design.escalation.pattern = "replacement" => WindowEnd(k) = fs[k + 1].offset
             /\ design.escalation.pattern = "recovery" =>
                  /\ WindowEnd(k) <= fs[k + 1].offset
                  /\ WindowEnd(k) = fs[k + 1].offset => fs[k + 1].offset = fs[k].offset + 1

\* Two stages want different things of a setting the scenario has once.
Disagree(n) == Cardinality(ValuesOf(StagesOf(design), n)) > 1

\* The monitors look for what the failure does.
Watched(f) ==
    CASE f.type = "http_body" ->
           IF Field(f, "content") = {"keyword_injected"}
           THEN scenario.check = "absent" /\ failureParams(scenario, f)["keyword"] = scenario.keyword
           ELSE HasMixedContentEscalation(design) \/ (scenario.check = "present" /\ scenario.keyword = CanaryKeyword)
      [] f.type = "http_header_status" -> Disagree("header_value") \/ requiredHeadersMatch(scenario, f)
      [] f.type = "http_latency" ->
           \E b \in Range(campaign.types) : b.type = f.type /\
              (Disagree("response_time_threshold") \/ {scenario.threshold} = Given(b, "response_time_threshold"))
      [] f.type \in DNSTypes -> scenario.fresh
      [] OTHER -> TRUE

\* The scenario as a file: what the format fills in is left out.
Written ==
    [scenario EXCEPT !.check = "", !.keyword = IF @ = CanaryKeyword THEN "" ELSE @]

\* Methods and phases a campaign file may name and a scenario file may not.
Exotic(f) == ~(Field(f, "method") \subseteq {"GET", "HEAD"} /\ Field(f, "phase") \subseteq {"ttfb", "body", "total"})

Effects(sc) == [k \in DOMAIN sc.failures |-> Effect(sc, sc.failures[k])]

\* Written down and read back, the scenario has the same monitors and the same
\* effects: the defaults of the file format and those of the fleet agree.
SameAsItsFile ==
    Accepts(Written) /\ Effects(Parsed(Written)) = Effects(scenario)
        /\ Parsed(Written).keyword = scenario.keyword /\ Parsed(Written).check = scenario.check

\* A block that gives what the scenario format asks of its type.
CompleteBlock(b) ==
    \E s \in Draws(b) : validateFailureType([type |-> s.type, fields |-> s.params])

\* A replay tests the cell it was drawn for (generator.go, translate.go).  A
\* campaign whose blocks are complete and whose stages agree on a keyword loses
\* no replay on one host; and the scenario of a replay has the failures in their
\* windows, monitors that look for them (but for the escalations the report marks
\* and for stages that disagree on a header or a threshold), and the same effects
\* as a scenario file that says the same.
ReplaysTestTheirCell ==
    stage = "translated" =>
        \/ scenario = NoScenario /\ (\/ Len(design.targets) # 1 \/ Disagree("keyword")
                                     \/ \E b \in Range(campaign.types) : ~CompleteBlock(b))
        \/ /\ scenario # NoScenario /\ WindowsFit
           /\ \A f \in Range(scenario.failures) : Watched(f)
           /\ (\E f \in Range(scenario.failures) : Exotic(f)) \/ SameAsItsFile
=============================================================================

SPECIFICATION PlanSpec
CONSTANTS
    hostA = hostA
    hostB = hostB
    Designs = {1, 2, 3}
    Targets <- MCTargets
    DesignTargets <- MCAlternating
    Replays <- MCReplays
    Durations = {7, 8, 16, 17}
    Cooldown = 7
    Files <- MCFiles
INVARIANTS
    ScheduleSound
    FitsOrInfeasible
    ReplaysTestTheirCell

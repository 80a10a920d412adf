SPECIFICATION FairSpec
CONSTANTS
    Scenarios <- MCScenarios
    GracePeriod = 1
    Margin = 1
    Attempts = 2
    MaxLag = 2
    MaxTime = 9
    target = target
    ns1 = ns1
    ns2 = ns2
    keyA = keyA
    keyB = keyB
    svcA = svcA
    svcB = svcB
INVARIANTS
    GroundTruthHolds
    PlannedIsComplete
    ExposureFailureExcludes
    MonitorsDeleted
PROPERTIES
    RunEnds
    FleetRecovers

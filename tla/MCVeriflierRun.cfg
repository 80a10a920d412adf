SPECIFICATION Spec
CONSTANTS
    Programs <- MCPrograms
    AllModes <- MCAllModes
    Endpoint <- MCEndpoint
    FirstID <- MCFirstID
    BatchSize = 2
    PerHost = 1
    Global = 2
    FixtureURLs = 2
    Rate = 3
    Minutes = 1
    Concurrency = 4
INVARIANTS
    LimitsHeld
    NothingIsLost
    ResultsAreTheirOwn
    RatesAreEarned
PROPERTIES
    EveryRunEnds
CHECK_DEADLOCK FALSE

SPECIFICATION MemberSpec
CONSTANTS
    Types <- MCTypes
    Hosts = {"site"}
    Paths = {"page"}
    Any = ""
    Rates = {"every", "some"}
    CIDRs = {"net"}
    BadCIDRs = {}
    IPs = {near, far}
    Covers <- MCCovers
    Durations = {1}
    Handlers = {g1}
    Idle = Idle
    MaxTime = 2
    near = near
    far = far
    w1 = w1
    w2 = w2
    Workers = {w1, w2}
    Crew <- MCCrew
    MaxScript <- MCMaxScript
    Clocked = {"http", "dns"}
    Pollers <- MCPollers
    Faults <- MCFaults
    MaxWindows = 2
    MaxServed = 2
    Sources <- MCSources
    Validity <- MCValidity
    None = None
    MaxApplies = 2
    MaxFaults = 1
    Fleet <- MCFleet
    Member = "n1"
    TXTNames = {"challenge"}
    TXTValues = {"apex", "wildcard"}
    Queries <- MCQueries
    Probes <- MCProbes
    Activations <- MCActivations
    Requests <- MCRequests
    Windows <- MCWindows
INVARIANTS
    ResponsesFollowFailures
    ObserverSummaryAgrees
    ChallengeIsAnswered
    ProbeSeesTheFailure
PROPERTIES
    LibraryCatchesUp
CHECK_DEADLOCK FALSE

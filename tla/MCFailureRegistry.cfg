SPECIFICATION Spec
CONSTANTS
    Types = {http}
    Hosts = {host}
    Paths = {page}
    Any = Any
    cidr = cidr
    ip1 = ip1
    ip2 = ip2
    Rates = {"some"}
    CIDRs = {cidr}
    BadCIDRs = {}
    IPs = {ip1, ip2}
    Covers <- MCCovers
    Durations <- MCDurations
    Handlers = {g1}
    Idle = Idle
    MaxTime = 2
CONSTRAINT MCFewEntries
INVARIANTS
    BoundedOutage
PROPERTIES
    ImplementsWindows

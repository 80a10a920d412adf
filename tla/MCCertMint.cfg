SPECIFICATION Spec
CONSTANTS
    Daemons = {d}
    Onces = {o, y}
    DryRuns = {y}
    Groups <- MCGroups
    DomainOf <- MCDomainOf
    PerDay <- MCPerDay
    MaxLifetime <- MCMaxLifetime
    Lifetimes = {1, 2}
    DayLen = 2
    Quiet = 1
    Retention = 1
    MaxTime = 4
    MaxFaults = 1
    None = None
PROPERTIES
    ManifestSound
    DueArchived

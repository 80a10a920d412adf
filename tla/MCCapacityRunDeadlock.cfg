\* One fault, a seeded table.
CONSTANTS
    Services <- MCServices
    Configs <- MCConfigs
    Invocations <- MCInvocations
    Tables <- SeededOnly
    Histories <- MCHistories
    Limits <- MCLimits
    ActivatedAt = 10
    DeactivatedAt = 20
    CollectedAt = 25
    Padding = 5
    MaxInvocations = 1
    MaxFaults = 1
SPECIFICATION Spec
INVARIANT CleanupPassMeansInactive
CHECK_DEADLOCK FALSE

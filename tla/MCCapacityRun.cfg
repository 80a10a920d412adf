\* Two services, one fault, two invocations.
CONSTANTS
    Services <- MCServices
    Configs <- MCConfigs
    Invocations <- MCInvocations
    Tables <- MCTables
    Histories <- MCHistories
    Limits <- MCLimits
    ActivatedAt = 10
    DeactivatedAt = 20
    CollectedAt = 25
    Padding = 5
    MaxInvocations = 2
    MaxFaults = 1
SPECIFICATION Spec
INVARIANTS
    InterruptedCleansUp
    LeftActiveIsReported
    DetectionHostsWereFailed
    SameHistorySameVerdict
PROPERTIES
    CleanBatchWasClean
CHECK_DEADLOCK FALSE

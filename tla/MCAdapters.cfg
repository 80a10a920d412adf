SPECIFICATION Spec
CONSTANTS
    Types = {"uptimerobot", "pingdom", "datadog", "better-uptime", "jetmon-v1", "jetmon-v2", "gatus", "uptime-kuma"}
    Configs <- MCConfigs
    Logs <- MCLogs
    MaxRuns = 2
    MaxFaults = 2
    MaxCreateAttempts = 2
    RetrieveRetries = 2
    DeprovisionAttempts = 2
    PageLimit = 2
    FailureStarted = 2
    FailureEnded = 3
    GracePeriodEnd = 4
INVARIANTS
    NoSilentLeak
    RunHasWhatItAsked
    SamplesMakeOutages
    CleanExitMeansClean
PROPERTIES
    KnownMeansWatched
CHECK_DEADLOCK FALSE

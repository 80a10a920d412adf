SPECIFICATION ReportSpec
CONSTANTS
    svcA = svcA
    svcB = svcB
    N = 2
    Duration = 3
    Hour = 2
    Services <- MCServices
    Budget <- MCBudget
    MaxNow = 2
    Journal <- MCJournal
    Label <- MCLabel
    Category <- MCCategory
    Losses <- MCLosses
    Watched <- MCWatched
INVARIANTS
    BudgetPreflight
    FinishedReportIsRight
    UnknownIsNeverScored
PROPERTIES
    CampaignEnds

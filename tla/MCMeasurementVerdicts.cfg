SPECIFICATION MeasureSpec
CONSTANTS
    f1 = f1
    f2 = f2
    f3 = f3
    a1 = a1
    a2 = a2
    None = None
    Failures <- MCFailures
    Plans <- MCMixed
    Advisory <- MCAdvisory
    Alerts = {a1, a2}
    AlertTimes <- MCTimes
    Maintenances <- MCWindows
    Cooldowns <- MCCooldowns
SYMMETRY MCSymmetry
INVARIANTS
    VerdictRight
    MaintenanceEarned

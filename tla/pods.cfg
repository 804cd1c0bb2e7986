SPECIFICATION MCSpec
CONSTANTS
    N = 2
    HasServices = {TRUE, FALSE}
    Refusals = {{}, {1}}
    WorkerBudgets <- MCBudgets
    Froms = {"exit", "junit", "jtl"}
    Parts <- MCParts
    Reports = {a, b}
    OutJTL = a
    Retry = 2
    MaxUploadAttempts = 2
    WrapperBudgets <- MCMishaps
INVARIANTS ResultsAddUp OrphanIsReal PassIsEarned ReportedIsStored
PROPERTIES EventuallyEnds AttemptsTell PodEnds
CHECK_DEADLOCK FALSE

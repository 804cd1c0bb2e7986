SPECIFICATION MCSpec
CONSTANTS
    Runs = {1, 2, 3}
    Month = 2
    Retention = 2
    Horizon = 4
    Limit = 2
    MaxLag = 1
    HistoryBudgets <- MCBudgets
INVARIANTS PagesCoverAll NoneStranded
PROPERTIES HistoryKept
CHECK_DEADLOCK FALSE

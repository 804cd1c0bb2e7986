CONSTANTS
    Runs = {1, 2, 3}
    Orders <- MCOrders
    Policies = {"Forbid", "Replace"}
    MaxLag = 2
    Budgets <- MCBudgets
SPECIFICATION Spec
INVARIANTS ForbidExclusive LatestIsNewest
PROPERTIES ReplaceKept EveryRunHasItsTurn
CHECK_DEADLOCK FALSE

SPECIFICATION BoundedFairSpec
CONSTANTS
    MaxDepth = 10
    Plans <- ManyPlans
    Budgets <- Pairs
    MaxLag = 1
INVARIANTS ChildrenInTurn PassedIsEarned
PROPERTIES EndsOnce
CHECK_DEADLOCK FALSE

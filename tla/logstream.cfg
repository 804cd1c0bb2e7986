CONSTANTS
    Stamps <- MCStamps
    Cut = {2}
    ChunkPieces = 2
    RingPieces = 2
    SubscriberQueue = 2
    ReopenMaxAttempts = 2
    Budgets <- MCBudgets
SPECIFICATION Spec
INVARIANTS LinesInOrder
PROPERTIES EndsFlushed
CHECK_DEADLOCK FALSE

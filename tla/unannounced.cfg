SPECIFICATION Spec
CONSTANTS
    Runs <- TwoRuns
    Phases = {"passed", "failed"}
    Hooks <- MCHooks
    Reconcilers = {p}
    QueueBuffer = 1
    WorkerCount = 1
    DeliveryBudgets <- OneDirect
PROPERTIES EveryEndIsAnnounced
CHECK_DEADLOCK FALSE

SPECIFICATION EventsSpec
CONSTANTS
    Schedules <- MCSchedules
    Horizon = 6
    Lookback = 3
    MinMissedFireWindow = 1
    Replicas = {p, q}
    ScheduleBudgets <- MCScheduleBudgets
    Trigs = {1, 2}
    Kinds = {"pods", "deployments"}
    Objects <- MCObjects
    TriggerSpecs <- MCTriggerSpecs
    OutBuffer = 1
    MaxAge = 4
    TriggerBudgets <- MCTriggerBudgets
    Runs <- MCRuns
    Phases = {"passed", "failed"}
    Hooks <- MCHooks
    Reconcilers = {p}
    QueueBuffer = 2
    WorkerCount = 1
    DeliveryBudgets <- MCBudgets
PROPERTIES ScheduleKept GatesKeepTime WatchesFollow FreshestKept EveryJobSettles
CHECK_DEADLOCK FALSE

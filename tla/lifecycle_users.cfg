SPECIFICATION BoundedFairSpec
CONSTANTS
    TTLEnabled = FALSE
    Budget <- Outsiders
    MaxLag = 1
INVARIANTS FinalizerGuardsJob
PROPERTIES RefinesContract EventuallyRecorded
CHECK_DEADLOCK FALSE

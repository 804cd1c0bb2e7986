SPECIFICATION BoundedFairSpec
CONSTANTS
    TTLEnabled = TRUE
    Budget <- CrashAndFault
    MaxLag = 2
INVARIANTS TypeOK AnnouncedOnce VerdictEarned OrphanOnlyIfLost
PROPERTIES TerminalIsFinal CleanupAfterVerdict ExpireOnlyRecorded EventuallyDecided
CHECK_DEADLOCK FALSE

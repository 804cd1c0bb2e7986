SPECIFICATION WrapperSpec
CONSTANTS
    Froms = {"junit"}
    Parts <- MCParts
    Reports = {a, b}
    OutJTL = a
    Retry = 1
    MaxUploadAttempts = 1
    WrapperBudgets <- Undisturbed
INVARIANTS StaleNeverPasses
CHECK_DEADLOCK FALSE

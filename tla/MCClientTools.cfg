SPECIFICATION Spec
CONSTANTS
    MayFail = TRUE
    MaxCalls = 3
CHECK_DEADLOCK FALSE
INVARIANTS
    ReadsLastWrite
    OutputIsWhole
    NoUseAfterRelease
    OpenOnlyAfterError

SPECIFICATION LiveSpec
CONSTANTS
    Prompts = {p1, p2}
    c1 = c1
    c2 = c2
    Calls = {c1, c2}
    Batches <- MCBatches
    None = None
    CmdCap = 2
    EvtCap = 6
    Concurrent = FALSE
    MayClose = TRUE
    MaxLoads = 1
    MaxCancels = 2
CHECK_DEADLOCK FALSE
INVARIANTS
    DeliveredCancelStops
    NoStaleRun
PROPERTIES
    ImplementsSession
    PromptAnswered
    RunEndsEventually
    ReadLoopFree

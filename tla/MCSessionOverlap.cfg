SPECIFICATION Spec
CONSTANTS
    Prompts = {p1, p2}
    c1 = c1
    c2 = c2
    Calls = {c1, c2}
    Batches <- MCBatches
    None = None
    CmdCap = 3
    EvtCap = 3
    Concurrent = TRUE
    MayClose = FALSE
    MaxLoads = 0
    MaxCancels = 0
CHECK_DEADLOCK FALSE
INVARIANT OnlyAllowedRun

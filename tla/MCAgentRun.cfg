SPECIFICATION LiveSpec
CONSTANTS
    c1 = c1
    c2 = c2
    NoCall = NoCall
    CallIDs <- MCCallIDs
    Responses <- MCResponses
    CmdCap = 2
    EvtCap = 1
    OutCap = 1
    MaxTurns = 2
    MaxCmds = 3
CHECK_DEADLOCK FALSE
INVARIANTS
    TypeOK
    StreamOrder
    NothingLost
    OneApprovalPerExecution
    ContextAnswered
PROPERTIES
    ImplementsContract
    CancelEndsRun

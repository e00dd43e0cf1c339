SPECIFICATION LiveSpec
CONSTANTS
    Manifests <- MCManifests
    VarOf <- MCVarOf
    Callers = {k1, k2}
    Requests <- MCRequests
    MaxHelpers = 1
    MaxRestarts = 1
CHECK_DEADLOCK FALSE
INVARIANTS
    UnpreparedHasCause
    RunsAsShown
    LeavesNothing
PROPERTIES
    CallReturns

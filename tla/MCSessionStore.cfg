SPECIFICATION Spec
CONSTANTS
    p1 = p1
    p2 = p2
    p3 = p3
    g1 = g1
    g2 = g2
    Procs = {p1, p2, p3}
    Generated = {g1, g2}
    Named = {n1}
    Mixed = mixed
    Agents = {default, coder}
    Default = default
    None = none
    Failing = {p1}
    MaxManage = 1
SYMMETRY Symmetry
CHECK_DEADLOCK FALSE
INVARIANTS
    ActiveIsSomeones
    ForgottenOnlyForCause
    AgentOfNewHasReason

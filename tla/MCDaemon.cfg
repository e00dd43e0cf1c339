SPECIFICATION LiveSpec
CONSTANTS
    s1 = s1
    s2 = s2
    s3 = s3
    Servers = {s1, s2, s3}
    Clients = {k1}
    Stoppers = {k1}
    None = None
    MayKill = TRUE
    MayFail = TRUE
CHECK_DEADLOCK FALSE
INVARIANTS
    NoStalePIDFile
    RunningIsKnown
PROPERTY EndsWhenTold

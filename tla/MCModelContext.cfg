SPECIFICATION Spec
CONSTANTS
    c1 = c1
    c2 = c2
    Calls = {c1, c2}
    SkillCalls = {c2}
    ValidateRoles = TRUE
    Budgets = {0, 9}
    MaxFailures = 1
    MaxMessages = 5
CHECK_DEADLOCK FALSE
INVARIANTS
    EverythingSent
    LostOnlyBehindResult
    SentResultsPaired
    RefusedHasCause

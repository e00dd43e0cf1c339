SPECIFICATION Spec
CONSTANTS
    c1 = c1
    c2 = c2
    Calls = {c1, c2}
    SkillCalls = {}
    ValidateRoles = TRUE
    Budgets = {9}
    MaxFailures = 0
    MaxMessages = 4
CHECK_DEADLOCK FALSE
INVARIANTS
    ResultsSent

SPECIFICATION FileSpec
CONSTANTS
    m1 = m1
    m2 = m2
    m3 = m3
    Messages <- MCMessages
    NL = NL
    Size <- MCSize
    Tokens <- MCTokens
    TokenBudgets <- MCBudgets
    ChunkSize = 3
    MayTear = TRUE
    MaxAppends = 4
CHECK_DEADLOCK FALSE
INVARIANTS
    LoadsTailUnlessAligned
    LoadsOnlyMessages

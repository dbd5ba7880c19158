SPECIFICATION Spec
CONSTANTS
    w1 = w1
    w2 = w2
    Workers = {w1}
    Users = {7, 8}
    Rows <- ThreeRows
    Colls <- ThreeColls
    MaxSessions = 1
    Flaky = TRUE
    MayFail = {}
    MayCrash = TRUE
INVARIANTS CollsInTheirBase
CHECK_DEADLOCK FALSE

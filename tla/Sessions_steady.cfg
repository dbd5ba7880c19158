SPECIFICATION Spec
CONSTANTS
    w1 = w1
    w2 = w2
    Workers = {w1, w2}
    Users = {7, 8}
    Rows <- FourRows
    Colls <- FourColls
    MaxSessions = 2
    Flaky = FALSE
    MayFail = {"list", "save", "restore"}
    MayCrash = TRUE
SYMMETRY Symmetry
INVARIANTS TypeOK ListedAsPublished CollsInTheirBase
CHECK_DEADLOCK FALSE

SPECIFICATION Spec
CONSTANTS
    w1 = w1
    w2 = w2
    Workers = {w1, w2}
    Batches <- FewBatches
    PageStarts <- NoStart
    PageSizes <- Sizes
    MaxQueries = 2
    AnswersPerBlock = 2
    SpotsPerBlock = 2
    Callers = "free"
    MayFail = {}
    MayCrash = FALSE
SYMMETRY Symmetry
INVARIANTS OwnSpots
CHECK_DEADLOCK FALSE

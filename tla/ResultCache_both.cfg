SPECIFICATION BothSpec
CONSTANTS
    w1 = w1
    w2 = w2
    Workers = {w1, w2}
    Batches <- FewBatches
    PageStarts <- Starts
    PageSizes <- Sizes
    MaxQueries = 3
    AnswersPerBlock = 2
    SpotsPerBlock = 2
    Callers = "one_writer"
    MayFail = {}
    MayCrash = TRUE
SYMMETRY Symmetry
INVARIANTS PageOwnSpots NoHeadlessBatch HeadInv
CHECK_DEADLOCK FALSE

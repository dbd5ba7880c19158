SPECIFICATION Spec
CONSTANTS
    w1 = w1
    w2 = w2
    Workers = {w1}
    Batches <- AllBatches
    PageStarts <- Starts
    PageSizes <- Sizes
    MaxQueries = 3
    AnswersPerBlock = 2
    SpotsPerBlock = 2
    Callers = "serial"
    MayFail = {}
    MayCrash = FALSE
INVARIANTS EveryPageOwnSpots
CHECK_DEADLOCK FALSE

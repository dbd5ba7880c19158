SPECIFICATION Spec
CONSTANTS
    w1 = w1
    w2 = w2
    Workers = {w1, w2}
    Batches <- TwoBatches
    PageStarts <- OneStart
    PageSizes <- OneSize
    MaxQueries = 3
    AnswersPerBlock = 2
    SpotsPerBlock = 2
    Callers = "one_writer"
    MayFail = {"answers"}
    MayCrash = TRUE
SYMMETRY Symmetry
INVARIANTS TypeOK OwnSpots CacheInv
PROPERTIES ImplementsResultList
CHECK_DEADLOCK FALSE

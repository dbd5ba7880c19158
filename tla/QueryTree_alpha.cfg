SPECIFICATION Spec
CONSTANTS
    Leaves <- MCLeaves
    Queries <- MCQueries
    Prox = 1
    Rids <- AllRids
    Visible <- SeenRids
    Prop <- Props
    Sha <- Shas
    Cid <- Cids
    BidOf <- Bids
    Alpha <- AlphaRanks
    Number <- Numbers
    Garbage = {0, 50}
    NoProp = "no prop"
    NoKey = NoKey
INVARIANTS AlphaAsDocumented
CHECK_DEADLOCK FALSE

SPECIFICATION Spec
CONSTANTS
    Bases <- MCBases
    Record <- MCRecord
    CollUsr <- MCCollUsr
    Idx <- MCIdx
    Prop <- MCProp
    Thit <- MCThit
    Subdef <- MCSubdef
    Calls <- MCCalls
    Stems <- MCStems
    Like <- MCLike
    Text <- MCText
    Alpha <- MCAlpha
    Number <- MCNumber
    TooLong = {"long"}
    MayFail = {"connect", "tmpmask", "leaf"}
    NoLong = NoLong
    NoList = NoList
    NoSort = NoSort
    NoKey = NoKey
    NoPlace = NoPlace
INVARIANTS TypeOK OnlyVisible BusinessHidden AllFound PlacesCounted SearchInv
CHECK_DEADLOCK FALSE

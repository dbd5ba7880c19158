SPECIFICATION MCSpec
CONSTANTS
    Rids = {1, 2, 3}
    Contents <- FewContents
    Types <- Operators
    Prox = 1
    Inputs <- FewInputs
    NoMark = NoMark
    Strings <- FewStrings
    Cmap1 <- LowerCase
    Cmap2 <- NoAccents
    Saved <- FewSessions
    PAD = 2
    NULL = NULL
    Arrays <- FewArrays
    NoType = NoType
INVARIANTS TypeOK ResultAsDefined OneOwner SpotsOfBoth ImplementsAlgebra MergeInv HighlightInv TextKept MarksNest Utf8Inv FoldsText RestoredAsSaved TreeGivenBack
PROPERTIES Termination
CHECK_DEADLOCK FALSE

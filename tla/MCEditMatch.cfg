SPECIFICATION MatchSpec
CONSTANTS
    x = x
    y = y
    MaxText = 5
    MaxOld = 3
    Letter <- MCLetter
    FileText <- MCText
    OldText <- MCOldText
    NewText <- MCNewText
CHECK_DEADLOCK FALSE
INVARIANTS
    LiteralWins
    OneTargetUnlessAll
    ReplacesWholeBlocks
    BlockKeepsMargin

SPECIFICATION Spec
CONSTANTS
    Branch = {main, dev}
    File = {f1, f2}
    First = {f1}
    Url = {u1}
    Detached = Detached
    NoUrl = NoUrl
    Root = Root
    MaxVersion = 3
    Links = {3}
    MaxListed = 1
    MaxMoves = 1
    MaxOps = 3
CHECK_DEADLOCK FALSE
INVARIANTS
    TypeOK
    CalmCommitIsAsShown
    StatusIsComplete
PROPERTIES
    LosesNoCommit

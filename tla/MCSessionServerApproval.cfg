SPECIFICATION Spec
CONSTANTS
    Chats = {c1}
    Confirms = {k1, k2}
    Stops = {}
    News = {}
    NoOne = NoOne
    MaxAsks = 2
INVARIANTS
    ApprovalIsForQuestion
CHECK_DEADLOCK FALSE

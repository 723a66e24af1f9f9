SPECIFICATION FairSpec
CONSTANTS
    Chats = {c1, c2}
    Confirms = {k1, k2}
    Stops = {s1}
    News = {n1}
    NoOne = NoOne
    MaxAsks = 1
INVARIANTS
    TypeOK
    OneTurnAtATime
    TurnOwnsSession
    CalmAnswersMatch
PROPERTIES
    StopReachesTurnIfDrained
    StoppedTurnEnds
CHECK_DEADLOCK FALSE

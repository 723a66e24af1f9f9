SPECIFICATION FairSpec
CONSTANTS
    read1 = read1
    edit1 = edit1
    run1 = run1
    plan1 = plan1
    text1 = text1
    list1 = list1
    NoCall = NoCall
    Call = {read1, edit1, run1, plan1, text1, list1}
    KindOf <- MCKindOf
    NotObject = {text1}
    BadArguments = {list1}
    PathCalls = {read1, edit1, list1}
    MaxIterations = 3
    MaxRetries = 1
    MaxIdentical = 3
    MaxEscalations = 2
    MaxNarrations = 1
    MaxBatch = 2
    MaxTurns = 2
INVARIANTS
    TypeOK
    RepetitionEndsTurn
    
PROPERTIES
    ImplementsGate
    TurnEnds
CHECK_DEADLOCK FALSE

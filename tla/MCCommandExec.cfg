SPECIFICATION Spec
CONSTANTS
    Leader = leader
    Child = {c1, c2}
CHECK_DEADLOCK FALSE
INVARIANTS
    TypeOK
    SignalsReachGroup
PROPERTIES
    SignalsStayInGroup
    StoppedCommandEnds
    Returns

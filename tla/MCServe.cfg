SPECIFICATION Spec
CONSTANTS
    Server = {s1, s2}
    Request = {ask, poll}
    Health = {poll}
    Port = {default, p1, p2}
    Default = default
    None = None
SYMMETRY Alike
CHECK_DEADLOCK FALSE
INVARIANTS
    TypeOK
    LiveServerAnswers
    CleanStopRemovesFile

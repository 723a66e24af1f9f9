SPECIFICATION Spec
CONSTANTS
    f1 = f1
    f2 = f2
    f3 = f3
    fileA = fileA
    fileB = fileB
    Path = {f1, f2, f3}
    FileOf <- MCSpellings
    Command = {test, build}
    Tests = {test}
    GitOp = {push}
    None = None
    MinSteps = 2
    MaxSteps = 2
    MaxStored = 3
    ShownFiles = 1
    ShownCommands = 1
    ShownErrors = 1
    MaxTurns = 2
    MaxCalls = 3
SYMMETRY SamePlace
INVARIANTS
    TypeOK
    TurnsAreWhole
    FilesMatchLog
    ErrorsMatchLog
    PlanIsAccountedFor
PROPERTIES
    EffectsArePermitted

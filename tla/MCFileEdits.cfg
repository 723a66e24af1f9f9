SPECIFICATION Spec
CONSTANTS
    File = {f1, f2}
    Text = {x, y}
    RawText = {r}
    Nothing = Nothing
    NoChange = NoChange
SYMMETRY Interchangeable
INVARIANTS
    TypeOK
    SuccessIsTrue
PROPERTIES
    RenameOverwritesNothing
    ImplementsApproved

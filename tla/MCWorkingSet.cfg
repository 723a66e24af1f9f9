SPECIFICATION Spec
CONSTANTS
    a = a
    b = b
    fileA = fileA
    fileB = fileB
    Path = {a, b}
    File = {fileA, fileB}
    FileOf <- MCTwoFiles
    Bracketed = {b}
    LongFiles = {fileB}
    Content = {x, y}
    Nothing = Nothing
    Unshown = Unshown
    MaxStored = 1
    KeepRecent = 1
    MaxMessages = 2
SYMMETRY Interchangeable
INVARIANTS
    TypeOK
    UnchangedNoticeIsTrue
    CopiesAreCurrent

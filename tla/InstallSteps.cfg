SPECIFICATION Spec
CONSTANTS
    N = 3
    Sizes = {0, 1, 3}
    MaxInt = 8
    Reserve = 1
    MaxFree = 8
    a = a
    b = b
    c = c
    Dirs = {a, b, c}
    Above <- Nested
    DirList <- ListsB
    IOErrors = TRUE
    Absent = Absent
    None = None
CHECK_DEADLOCK FALSE
INVARIANTS
    TypeOK
    Recoverable
    RollbackExact
    InstallFits
    GrowingRollbackFits
PROPERTIES
    KeepsPromise

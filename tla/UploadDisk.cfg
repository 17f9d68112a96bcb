SPECIFICATION Spec
CONSTANTS
    Senders = {s1}
    FileIds = {f1, f2}
    Names = {n}
    NameOf <- SameName
    Hashed = {f1}
    VerifyChecksums = TRUE
    Handlers = {h1, h2}
    Inodes = {i1, i2, i3}
    Blocks = 2
    MaxCopies = 0
    MaxSessions = 1
    None = None
VIEW View
SYMMETRY Symmetry
INVARIANTS
    TypeOK
    PartialsOwned
    StoredIntact
    StoredOnce
PROPERTIES
    LandedNeverReplaced

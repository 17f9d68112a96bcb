SPECIFICATION SendFairSpec
CONSTANTS
    Senders = {s1, s2}
    Me = s1
    f1 = f1
    f2 = f2
    f3 = f3
    f4 = f4
    FileIds <- MCFileIds
    MaxRuns = 2
    Drawn <- MCDrawn
    Offers <- MCOffers
    Names = {n}
    NameOf <- SameName
    Hashed = {}
    VerifyChecksums = TRUE
    Handlers = {h1}
    Inodes = {i1, i2}
    Blocks = 1
    MaxCopies = 1
    MaxSessions = 2
    None = None
INVARIANTS
    SentIsStored
    ReceivedStored
    TokensPrivate
PROPERTIES
    ActiveNotDisplaced
    OthersServed

SPECIFICATION FairSpec
CONSTANTS
    Scripts <- AllScripts
    Limit = 3
    MaxDigits = 1
    MaxBody = 4
CHECK_DEADLOCK FALSE
INVARIANTS
    NothingLost
    SplitIndependent
    FirstUnderstood
PROPERTIES
    HeaderReachesHTTP

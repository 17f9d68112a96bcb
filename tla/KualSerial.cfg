SPECIFICATION FairSpec
CONSTANTS
    Daemons = {d1, d2}
    Shells = {c1}
    MaxFailures = 1
    None = None
INVARIANTS
    RulesBounded
    LeaseHolds
    NoOrphan
    StopTruthful
    InstallAlone
    RefreshHarmless
PROPERTIES
    CommandsEnd

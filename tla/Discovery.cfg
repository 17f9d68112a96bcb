SPECIFICATION FairSpec
CONSTANTS
    d1 = d1
    d2 = d2
    a1 = a1
    a2 = a2
    a3 = a3
    None = None
    Devices <- MCDevices
    Addresses <- MCAddresses
    Plain <- MCPlain
    Staying <- MCStaying
    Home <- MCHome
    Encryption = FALSE
    MaxPeers = 1
    MaxFailures = 1
    MaxInFlight = 2
    MaxMoves = 2
    MaxCrashes = 1
INVARIANTS DiskKnows PeersBounded
PROPERTIES RequestAnnounced EndpointConverges SightingsPersisted

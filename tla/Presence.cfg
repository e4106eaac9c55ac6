SPECIFICATION FairSpec
CONSTANTS
    near = near
    far = far
    Addresses = {near, far}
    IpOf <- TwoHosts
    Reach <- NearAndFar
    MaxConnections = 1
    MaxFaults = 1
INVARIANTS
    OnlineHasReason
PROPERTIES
    KnownIsTried
    RememberedIsKept
    PeerIsFound
    GoneIsShown
CHECK_DEADLOCK FALSE

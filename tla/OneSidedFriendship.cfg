SPECIFICATION Spec
CONSTANTS
    Peers = {a, b}
    Requests = {r1}
    RateLimit = 1
    ChannelSize = 1
    MaxFaults = 1
INVARIANTS
    FriendshipIsMutual
CHECK_DEADLOCK FALSE

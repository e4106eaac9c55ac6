SPECIFICATION Spec
CONSTANTS
    Peers = {a, b}
    Requests = {r1}
    RateLimit = 1
    ChannelSize = 1
    MaxFaults = 0
INVARIANTS
    NeverFalselyPending
CHECK_DEADLOCK FALSE

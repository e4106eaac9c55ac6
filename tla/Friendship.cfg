SPECIFICATION Spec
SYMMETRY Symmetry
CONSTANTS
    Peers = {a, b}
    Requests = {r1, r2}
    RateLimit = 1
    ChannelSize = 1
    MaxFaults = 2
INVARIANTS
    SidesAgree
    OutcomeQueuedOrKnown
PROPERTIES
    ResolvedIsFinal
    ImplementsContract
CHECK_DEADLOCK FALSE

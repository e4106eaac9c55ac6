SPECIFICATION FairSpec
CONSTANTS
    Peers = {a, b}
    Requests = {r1}
    RateLimit = 1
    ChannelSize = 1
    MaxFaults = 3
PROPERTIES
    DecisionsDrain
    OutcomeReachesAsker
CHECK_DEADLOCK FALSE

SPECIFICATION FairSpec
CONSTANTS
    Chunks = 1
    MessageKind = "file"
    AutoReceive = TRUE
    Faults = {}
    HellosPerLink = 1
    MaxStreams = 1
    MaxQueries = 1
    MaxDecisions = 1
    MaxDrops = 0
    MaxRestarts = 1
PROPERTIES
    PausedReceiveEnds
CHECK_DEADLOCK FALSE

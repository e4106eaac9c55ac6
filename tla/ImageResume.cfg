SPECIFICATION Spec
CONSTANTS
    Chunks = 1
    MessageKind = "image"
    AutoReceive = TRUE
    Faults = {}
    HellosPerLink = 1
    MaxStreams = 1
    MaxQueries = 1
    MaxDecisions = 1
    MaxDrops = 1
    MaxRestarts = 0
PROPERTIES
    CompleteAnswerCompletes
CHECK_DEADLOCK FALSE

SPECIFICATION FairSpec
CONSTANTS
    Chunks = 2
    MessageKind = "file"
    AutoReceive = TRUE
    Faults = {"sourceChange", "corruption", "diskDamage"}
    HellosPerLink = 1
    MaxStreams = 2
    MaxQueries = 1
    MaxDecisions = 1
    MaxDrops = 1
    MaxRestarts = 1
PROPERTIES
    NoticeDelivered
    ClaimIsReleased
    StartedTransferEnds
    SendTaskEnds
    BothSidesSettle
    ImplementsContract
CHECK_DEADLOCK FALSE

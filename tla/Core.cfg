SPECIFICATION Spec
CONSTANTS
    Chunks = 2
    MessageKind = "file"
    AutoReceive = TRUE
    Faults = {"acceptError", "cancel", "sourceChange", "corruption", "preflight", "diskError", "lateTimeout"}
    HellosPerLink = 1
    MaxStreams = 2
    MaxQueries = 2
    MaxDecisions = 2
    MaxDrops = 1
    MaxRestarts = 1
INVARIANTS
    OneReceiver
    NothingLeftBehind
    AcknowledgedIsDurable
    CompletionAgreement
    AbortReachesPeer
PROPERTIES
    EndIsFinal
    ProgressIsKept
    CompleteAnswerCompletes
    ImplementsContract
CHECK_DEADLOCK FALSE

SPECIFICATION Spec
CONSTANTS
    byItself = byItself
    byUser = byUser
    Tokens = {byItself, byUser}
    Automatic = {byItself}
    MaxNames = 2
    MaxSlots = 2
    MaxFiles = 4
    Cleaners = {1}
    MaxMoves = 1
    MaxFaults = 1
    Others = Others
    None = None
INVARIANTS
    PublishedIsWhole
    OwnedOrDue
    AcceptedIsBacked
    
PROPERTIES
    ForeignKept
CHECK_DEADLOCK FALSE

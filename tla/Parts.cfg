SPECIFICATION Spec
CONSTANTS
    Messages = {m1, m2}
    ChannelSize = 1
    MaxAttempts = 3
    Friends = {1, 2}
    PerPeer = 3
    Global = 4
    MaxNotices = 3
    ChunkBytes = 2
    Sizes = {0, 1, 2, 3, 4, 5}
    MaxEdits = 1
    MaxLosses = 2
    Names = {1, 2}
    MaxForeign = 1
    MaxRestarts = 1
    Requests = {r1, r2}
    Columns = {"cleanup_token", "transfer_protocol"}
    Cleanups = {c1, c2}
    MaxTokens = 3
    MaxOpenings = 2
    MaxLength = 2
    MaxOutside = 3
    Calls = {d1, d2}
    InstallerSize = 2
    MaxDamages = 1
    MaxIdentities = 3
    MaxAbandons = 2
    Nicknames = {"ann", "bob"}
    Languages = {"en", "zh"}
    MaxInstallations = 2
    MaxSaves = 3
    MaxMishaps = 2
    MaxCalls = 2
    MaxChanges = 2
    MaxFailures = 1
    Transfers = {t1, t2}
    MaxSize = 3
    MaxFile = 2
    Reserve = 1
    Capacity = 8
INVARIANTS
    ChatIsHonest
    StoredIsOriginal
    LegacyIsWhole
    MigrationIsSound
    CopiesAreWhole
    SpaceIsEnough
    SettingsAreKept
    ScreenIsCurrent
PROPERTIES
    SlotsAreShared
CHECK_DEADLOCK FALSE

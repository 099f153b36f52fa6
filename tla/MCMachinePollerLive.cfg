SPECIFICATION FairSpec
CONSTANTS
    None = None
    NoProgram = NoProgram
    loop = loop
    rest = rest
    p1 = p1
    Loop = loop
    Slots <- OneSlot
    Programs <- OneProgram
    Codes <- ThreeCodes
    Settled <- DownOrStandby
    OfflineThreshold = 2
    HeartbeatInterval = 2
    PollTimeout = 1
    MaxDbFailures = 1
    MaxRestarts = 1
PROPERTIES
    OfflineRecorded
    RunCloses

SPECIFICATION Spec
CONSTANTS
    None = None
    NoProgram = NoProgram
    loop = loop
    rest = rest
    p1 = p1
    Loop = loop
    Slots <- OneSlot
    Programs <- OneProgram
    Codes <- MainCodes
    Settled <- NeverSettled
    OfflineThreshold = 3
    HeartbeatInterval = 2
    PollTimeout = 1
    MaxDbFailures = 0
    MaxRestarts = 0
PROPERTIES
    OfflineNotified

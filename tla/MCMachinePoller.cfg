SPECIFICATION Spec
CONSTANTS
    None = None
    NoProgram = NoProgram
    loop = loop
    rest = rest
    p1 = p1
    Loop = loop
    Slots <- TwoSlots
    Programs <- OneProgram
    Codes <- TwoCodes
    Settled <- NeverSettled
    OfflineThreshold = 3
    HeartbeatInterval = 1
    PollTimeout = 0
    MaxDbFailures = 1
    MaxRestarts = 1
INVARIANTS
    OneOpenRun
    OpenRunMeansOperating
    MemoryMatchesTable
    CycleReportedOnce
PROPERTIES
    CycleEndReported
SYMMETRY AnySlot

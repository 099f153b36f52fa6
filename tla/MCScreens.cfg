SPECIFICATION ScreensSpec
CONSTANTS
    None = None
    Kinds <- MCKinds
    Panes <- MCPanes
    Legacy <- MCLegacy
    Heir <- MCHeir
    DefaultPlace <- MCPlace
    StoredOnce <- MCStored
    MaxPuts = 2
    MaxMounts = 2
    Ids <- MCIds
    Listed <- MCListed
    Envs <- MCEnvs
    Slugs <- MCSlugs
    MinIdle = 1
    MaxIdle = 2
    DefaultIdle = 1
    Typed = {0, 2}
    MaxLocks = 1
    Cases <- MCCases
    DefaultTol = 1
    Axes <- MCAxes
    ChartKinds = {"timeline", "runs", "prd3", "history", "chart"}
    Selectable = {0, 1}
    FullPages = 1
    LastRows = "none"
    FreshMax = 1
    MaxAsks = 2
    MaxChanges = 1
    MaxNow = 1
    ChartOf = {"machine", "status", "telemetry"}
    Statuses = {"operating", "off"}
    Values = {0, 1, None}
    Windows = {2, 3}
    Stride = 2
    MaxDraw = 2
    MaxTime = 3
    MaxRows = 4
INVARIANTS
    LastEditSent
    SomePaneShown
    StoredDecides
    RowsExplainVerdict
    ShownIsChosen
    ReadingGoesOn
    PieWhole
    ThinningKeeps
CHECK_DEADLOCK FALSE

SPECIFICATION SyncSpec
CONSTANTS
    None = None
    ConfigIds = {1, 2}
    RunIds = {1}
    Dirs <- MCDirs
    DirAbove <- MCAbove
    Root = "root"
    Default <- MCDefault
    FirstConfigs <- MCFirst
    MaxOps = 2
    MaxPolls = 1
INVARIANTS
    FormFollowsEdit
PROPERTIES
    RunsSettle
CHECK_DEADLOCK FALSE

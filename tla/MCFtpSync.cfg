SPECIFICATION FairSyncSpec
CONSTANTS
    upload = upload
    download = download
    first = first
    second = second
    replaced = replaced
    None = None
    Configs <- MCConfigs
    Downloads <- MCDownloads
    Callers <- MCCallers
    MaxItems = 1
    MaxRuns = 2
    MaxStops = 1
    MaxDbFailures = 1
    MaxChanges = 1
    Absent = Absent
    Cut = Cut
    Contents <- MCContents
    Texts <- MCTexts
    Decoded <- MCDecoded
    MaxEdits = 3
    MaxSwitches = 1
    MaxFaults = 2
CHECK_DEADLOCK FALSE
INVARIANTS
    OneSyncPerMachine
    RunsTracked
    RecordsAreReal
PROPERTIES
    LocalWorkKept
    EveryRunEnds

SPECIFICATION PagesSpec
CONSTANTS
    Machines <- MCMachines
    Files <- MCFiles
    NC <- MCPrograms
    ONumber <- MCPrograms
    Disk <- MCDisk
    Default <- MCDefault
    Links <- MCLinks
    Stores <- MCStores
    None = None
    MaxClicks = 2
    MaxBusy = 1
    Opened <- MCOpened
    Cards <- MCCards
    Numbers <- MCNumbers
    FirstNumber = "O1"
    Countdown = 2
    MaxUploads = 2
    Cnc <- MCCnc
    Compressors <- MCCompressors
    Existing <- MCExisting
    Configs <- MCConfigs
    GridRows <- MCGridRows
    MaxGridClicks = 6
INVARIANTS
    EditReachable
    FormsNeverStick
    PreviewsClose
    ListMatches
    AnswerIsDue
    LinkedFileSelected
    DialogHonest
PROPERTIES
    PaneListMatches
CHECK_DEADLOCK FALSE

SPECIFICATION SocketsSpec
CONSTANTS
    Loop = loop
    nameA = nameA
    nameB = nameB
    one = one
    two = two
    other = other
    None = None
    FastCallers <- MCCallers
    ToolCallers <- MCCallers
    Programs <- MCPrograms
    OfflineThreshold = 1
    MaxVersion = 2
    Others <- MCOthers
    Sockets <- MCSockets
    Writers <- MCWriters
    MaxMessages = 2
SYMMETRY Symmetry
PROPERTIES
    ViewsKept
CHECK_DEADLOCK FALSE

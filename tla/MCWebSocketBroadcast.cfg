SPECIFICATION SendsSpec
CONSTANTS
    one = one
    two = two
    three = three
    fastLoop = fastLoop
    toolLoop = toolLoop
    other = other
    Sockets <- MCSockets
    Writers <- MCWriters
    MaxMessages = 3
SYMMETRY AnyOrder
PROPERTIES
    ServedOnce
CHECK_DEADLOCK FALSE

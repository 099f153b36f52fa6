SPECIFICATION Spec
CONSTANTS
    t1 = t1
    t2 = t2
    Pots <- MCPots
    Tools <- MCTools
    Empty = Empty
    Cap = Cap
    None = None
    MaxChanges = 3
    MaxUpsets = 1
CHECK_DEADLOCK FALSE
SYMMETRY Symmetry
INVARIANTS
    ReportIsTrue
PROPERTIES
    OthersUntouched

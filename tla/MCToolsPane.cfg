SPECIFICATION FairSpec
CONSTANTS
    NumTools = 2
    NumPots = 2
    FieldValues <- MCValues
    None = None
    Magazines <- MCMagazines
    MaxEdits = 2
    MaxPushes = 1
    MaxUpsets = 1
    MaxLates = 1
INVARIANTS
    PushAccounted
PROPERTIES
    PotsShownOnce
    ShownSettles

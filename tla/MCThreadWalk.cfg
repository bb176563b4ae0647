SPECIFICATION FairSpec
CONSTANTS
    a = a
    b = b
    c = c
    IDs = {a, b, c}
    NoID = NoID
    Parts <- MCParts
    UIDs = {1, 2, 3}
    Folders <- MCFolders
    Limits = {0, 2, 5}
    MaxThread = 4
    MaxExpunged = 1
INVARIANTS
    TypeOK
    ThreadBounded
    ThreadConnected
    ThreadComplete
PROPERTIES
    WalkReturns

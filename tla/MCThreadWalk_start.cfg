SPECIFICATION Spec
CONSTANTS
    a = a
    b = b
    c = c
    IDs = {a, b, c}
    NoID = NoID
    Parts <- MCParts
    UIDs = {1, 2, 3}
    Folders <- MCFolders
    Limits = {0, 2, 5}
    MaxThread = 4
    MaxExpunged = 0
INVARIANTS
    AnyMessageOfThread

SPECIFICATION FairSpec
CONSTANTS
    Commands = {"login", "select", "list", "status", "search", "summary", "body"}
    Connect = "login"
    UIDs = {1, 2, 3, 4}
    NoDate = NoDate
    BadDate = BadDate
    Now = 7
    Unset = Unset
    Malformed = Malformed
    Unreadable = Unreadable
    Blank = Blank
    Default <- MCDefault
    Lowest <- MCLowest
    Highest <- MCHighest
    Loopback = {"loopback"}
    LoopbackDefault = "loopback"
    Tokens = {"t", "q"}
    Placeholder = Placeholder
    Addresses = {"u", "v", "f"}
    DefaultFolder = "INBOX"
    BadFolders = {"bad"}
    Worlds <- MCWorlds
    NotLoaded = NotLoaded
INVARIANTS
    TypeOK
    NoConnectionLeft
    BodiesAsSent
    IndexNamesAttachment
    SearchNewest
    SendSettingsSuffice
PROPERTIES
    CallEnds
    ShutdownEnds

SPECIFICATION FairSpec
CONSTANTS
    Calls = {c1, c2, c3}
    ID = {i1, i2}
    Payload = {p1, p2}
    NoEntry = NoEntry
    NoId = NoId
    Free = Free
    ConfiguredTTL = 2
    DefaultTTL = 3
    MaxTime = 3
INVARIANTS
    TypeOK
    GrantOnce
    GrantExact
    LiveEntryKept
    IInv
PROPERTIES
    GrantBeforeExpiry
    CallsReturn
    ImplementsTwoPhase

SPECIFICATION Spec
CONSTANTS
    RequestCalls = {q1, q2}
    ConfirmCalls = {k1, k2}
    ID = {i1, i2}
    NoEntry = NoEntry
    NoId = NoId
    Free = Free
    ConfiguredTTL = 1
    DefaultTTL = 5
    MaxTime = 1
    StagedKinds = {"move", "set_flags"}
    Request = {r1}
    MaxRestarts = 1
SYMMETRY MCSymmetry
INVARIANTS
    TypeOK
    ExecutedOnce
    ExecutedAsAsked
    HeldIdIsLive
    ExpiredNeverRuns
PROPERTIES
    KeepsPromise

SPECIFICATION Spec
CONSTANTS
    Ops = {o1, o2}
    Folders = {f1, f2}
    Msgs = {m1, m2}
    NumUIDs = 4
    Unborn = Unborn
    Gone = Gone
SYMMETRY MCSymmetry
INVARIANTS
    OnlyConfirmedRemoved

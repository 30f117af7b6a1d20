SPECIFICATION Spec
CONSTANTS
    p1 = p1
    p2 = p2
    a = a
    b = b
    pw1 = pw1
    pw2 = pw2
    Proc = {p1, p2}
    Writer = {p1}
    Name = {a, b}
    Pw = {pw1, pw2}
    MaxId = 2
    MaxSalt = 2
    MaxInode = 2
    PowerFails = TRUE
    PathIsCanonical = TRUE
    NoName = NoName
    Hole = Hole
    ZeroKey = ZeroKey
    NoKey = NoKey
SYMMETRY MCSymmetry
INVARIANTS WalletIntact SavedStays LockHolds Openable ActiveExists
PROPERTY ImplementsAtomic

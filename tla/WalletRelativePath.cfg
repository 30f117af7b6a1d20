SPECIFICATION Spec
CONSTANTS
    p1 = p1
    p2 = p2
    a = a
    b = b
    pw1 = pw1
    pw2 = pw2
    Proc = {p1}
    Writer = {p1}
    Name = {a}
    Pw = {pw1}
    MaxId = 1
    MaxSalt = 1
    MaxInode = 2
    PowerFails = FALSE
    PathIsCanonical = FALSE
    NoName = NoName
    Hole = Hole
    ZeroKey = ZeroKey
    NoKey = NoKey
SYMMETRY MCSymmetry
INVARIANTS LockHolds

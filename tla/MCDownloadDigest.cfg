SPECIFICATION Spec
CONSTANTS
    u1 = u1
    u2 = u2
    u3 = u3
    k1 = k1
    k2 = k2
    c1 = c1
    c2 = c2
    Uploads = {u1, u2, u3}
    Keys = {k1, k2}
    Contents = {c1, c2}
    KeyOf <- MCKeyOf
    ContentOf <- MCContentOf
    NPieces = 2
    NoObject = NoObject
    Hole = Hole
    Downloads = {d1}
    Times = {t1, t2}
    NoTime = NoTime
    NoRow = NoRow
    MaxCrashes = 1
INVARIANT DigestOfFile
CHECK_DEADLOCK FALSE
SYMMETRY Symmetry

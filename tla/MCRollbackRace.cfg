SPECIFICATION Spec
CONSTANTS
    Requests = {r1, r2, r3, r4}
    Channels = {c1}
    Versions = {v1, v2}
    NoVersion = NoVersion
    NoRequest = NoRequest
    MaxTime = 0
    Base = 2
    TextRank <- TimeOrder
    Serial = FALSE
    ReadErrors = FALSE
PROPERTY RollbackSwaps
CHECK_DEADLOCK FALSE
SYMMETRY Symmetry

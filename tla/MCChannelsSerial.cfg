SPECIFICATION Spec
CONSTANTS
    Requests = {r1, r2, r3, r4}
    Channels = {c1}
    Versions = {v1, v2}
    NoVersion = NoVersion
    NoRequest = NoRequest
    MaxTime = 1
    Base = 2
    TextRank <- TimeOrder
    Serial = TRUE
    ReadErrors = TRUE
INVARIANTS HeadIsCurrent FromWasHeld
PROPERTY SwapSpec
CHECK_DEADLOCK FALSE
SYMMETRY Symmetry

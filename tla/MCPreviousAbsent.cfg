SPECIFICATION Spec
CONSTANTS
    Requests = {r1, r2, r3}
    Channels = {c1}
    Versions = {v1, v2}
    NoVersion = NoVersion
    NoRequest = NoRequest
    MaxTime = 0
    Base = 2
    TextRank <- TimeOrder
    Serial = TRUE
    ReadErrors = TRUE
INVARIANT AbsentOnlyAtFirst
CHECK_DEADLOCK FALSE

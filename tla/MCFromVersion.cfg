SPECIFICATION Spec
CONSTANTS
    Requests = {r1, r2, r3}
    Channels = {c1}
    Versions = {v1, v2}
    NoVersion = NoVersion
    NoRequest = NoRequest
    MaxTime = 2
    Base = 2
    TextRank <- TimeOrder
    Serial = FALSE
    ReadErrors = FALSE
PROPERTY FromWasCurrent
CHECK_DEADLOCK FALSE

SPECIFICATION Spec
CONSTANTS
    Requests = {r1, r2, r3}
    Channels = {c1}
    Versions = {v1, v2}
    NoVersion = NoVersion
    NoRequest = NoRequest
    MaxTime = 3
    Base = 2
    TextRank <- TextOrder
    Serial = TRUE
    ReadErrors = FALSE
INVARIANT HeadIsCurrent
CHECK_DEADLOCK FALSE

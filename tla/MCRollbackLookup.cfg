SPECIFICATION Spec
CONSTANTS
    Requests = {r1, r2, r3, r4}
    Channels = {c1}
    Versions = {v1, v2}
    NoVersion = NoVersion
    NoRequest = NoRequest
    MaxTime = 0
    Base = 2
    TextRank <- TextOrder
    Serial = FALSE
    ReadErrors = FALSE
INVARIANTS
    RollbackFindsArtifact
CHECK_DEADLOCK FALSE
SYMMETRY Symmetry

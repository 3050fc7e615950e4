SPECIFICATION Spec
CONSTANTS
    Requests = {r1, r2, r3}
    Channels = {c1}
    Versions = {v1, v2}
    NoVersion = NoVersion
    NoRequest = NoRequest
    MaxTime = 4
    Base = 2
    TextRank <- TextOrder
    Serial = FALSE
    ReadErrors = FALSE
INVARIANTS
    TypeOK
    PointerIsLastRow
    NeverDangles
    FromWasHeld
    ResolveFindsArtifact
    ListingExplained
    SpacedHistoryListedBack
CHECK_DEADLOCK FALSE
SYMMETRY Symmetry

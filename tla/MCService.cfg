SPECIFICATION Spec
CONSTANTS
    Texts <- TextSet
    Keys <- KeySet
    NoKey = ""
    Trim <- TrimMap
    Envs <- EnvSet
    Requests = {r1, r2}
    Channels = {c1, c2}
    Versions = {v1}
    NoVersion = NoVersion
    NoRequest = NoRequest
    NUrls = 1
    NoDelivery = NoDelivery
    MaxAttempts = 1
    MaxCrashes = 1
    HeaderOf <- HeaderMap
    ConsumerHeader <- WriterHeader
INVARIANTS
    ScopesAreAdditive
    RefusalTellsWhy
    ConsumersCatchUp
    HintsFollowAnswers
    MoveNotForgotten
CHECK_DEADLOCK FALSE
SYMMETRY Symmetry

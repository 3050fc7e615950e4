SPECIFICATION FairSpec
CONSTANTS
    Events = {e1}
    AggregateOf <- OwnAggregate
    NUrls = 2
    Replays = {r1, r2}
    NoDelivery = NoDelivery
    MaxAttempts = 2
    MaxCrashes = 1
    SerialReplays = TRUE
PROPERTIES
    EveryUrlTried
    PendingSettles
    LifecycleSpec
    ReplaysDeadLetter
CHECK_DEADLOCK FALSE

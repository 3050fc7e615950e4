SPECIFICATION Spec
CONSTANTS
    Events = {e1}
    AggregateOf <- OneAggregate
    NUrls = 1
    Replays = {r1}
    NoDelivery = NoDelivery
    MaxAttempts = 2
    MaxCrashes = 1
    SerialReplays = TRUE
INVARIANT UnfinishedIsRetried
CHECK_DEADLOCK FALSE

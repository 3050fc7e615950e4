SPECIFICATION Spec
CONSTANTS
    Events = {e1}
    AggregateOf <- OneAggregate
    NUrls = 1
    Replays = {r1, r2}
    NoDelivery = NoDelivery
    MaxAttempts = 2
    MaxCrashes = 0
    SerialReplays = FALSE
PROPERTY ReplaysDeadLetter
CHECK_DEADLOCK FALSE

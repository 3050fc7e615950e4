SPECIFICATION Spec
CONSTANTS
    Events = {e1, e2}
    AggregateOf <- OneAggregate
    NUrls = 1
    Replays = {r1, r2}
    NoDelivery = NoDelivery
    MaxAttempts = 2
    MaxCrashes = 1
    SerialReplays = FALSE
INVARIANTS
    TypeOK
    DeliveredWasAcked
    DeadLetterExhausted
    NoSilentDrop
    HintsContiguous
CHECK_DEADLOCK FALSE
SYMMETRY Symmetry

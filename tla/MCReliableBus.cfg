SPECIFICATION FairSpec
CONSTANTS
    Requests = {r1}
    Workers = {w1, w2}
    Events = {"paid", "shipped"}
    Deliveries <- ChainOnly
    Emits <- MCEmits
    Chained <- MCChained
    MaxTries = 2
    JobTTL = 1
    Retention = 2
    MaxTime = 4
    MaxCrashes = 2
    None = None
CHECK_DEADLOCK FALSE
INVARIANTS
    EffectivelyOnce
PROPERTIES
    DeliveriesEnd

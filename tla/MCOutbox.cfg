SPECIFICATION FairSpec
CONSTANTS
    Rows = {m1, m2}
    Sms = {m1}
    Passes = {p1, p2}
    Batch = 2
    MaxAttempts = 2
    Cap = 1
    MaxFaults = 2
CHECK_DEADLOCK FALSE
INVARIANTS
    OnePassPerAttempt
    CapHolds
PROPERTIES
    RowsComeToRest

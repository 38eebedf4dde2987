SPECIFICATION Spec
CONSTANTS
    PaidPlans = {pro}
    FreePlan = free
    Period = 2
    MaxTime = 3
    MaxEvents = 2
    Workers = {w1}
    None = None
CHECK_DEADLOCK FALSE
INVARIANTS
    CoveredUntilEnd

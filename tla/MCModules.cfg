SPECIFICATION MCSpec
CONSTANTS
    Requests = {r1, r2}
    Products = {p1}
    Currencies = {uzs, usd}
    Carts = {c1, c2}
    MaxLineQuantity = 2
    Steps = {"a", "b"}
    Limits = {1, 2}
    MaxObjects = 3
    Days = {1, 2}
    MaxUsage = 1
    Batch = 1
    PaidPlans = {pro}
    FreePlan = free
    Term = 2
    LastTime = 3
    MaxEvents = 3
    Handlers = {w1, w2}
    Editors = {e1}
    MaxPatch = 1
    FileIds = {f1, f2, f3}
    Images = {i1}
    MaxFaults = 2
    Amounts = {1, 2}
    WireAmounts = {1, 2, 100, 150, 200}
    Txns = {x1, x2}
    MaxTime = 3
    Years = {2023, 2024, 2099}
    MaxRolls = 14
    None = None
CHECK_DEADLOCK FALSE
INVARIANTS
    NothingLost
    TalliesAreExact
    InStep
    LinksAreCleared
    RowsMatchObjects
    PaidWhatWasAsked
    AnswersAgree
    PeriodsAddUp

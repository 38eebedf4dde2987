SPECIFICATION MCFairSpec
CONSTANTS
    Paid = {p1, p2}
    Free = {f1}
    Tenant = t1
    MaxCrashes = 1
    Callers = {c1, c2, c3}
    Channels = {email, sms}
    Ids = {o1, o2}
    Workers = {w1}
    MaxFailures = 2
    Sends = {s1, s2}
    Attempts = 2
    Threshold = 2
    None = None
CHECK_DEADLOCK FALSE
PROPERTIES
    KeepsPromise
    TransactionsEnd
    EveryCallerIsAnswered
    MoneyBuysOrder
    Recovers

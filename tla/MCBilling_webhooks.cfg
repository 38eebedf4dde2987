SPECIFICATION Spec
CONSTANTS
    Tenants = {t1}
    Subs = {s1}
    Orders = {o1}
    Txns = {x1, x2}
    Providers = {"payme"}
    PaidPlans = {pro}
    FreePlan = free
    FreeTrial = FALSE
    Period = 2
    CheckoutTTL = 0
    MaxTime = 1
    None = None
SYMMETRY Symmetry
INVARIANTS
    LedgerMatchesPayment
    ReplayMatchesFresh
PROPERTIES
    ForwardOnly

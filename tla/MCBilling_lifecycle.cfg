SPECIFICATION Spec
CONSTANTS
    Tenants = {t1}
    Subs = {s1, s2, s3}
    Orders = {}
    Txns = {x1, x2}
    Providers = {"stripe"}
    PaidPlans = {pro}
    FreePlan = free
    FreeTrial = FALSE
    Period = 1
    CheckoutTTL = 0
    MaxTime = 1
    None = None
SYMMETRY Symmetry
INVARIANTS
    OneLivePerTenant
    CheckoutMatchesSubscription
    EndIsAnnounced
PROPERTIES
    PaidTimeIsKept

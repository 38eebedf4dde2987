SPECIFICATION FairSpec
CONSTANTS
    Tenants = {t1, t2}
    Subs = {s1, s2}
    Orders = {}
    Txns = {x1}
    Providers = {"click"}
    PaidPlans = {pro}
    FreePlan = free
    FreeTrial = FALSE
    Period = 1
    CheckoutTTL = 0
    MaxTime = 1
    None = None
PROPERTIES
    OneTenantPerStep
    KeepsPromise
    SweepsCatchUp

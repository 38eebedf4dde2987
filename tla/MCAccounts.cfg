SPECIFICATION MCSpec
CONSTANTS
    Users = {ann, bob}
    Founder = ann
    Invitations = {i1, i2}
    Requests = {r1, r2}
    Roles = {"owner", "member"}
    Tokens = {t1, t2, t3}
    MaxFaults = 1
    MaxFailures = 2
    IpLimit = 2
    Challenges = {h1, h2}
    Resets = {p1}
    RecoveryCodes = {k1}
    Steps = {1}
    MaxSecrets = 1
    MaxTime = 5
    Tenants = {a, b}
    Members = {u}
    Rows = {x, y}
    Units = {q1}
    Processes = {w1, w2}
    Permissions = {"a", "b", "c"}
    Versions = {{"a", "b"}, {"b", "c"}, {"a"}}
    MaxStarts = 2
    Features = {1, 2, 3}
    None = None
CHECK_DEADLOCK FALSE
INVARIANTS
    JoinsOnce
    LockoutHolds
    SpentOnce
    NoRightsKept
    GrantsConverge
    
PROPERTIES
    OneSessionPerFamily

SPECIFICATION Spec
CONSTANTS
    Users = {ann, bob}
    Founder = ann
    Invitations = {i1, i2}
    Requests = {r1, r2}
    Roles = {"owner", "member"}
    None = None
CHECK_DEADLOCK FALSE
INVARIANTS
    AlwaysHasOwner

SPECIFICATION Spec
CONSTANTS
    Callers = {c1, c2}
    Channels = {email, sms}
    MaxFailures = 0
    None = None
CHECK_DEADLOCK FALSE
INVARIANTS
    LoserReusesWinner

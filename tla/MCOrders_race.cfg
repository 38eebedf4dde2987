SPECIFICATION Spec
CONSTANTS
    Ids = {o1}
    Workers = {w1, w2}
    MaxFailures = 0
    None = None
CHECK_DEADLOCK FALSE
PROPERTIES
    PaidStaysPaid

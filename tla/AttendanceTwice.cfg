SPECIFICATION Spec
CONSTANTS
    a = a
    b = b
    Member = {a}
    Confirmed = {}
    Days = 2
    Slots = 2
    RequireAll = {FALSE}
    MaxCalls = 1
    MaxRows = 3
    MaxFailures = 0
INVARIANTS PaidAtMostOnce
CHECK_DEADLOCK FALSE

SPECIFICATION FairSpec
CONSTANTS
    a = a
    b = b
    Member = {a}
    Confirmed = {}
    Days = 2
    Slots = 2
    RequireAll = {TRUE}
    MaxCalls = 1
    MaxRows = 3
    MaxFailures = 0
PROPERTIES AttendeesArePaid
CHECK_DEADLOCK FALSE

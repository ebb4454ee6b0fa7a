SPECIFICATION FairSpec
CONSTANTS
    a = a
    b = b
    Member = {a, b}
    Confirmed = {b}
    Days = 1
    Slots = 1
    RequireAll = {FALSE}
    MaxCalls = 1
    MaxRows = 2
    MaxFailures = 1
INVARIANTS TypeOK NothingBeforeTheEnd
PROPERTIES AbsenteesAreRecorded
CHECK_DEADLOCK FALSE

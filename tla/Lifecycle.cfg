SPECIFICATION Spec
CONSTANTS
    a = a
    b = b
    Admin = {a, b}
    Windows <- OneWindow
    Retrospective = FALSE
    CheckInHours = 1
    MaxTime = 2
    MaxDays = 2
    MaxRows = 5
SYMMETRY Interchangeable
INVARIANTS TypeOK
PROPERTIES StampsAreWrittenOnce
CHECK_DEADLOCK FALSE

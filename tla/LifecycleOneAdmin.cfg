SPECIFICATION FairSpec
CONSTANTS
    a = a
    Admin = {a}
    Windows <- TwoWindows
    Retrospective = TRUE
    CheckInHours = 1
    MaxTime = 3
    MaxDays = 2
    MaxRows = 6
INVARIANTS CancelledIsClosed SwitchedOnMeansFannedOut
PROPERTIES DueSessionsMove
CHECK_DEADLOCK FALSE

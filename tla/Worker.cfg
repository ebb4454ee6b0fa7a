SPECIFICATION Spec
CONSTANTS
    FirstDays <- TwoDays
    DaySets <- AddOrRemove
    Attempts = 2
    Slots = 2
    MayRebook = FALSE
    MaxCalls = 3
    MaxFaults = 1
    SendAttempts = 3
    MaxToggles = 2
    MaxDeaths = 1
    MaxRepeats = 1
    AvatarAttempts = 2
    MaxChoices = 2
    MaxUploads = 1
    MaxSilences = 1
    Holders = {m1, m2}
    IssueTries = 2
    MaxActs = 4
    MaxLosses = 1
INVARIANTS
    TypeOK
    OneEventPerDay SeatReachesCalendar
    DeliveriesTellTheMail
    ChoiceStands AnonymisedLeavesNoPicture
    RetriesLeaveNoTrace AttendedHasCertificate
PROPERTIES
    MessageIsDecided UploadIsAnswered
CHECK_DEADLOCK FALSE

SPECIFICATION Spec
CONSTANTS
    UndoSteps = 1
    MaxEdits = 2
    MaxSaves = 3
    MaxOpens = 2
    MaxFaults = 1
    Kind = {"like"}
    MaxTaps = 4
    MaxFailures = 1
    MaxHides = 1
    MaxPaints = 1
    Layouts = {"1", "1/1"}
    HistoryLimit = 1
    Platform <- OneBlock
    MaxCommits = 2
    MaxPosts = 1
    Elements = {"e1"}
    Posts = {"p1"}
    Frames = {"f1"}
    MaxMisses = 2
    MaxTurns = 1
INVARIANTS
    TypeOK
    DraftFollowsScreen LeftWorkIsKept
    LastTapStands
    BlocksStand ReopensAsSaved SavedIsSent
    WatchedIsTimed SeenIsSent
PROPERTIES TapsSettle SlotIsHonoured
CHECK_DEADLOCK FALSE

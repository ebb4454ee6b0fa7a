SPECIFICATION Spec
CONSTANTS
    UndoSteps = 1
    MaxEdits = 2
    MaxSaves = 3
    MaxOpens = 1
    MaxFaults = 0
PROPERTY NoSilentOverwrite
CHECK_DEADLOCK FALSE

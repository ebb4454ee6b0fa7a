SPECIFICATION Spec
CONSTANTS
    a = a
    b = b
    Host = {a}
    Plans <- TwoDays
    Rotations = {0, 2}
    Grace = 1
    After = 3
    Lag = 0
    MaxTime = 6
    MaxRevokes = 1
INVARIANT ShownIsHonoured
CHECK_DEADLOCK FALSE

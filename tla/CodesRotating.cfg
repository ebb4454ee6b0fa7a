SPECIFICATION Spec
CONSTANTS
    a = a
    b = b
    Host = {a, b}
    Plans <- Moved
    Rotations = {2}
    Grace = 1
    After = 2
    Lag = 1
    MaxTime = 5
    MaxRevokes = 1
SYMMETRY Interchangeable
INVARIANTS TypeOK OneCurrentOneInGrace
CHECK_DEADLOCK FALSE

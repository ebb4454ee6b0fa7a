\* Three members, one with the perk, two capacities, one window, two calls in
\* flight at once; a member may be deactivated, and an operator may enqueue
\* promote_waitlist.  The session really may stop: nobody has to do anything.
CONSTANTS
    a = a
    b = b
    c = c
    d = d
    Member = {a, b, c}
    Holders = {a}
    PriorityOn = TRUE
    PriorityHours = 1
    Capacities = {1, 2}
    Schedules <- OneWindow
    Removable = {a}
    SweepScheduled = TRUE
    MaxTime = 3
    MaxPosition = 3
    MaxCalls = 2
SPECIFICATION Spec
SYMMETRY Interchangeable
INVARIANTS TypeOK DistinctPositions
PROPERTIES NoOverbooking FreeSeatOnlyByResize DeadlineFreezesTotal ImplementsWaitingLine
CONSTRAINT OneCallBeside
CHECK_DEADLOCK FALSE

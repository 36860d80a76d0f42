SPECIFICATION ListSpec
CONSTANTS
    me = me
    r1 = r1
    r2 = r2
    Users <- MCUsers
    Me = me
    Editors <- MCUsers
    Owners <- MCUsers
    Requests <- MCRequests
    MaxClock = 3
INVARIANTS
    ThreadsWellFormed
PROPERTIES
    ThreadsConverge
    CountsConverge
ACTION_CONSTRAINT Overlaps

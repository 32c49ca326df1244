SPECIFICATION Spec
CONSTANTS
    p1 = p1  p2 = p2  big = big  small = small
    Procs = {p1, p2}
    Profiles = {big, small}
    Exclusive = {big}
    Ttls = {0}
    MaxTime = 0
    MaxFailures = 1
    None = None
PROPERTIES
    FreedOnlyWhenUnreferenced
CHECK_DEADLOCK FALSE

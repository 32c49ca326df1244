SPECIFICATION FairSpec
CONSTANTS
    p1 = p1  p2 = p2  big = big  small = small
    Procs = {p1, p2}
    Profiles = {big}
    Exclusive = {big}
    Ttls = {0, 1}
    MaxTime = 2
    MaxFailures = 1
    None = None
INVARIANTS
    HoldersAreRegistered
    ExclusiveUse
PROPERTIES
    LeavesOnlyByRight
    ImplementsTable
    RegistryNeverWedged
    DeadLeasesReclaimed
CHECK_DEADLOCK FALSE

SPECIFICATION FairSpec
CONSTANTS
    w1 = w1  w2 = w2  s1 = s1  f1 = f1  f2 = f2  f3 = f3
    Writers = {w1, w2}
    Probers = {s1}
    Files = {f1, f2}
    Languages = {lua}
    NoLanguage = NoLanguage
    ChunkFiles = 1
    MaxWrites = 1
    MaxVersion = 1
    MaxFaults = 1
    ReadFaults = FALSE
    RacyConfig = FALSE
    None = None
INVARIANTS
    LockFileNamesHolder
    SkippedFilesAreCurrent
PROPERTIES
    SuccessTracksTheWalk
    ImplementsIndex
    RunsEnd
    EventuallyCurrent
CHECK_DEADLOCK FALSE

SPECIFICATION Spec
CONSTANTS
    w1 = w1  w2 = w2  s1 = s1  f1 = f1  f2 = f2  f3 = f3
    Writers = {w1}
    Probers = {}
    Files = {f1, f2, f3}
    Languages = {lua, luau}
    NoLanguage = NoLanguage
    ChunkFiles = 2
    MaxWrites = 2
    MaxVersion = 1
    MaxFaults = 1
    ReadFaults = TRUE
    RacyConfig = TRUE
    None = None
SYMMETRY WriterSymmetry
INVARIANTS
    SkippedRowsAreNeverStale
    NoOrphanRows
    UncommittedIsBelowAChunk
PROPERTIES
    FilesLeaveOnlyWhenNotFound
CHECK_DEADLOCK FALSE

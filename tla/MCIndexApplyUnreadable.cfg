SPECIFICATION Spec
CONSTANTS
    w1 = w1  w2 = w2  s1 = s1  f1 = f1  f2 = f2  f3 = f3
    Writers = {w1}
    Probers = {s1}
    Files = {f1, f2}
    Languages = {lua}
    NoLanguage = NoLanguage
    ChunkFiles = 1
    MaxWrites = 2
    MaxVersion = 1
    MaxFaults = 1
    ReadFaults = TRUE
    RacyConfig = FALSE
    None = None
SYMMETRY WriterSymmetry
INVARIANTS
    NeverSkippedWithoutRows
CHECK_DEADLOCK FALSE

SPECIFICATION Spec
CONSTANTS
    e1 = e1  e2 = e2  a = a  b = b
    Editors = {e1, e2}
    Files = {a, b}
    MaxOps = 2
    MaxSaves = 1
    MaxFaults = 2
    None = None
SYMMETRY BothSymmetry
INVARIANTS
    NoPartialBatch
    OriginalRecoverable
    ComposedBatchLands
    TextSurvives
CHECK_DEADLOCK FALSE

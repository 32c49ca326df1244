SPECIFICATION Spec
CONSTANTS
    e1 = e1  e2 = e2  a = a  b = b
    Editors = {e1}
    Files = {a, b}
    MaxOps = 2
    MaxSaves = 1
    MaxFaults = 0
    None = None
SYMMETRY FileSymmetry
INVARIANTS
    EveryOkEditLands
CHECK_DEADLOCK FALSE

SPECIFICATION UnguardedSpec
CONSTANTS
    None = None
    Hash = Hash
    p1 = p1
    p2 = p2
    index = index
    markdown = markdown
    Procs = {p1, p2}
    Parts = {index}
    MaxEdits = 1
    MaxFaults = 1
INVARIANTS StaleIsNeverBlessed

SPECIFICATION Spec
CONSTANTS
    None = None
    v1 = v1
    v2 = v2
    short = short
    long = long
    Versions = {v1, v2}
    Words = {short, long}
    Chars <- WordLengths
    BufferSize = 1024
    MaxOpen = 5
INVARIANTS StaysInBuffer ReadsAllThatWasWritten ScansItsOwnVersion
PROPERTIES ImplementsStacks

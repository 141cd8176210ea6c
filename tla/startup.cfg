SPECIFICATION Spec
CONSTANTS
    p1 = p1
    p2 = p2
    p3 = p3
    Pids <- MCPids
    MaxAdapters = 2
    MaxEntries = 4
SYMMETRY Symmetry
INVARIANTS
    TypeOK
    NoStrays
    NoIndexPanic

SPECIFICATION Spec
CONSTANTS
    MAX_BPA_ALLOCS = 3
    Clients = {c1, c2, c3}
    Chunks = {p1, p2}
    Foreign = {f}
    NoAddr = NoAddr
    NoDev = NoDev
    Faults = TRUE
    Exits = TRUE
SYMMETRY Symmetry
INVARIANTS
    TypeOK
    Exclusive
    LentOnce
    NothingLost
    MappedIsLent

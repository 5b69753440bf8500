SPECIFICATION Spec
CONSTANTS
    frame1 = frame1
    frame2 = frame2
    decode = decode
    Procs = {p1, p2}
    Buffers = {frame1, frame2, decode}
    Pools = {"coded", "decoded"}
    PoolOf <- MCPoolOf
    Attachable <- MCAttachable
    MaxAttached = 2
    MaxRefs = 2
    MemoryFails = TRUE
    NoBuffer = NoBuffer
    NoPool = NoPool
SYMMETRY Symmetry
INVARIANTS
    TypeOK
    InOnePlace
    CountsOwners
    NeverDead

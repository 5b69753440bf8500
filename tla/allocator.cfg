SPECIFICATION FairSpec
CONSTANTS
    Threads = {collator, releaser}
    Allocator = collator
    BufferSize = 11
    PhysicalAddress = 2
    Boundary = 6
    AllocationUnitSize = 2
    MaxBlocks = 3
    Requests = {1, 3}
    Unused = Unused
    Nobody = Nobody
INVARIANTS
    TypeOK
    ConservedInTurn
    Coalesced
    WithinBoundary
    WakesAllocator
PROPERTIES
    DeletionEnds
CHECK_DEADLOCK FALSE

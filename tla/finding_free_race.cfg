SPECIFICATION Spec
CONSTANTS
    Threads = {collator, releaser}
    Allocator = collator
    BufferSize = 9
    PhysicalAddress = 2
    Boundary = 6
    AllocationUnitSize = 2
    MaxBlocks = 3
    Requests = {1, 3}
    Unused = Unused
    Nobody = Nobody
INVARIANT Conserved
CHECK_DEADLOCK FALSE

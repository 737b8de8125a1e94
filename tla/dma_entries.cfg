SPECIFICATION Spec
CONSTANTS
    a1 = a1
    a2 = a2
    b1 = b1
    b2 = b2
    NoBuffer = NoBuffer
    Allocators <- TwoAllocators
    Buffers <- TwoBuffers
    PageCounts <- Counts
    PageSizes <- Sizes
    OsPageSize = 2
    GiB = 12
    DmaWidths <- Widths
INVARIANTS
    EntriesBacked

SPECIFICATION FairSpec
CONSTANTS
    None = None
    t1 = t1
    t2 = t2
    Threads <- TwoThreads
    Addresses <- TwoAddresses
    Sizes <- FittingSizes
    FullWidth = 4096
    MaxSetFailures = 1
INVARIANTS
    TypeOK
    OneOwner
    LedgerExact
    ReleaseSizeExact
    NothingLeaked
PROPERTIES
    HeapSafety
    ReturnedBlockIsFreed
CHECK_DEADLOCK FALSE

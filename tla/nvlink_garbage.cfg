SPECIFICATION NvSpec
CONSTANTS
    None = None
    t1 = t1
    t2 = t2
    Threads <- TwoThreads
    Addresses <- TwoAddresses
    Sizes <- OneSize
    FullWidth = 4096
    Garbage <- Unaligned
    MaxSetFailures = 0
INVARIANTS
    WildFreeRejected
CHECK_DEADLOCK FALSE

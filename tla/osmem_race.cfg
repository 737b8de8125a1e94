SPECIFICATION Spec
CONSTANTS
    None = None
    t1 = t1
    t2 = t2
    Threads <- TwoThreads
    Addresses <- TwoAddresses
    Sizes <- OneSize
    FullWidth = 4096
    MaxSetFailures = 0
INVARIANTS
    EveryLivePointerTracked

SPECIFICATION FairSpec
CONSTANTS
    t1 = t1
    t2 = t2
    t3 = t3
    s1 = s1
    s2 = s2
    m1 = m1
    m2 = m2
    o1 = o1
    o2 = o2
    o3 = o3
    Nothing = Nothing
    NoSemaphore = NoSemaphore
    Threads <- ThreeThreads
    Users <- TwoUsers
    Callers <- TwoUsers
    Spinlocks <- TwoCells
    Mutexes <- TwoMutexes
    Objects <- ThreeObjects
    Semaphores <- TwoCells
    InitialValues <- Units
    Word = 8
    Thousand = 2
    Numer = 5
    Denom = 2
    Delays <- SomeDelays
    DelaysUs <- SomeDelaysUs
    MaxUptime = 60
INVARIANTS
    TypeOK
    HoldersCounted
    NeverLeftLocked
    LockHeldByOne
    SpinlockNeverFaults
    LocksAccountedFor
    
    DelayShortOnlyIfWrapped
PROPERTIES
    LockSafety
    WaitersServed
CHECK_DEADLOCK FALSE

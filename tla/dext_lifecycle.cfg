SPECIFICATION FairSpec
INVARIANTS
    TypeOK
    SessionMatchesState
    RMDrivesReadyDevice
PROPERTIES
    SessionEnds

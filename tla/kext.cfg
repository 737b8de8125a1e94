SPECIFICATION Spec
CONSTANTS
    NULL = NULL
    i1 = i1
    i2 = i2
    i3 = i3
    d1 = d1
    d2 = d2
    Instances <- ThreeInstances
    Devices <- TwoDevices
SYMMETRY Symmetry
INVARIANTS
    TypeOK
    PanicOnlyAfterFailedInit
    RMGetsReadyDevice
    FreedMeansReleased
    DanglesOnlyWhileFreeing
CHECK_DEADLOCK FALSE

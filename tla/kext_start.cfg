SPECIFICATION Spec
CONSTANTS
    NULL = NULL
    i1 = i1
    i2 = i2
    i3 = i3
    d1 = d1
    d2 = d2
    Instances <- OneInstance
    Devices <- OneDevice
INVARIANTS
    RunningInstanceDrives
CHECK_DEADLOCK FALSE

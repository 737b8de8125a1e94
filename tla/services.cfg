SPECIFICATION Spec
CONSTANTS
    c1 = c1
    c2 = c2
    c3 = c3
    w1 = w1
    w2 = w2
    w3 = w3
    r1 = r1
    r2 = r2
    NoWindow = NoWindow
    Clients <- ThreeClients
    Windows <- ThreeWindows
    Requesters <- TwoRequesters
    MaxSize = 2
    MaxFailures = 2
SYMMETRY Symmetry
INVARIANTS
    TypeOK
    MapsAccountedFor
    PointerStaysMapped
    VnodesReleased
    FirmwareAccountedFor
    FirmwareComplete

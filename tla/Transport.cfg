SPECIFICATION Spec
CONSTANTS
    e1 = e1
    e2 = e2
    k1 = k1
    k2 = k2
    Endpoints <- MCEndpoints
    Keys <- MCKeys
    RawCap = 1
    MaxConns = 2
    MaxPackets = 4
SYMMETRY Symmetry
INVARIANTS
    TypeOK
    SessionFindsItsProfile
    OneOwner
    ReturnReleasesSockets
CHECK_DEADLOCK FALSE

SPECIFICATION Spec
CONSTANTS
    e1 = e1
    e2 = e2
    k1 = k1
    k2 = k2
    Endpoints <- MCEndpoints
    Keys <- OneKey
    RawCap = 1
    MaxConns = 2
    MaxPackets = 3
PROPERTIES
    CancelStops
    AcceptGoesOn
CHECK_DEADLOCK FALSE

SPECIFICATION Spec
CONSTANTS
    e1 = e1
    e2 = e2
    k1 = k1
    k2 = k2
    Keys <- OneKey
    Endpoints <- OneEndpoint
    RawCap = 1
    MaxConns = 1
    MaxPackets = 1
PROPERTIES
    FailedStartReturns
CHECK_DEADLOCK FALSE

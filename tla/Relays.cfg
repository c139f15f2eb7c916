SPECIFICATION Spec
CONSTANTS
    w1 = w1  w2 = w2  w3 = w3
    Relays <- MCRelaySet
    Chunk = 2
    SendCap = 1
INVARIANTS
    TypeOK
    FairTurns
PROPERTIES
    DownlinkGoesOn
    WritersEnd
CHECK_DEADLOCK FALSE

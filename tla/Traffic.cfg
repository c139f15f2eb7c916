SPECIFICATION TrafficSpec
CONSTANTS
    c1 = c1  c2 = c2
    p1 = p1  p2 = p2
    Clients <- MCClients
    Panels <- MCPanels
    MaxBytes = 2
    MaxShots = 4
SYMMETRY Symmetry
INVARIANTS
    TrafficTypeOK
    OneTally
    RatesDoNotWrap
CHECK_DEADLOCK FALSE

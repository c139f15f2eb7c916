SPECIFICATION Spec
CONSTANTS
    Ports <- MCPorts
    Configs <- OwnOnly
    Initial <- RawOwn
    MaxEvents = 1
    MaxBusy = 2
INVARIANTS
    RawScreened
CHECK_DEADLOCK FALSE

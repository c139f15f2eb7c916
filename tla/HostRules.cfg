SPECIFICATION Spec
CONSTANTS
    Ports <- MCPorts
    Configs <- MCConfigs
    Initial <- RawOff
    MaxEvents = 2
    MaxBusy = 2
INVARIANTS
    TypeOK
    TunnelScreened
    WorkComplete
CHECK_DEADLOCK FALSE

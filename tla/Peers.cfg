SPECIFICATION Spec
CONSTANTS
    a = a
    b = b
    d1 = d1
    d2 = d2
    Ids <- MCIds
    Devices <- MCDevices
    Requests <- MCRequests
    Initial <- MCInitial
    MaxKeys = 2
INVARIANTS
    TypeOK
    ConfigurationsWork
PROPERTIES
    KeptAddresses
    RefusedForAReason
SYMMETRY Symmetry

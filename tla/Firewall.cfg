SPECIFICATION Spec
CONSTANTS
    i1 = i1
    i2 = i2
    Addresses <- MCAddresses
    Installs <- MCInstalls
    Configs <- MCConfigs
    Initial <- MCInitial
    MaxMixed = 3
SYMMETRY Symmetry
INVARIANTS
    TypeOK
    PoliciesInForce

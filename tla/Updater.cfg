SPECIFICATION Spec
CONSTANTS
    c1 = c1
    i1 = i1
    i2 = i2
    Checks <- MCChecks
    Installs <- MCInstalls
    Releases <- TwoReleases
    Installed <- MCInstalled
SYMMETRY Symmetry
INVARIANTS
    TypeOK
    OneUnlessForgotten
    OffersAreNewer
    PackagesOwned
PROPERTIES
    NewestFound

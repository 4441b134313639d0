SPECIFICATION FairSpec
CONSTANTS
    Admins = {a1}
    MaxPk = 2
    MaxVersion = 2
    Contents <- Disjoint
INVARIANTS TypeOK VersionIdentifies AtMostOneDefault
PROPERTIES ApiServerKept Converges

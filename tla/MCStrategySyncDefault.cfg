SPECIFICATION Spec
CONSTANTS
    Admins = {a1, a2}
    MaxPk = 2
    MaxVersion = 2
    Contents <- Disjoint
INVARIANTS AtMostOneDefault

SPECIFICATION Spec
CONSTANTS
    Beats = {b1}
    Admins = {a1, a2}
    MaxId = 2
    MaxEpoch = 1
    Overlap = FALSE
    Rejects = TRUE
SYMMETRY Symmetry
INVARIANTS NotForgotten RejectedIsBare
 

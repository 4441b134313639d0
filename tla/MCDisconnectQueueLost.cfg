SPECIFICATION Spec
CONSTANTS
    Beats = {b1}
    Admins = {a1}
    MaxId = 2
    MaxEpoch = 1
    Overlap = TRUE
    Rejects = FALSE
INVARIANTS NotForgotten

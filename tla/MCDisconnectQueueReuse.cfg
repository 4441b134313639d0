SPECIFICATION Spec
CONSTANTS
    Beats = {b1}
    Admins = {a1}
    MaxId = 1
    MaxEpoch = 2
    Overlap = FALSE
    Rejects = FALSE
INVARIANTS EndsOnlyAsked

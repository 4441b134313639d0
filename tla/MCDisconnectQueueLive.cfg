SPECIFICATION FairSpec
CONSTANTS
    Beats = {b1, b2}
    Admins = {a1}
    MaxId = 1
    MaxEpoch = 2
    Overlap = TRUE
    Rejects = FALSE
INVARIANTS TypeOK OnlyAskedIds
PROPERTIES QueueDrains PageCatchesUp

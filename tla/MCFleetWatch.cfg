SPECIFICATION FairSpec
CONSTANTS
    Procs = {p1, p2}
    SilentFor = 1
    StaleFor = 1
    PerMinute = 2
    MaxClock = 8
    MaxExcuses = 1
INVARIANTS TypeOK OncePerOutage RecordIsTold
PROPERTIES WordIsTrue

SPECIFICATION Spec
CONSTANTS
    Users = {u1}
    Broken = {}
    LastDay = 2
    Rebuilds = {r1, r2}
    Job = Job
    SchedulerEnabled = TRUE
    MaxPosts = 1
    MaxRestarts = 0
SYMMETRY RequestSymmetry
INVARIANTS
    TypeOK
    WaitsAscend
    RebuildIsExact
    RangeCovered
CHECK_DEADLOCK FALSE

SPECIFICATION Spec
CONSTANTS
    Users = {u1, u2}
    Broken = {}
    LastDay = 1
    Rebuilds = {r1}
    Job = Job
    SchedulerEnabled = TRUE
    MaxPosts = 0
    MaxRestarts = 0
INVARIANT NoHoles
CHECK_DEADLOCK FALSE

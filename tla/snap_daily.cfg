SPECIFICATION FairSpec
CONSTANTS
    Users = {u1, u2}
    Broken = {u2}
    LastDay = 2
    Rebuilds = {r1, r2}
    Job = Job
    SchedulerEnabled = TRUE
    MaxPosts = 0
    MaxRestarts = 1
PROPERTIES
    EveryRebuildAnswered
    SchedulerGoesOn
CHECK_DEADLOCK FALSE

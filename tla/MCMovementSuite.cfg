CONSTANTS
    TaskNames <- MCTaskNames
    RecTasks <- MCRecTasks
    PerTask = 2
    Chunk = 1
    Slack = 0
    Offset = 0
    SeedsPerTask = 3
    OldSets = {{"t0"}, {"t0", "t1", "t2"}}
    Steps = 2
    CkptEvery = 1
    Demos = 1
    Episodes = 2
    MaxVideo = 2
    Burst = 1
    Lessons = {15, 16, 17, 18}
    MaxJobs = 2
SPECIFICATION Spec
INVARIANTS
    SetIsWhole
    OnlyTheLastArmIsPartial
    EachEpisodeOnce
    StopCostsFewEpisodes
    ClaimsAreMeasured
CHECK_DEADLOCK FALSE

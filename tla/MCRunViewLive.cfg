CONSTANTS
    j1 = j1
    j2 = j2
    None = None
    Jobs = {j1}
    Outside = {}
    MaxSteps = 1
    MaxRestarts = 1
    MaxCmds = 2
    MaxAttach = 1
SPECIFICATION WatchedSpec
PROPERTIES
    StopEnds
    NoEternalRunning
    PageSettles
CHECK_DEADLOCK FALSE

CONSTANTS
    j1 = j1
    j2 = j2
    None = None
    Jobs = {j1}
    Outside = {}
    MaxSteps = 1
    MaxRestarts = 0
    MaxCmds = 0
    MaxAttach = 1
SPECIFICATION ViewSpec
INVARIANTS
    DiedMeansUnfinished
CHECK_DEADLOCK FALSE

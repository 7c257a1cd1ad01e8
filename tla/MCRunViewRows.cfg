CONSTANTS
    j1 = j1
    j2 = j2
    None = None
    Jobs = {j1}
    Outside = {}
    MaxSteps = 2
    MaxRestarts = 0
    MaxCmds = 0
    MaxAttach = 1
SPECIFICATION ViewSpec
INVARIANTS
    NothingLeftUnread
CHECK_DEADLOCK FALSE

CONSTANTS
    j1 = j1
    j2 = j2
    None = None
    Jobs = {j1}
    Outside = {}
    MaxSteps = 2
    MaxRestarts = 1
    MaxCmds = 0
    MaxAttach = 2
    c1 = c1
    c2 = c2
    Ckpts = {c1, c2}
    NoCkpt = NoCkpt
    MaxClicks = 2
    MaxAsks = 2
SPECIFICATION MCSpec
SYMMETRY CkptSymmetry
INVARIANTS
    ChartsShowTheRun
    ShownEndIsTrue
    PageFollows
CHECK_DEADLOCK FALSE

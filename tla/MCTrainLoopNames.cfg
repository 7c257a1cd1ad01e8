CONSTANTS
    LastPt = LastPt
    Torn = Torn
    Phases = 2
    Steps = 2
    LogEvery = 1
    EvalEvery = 2
    CkptEvery = 2
SPECIFICATION Spec
INVARIANTS
    NamesUniqueAcrossPhases
CHECK_DEADLOCK FALSE

CONSTANTS
    j1 = j1
    j2 = j2
    None = None
    Jobs = {j1, j2}
    Outside = {j2}
    MaxSteps = 1
    MaxRestarts = 1
    MaxCmds = 2
SPECIFICATION Spec
INVARIANTS
    EndIsReported
    PausedIsIdle
PROPERTIES
    ImplementsLifecycle
CHECK_DEADLOCK FALSE

CONSTANTS
    j1 = j1
    j2 = j2
    None = None
    Jobs = {j2}
    Outside = {j2}
    MaxSteps = 1
    MaxRestarts = 1
    MaxCmds = 0
SPECIFICATION Spec
PROPERTIES
    DoneSurvivesSweep
CHECK_DEADLOCK FALSE

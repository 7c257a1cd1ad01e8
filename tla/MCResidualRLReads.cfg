CONSTANTS
    Slots = 2
    RLSteps = 9
    Warmup = 2
    Segment = 2
    StallSteps = 2
    BudgetNum = 1
    BudgetDen = 4
    Decay = 0
    SwapEvery = 2
    RLEvalEvery = 3
SPECIFICATION RLSpec
INVARIANTS
    NoTargetIntoTakeover
CHECK_DEADLOCK FALSE

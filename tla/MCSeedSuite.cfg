CONSTANTS
    Procs = {1, 2}
    Quiet = {}
    TrainSteps = 2
    Every = 1
    Cmds = {"stop"}
    Seeds = {1, 2, 3}
    Shared = 3
    Traced = 2
SPECIFICATION MCSpec
INVARIANTS
    RowsAreMerged
    NoWorkerLeft
    MediansAreRight
    SeedsAreSaved
    ComparesTheSame
CHECK_DEADLOCK FALSE

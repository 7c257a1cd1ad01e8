CONSTANTS
    LastPt = LastPt
    Torn = Torn
    Phases = 4
    Steps = 4
    LogEvery = 2
    EvalEvery = 3
    CkptEvery = 2
    Episodes = 2
    Losses = {1, 2, 3}
    Procs = {1, 2, 3, 4}
    Quiet = {1}
    TrainSteps = 3
    Window = 2
    Par = 2
    Cmds = {"run", "pause", "stop"}
    Limit = 7
    Samples = 2
    GraspSteps = 2
    EngageMax = 2
    Cells = 2
    MinContact = 6
    MaxEpisodes = 2
SPECIFICATION MCSpec
INVARIANTS
    StepsNeverGoBack
    ListedIsWhole
    SavedAsMeasured
    EvaluatesTheListed
    StopCostsOneWindow
    ArmsAreThere
    ResultIsWhole
    ClickDecides
    SuccessIsEarned
    PromptFollows
PROPERTIES
    NoArmAfterStop
    LessonEnds
CHECK_DEADLOCK FALSE

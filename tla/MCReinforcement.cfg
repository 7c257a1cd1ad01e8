CONSTANTS
    LastPt = LastPt
    Torn = Torn
    EnvSteps = 7
    EvalEvery = 2
    PollEvery = 2
    Scores = {1, 2, 3}
    BCDemos = 1
    Scenes = 2
    Slots = 2
    RLSteps = 9
    Warmup = 2
    Segment = 2
    StallSteps = 2
    BudgetNum = 1
    BudgetDen = 4
    Decay = 0
    SwapEvery = 2
    RLEvalEvery = 3
    Bolts = {"b"}
    Nuts = {"n"}
    Hold = 1
    Knocks = 1
    Learned = {"pick", "insert"}
    SkillSteps = 4
    SkillEvery = 2
    SkillDemos = 1
    SkillSeeds = 2
    Cache = 1
    MaxSkill = 3
    HoldUp = 2
    EvalKeys = {1, 2}
SPECIFICATION MCSpec
INVARIANTS
    ListedNeverTorn
    BestIsKept
    NothingUnsaved
    BoundaryIsCut
    BudgetHolds
    EndIsEarned
    TransitionsAreWhole
    AgentIsJudged
PROPERTIES
    OpensInPlace
CHECK_DEADLOCK FALSE

SPECIFICATION Spec
CONSTANTS
    Symbols = {"a", "b"}
    Window = 2
    Mode = "mp"
    FixedFactors = 1
    ModesAboveEdge <- MC_Modes
    ModesForShare <- MC_Modes
    OUFit <- MC_OUFit
    Level <- MC_Level
    HmmFilter <- MC_HmmFilter
    ExecutionLag = 1
    ReversalLookback = 1
    MomentumLookback = 2
    MomentumSkip = 1
    Lookback = 2
    Hold = 1
    BlockGroups = 1
    FeatureSpan = 2
    Warmup = 2
    RefitEvery = 2
    MinDwell = 2
    LastDay = 5
    FirstDays = 2
    Gaps <- MC_Gaps
    KnownActions <- MC_Actions
    MaxRuns = 3
    MaxDeaths = 1
CHECK_DEADLOCK FALSE
INVARIANTS
    ManifestIsLast
    PaperEarnsNextSession
PROPERTY LiveReplay

SPECIFICATION Spec
CONSTANTS
    Source <- Sources
    Shewhart <- Shews
    Observed <- ShewOf
    Tracker <- Trackers
    ObsvdShew <- TracksShew
    GuideShew <- GuidedBy
    NoGuide = "none"
    Invalid = Invalid
    ChartFact <- ChartFacts
    ChartOf <- Charts
    Getter <- Getters
    Relation <- Relations
    Left <- Lefts
    Rights <- RightsOf
    Reln <- Relns
    Param <- Params
    Given <- Givens
    Joint <- Joints
    Operands <- Parts
    Sustained <- Sustaineds
    Watched <- Watches
    WatchMode <- Modes
    StartSpan = 3
    LogSize = 4
    RainfallSize = 5
    SecsPerCycle = 2
    MinVariance = 1
    MinDefMax <- Ranges
    Readings <- Inputs
    Moves <- Area
    Tries <- Settings
    MaxCycles = 4
    MaxSets = 2
INVARIANTS
    KnobShowsUse
PROPERTIES
    MeansAreFresh
    SteadyReturns
    NeverPremature
CHECK_DEADLOCK FALSE

SPECIFICATION RepeatedSpec
CONSTANTS
    Pages <- SmallSeeds
    Following <- OneTwo
    OwnPages = 1
    PerPage = 1
    NoLimit = NoLimit
    MaxCandidates = NoLimit
    CallLimits <- NoCallLimit
    MaxSeeds = 2
    Window = 3
    Threshold = 2
    Fallback = TRUE
    NoValue = NoValue
    OldIndices <- NoSetting
    OldPages <- ZeroOrTwo
    MaxChanges = 1
    MaxFaults = 3
INVARIANT TypeOK
INVARIANT BreakerCutsOff
INVARIANT FallbackHappens
PROPERTY EveryPageExplored

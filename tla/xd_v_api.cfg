SPECIFICATION RepeatedSpec
CONSTANTS
    Pages <- TwoSeeds
    Following <- OneTwo
    OwnPages = 1
    PerPage = 1
    NoLimit = NoLimit
    MaxCandidates = NoLimit
    CallLimits <- FiveCalls
    MaxSeeds = NoLimit
    Window = 3
    Threshold = 2
    Fallback = TRUE
    NoValue = NoValue
    OldIndices <- NoSetting
    OldPages <- NoSetting
    MaxChanges = 0
    MaxFaults = 0
PROPERTY EveryPageExplored

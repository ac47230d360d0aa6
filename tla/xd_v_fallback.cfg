SPECIFICATION Spec
CONSTANTS
    Pages <- TwoSeeds
    Following <- OneTwo
    OwnPages = 1
    PerPage = 1
    NoLimit = NoLimit
    MaxCandidates = NoLimit
    CallLimits <- NoCallLimit
    MaxSeeds = NoLimit
    Window = 3
    Threshold = 1
    Fallback = TRUE
    NoValue = NoValue
    OldIndices <- NoSetting
    OldPages <- NoSetting
    MaxChanges = 0
    MaxFaults = 1
INVARIANT FallbackHappens

SPECIFICATION Spec
CONSTANTS
    Pages <- SmallSeeds
    Following <- OneTwoThree
    OwnPages = 1
    PerPage = 1
    NoLimit = NoLimit
    MaxCandidates = NoLimit
    CallLimits <- NoCallLimit
    MaxSeeds = NoLimit
    Window = 3
    Threshold = 2
    Fallback = TRUE
    NoValue = NoValue
    OldIndices <- NoSetting
    OldPages <- NoSetting
    MaxChanges = 0
    MaxFaults = 3
INVARIANT Repeated429Opens

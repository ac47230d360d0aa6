SPECIFICATION LiveSpec
CONSTANTS
    Pages <- ThreeSeeds
    Following <- OneTwoThree
    OwnPages = 1
    PerPage = 2
    NoLimit = NoLimit
    MaxCandidates = 3
    CallLimits <- FewOrManyCalls
    MaxSeeds = 4
    Window = 3
    Threshold = 2
    Fallback = TRUE
    NoValue = NoValue
    OldIndices <- AnyIndex
    OldPages <- AnyPage
    MaxChanges = 0
    MaxFaults = 1
INVARIANT WithinBudgets
INVARIANT NoCallIsWasted
PROPERTY DiscoveryEnds

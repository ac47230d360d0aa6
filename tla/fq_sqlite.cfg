SPECIFICATION Spec
CONSTANTS
    Users = {u1, u2}
    Procs = {p1, p2}
    Runs = {r1}
    NoUser = NoUser
    NoRun = NoRun
    Denied = {}
    Engine = "sqlite"
    Expand = TRUE
    DryModes = {FALSE}
    MaxAttempts = 2
    MaxJobs = 2
    MaxPages = 1
    MaxFaults = 1
    MaxPuts = 0
SYMMETRY FullSymmetry
INVARIANT TypeOK
INVARIANT RecordedFollowsAreReal
INVARIANT LedgerBacksState
INVARIANT FailedIsRetryable
PROPERTY FinishedRunIsFinal
PROPERTY CallsKeepPromise

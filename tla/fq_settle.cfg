SPECIFICATION ReinvokedSpec
CONSTANTS
    Procs = {p1}
    NoUser = NoUser
    NoRun = NoRun
    Denied = {u2}
    MaxPuts = 4
    Users = {u1, u2, u3}
    Runs = {r1}
    Engine = "sqlite"
    Expand = FALSE
    DryModes = {TRUE, FALSE}
    MaxAttempts = 2
    MaxJobs = 1
    MaxPages = 1
    MaxFaults = 1
INVARIANT FaultCostsOneRequest
INVARIANT BudgetRespected
PROPERTY JobsSettle

SPECIFICATION LiveSpec
CONSTANTS
    Procs = {p1, p2}
    NoUser = NoUser
    NoRun = NoRun
    Denied = {}
    MaxPuts = 0
    Users = {u1, u2}
    Runs = {r1}
    Engine = "postgres"
    Expand = FALSE
    DryModes = {FALSE}
    MaxAttempts = 1
    MaxJobs = 2
    MaxPages = 2
    MaxFaults = 0
INVARIANT AttemptsBounded
PROPERTY ChargesAreKept
PROPERTY DoneIsFinal
PROPERTY InvocationEnds

SPECIFICATION LiveSpec
CONSTANTS
    Procs = {p1, p2}
    NoUser = NoUser
    NoRun = NoRun
    Denied = {}
    MaxPuts = 0
    Users = {u1}
    Runs = {r1, r2}
    Engine = "sqlite"
    Expand = TRUE
    DryModes = {FALSE}
    MaxAttempts = 1
    MaxJobs = 1
    MaxPages = 1
    MaxFaults = 0
PROPERTY InvocationEnds

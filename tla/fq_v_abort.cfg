SPECIFICATION Spec
CONSTANTS
    Users = {u1}
    Procs = {p1}
    Runs = {r1}
    NoUser = NoUser
    NoRun = NoRun
    Denied = {}
    Engine = "sqlite"
    Expand = FALSE
    DryModes = {FALSE}
    MaxAttempts = 2
    MaxJobs = 2
    MaxPages = 1
    MaxFaults = 1
    MaxPuts = 0
PROPERTY AbortIsFinal

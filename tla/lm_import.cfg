SPECIFICATION LiveSpec
CONSTANTS
    a = a
    b = b
    Accounts = {a, b}
    Procs = {p1, p2}
    NFiles = 3
    Contents <- MCContents
    Engines = {"sqlite", "postgres"}
    Cleanups = {TRUE, FALSE}
    MaxCrashes = 1
INVARIANT NothingForgotten
INVARIANT RaceLosesNothing
PROPERTY ImportHappens

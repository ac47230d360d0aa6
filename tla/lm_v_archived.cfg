SPECIFICATION Spec
CONSTANTS
    a = a
    b = b
    Accounts = {a, b}
    Procs = {p1, p2}
    NFiles = 3
    Contents <- MCContents
    Engines = {"sqlite"}
    Cleanups = {TRUE, FALSE}
    MaxCrashes = 0
INVARIANT ArchivedIsMigrated

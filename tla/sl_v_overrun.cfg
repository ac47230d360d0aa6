SPECIFICATION Spec
CONSTANTS
    Schedulers = {s1, s2}
    NoRow = NoRow
    Engine = "sqlite"
    TTLs = {2}
    MaxTicks = 1
    MaxLag = 0
    MaxHold = 3
    MaxClock = 5
SYMMETRY SchedulerSymmetry
INVARIANT OneRunAtATime
CHECK_DEADLOCK FALSE

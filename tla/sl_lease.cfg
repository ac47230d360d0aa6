SPECIFICATION LiveSpec
CONSTANTS
    Schedulers = {s1, s2}
    NoRow = NoRow
    Engine = "postgres"
    TTLs = {2, 3}
    MaxTicks = 2
    MaxLag = 3
    MaxHold = 5
    MaxClock = 6
INVARIANT TypeOK
PROPERTY LeaseIsKept
PROPERTY ImplementsLease
PROPERTY LockComesFree
CHECK_DEADLOCK FALSE

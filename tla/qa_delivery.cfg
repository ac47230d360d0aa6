SPECIFICATION LiveSpec
CONSTANTS
    Clients = {c1, c2}
    Jobs = {j1, j2}
    SmokeJob = SmokeJob
    NoMsg = NoMsg
    Backends <- AllBackends
    MaxAttempts = 2
    MaxCrashes = 2
    MaxLate = 1
    MaxSmokes = 1
INVARIANT DeadLetterAfterAllTries
PROPERTY JobsSettle
PROPERTY ImplementsDelivery
CHECK_DEADLOCK FALSE

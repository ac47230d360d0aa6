SPECIFICATION Spec
CONSTANTS
    MaxRetries = 5
    Probes = 2
    Verify = TRUE
    Provider = TRUE
    Silent = TRUE
INVARIANT TypeOK
INVARIANT OkIsReal
INVARIANT UnauthorizedIsFinal
INVARIANT SendsBounded
PROPERTY ImplementsFollowCall

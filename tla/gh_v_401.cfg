SPECIFICATION Spec
CONSTANTS
    MaxRetries = 5
    Probes = 2
    Verify = TRUE
    Provider = TRUE
    Silent = FALSE
INVARIANT RenewedTokenIsTried

SPECIFICATION Spec
CONSTANTS
    MaxRetries = 5
    Probes = 2
    Verify = TRUE
    Provider = FALSE
    Silent = FALSE
INVARIANT AbuseIsReported

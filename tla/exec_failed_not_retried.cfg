\* A FAILED attempt is not retried.
SPECIFICATION CoreSpec
CONSTANTS
    Run = {r1}
    MaxAttempts = 2
    Worker = {w1}
    Scheduler = {s1}
    RetryLimit = 2
    MaxConcurrent = 1
    MaxClaims = 1
    MaxFaults = 0
    None = None
INVARIANT FailedIsRetried
CHECK_DEADLOCK FALSE

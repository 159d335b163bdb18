\* The heartbeat renews the lease of a handler that hangs.
SPECIFICATION HangingSpec
CONSTANTS
    Run = {r1}
    MaxAttempts = 1
    Worker = {w1}
    Scheduler = {s1}
    RetryLimit = 1
    MaxConcurrent = 1
    MaxClaims = 1
    MaxFaults = 0
    None = None
PROPERTY HungJobTimesOut
CHECK_DEADLOCK FALSE

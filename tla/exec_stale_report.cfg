\* A worker whose lease has expired overwrites TIMED_OUT.
SPECIFICATION CoreSpec
CONSTANTS
    Run = {r1}
    MaxAttempts = 2
    Worker = {w1}
    Scheduler = {s1}
    RetryLimit = 2
    MaxConcurrent = 1
    MaxClaims = 1
    MaxFaults = 0
    None = None
PROPERTY StaleReportRejected
CHECK_DEADLOCK FALSE

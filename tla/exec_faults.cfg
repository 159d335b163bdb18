\* One scheduler; crashes, shutdowns, restarts and database errors.
SPECIFICATION FairSpec
CONSTANTS
    Run = {r1}
    MaxAttempts = 2
    Worker = {w1, w2}
    Scheduler = {s1}
    RetryLimit = 2
    MaxConcurrent = 1
    MaxClaims = 2
    MaxFaults = 1
    None = None
INVARIANTS AttemptsSequential ClaimedOnce BacklogBounded
PROPERTIES ImplementsQueue RunsSettle
CHECK_DEADLOCK FALSE

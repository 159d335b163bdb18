\* Everything, the operator's reset included, with two schedulers.
SPECIFICATION Spec
CONSTANTS
    Run = {r1}
    MaxAttempts = 3
    Worker = {w1}
    Scheduler = {s1, s2}
    RetryLimit = 2
    MaxConcurrent = 1
    MaxClaims = 2
    MaxFaults = 1
    None = None
SYMMETRY Schedulers
INVARIANTS TypeOK SuccessIsEarned RetriesBounded
PROPERTY NeverReopened
CHECK_DEADLOCK FALSE

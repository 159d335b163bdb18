\* Three overlapping requests of one client, with one of two keys or none.
SPECIFICATION Spec
CONSTANTS
    Request = {q1, q2, q3}
    Key = {k1, k2}
    NoKey = NoKey
    Capacity = 2
    Cost = 2
    TicksPerSecond = 3
    BucketTTL = 3
    Timeout = 1
    ResponseTTL = 2
    MaxTime = 3
    MaxFaults = 1
SYMMETRY Symmetry
INVARIANTS
    TypeOK
    BurstBounded
    RetryAfterIsEnough
    RepeatsExcused
    ResponsesEarned
CHECK_DEADLOCK FALSE

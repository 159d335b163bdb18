\* Two publishers, batches of two, broker stops and a publisher crash.
SPECIFICATION FairSpec
CONSTANTS
    MaxEvents = 2
    Scheduler = {s1, s2}
    BatchSize = 2
    MaxPublishAttempts = 3
    MaxStops = 2
    MaxCrashes = 1
INVARIANTS TypeOK DuplicatesNeedFailures OutageCostsLittle LossesBounded
PROPERTIES DeliversEvents EventsSettle
CHECK_DEADLOCK FALSE

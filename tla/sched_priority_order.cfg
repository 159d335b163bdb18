\* A tick with one place, a LOW and a MEDIUM job.
SPECIFICATION Spec
CONSTANTS
    j1 = j1
    j2 = j2
    Job = {j1, j2}
    Schedule <- CronAndOnce
    PriorityOf <- LowAndMedium
    Scheduler = {s1}
    Request = {}
    MaxJobsPerTick = 1
    MaxTime = 2
    MaxFaults = 0
    Null = Null
PROPERTY HigherPriorityFirst
CHECK_DEADLOCK FALSE

\* Two jobs of one priority, one place in each tick of two schedulers, a request.
SPECIFICATION FairSpec
CONSTANTS
    j1 = j1
    j2 = j2
    Job = {j1, j2}
    Schedule <- Schedules
    PriorityOf <- SamePriority
    Scheduler = {s1, s2}
    Request = {q1}
    MaxJobsPerTick = 1
    MaxTime = 2
    MaxFaults = 1
    Null = Null
INVARIANTS TypeOK SlotRunsOnce NextRunFitsSchedule
  
CHECK_DEADLOCK FALSE

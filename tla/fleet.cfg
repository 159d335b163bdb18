\* 15, 45, 60 and 10 seconds in units of 5.
SPECIFICATION Spec
CONSTANTS
    Worker = {w1}
    Attempt = {a1, a2}
    None = None
    Interval = 3
    Lag = 1
    Lease = 9
    DeadAfter = 12
    Period = 2
    WatchdogLag = 1
    Misses = 1
    MaxFaults = 4
SYMMETRY Symmetry
INVARIANTS
    TypeOK
    LeaseKept
    LiveWorkerActive
    LapsesNoticed
    CrashNoticed

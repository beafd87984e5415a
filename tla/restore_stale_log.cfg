\* A restore after a crash of the service.
SPECIFICATION Spec
CONSTANTS
    Callers = {c1, c2, c3}
    MaxCrashes = 1
    MaxCommits = 3
    MaxFaults = 2
    Threads = {t1, t2, t3}
    WarmupRuns = 2
    MaximumBatchSize = 2
PROPERTY RestoreHolds
CHECK_DEADLOCK FALSE

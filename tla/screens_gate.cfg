\* Rotations that are applied, against the limits that accepted them.
SPECIFICATION Spec
CONSTANTS
    Callers = {c1, c2, c3}
    MaxCrashes = 1
    MaxCommits = 3
    MaxFaults = 2
    Threads = {t1, t2, t3}
    WarmupRuns = 2
    MaximumBatchSize = 2
INVARIANT AppliedRotationFits
CHECK_DEADLOCK FALSE

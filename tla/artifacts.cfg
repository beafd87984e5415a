\* Three callers, one crash, three commits, two faults, three threads, and the
\* inputs of ImagingSamples.  Behaviours end by construction: no deadlock check.
SPECIFICATION Spec
CONSTANTS
    Callers = {c1, c2, c3}
    MaxCrashes = 1
    MaxCommits = 3
    MaxFaults = 2
    Threads = {t1, t2, t3}
    WarmupRuns = 2
    MaximumBatchSize = 2
INVARIANTS StagingOwned CommittedKept RunsOnWarmSession SlicesAccounted EvidenceKept CanvasAccounted CycleJudged ScreensAligned BundleRuns
PROPERTIES Published CleanRestoreHolds
CHECK_DEADLOCK FALSE

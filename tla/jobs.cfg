\* Three submissions and a table of two; one reconstruction, two pages with two
\* monitors, one crash.  All submissions may have been made: no deadlock check.
SPECIFICATION Spec
CONSTANTS
    Requests = {"r1", "r2", "r3"}
    MaximumRetained = 2
    MaxJobs = 1
    MaxPages = 2
    MaxMonitors = 2
    MaxRestarts = 1
INVARIANTS UnfinishedKept ShownIsComplete
PROPERTIES OutcomeKept AcceptedEnds MonitorsEnd
CHECK_DEADLOCK FALSE

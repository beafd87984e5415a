\* Two request threads, two runs, one crash, stop or failed transaction.
CONSTANTS
    Runs = {r1, r2}
    Handlers = {h1, h2}
    NoRun = NoRun
    MaxPending = 2
    MaxAsked = 2
    MaxBreaks = 1
SPECIFICATION FairSpec
INVARIANTS
    SlotsAccounted
    BarredNeverCompletes
    CompletionIsTrue
PROPERTIES
    OutcomeStays
    AcceptedIsExecuted
    StopEnds

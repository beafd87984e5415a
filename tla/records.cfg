\* A ring shorter than the stream, polls shorter than the ring, one restart; two
\* request threads and the worker, two revisions, two crashes or failures.
SPECIFICATION RecordsSpec
CONSTANTS
    MaximumEvents = 3
    EventTypes = {started, ended}
    Topics = {r1, r2}
    Limit = 2
    Nothing = Nothing
    MaxPublished = 6
    MaxRestarts = 1
    Models = {m1, m2}
    NoModel = NoModel
    NoFile = NoFile
    Handlers = {h1, h2}
    None = None
    MaxRevision = 2
    MaxBreaks = 2
INVARIANTS
    Informed
    ContractsMatch
    FilesMatchRows
    AvailableHasFiles
    PipelinesHaveModels
    OneActive
PROPERTY CatchesUp

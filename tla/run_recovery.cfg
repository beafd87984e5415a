\* Calls one after the other: crashes, damaged evidence, a failing database,
\* retries and cancellation.
CONSTANTS
    Owners = {o1, o2}
    Outputs = {good, bad}
    Passing = {good}
    Predictions = predictions
    None = None
    MaxAttempts = 2
    MaxFaults <- RecoveryFaults
SPECIFICATION Spec
SYMMETRY OwnerSymmetry
INVARIANTS
    TypeOK
    Exclusive
    RetryBudget
    CompletedHasEvidence
    CheckpointsSettled
    PublishedPassedGate
PROPERTY ImplementsContract

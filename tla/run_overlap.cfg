\* Two calls at once: a lease that lapses under a live call while another call
\* acquires the run, with cancellation; or two acquisitions that race.
CONSTANTS
    Owners = {o1, o2}
    Outputs = {good, bad}
    Passing = {good}
    Predictions = predictions
    None = None
    MaxAttempts = 1
    MaxFaults <- OverlapFaults
SPECIFICATION Spec
SYMMETRY OwnerSymmetry
CONSTRAINT OneOverlap
INVARIANTS
    GatedValidation
    CancelledOnlyOnRequest

\* A call whose lease lapsed meets the call that took the run over.
CONSTANTS
    Owners = {o1, o2}
    Outputs = {good}
    Passing = {good}
    Predictions = predictions
    None = None
    MaxAttempts = 1
    MaxFaults <- OverlapFaults
SPECIFICATION Spec
PROPERTY OutcomeNotRevoked

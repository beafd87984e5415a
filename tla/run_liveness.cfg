\* Fair calls: retries, cancellation, a failing transaction.  No symmetry.
CONSTANTS
    Owners = {o1, o2}
    Outputs = {good}
    Passing = {good}
    Predictions = predictions
    None = None
    MaxAttempts = 2
    MaxFaults <- LivenessFaults
SPECIFICATION FairSpec
PROPERTIES
    EveryCallEnds
    RunSettles

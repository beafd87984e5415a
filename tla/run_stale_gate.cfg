\* The reconstruction evidence is lost after the gate was passed.
CONSTANTS
    Owners = {o1, o2}
    Outputs = {good, bad}
    Passing = {good}
    Predictions = predictions
    None = None
    MaxAttempts = 2
    MaxFaults <- TamperFaults
SPECIFICATION Spec
SYMMETRY OwnerSymmetry
INVARIANT NothingUngatedPublished

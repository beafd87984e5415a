\* Two validations of one draft, and its activation between them.
CONSTANTS
    Models = {m1}
    NoModel = NoModel
    NoFile = NoFile
    Handlers = {h1, h2}
    None = None
    MaxRevision = 2
    MaxBreaks = 0
SPECIFICATION Spec
PROPERTY OnlyActivationDemotes

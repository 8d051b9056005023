CONSTANTS
    Channels = {c1, c2}
    Events = {e1, e2}
    None = None
    Urls = 2
    MaxAttempts = 2
    BatchLimit = 1
    MaxFaults = 1
    MaxRequeues = 1
SPECIFICATION Spec
INVARIANTS
    TypeOK
    BatchIsFresh
    AllAttemptsMade
PROPERTIES
    Delivers


CONSTANTS
    MaxMatch = 1
    MaxTurn = 1
    Keys = 2
    FaultKinds = {"crash"}
    MaxEvents = 1
SPECIFICATION Spec
INVARIANTS
    RestartLosesNothing
CHECK_DEADLOCK FALSE

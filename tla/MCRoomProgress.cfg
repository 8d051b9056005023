CONSTANTS
    MaxMatch = 1
    MaxTurn = 3
    Keys = 2
    FaultKinds = {"crash", "cancel", "exception", "drop"}
    MaxEvents = 2
SPECIFICATION Spec
PROPERTIES
    WaitingViewHandled
CHECK_DEADLOCK FALSE

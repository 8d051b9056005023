CONSTANTS
    MaxMatch = 2
    MaxTurn = 2
    Keys = 2
    FaultKinds = {"crash", "cancel", "exception", "drop"}
    MaxEvents = 2
SPECIFICATION Spec
INVARIANTS
    TypeOK
    ArchivedOnce
    ExtraPingsTakeFaults
    StrayPingsTakeFaults
    LostResultsTakeFaults
PROPERTIES
    LifecycleMovesOn
CHECK_DEADLOCK FALSE

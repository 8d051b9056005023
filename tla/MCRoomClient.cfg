CONSTANTS
    GameServers = {"g1", "g2"}
    MaxMatch = 2
    MaxMove = 1
    MaxFailures = 2
    FaultKinds = {"refused", "drop", "error", "sleep", "slow", "move", "duet", "unfit", "late"}
    MaxFaults = 2
SPECIFICATION Spec
INVARIANTS TypeOK ShownIsTrue GivesUpOnFailures
PROPERTIES RollbackTakesLateSync CatchesUp KeepsContract
CHECK_DEADLOCK FALSE

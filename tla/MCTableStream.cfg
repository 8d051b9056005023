CONSTANTS
    Players <- MCPlayers
    Guests <- MCGuests
    MaxPackets = 2
    FaultKinds = {"failure", "crash", "roster", "presence"}
    MaxFaults = 1
SPECIFICATION Spec
INVARIANTS TypeOK WaitsForTheRightPlayers WatchedToTheEnd
PROPERTY EndReported
CHECK_DEADLOCK FALSE

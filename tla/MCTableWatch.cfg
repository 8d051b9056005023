CONSTANTS
    Workers = {"w1", "w2"}
    MaxRows = 1
    MaxLinks = 1
    FaultKinds = {"crash", "drop", "exception", "bga", "moderator"}
    MaxEvents = 1
SPECIFICATION Spec
INVARIANTS TypeOK OneWorker StraysTakeEvents
PROPERTIES FinalCardStays FinishedUnwatched

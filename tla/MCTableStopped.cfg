CONSTANTS
    Workers = {"w1", "w2"}
    MaxRows = 2
    MaxLinks = 1
    FaultKinds = {}
    MaxEvents = 1
SPECIFICATION Safe
PROPERTY StoppedStaysStopped

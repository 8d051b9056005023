CONSTANTS
    Channels = {"thread", "text"}
    Bound = {"thread"}
    Calls = {1, 2}
    MaxCalls = 3
    MaxNoteFails = 1
SPECIFICATION Spec
INVARIANTS TypeOK FollowsWhatIsWatched
PROPERTY ComesToRest
CHECK_DEADLOCK FALSE

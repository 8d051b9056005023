CONSTANTS
    Seats = {"s1", "s2"}
    Users = {1, 2}
    Watches = {"w1", "w2"}
    Names = {"Ann", "Ann!"}
    Norm <- MCNorm
    MemberNames <- MCMemberNames
    Rooms <- MCRooms
    LastNames <- MCLastNames
    Alike <- MCAlike
    MaxEvents = 3
    MaxFaults = 1
SPECIFICATION Spec
INVARIANTS TypeOK HoldsOneSeat
PROPERTIES OnlyAdminsReplace AutoClaimsKeepListed CardsShowLinks
CHECK_DEADLOCK FALSE

----------------------------- MODULE SeatsProofs -----------------------------
(* A room's seats, for every number of seats, users and watches, every way   *)
(* names are spelt and alike, and every interleaving of picks, admins and    *)
(* updates of the room.                                                    *)
EXTENDS Seats, FiniteSetTheorems, TLAPS

USE SeatsAssumption

(***************************************************************************)
(* What the helpers return.                                                *)
(***************************************************************************)
LEMMA ClaimType ==
    ASSUME holder \in Table, device \in Table, remembered \in [Users -> Names \cup {NoName}],
           name \in NameTable, NEW s \in Seats, NEW u \in Users, Claim(s, u)
    PROVE  /\ holder' \in Table /\ device' \in Table /\ name' \in NameTable
           /\ remembered' \in [Users -> Names \cup {NoName}]
BY DEF Claim, MoveTo, Table, NameTable

LEMMA ReleaseType ==
    ASSUME holder \in Table, device \in Table, remembered \in [Users -> Names \cup {NoName}],
           name \in NameTable, NEW u \in Users, Release(u)
    PROVE  /\ holder' \in Table /\ device' \in Table /\ name' \in NameTable
           /\ remembered' \in [Users -> Names \cup {NoName}]
BY DEF Release, Table, NameTable

\* An alias is chosen among users who hold a seat, and only if there is one.
LEMMA LinksType ==
    ASSUME NEW h \in Table, NEW d \in Table, NEW n \in NameTable
    PROVE  LinksOf(h, d, n) \in Table
<1> DEFINE l == [s \in Seats |-> IF h[s] = NoUser /\ d[s] \in Holders(h) THEN d[s] ELSE h[s]]
<1>1. l \in Table
  BY DEF Table
<1> HIDE DEF l
<1>2. ASSUME NEW s \in Seats, Cardinality(AlikeUsers(l, n, s)) = 1
      PROVE  (CHOOSE u \in AlikeUsers(l, n, s) : TRUE) \in Users
  <2>1. AlikeUsers(l, n, s) \subseteq Users
    BY <1>1 DEF AlikeUsers, Table
  <2>2. AlikeUsers(l, n, s) # {}
    BY <1>2, FS_EmptySet
  <2> QED
    BY <2>1, <2>2
<1>3. Aliases(l, n) \in Table
  BY <1>1, <1>2 DEF Aliases, Table
<1> QED
  BY <1>3 DEF LinksOf, l

LEMMA AutoClaimsType ==
    ASSUME NEW h, NEW n, NEW w \in Watches, invited \in [Watches -> SUBSET Users]
    PROVE  AutoClaims(h, n, w) \subseteq Seats \X Users
BY DEF AutoClaims, ByMemory, ByName, FreeSeats, WaitingUsers, Unplaced

\* Every claim that an update plans is of a seat that its list shows free, for a
\* user who holds none in it.
LEMMA AutoClaimsFresh ==
    ASSUME NEW h, NEW n, NEW w \in Watches, NEW c \in AutoClaims(h, n, w)
    PROVE  c[1] \in Seats /\ h[c[1]] = NoUser /\ c[2] \notin Holders(h)
BY DEF AutoClaims, ByMemory, ByName, FreeSeats, WaitingUsers, Unplaced

-----------------------------------------------------------------------------
UpdateRecords ==
    [pc : {"none", "waiting", "list", "claim", "links", "devices", "draw"},
     players : Table, names : NameTable, claims : SUBSET (Seats \X Users),
     todo : SUBSET Watches, links : Table]

LEMMA UpdateType == NoUpdate \in UpdateRecords /\ Waiting \in UpdateRecords
<1>1. Nobody \in Table /\ [s \in Seats |-> NoName] \in NameTable
  BY DEF Nobody, Table, NameTable
<1> QED
  BY <1>1 DEF NoUpdate, Waiting, UpdateRecords

\* The four tables of the store, and the rest.
StoreTypes ==
    /\ holder \in Table /\ device \in Table /\ name \in NameTable
    /\ remembered \in [Users -> Names \cup {NoName}]
PeopleTypes ==
    /\ room \in NameTable
    /\ invited \in [Watches -> SUBSET Users]
    /\ opened \subseteq Users
    /\ offered \in [Users -> SUBSET Seats]
    /\ shown \in [Watches -> Table]
CountTypes ==
    /\ replies \in 0 .. events
    /\ events \in 0 .. MaxEvents /\ faults \in 0 .. MaxFaults
MissedType == missed \in BOOLEAN

LEMMA TypeParts ==
    TypeOK <=> StoreTypes /\ PeopleTypes /\ CountTypes /\ MissedType /\ update \in UpdateRecords
BY DEF TypeOK, StoreTypes, PeopleTypes, CountTypes, MissedType, UpdateRecords

TypesKept == StoreTypes' /\ PeopleTypes' /\ CountTypes' /\ MissedType' /\ update' \in UpdateRecords

\* The tables hold types, and so does what an update has read of them.
THEOREM TypeCorrect == Spec => []TypeOK
<1>1. Init => TypeOK
  <2> SUFFICES ASSUME Init PROVE TypeOK
    OBVIOUS
  <2>1. Nobody \in Table /\ room \in NameTable /\ [s \in Seats |-> NoName] \in NameTable
    BY DEF Init, Nobody, Table, NameTable
  <2>2. StoreTypes /\ PeopleTypes
    BY <2>1 DEF Init, StoreTypes, PeopleTypes
  <2>3. CountTypes /\ update \in UpdateRecords
    BY UpdateType DEF Init, CountTypes
  <2>4. MissedType
    BY DEF Init, MissedType
  <2> QED
    BY <2>2, <2>3, <2>4, TypeParts
<1>2. TypeOK /\ [Next]_vars => TypeOK'
  <2> SUFFICES ASSUME TypeOK, [Next]_vars
               PROVE  TypesKept
    BY DEF TypesKept, TypeOK, StoreTypes, PeopleTypes, CountTypes, MissedType, UpdateRecords
  <2> USE UpdateType, TypeParts
      DEF TypesKept, Refresh, Event, Fault, seats, users, bounds, Unmoved
  <2>1. ASSUME NEW u \in Users, NEW s \in Seats, PickSeat(u, s)
        PROVE  TypesKept
    <3>1. MissedType'
      BY <2>1 DEF PickSeat, MissedType
    <3> QED
      BY <2>1, ClaimType, <3>1 DEF PickSeat, StoreTypes, PeopleTypes, CountTypes, UpdateRecords
  <2>2. ASSUME NEW u \in Users, NEW s \in Seats, PickDevice(u, s)
        PROVE  TypesKept
    <3>1. MissedType'
      BY <2>2 DEF PickDevice, MissedType
    <3> QED
      BY <2>2, <3>1 DEF PickDevice, StoreTypes, Table, PeopleTypes, CountTypes, UpdateRecords
  <2>3. ASSUME NEW u \in Users, OpenPicker(u)
        PROVE  TypesKept
    <3>1. MissedType'
      BY <2>3 DEF OpenPicker, MissedType
    <3> QED
      BY <2>3, <3>1 DEF OpenPicker, StoreTypes, PeopleTypes, CountTypes, UpdateRecords
  <2>4. ASSUME NEW u \in Users, NotPlaying(u)
        PROVE  TypesKept
    <3>1. MissedType'
      BY <2>4 DEF NotPlaying, MissedType
    <3> QED
      BY <2>4, ReleaseType, <3>1 DEF NotPlaying, StoreTypes, PeopleTypes, CountTypes, UpdateRecords
  <2>5. ASSUME NEW u \in Users, Assign(u)
        PROVE  TypesKept
    <3>1. MissedType'
      BY <2>5 DEF Assign, MissedType
    <3> QED
      BY <2>5, ClaimType, ReleaseType, <3>1 DEF Assign, StoreTypes, PeopleTypes, CountTypes, UpdateRecords
  <2>6. ASSUME NEW w \in Watches, NEW u \in Users, Invite(w, u)
        PROVE  TypesKept
    <3>1. MissedType'
      BY <2>6 DEF Invite, MissedType
    <3> QED
      BY <2>6, <3>1 DEF Invite, StoreTypes, PeopleTypes, CountTypes, UpdateRecords
  <2>7. ASSUME NEW s \in Seats, Rename(s)
        PROVE  TypesKept
    <3>1. MissedType'
      BY <2>7 DEF Rename, MissedType
    <3> QED
      BY <2>7, <3>1 DEF Rename, StoreTypes, PeopleTypes, NameTable, CountTypes, UpdateRecords
  <2>8. CASE Reply
    <3>1. MissedType'
      BY <2>8 DEF Reply, MissedType
    <3> QED
      BY <2>8, <3>1 DEF Reply, StoreTypes, PeopleTypes, CountTypes, UpdateRecords
  <2>9. CASE StoresNames
    <3>1. MissedType'
      BY <2>9 DEF StoresNames, MissedType
    <3> QED
      BY <2>9, <3>1 DEF StoresNames, StoreTypes, NameTable, PeopleTypes, CountTypes, UpdateRecords
  <2>10. CASE ListsPlayers
    <3>1. MissedType'
      BY <2>10 DEF ListsPlayers, MissedType
    <3> QED
      BY <2>10, <3>1 DEF ListsPlayers, StoreTypes, PeopleTypes, CountTypes, UpdateRecords
  <2>11. CASE MatchesMembers
    <3>1. MissedType'
      BY <2>11 DEF MatchesMembers, MissedType
    <3>2. PICK w \in Watches :
            update' = [update EXCEPT !.todo = @ \ {w}, !.claims = AutoClaims(update.players, update.names, w)]
      BY <2>11 DEF MatchesMembers, UpdateRecords
    <3>3. AutoClaims(update.players, update.names, w) \subseteq Seats \X Users
      BY AutoClaimsType DEF PeopleTypes
    <3>4. update' \in UpdateRecords
      BY <3>2, <3>3 DEF UpdateRecords
    <3> QED
      BY <2>11, <3>1, <3>4 DEF MatchesMembers, StoreTypes, PeopleTypes, CountTypes
  <2>12. CASE AutoClaim
    <3>1. PICK c \in update.claims :
            \/ Claim(c[1], c[2]) /\ update' = [update EXCEPT !.claims = @ \ {c}] /\ missed' = missed
            \/ update' = NoUpdate /\ missed' = TRUE /\ UNCHANGED seats
      BY <2>12 DEF AutoClaim
    <3>2. c[1] \in Seats /\ c[2] \in Users
      BY DEF UpdateRecords
    <3>3. StoreTypes'
      BY <3>1, <3>2, ClaimType DEF StoreTypes
    <3>4. PeopleTypes' /\ CountTypes'
      BY <2>12 DEF AutoClaim, PeopleTypes, CountTypes
    <3>5. MissedType'
      BY <3>1 DEF MissedType
    <3>6. update' \in UpdateRecords
      BY <3>1 DEF UpdateRecords
    <3> QED
      BY <3>3, <3>4, <3>5, <3>6
  <2>13. CASE ReadsHolders
    <3>1. MissedType'
      BY <2>13 DEF ReadsHolders, MissedType
    <3> QED
      BY <2>13, <3>1 DEF ReadsHolders, StoreTypes, PeopleTypes, CountTypes, UpdateRecords
  <2>14. CASE ReadsDevices
    <3>1. MissedType'
      BY <2>14 DEF ReadsDevices, MissedType
    <3> QED
      BY <2>14, LinksType, <3>1 DEF ReadsDevices, StoreTypes, PeopleTypes, CountTypes, UpdateRecords
  <2>15. CASE Draws
    <3>1. MissedType'
      BY <2>15 DEF Draws, MissedType
    <3> QED
      BY <2>15, <3>1 DEF Draws, StoreTypes, PeopleTypes, UpdateRecords, CountTypes
  <2>16. CASE UNCHANGED vars
    <3>1. MissedType'
      BY <2>16 DEF vars, MissedType
    <3> QED
      BY <2>16, <3>1 DEF vars, StoreTypes, PeopleTypes, CountTypes, UpdateRecords
  <2> QED
    BY <2>1, <2>2, <2>3, <2>4, <2>5, <2>6, <2>7, <2>8, <2>9, <2>10, <2>11, <2>12, <2>13, <2>14, <2>15, <2>16
       DEF Next, Updates
<1> QED
  BY <1>1, <1>2, PTL DEF Spec

-----------------------------------------------------------------------------
(***************************************************************************)
(* How a step changes the holders: not at all, by giving somebody a seat,  *)
(* or by taking a user's seat away.  Only an admin gives a seat that       *)
(* somebody else holds.                                                    *)
(***************************************************************************)
Gives(s, u) == holder' = MoveTo(holder, s, u)
Takes(u) == holder' = [s \in Seats |-> IF holder[s] = u THEN NoUser ELSE holder[s]]

LEMMA HolderSteps ==
    ASSUME TypeOK, [Next]_vars
    PROVE  \/ UNCHANGED holder
           \/ \E u \in Users : Takes(u)
           \/ \E u \in Users, s \in Seats : Gives(s, u) /\ (Free(s, u) \/ Assign(u))
<1>1. ASSUME NEW u \in Users, NEW s \in Seats, PickSeat(u, s)
      PROVE  Gives(s, u) /\ Free(s, u)
  BY <1>1 DEF PickSeat, Claim, Gives
<1>2. ASSUME NEW u \in Users, NEW s \in Seats, PickDevice(u, s) PROVE UNCHANGED holder
  BY <1>2 DEF PickDevice
<1>3. ASSUME NEW u \in Users, OpenPicker(u) PROVE UNCHANGED holder
  BY <1>3 DEF OpenPicker, seats
<1>4. ASSUME NEW u \in Users, NotPlaying(u) PROVE Takes(u)
  BY <1>4 DEF NotPlaying, Release, Takes
<1>5. ASSUME NEW u \in Users, Assign(u) PROVE Takes(u) \/ \E s \in Seats : Gives(s, u)
  BY <1>5 DEF Assign, Claim, Release, Takes, Gives
<1>6. ASSUME NEW w \in Watches, NEW u \in Users, Invite(w, u) PROVE UNCHANGED holder
  BY <1>6 DEF Invite, seats
<1>7. ASSUME NEW s \in Seats, Rename(s) PROVE UNCHANGED holder
  BY <1>7 DEF Rename, seats
<1>8. CASE AutoClaim
  <2>1. PICK c \in update.claims : (Free(c[1], c[2]) /\ Claim(c[1], c[2])) \/ UNCHANGED seats
    BY <1>8 DEF AutoClaim
  <2>2. c[1] \in Seats /\ c[2] \in Users
    BY DEF TypeOK
  <2> QED
    BY <2>1, <2>2 DEF Claim, Gives, seats
<1>9. Reply \/ StoresNames \/ ListsPlayers \/ MatchesMembers \/ ReadsHolders \/ ReadsDevices \/ Draws
      \/ UNCHANGED vars => UNCHANGED holder
  BY DEF Reply, StoresNames, ListsPlayers, MatchesMembers, ReadsHolders, ReadsDevices, Draws, seats, Unmoved, vars
<1> QED
  BY <1>1, <1>2, <1>3, <1>4, <1>5, <1>6, <1>7, <1>8, <1>9 DEF Next, Updates

\* Nobody ever holds two seats: a claim releases the user's other seat.
THEOREM OneSeat == Spec => []HoldsOneSeat
<1>1. Init => HoldsOneSeat
  BY DEF Init, Nobody, HoldsOneSeat
<1>2. TypeOK /\ HoldsOneSeat /\ [Next]_vars => HoldsOneSeat'
  <2> SUFFICES ASSUME TypeOK, HoldsOneSeat, [Next]_vars PROVE HoldsOneSeat'
    OBVIOUS
  <2>1. CASE UNCHANGED holder
    BY <2>1 DEF HoldsOneSeat
  <2>2. ASSUME NEW u \in Users, Takes(u) PROVE HoldsOneSeat'
    BY <2>2 DEF Takes, HoldsOneSeat
  <2>3. ASSUME NEW u \in Users, NEW s \in Seats, Gives(s, u) PROVE HoldsOneSeat'
    BY <2>3 DEF Gives, MoveTo, HoldsOneSeat
  <2> QED
    BY <2>1, <2>2, <2>3, HolderSteps
<1> QED
  BY <1>1, <1>2, TypeCorrect, PTL DEF Spec

\* No seat goes from one user to another unless an admin assigns it, however stale
\* the list of seats that a picker or an update works from.
THEOREM AdminsReplace == Spec => OnlyAdminsReplace
<1>1. TypeOK /\ [Next]_vars =>
        [\A s \in Seats : holder[s] # NoUser /\ holder'[s] \notin {holder[s], NoUser} => \E u \in Users : Assign(u)]_vars
  <2> SUFFICES ASSUME TypeOK, [Next]_vars, NEW s \in Seats,
                      holder[s] # NoUser, holder'[s] \notin {holder[s], NoUser}
               PROVE  \E u \in Users : Assign(u)
    OBVIOUS
  <2>1. ~(UNCHANGED holder) /\ \A u \in Users : ~Takes(u)
    BY DEF Takes
  <2>2. PICK u \in Users, t \in Seats : Gives(t, u) /\ (Free(t, u) \/ Assign(u))
    BY <2>1, HolderSteps
  <2>3. t = s
    BY <2>2 DEF Gives, MoveTo
  <2>4. ~Free(t, u)
    BY <2>2, <2>3 DEF Gives, MoveTo, Free
  <2> QED
    BY <2>2, <2>4
<1> QED
  BY <1>1, TypeCorrect, PTL DEF Spec, OnlyAdminsReplace

-----------------------------------------------------------------------------
(***************************************************************************)
(* Automatic claims.  What an update still has to claim stays true of the  *)
(* list that it read, however old the list gets.                           *)
(***************************************************************************)
ClaimsFromList ==
    /\ update.pc # "claim" => update.claims = {}
    /\ \A c \in update.claims : update.players[c[1]] = NoUser /\ c[2] \notin Holders(update.players)

LEMMA NoClaims ==
    ASSUME update'.claims = {}
    PROVE  ClaimsFromList'
BY DEF ClaimsFromList

LEMMA ClaimsKept ==
    ASSUME ClaimsFromList, update'.pc = update.pc, update'.claims \subseteq update.claims,
           update'.players = update.players
    PROVE  ClaimsFromList'
BY DEF ClaimsFromList, Holders

LEMMA ClaimsStayFromList ==
    ASSUME TypeOK, ClaimsFromList, [Next]_vars
    PROVE  ClaimsFromList'
<1>1. ASSUME UNCHANGED update PROVE ClaimsFromList'
  BY <1>1, ClaimsKept
<1>2. ASSUME update' \in {NoUpdate, Waiting} PROVE ClaimsFromList'
  BY <1>2, NoClaims DEF NoUpdate, Waiting
<1>3. ASSUME NEW u \in Users, NEW s \in Seats, PickSeat(u, s) \/ PickDevice(u, s) PROVE ClaimsFromList'
  BY <1>1, <1>3 DEF PickSeat, PickDevice
<1>4. ASSUME NEW u \in Users, OpenPicker(u) \/ NotPlaying(u) \/ Assign(u) PROVE ClaimsFromList'
  BY <1>1, <1>4 DEF OpenPicker, NotPlaying, Assign
<1>5. ASSUME NEW w \in Watches, NEW u \in Users, Invite(w, u) PROVE ClaimsFromList'
  BY <1>1, <1>5 DEF Invite
<1>6. ASSUME NEW s \in Seats, Rename(s) PROVE ClaimsFromList'
  BY <1>1, <1>2, <1>6 DEF Rename
<1>7. CASE Reply
  BY <1>1, <1>2, <1>7 DEF Reply, Refresh
<1>8. CASE StoresNames \/ ListsPlayers
  <2>1. update'.claims = update.claims /\ update.pc # "claim"
    BY <1>8 DEF StoresNames, ListsPlayers, TypeOK
  <2> QED
    BY <2>1, NoClaims DEF ClaimsFromList
<1>9. CASE MatchesMembers
  <2>1. PICK w \in Watches : update'.claims = AutoClaims(update.players, update.names, w)
    BY <1>9 DEF MatchesMembers, TypeOK
  <2>2. update'.pc = "claim" /\ update'.players = update.players
    BY <1>9 DEF MatchesMembers, TypeOK
  <2> QED
    BY <2>1, <2>2, AutoClaimsFresh DEF ClaimsFromList, Holders
<1>10. CASE AutoClaim
  <2>1. \/ update' = NoUpdate
        \/ /\ update'.pc = update.pc /\ update'.players = update.players
           /\ update'.claims \subseteq update.claims
    BY <1>10 DEF AutoClaim, TypeOK
  <2> QED
    BY <1>2, <2>1, ClaimsKept
<1>11. CASE ReadsHolders \/ ReadsDevices
  BY <1>11, NoClaims DEF ReadsHolders, ReadsDevices, NoUpdate
<1>12. CASE Draws
  <2>1. \/ update' = NoUpdate
        \/ /\ update'.pc = update.pc /\ update'.players = update.players
           /\ update'.claims = update.claims
    BY <1>12 DEF Draws, TypeOK
  <2> QED
    BY <1>2, <2>1, ClaimsKept
<1>13. CASE UNCHANGED vars
  BY <1>1, <1>13 DEF vars
<1> QED
  BY <1>3, <1>4, <1>5, <1>6, <1>7, <1>8, <1>9, <1>10, <1>11, <1>12, <1>13 DEF Next, Updates

\* An automatic claim leaves every holder alone that its update has read: the seat
\* is free on the list, and its new holder has none there to give up.
THEOREM ListedKept == Spec => AutoClaimsKeepListed
<1>1. Init => ClaimsFromList
  BY DEF Init, Waiting, NoUpdate, ClaimsFromList
<1>2. TypeOK /\ ClaimsFromList /\ [Next]_vars => ClaimsFromList'
  BY ClaimsStayFromList
<1>3. TypeOK /\ ClaimsFromList /\ [Next]_vars =>
        [AutoClaim => \A s \in Seats : holder[s] # NoUser /\ update.players[s] = holder[s] => holder'[s] = holder[s]]_vars
  <2> SUFFICES ASSUME TypeOK, ClaimsFromList, AutoClaim, NEW s \in Seats,
                      holder[s] # NoUser, update.players[s] = holder[s]
               PROVE  holder'[s] = holder[s]
    OBVIOUS
  <2>1. PICK c \in update.claims : Claim(c[1], c[2]) \/ UNCHANGED seats
    BY DEF AutoClaim
  <2>2. c[1] # s /\ c[2] # holder[s]
    BY DEF ClaimsFromList, Holders
  <2> QED
    BY <2>1, <2>2 DEF Claim, MoveTo, seats
<1> QED
  BY <1>1, <1>2, <1>3, TypeCorrect, PTL DEF Spec, AutoClaimsKeepListed
===============================================================================

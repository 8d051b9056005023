--------------------------------- MODULE Seats ---------------------------------
(***************************************************************************)
(* Who is who in a Codenames room: the seats that Discord users claim with *)
(* "I'm playing", that admins assign, and that an update of the room       *)
(* claims for invited members by their names; the seats that are another   *)
(* device of a player; and the links that the room's cards show.           *)
(*                                                                         *)
(* The database does one call at a time.  An update reads the list of      *)
(* seats once and works with it through several calls, while claims from   *)
(* the buttons change the table; a claim has the cards drawn again only    *)
(* after Discord has taken the reply.  Names are equal when they differ in *)
(* case only.                                                              *)
(***************************************************************************)
EXTENDS Naturals, FiniteSets

CONSTANTS
    Seats,         \* seats of the room, the bot's left out
    Users,         \* Discord users, numbered in the order in which they were invited
    Watches,       \* watches of the room
    Names,         \* names that players go by
    Norm,          \* normalise_name of each name
    MemberNames,   \* normalised names of each user on Discord and in the tournament
    Rooms,         \* what the room may look like when it is first seen: a name or none at each seat
    LastNames,     \* the name each user went by in another room, or none
    Alike,         \* pairs of names that device_aliases takes for the same person's
    MaxEvents,     \* bound: what users, admins and players do, together
    MaxFaults      \* bound: replies and cards that Discord does not take

NoUser == 0
NoName == "none"

ASSUME SeatsAssumption ==
    /\ Users \subseteq Nat \ {NoUser} /\ NoName \notin Names
    /\ DOMAIN Norm = Names /\ DOMAIN MemberNames = Users
    /\ Rooms \subseteq [Seats -> Names \cup {NoName}]
    /\ LastNames \in [Users -> Names \cup {NoName}]
    /\ Alike \subseteq Names \X Names
    /\ {MaxEvents, MaxFaults} \subseteq Nat

Table == [Seats -> Users \cup {NoUser}]
NameTable == [Seats -> Names \cup {NoName}]
Nobody == [s \in Seats |-> NoUser]

VARIABLES
    room,         \* external: the name at each seat of the room
    name,         \* codenames_players.display_name
    holder,       \* codenames_players.discord_user_id
    device,       \* codenames_devices
    remembered,   \* codenames_user_names
    invited,      \* codenames_watch_members of each watch
    opened,       \* users with an open seat picker that says who they are
    offered,      \* the seats it offers as another device
    replies,      \* claims whose reply is on its way to Discord
    update,       \* the room's update: where it is and what it has read
    shown,        \* the links on each watch's card
    events, faults,
    missed        \* history: a view was lost, or a reply, a card or a whole update failed

users == <<invited, opened, offered>>
seats == <<name, holder, device, remembered>>
bounds == <<events, faults>>
vars == <<room, seats, users, replies, update, shown, bounds, missed>>

\* `players` and `names` are the list of seats as it was read, `claims` the seats
\* still to claim for the watch it is at, `todo` the watches left.
NoUpdate == [pc |-> "none", players |-> Nobody, names |-> [s \in Seats |-> NoName], claims |-> {},
             todo |-> {}, links |-> Nobody]
Waiting == [NoUpdate EXCEPT !.pc = "waiting"]

TypeOK ==
    /\ room \in NameTable /\ name \in NameTable
    /\ holder \in Table /\ device \in Table
    /\ remembered \in [Users -> Names \cup {NoName}]
    /\ invited \in [Watches -> SUBSET Users]
    /\ opened \subseteq Users
    /\ offered \in [Users -> SUBSET Seats]
    /\ replies \in 0 .. events
    /\ update \in [pc : {"none", "waiting", "list", "claim", "links", "devices", "draw"},
                   players : Table, names : NameTable, claims : SUBSET (Seats \X Users),
                   todo : SUBSET Watches, links : Table]
    /\ shown \in [Watches -> Table]
    /\ events \in 0 .. MaxEvents /\ faults \in 0 .. MaxFaults /\ missed \in BOOLEAN

\* A new room: no seat is known yet.
Init ==
    /\ room \in Rooms
    /\ name = [s \in Seats |-> NoName] /\ holder = Nobody /\ device = Nobody
    /\ remembered = LastNames
    /\ invited = [w \in Watches |-> {}]
    /\ opened = {} /\ offered = [u \in Users |-> {}]
    /\ replies = 0 /\ update = Waiting
    /\ shown = [w \in Watches |-> Nobody]
    /\ events = 0 /\ faults = 0 /\ missed = FALSE

Event == events < MaxEvents /\ events' = events + 1
Fault == faults < MaxFaults /\ faults' = faults + 1 /\ missed' = TRUE

-----------------------------------------------------------------------------
(***************************************************************************)
(* The store.                                                              *)
(***************************************************************************)
Holders(h) == {h[s] : s \in Seats} \ {NoUser}

Free_Any(s, u) == TRUE
Free(s, u) == holder[s] \in {NoUser, u}

\* claim_codenames_player, past its check: the user's other seat is released, the
\* seat is nobody's other device, and its name is remembered.
MoveTo_KeepsSeat(h, s, u) == [h EXCEPT ![s] = u]
MoveTo(h, s, u) == [x \in Seats |-> IF x = s THEN u ELSE IF h[x] = u THEN NoUser ELSE h[x]]

Claim(s, u) ==
    /\ holder' = MoveTo(holder, s, u)
    /\ device' = [device EXCEPT ![s] = NoUser]
    /\ remembered' = IF name[s] = NoName THEN remembered ELSE [remembered EXCEPT ![u] = name[s]]
    /\ UNCHANGED name

\* release_codenames_player
Release(u) ==
    /\ holder' = [s \in Seats |-> IF holder[s] = u THEN NoUser ELSE holder[s]]
    /\ device' = [s \in Seats |-> IF device[s] = u THEN NoUser ELSE device[s]]
    /\ UNCHANGED <<name, remembered>>

\* device_aliases: an unlinked seat is taken for the other device of the one user
\* with a seat whose name is like its own.
AlikeUsers(l, n, s) == {l[t] : t \in {t \in Seats : l[t] # NoUser /\ <<n[s], n[t]>> \in Alike}}
Aliases(l, n) == [s \in Seats |-> IF l[s] = NoUser /\ Cardinality(AlikeUsers(l, n, s)) = 1
                                  THEN CHOOSE u \in AlikeUsers(l, n, s) : TRUE ELSE l[s]]

\* seat_links: holders, then the devices of users who hold a seat, then aliases.
LinksOf(h, d, n) ==
    Aliases([s \in Seats |-> IF h[s] = NoUser /\ d[s] \in Holders(h) THEN d[s] ELSE h[s]], n)

-----------------------------------------------------------------------------
(***************************************************************************)
(* Users and admins.                                                       *)
(***************************************************************************)
Refresh == update' = Waiting

\* The seat picker of a user who holds a seat offers the seats that nobody holds.
OpenPicker(u) ==
    /\ u \in Holders(holder) /\ Event
    /\ opened' = opened \cup {u}
    /\ offered' = [offered EXCEPT ![u] = {s \in Seats : name[s] # NoName /\ holder[s] = NoUser}]
    /\ UNCHANGED <<room, seats, invited, replies, update, shown, faults, missed>>

\* A seat that somebody else holds is refused.
PickSeat_Silent(u, s) ==
    /\ name[s] # NoName /\ Event
    /\ Free(s, u)
    /\ Claim(s, u)
    /\ UNCHANGED <<room, users, replies, update, shown, faults, missed>>

PickSeat(u, s) ==
    /\ name[s] # NoName /\ Event
    /\ Free(s, u)
    /\ Claim(s, u)
    /\ replies' = replies + 1
    /\ UNCHANGED <<room, users, update, shown, faults, missed>>

PickDevice(u, s) ==
    /\ s \in offered[u] /\ Event
    /\ device' = [device EXCEPT ![s] = u]
    /\ replies' = replies + 1
    /\ UNCHANGED <<room, name, holder, remembered, users, update, shown, faults, missed>>

NotPlaying(u) ==
    /\ u \in opened /\ Event
    /\ Release(u)
    /\ replies' = replies + 1
    /\ UNCHANGED <<room, users, update, shown, faults, missed>>

\* An admin gives a seat to a user, whoever holds it, or to nobody.
Assign(u) ==
    /\ Event
    /\ \/ \E s \in Seats : name[s] # NoName /\ Claim(s, u)
       \/ Release(u)
    /\ replies' = replies + 1
    /\ UNCHANGED <<room, users, update, shown, faults, missed>>

Reply_Twice ==
    /\ replies' = replies - 1
    /\ Refresh
    /\ UNCHANGED <<room, seats, users, shown, bounds, missed>>

\* Discord takes the reply and the cards are drawn again, or it does not.
Reply ==
    /\ replies > 0
    /\ replies' = replies - 1
    /\ \/ Refresh /\ UNCHANGED <<faults, missed>>
       \/ Fault /\ UNCHANGED update
    /\ UNCHANGED <<room, seats, users, shown, events>>

\* /codenames players
Invite(w, u) ==
    /\ u \notin invited[w] /\ Event
    /\ invited' = [invited EXCEPT ![w] = @ \cup {u}]
    /\ replies' = replies + 1
    /\ UNCHANGED <<room, seats, opened, offered, update, shown, faults, missed>>

\* A player enters the room or changes names, and the client gives the view
\* (external).  A view given to an update under way is lost (module RoomUpdates).
Rename(s) ==
    /\ Event
    /\ \E n \in Names \ {room[s]} : room' = [room EXCEPT ![s] = n]
    /\ update' = IF update.pc = "none" THEN Waiting ELSE update
    /\ missed' = (missed \/ update.pc \notin {"none", "waiting"})
    /\ UNCHANGED <<seats, users, replies, shown, faults>>

-----------------------------------------------------------------------------
(***************************************************************************)
(* _auto_claim_invited, for one watch, from the list h of holders and n of *)
(* names: first the seat with the name a member used last, then the seat   *)
(* with a name that the member goes by and no other member does.           *)
(***************************************************************************)
WaitingUsers_All(h, w) == invited[w]
WaitingUsers(h, w) == invited[w] \ Holders(h)
FreeSeats(h, n) == {s \in Seats : h[s] = NoUser /\ n[s] # NoName}

Remembers(h, n, u) == {s \in FreeSeats(h, n) : n[s] = remembered[u]}
\* The first of two members who used the same name last gets the seat.
ByMemory(h, n, w) ==
    {c \in FreeSeats(h, n) \X WaitingUsers(h, w) :
        /\ Remembers(h, n, c[2]) = {c[1]}
        /\ \A v \in WaitingUsers(h, w) : Remembers(h, n, v) = {c[1]} => c[2] <= v}

Called(h, n, w, u) ==
    {s \in FreeSeats(h, n) : Norm[n[s]] \in MemberNames[u] /\ \A c \in ByMemory(h, n, w) : c[1] # s}
Unplaced(h, n, w) == {u \in WaitingUsers(h, w) : \A c \in ByMemory(h, n, w) : c[2] # u}
ByName(h, n, w) ==
    {c \in FreeSeats(h, n) \X Unplaced(h, n, w) :
        \A v \in Unplaced(h, n, w) : Called(h, n, w, v) = {c[1]} <=> v = c[2]}

AutoClaims(h, n, w) == ByMemory(h, n, w) \cup ByName(h, n, w)

-----------------------------------------------------------------------------
(***************************************************************************)
(* update_room, as far as it is about seats.                               *)
(***************************************************************************)
Unmoved == <<room, users, replies, bounds, missed>>

\* The view's names are stored.  A seat that nobody has entered is not in the view.
StoresNames ==
    /\ update.pc = "waiting"
    /\ name' = [s \in Seats |-> IF room[s] = NoName THEN name[s] ELSE room[s]]
    /\ update' = [update EXCEPT !.pc = "list"]
    /\ UNCHANGED <<Unmoved, holder, device, remembered, shown>>

ListsPlayers ==
    /\ update.pc = "list"
    /\ update' = [update EXCEPT !.pc = "claim", !.players = holder, !.names = name, !.todo = Watches]
    /\ UNCHANGED <<Unmoved, seats, shown>>

\* The next watch's members are matched with the list.
MatchesMembers ==
    /\ update.pc = "claim" /\ update.claims = {} /\ update.todo # {}
    /\ \E w \in update.todo :
        update' = [update EXCEPT !.todo = @ \ {w}, !.claims = AutoClaims(update.players, update.names, w)]
    /\ UNCHANGED <<Unmoved, seats, shown>>

\* A seat that somebody has taken since breaks off the whole update.
AutoClaim ==
    /\ update.pc = "claim"
    /\ \E c \in update.claims :
        \/ /\ Free(c[1], c[2])
           /\ Claim(c[1], c[2])
           /\ update' = [update EXCEPT !.claims = @ \ {c}]
           /\ UNCHANGED missed
        \/ /\ ~Free(c[1], c[2])
           /\ update' = NoUpdate
           /\ missed' = TRUE
           /\ UNCHANGED seats
    /\ UNCHANGED <<room, users, replies, bounds, shown>>

\* seat_links reads the seats, then the devices.
ReadsHolders ==
    /\ update.pc = "claim" /\ update.claims = {} /\ update.todo = {}
    /\ update' = [NoUpdate EXCEPT !.pc = "devices", !.players = holder, !.names = update.names]
    /\ UNCHANGED <<Unmoved, seats, shown>>

ReadsDevices ==
    /\ update.pc = "devices"
    /\ update' = [NoUpdate EXCEPT !.pc = "draw", !.todo = Watches, !.links = LinksOf(update.players, device, update.names)]
    /\ UNCHANGED <<Unmoved, seats, shown>>

Draws ==
    /\ update.pc = "draw"
    /\ \E w \in update.todo :
        /\ \/ shown' = [shown EXCEPT ![w] = update.links] /\ UNCHANGED <<faults, missed>>
           \/ Fault /\ UNCHANGED shown
        /\ update' = IF update.todo = {w} THEN NoUpdate ELSE [update EXCEPT !.todo = @ \ {w}]
    /\ UNCHANGED <<room, seats, users, replies, events>>

-----------------------------------------------------------------------------
Updates ==
    \/ StoresNames
    \/ ListsPlayers
    \/ MatchesMembers
    \/ AutoClaim
    \/ ReadsHolders
    \/ ReadsDevices
    \/ Draws

Next ==
    \/ \E u \in Users, s \in Seats : PickSeat(u, s) \/ PickDevice(u, s)
    \/ \E u \in Users : OpenPicker(u) \/ NotPlaying(u) \/ Assign(u)
    \/ \E w \in Watches, u \in Users : Invite(w, u)
    \/ \E s \in Seats : Rename(s)
    \/ Reply
    \/ Updates

\* Replies are answered and the event loop runs the update.
Spec == Init /\ [][Next]_vars /\ WF_vars(Reply) /\ WF_vars(Updates)

-----------------------------------------------------------------------------
\* Nobody holds two seats of a room, whatever members, admins and updates do at once.
HoldsOneSeat == \A s, t \in Seats : holder[s] = holder[t] /\ holder[s] # NoUser => s = t

\* A seat goes from one user to another only when an admin says so: a pick is refused
\* and an automatic claim broken off, also when the list it works from shows the seat free.
OnlyAdminsReplace ==
    [][\A s \in Seats : holder[s] # NoUser /\ holder'[s] \notin {holder[s], NoUser} => \E u \in Users : Assign(u)]_vars

\* An automatic claim takes nothing from anybody who held a seat when the update
\* listed the seats: only a seat claimed since then can change hands or be given up.
AutoClaimsKeepListed ==
    [][AutoClaim => \A s \in Seats : holder[s] # NoUser /\ update.players[s] = holder[s] => holder'[s] = holder[s]]_vars

\* When everybody has done what they do, the cards show who is who, unless a view
\* was lost, a reply or a card refused or an update broken off.
CardsShowLinks == <>[](missed \/ \A w \in Watches : shown[w] = LinksOf(holder, device, room))
===============================================================================

-------------------------- MODULE RoomUpdatesProofs --------------------------
(***************************************************************************)
(* Theorems about RoomUpdates, for any number of matches, turns, keys and  *)
(* faults.                                                                 *)
(***************************************************************************)
EXTENDS RoomUpdates, FiniteSetTheorems, WellFoundedInduction, TLAPS

-----------------------------------------------------------------------------
(* Facts about the operators.                                              *)

\* A set of matches has a latest.
LEMMA LatestOfSome ==
    ASSUME NEW S \in SUBSET Matches, S # {}
    PROVE  \E m \in S : \A n \in S : n <= m
<1> DEFINE T == {MaxMatch - m : m \in S}
<1>1. \A m \in S : m \in Nat /\ MaxMatch - m \in Nat
  BY UpdatesAssumption DEF Matches
<1>2. T \subseteq Nat
  BY <1>1
<1>3. T # {}
  OBVIOUS
<1>4. PICK t \in T : \A y \in T : ~ (<<y, t>> \in OpToRel(<, Nat))
  BY <1>2, <1>3, NatLessThanWellFounded, WFMin
<1>5. \A y \in T : ~ (y < t)
  BY <1>2, <1>4 DEF OpToRel
<1>6. PICK m \in S : t = MaxMatch - m
  OBVIOUS
<1>7. \A n \in S : ~ (MaxMatch - n < MaxMatch - m)
  BY <1>5, <1>6
<1>8. \A n \in S : n <= m
  <2> TAKE n \in S
  <2>1. m \in Nat /\ n \in Nat /\ MaxMatch \in Nat
    BY <1>1, UpdatesAssumption
  <2>2. ~ (MaxMatch - n < MaxMatch - m)
    BY <1>7
  <2> QED
    BY <2>1, <2>2
<1> QED
  BY <1>8

\* The latest game is a match with a row, if there is one.
LEMMA LatestIsOpen ==
    /\ Latest \in Nat
    /\ Latest # 0 => Latest \in Matches
    /\ Latest \in 0 .. MaxMatch
<1>1. CASE Opened = {}
  BY <1>1, UpdatesAssumption DEF Latest
<1>2. CASE Opened # {}
  <2>1. \E m \in Opened : \A n \in Opened : n <= m
    BY <1>2, LatestOfSome DEF Opened
  <2>2. Latest \in Opened
    BY <1>2, <2>1 DEF Latest
  <2>3. Latest \in Matches
    BY <2>2 DEF Opened
  <2> QED
    BY <2>3, UpdatesAssumption DEF Matches
<1> QED
  BY <1>1, <1>2

LEMMA PreviousIsMatch ==
    ASSUME NEW m \in Matches
    PROVE  Previous(m) \in Matches
<1>1. CASE Before(m) = {}
  BY <1>1 DEF Previous
<1>2. CASE Before(m) # {}
  <2>1. Before(m) \subseteq Matches
    BY DEF Before, Opened
  <2>2. \E n \in Before(m) : \A k \in Before(m) : k <= n
    BY <1>2, <2>1, LatestOfSome
  <2>3. Previous(m) \in Before(m)
    BY <1>2, <2>2 DEF Previous
  <2> QED
    BY <2>1, <2>3
<1> QED
  BY <1>1, <1>2

\* NoView is not a state of the room; a game in progress has a turn.
LEMMA ViewFacts ==
    /\ NoView \notin View
    /\ NoView.match = 0 /\ NoView.phase = "lobby" /\ NoView.turn = 0
    /\ \A v \in View : /\ v.match \in Matches
                       /\ v.phase \in Phases
                       /\ v.turn \in 0 .. MaxTurn
                       /\ v.phase = "in_progress" <=> v.turn \in Turns
BY UpdatesAssumption DEF View, NoView, Matches, Turns

LEMMA KeyTypes ==
    ASSUME NEW v \in View \cup {NoView}
    PROVE  TurnKey(v) \in 0 .. Keys
<1>1. CASE v.phase = "in_progress"
  <2>1. v \in View
    BY <1>1, ViewFacts
  <2>2. v.turn - 1 \in Nat
    BY <1>1, <2>1, ViewFacts, UpdatesAssumption DEF Turns
  <2>3. (v.turn - 1) % Keys \in 0 .. (Keys - 1)
    BY <2>2, UpdatesAssumption
  <2> QED
    BY <1>1, <2>3, UpdatesAssumption DEF TurnKey
<1>2. CASE v.phase # "in_progress"
  BY <1>2, UpdatesAssumption DEF TurnKey
<1> QED
  BY <1>1, <1>2

LEMMA NewRows ==
    /\ NoGame \in Game /\ NoGame.lifecycle = "none" /\ NoGame.key = 0 /\ NoGame.ping = 0
    /\ NewGame \in Game /\ NewGame.lifecycle = "lobby" /\ NewGame.key = 0 /\ NewGame.ping = 0
    /\ NewGame # NoGame
BY UpdatesAssumption DEF Game, NoGame, NewGame, Phases

LEMMA RowTypes ==
    ASSUME NEW row \in Game
    PROVE  row.lifecycle \in Phases \cup {"none"} /\ row.key \in 0 .. Keys /\ row.ping \in Nat
BY DEF Game

\* What steps make of a row.
LEMMA WithLifecycleIs ==
    ASSUME NEW row \in Game, NEW l \in Phases
    PROVE  /\ WithLifecycle(row, l) \in Game
           /\ WithLifecycle(row, l).lifecycle = l
           /\ WithLifecycle(row, l).key = row.key
BY DEF Game, WithLifecycle

LEMMA WithPingIs ==
    ASSUME NEW row \in Game, NEW id \in Nat
    PROVE  /\ WithPing(row, id) \in Game
           /\ WithPing(row, id).lifecycle = row.lifecycle
           /\ WithPing(row, id).key = row.key
BY DEF Game, WithPing

LEMMA PingedIs ==
    ASSUME NEW row \in Game, NEW key \in 0 .. Keys, NEW id \in Nat
    PROVE  /\ Pinged(row, key, id) \in Game
           /\ Pinged(row, key, id).lifecycle = row.lifecycle
           /\ Pinged(row, key, id).key = key
BY DEF Game, Pinged

-----------------------------------------------------------------------------
(* Types, in the parts that steps touch together.                          *)
RoomTypes ==
    /\ server \in View
    /\ view \in View \cup {NoView}
    /\ lock \in {"free", "task", "reminder"}

\* An update that has read its view has one.
TaskTypes ==
    /\ tpc \in {"none", "waiting", "lock", "open", "retire", "retired", "start", "card", "unping",
                "unpinged", "act", "send", "sent", "notify"}
    /\ tview \in View \cup {NoView}
    /\ tgame \in Game
    /\ tpc \notin {"none", "waiting"} => tview \in View

\* A reminder is of a turn.
ReminderTypes ==
    /\ rpc \in {"none", "lock", "check", "unping", "unpinged", "send", "sent"}
    /\ rview \in View \cup {NoView}
    /\ rgame \in Game
    /\ rpc # "none" => rview \in View /\ rview.phase = "in_progress"

\* A ping that unwatch deletes is of some game.
UnwatchTypes ==
    /\ upc \in {"none", "unping", "unpinged", "remove", "stop", "done"}
    /\ ugame \in [match : 0 .. MaxMatch, ping : Nat]
    /\ upc \in {"unping", "unpinged"} => ugame.match \in Matches

DatabaseTypes ==
    /\ watched \in BOOLEAN
    /\ games \in [Matches -> Game]
    /\ archived \in [Matches -> Nat]
    /\ recorded \subseteq Matches
    /\ queued \subseteq Matches

DiscordTypes ==
    /\ pings \subseteq [id : Nat \ {0}, match : Matches, turn : Turns]
    /\ lastPing \in Nat
    /\ sent \in [Matches \X Turns -> Nat]
    /\ drawn \in View \cup {NoView}

BoundTypes == faults \in 0 .. MaxEvents /\ reminders \in 0 .. MaxEvents /\ unwatches \in 0 .. MaxEvents

Types ==
    /\ RoomTypes
    /\ TaskTypes
    /\ ReminderTypes
    /\ UnwatchTypes
    /\ DatabaseTypes
    /\ DiscordTypes
    /\ BoundTypes

LEMMA TypesImply == Types => TypeOK
BY DEF Types, RoomTypes, TaskTypes, ReminderTypes, UnwatchTypes, DatabaseTypes, DiscordTypes,
       BoundTypes, TypeOK

LEMMA TypesStart == Init => Types
<1> SUFFICES ASSUME Init PROVE Types
  OBVIOUS
<1>1. RoomTypes
  BY UpdatesAssumption DEF Init, RoomTypes, View, Matches, Phases
<1>2. TaskTypes /\ ReminderTypes /\ UnwatchTypes
  BY NewRows, UpdatesAssumption DEF Init, TaskTypes, ReminderTypes, UnwatchTypes
<1>3. DatabaseTypes
  BY NewRows DEF Init, DatabaseTypes
<1>4. DiscordTypes /\ BoundTypes
  BY UpdatesAssumption DEF Init, DiscordTypes, BoundTypes
<1> QED
  BY <1>1, <1>2, <1>3, <1>4 DEF Types

\* A change of a row keeps the type of the rows.
LEMMA UpdateTypes ==
    ASSUME DatabaseTypes, NEW m \in Matches, NEW row \in Game, Update(m, row)
    PROVE  games' \in [Matches -> Game]
BY DEF DatabaseTypes, Update

\* A fault stays within the bound.
LEMMA FaultTypes ==
    ASSUME BoundTypes, NEW kind, Fault(kind)
    PROVE  faults' \in 0 .. MaxEvents /\ faults' = faults + 1
BY UpdatesAssumption DEF BoundTypes, Fault, MoreEvents

LEMMA DeleteTypes ==
    ASSUME DiscordTypes, BoundTypes, NEW id, DeleteMessage(id)
    PROVE  /\ pings' \subseteq [id : Nat \ {0}, match : Matches, turn : Turns]
           /\ faults' \in 0 .. MaxEvents
           /\ faults' = faults \/ faults' = faults + 1
BY FaultTypes DEF DiscordTypes, BoundTypes, DeleteMessage

LEMMA SendTypes ==
    ASSUME DiscordTypes, BoundTypes, NEW v \in View, v.phase = "in_progress", NEW id, SendMessage(v, id)
    PROVE  /\ pings' \subseteq [id : Nat \ {0}, match : Matches, turn : Turns]
           /\ lastPing' \in Nat
           /\ id \in Nat
           /\ faults' \in 0 .. MaxEvents
           /\ IF id = 0 THEN faults' = faults + 1 ELSE faults' = faults
<1>1. v.match \in Matches /\ v.turn \in Turns
  BY ViewFacts
<1>2. CASE id = lastPing + 1 /\ lastPing' = id /\ UNCHANGED faults
           /\ pings' = pings \cup {[id |-> id, match |-> v.match, turn |-> v.turn]}
  <2>1. id \in Nat \ {0}
    BY <1>2 DEF DiscordTypes
  <2> QED
    BY <1>1, <1>2, <2>1 DEF DiscordTypes, BoundTypes
<1>3. CASE id = 0 /\ Fault("drop") /\ UNCHANGED <<lastPing, pings>>
  BY <1>3, FaultTypes DEF DiscordTypes, BoundTypes
<1> QED
  BY <1>2, <1>3 DEF SendMessage

-----------------------------------------------------------------------------
(* Every step keeps the types.                                             *)
LEMMA TaskKeepsTypes ==
    ASSUME Types, TaskStep
    PROVE  Types'
<1> USE ViewFacts DEF Types, RoomTypes, TaskTypes, ReminderTypes, UnwatchTypes, DatabaseTypes,
        DiscordTypes, BoundTypes, task, reminder, unwatch, database, discord, bounds
<1>1. CASE TaskStarts
  BY <1>1, NewRows DEF TaskStarts, EndTask, Released
<1>2. CASE TaskLocks
  BY <1>2, NewRows DEF TaskLocks, EndTask, Released
<1>3. CASE TaskOpens
  <2>1. tview.match \in Matches /\ Previous(tview.match) \in Matches
    BY <1>3, PreviousIsMatch DEF TaskOpens
  <2> QED
    BY <1>3, <2>1, NewRows DEF TaskOpens, EndTask, Released
<1>4. CASE TaskRetires
  <2> DEFINE prev == Previous(tview.match)
  <2>1. prev \in Matches
    BY <1>4, PreviousIsMatch DEF TaskRetires
  <2>2. WithPing(games[prev], 0) \in Game
    BY <2>1, WithPingIs
  <2> HIDE DEF prev
  <2>3. CASE /\ DeleteMessage(tgame.ping)
             /\ tpc' = "retired"
             /\ UNCHANGED <<games, tgame>>
    BY <1>4, <2>3, DeleteTypes DEF TaskRetires
  <2>4. CASE /\ IF tgame.ping = 0 THEN UNCHANGED games ELSE Update(prev, WithPing(games[prev], 0))
             /\ tgame' = NewGame
             /\ tpc' = "start"
             /\ UNCHANGED <<pings, faults>>
    <3>1. games' \in [Matches -> Game]
      BY <2>1, <2>2, <2>4, UpdateTypes
    <3> QED
      BY <1>4, <2>4, <3>1, NewRows DEF TaskRetires
  <2> QED
    BY <1>4, <2>3, <2>4 DEF TaskRetires, prev
<1>5. CASE TaskStartsGame
  <2>1. tview.match \in Matches
    BY <1>5 DEF TaskStartsGame
  <2>2. /\ WithLifecycle(games[tview.match], "in_progress") \in Game
        /\ WithLifecycle(tgame, "in_progress") \in Game
    BY <2>1, WithLifecycleIs DEF Phases
  <2>3. games' \in [Matches -> Game]
    BY <1>5, <2>1, <2>2, UpdateTypes DEF TaskStartsGame
  <2> QED
    BY <1>5, <2>2, <2>3 DEF TaskStartsGame
<1>6. CASE TaskDraws
  BY <1>6, NewRows, FaultTypes DEF TaskDraws, EndTask, Released
<1>7. CASE TaskUnpings
  <2> DEFINE m == tview.match
  <2>1. m \in Matches
    BY <1>7 DEF TaskUnpings
  <2>2. WithPing(games[m], 0) \in Game /\ WithPing(tgame, 0) \in Game
    BY <2>1, WithPingIs
  <2> HIDE DEF m
  <2>3. CASE /\ DeleteMessage(tgame.ping)
             /\ tpc' = "unpinged"
             /\ UNCHANGED <<games, tgame>>
    BY <1>7, <2>3, DeleteTypes DEF TaskUnpings
  <2>4. CASE /\ IF tgame.ping = 0 THEN UNCHANGED games ELSE Update(m, WithPing(games[m], 0))
             /\ tgame' = WithPing(tgame, 0)
             /\ tpc' = "act"
             /\ UNCHANGED <<pings, faults>>
    <3>1. games' \in [Matches -> Game]
      BY <2>1, <2>2, <2>4, UpdateTypes
    <3> QED
      BY <1>7, <2>2, <2>4, <3>1 DEF TaskUnpings
  <2> QED
    BY <1>7, <2>3, <2>4 DEF TaskUnpings, m
<1>8. CASE TaskFinishes
  <2>1. tview.match \in Matches
    BY <1>8 DEF TaskFinishes
  <2>2. WithLifecycle(games[tview.match], "finished") \in Game
    BY <2>1, WithLifecycleIs DEF Phases
  <2> QED
    BY <1>8, <2>1, <2>2, NewRows DEF TaskFinishes, EndTask, Released
<1>9. CASE TaskNotifies
  BY <1>9, NewRows DEF TaskNotifies, EndTask, Released
<1>10. CASE TaskSends
  <2>1. PICK id \in {0, lastPing + 1} :
          /\ SendMessage(tview, id)
          /\ tgame' = WithPing(tgame, id)
          /\ sent' = [sent EXCEPT ![<<tview.match, tview.turn>>] = IF id = 0 THEN @ ELSE @ + 1]
    BY <1>10 DEF TaskSends
  <2>2. tview \in View /\ tview.phase = "in_progress"
    BY <1>10 DEF TaskSends
  <2>3. /\ pings' \subseteq [id : Nat \ {0}, match : Matches, turn : Turns]
        /\ lastPing' \in Nat
        /\ id \in Nat
        /\ faults' \in 0 .. MaxEvents
    BY <2>1, <2>2, SendTypes
  <2>4. WithPing(tgame, id) \in Game
    BY <2>3, WithPingIs
  <2>5. sent' \in [Matches \X Turns -> Nat]
    <3>1. <<tview.match, tview.turn>> \in Matches \X Turns
      BY <2>2
    <3>2. sent[<<tview.match, tview.turn>>] \in Nat
      BY <3>1
    <3>3. (IF id = 0 THEN sent[<<tview.match, tview.turn>>] ELSE sent[<<tview.match, tview.turn>>] + 1) \in Nat
      BY <3>2
    <3>4. sent \in [Matches \X Turns -> Nat]
      OBVIOUS
    <3> QED
      BY <2>1, <3>1, <3>3, <3>4
  <2> QED
    BY <1>10, <2>1, <2>2, <2>3, <2>4, <2>5 DEF TaskSends
<1>11. CASE TaskSaves
  <2>1. tview.match \in Matches
    BY <1>11 DEF TaskSaves
  <2>2. Pinged(games[tview.match], TurnKey(tview), tgame.ping) \in Game
    BY <2>1, PingedIs, KeyTypes, RowTypes
  <2>3. games' \in [Matches -> Game]
    BY <1>11, <2>1, <2>2, UpdateTypes DEF TaskSaves
  <2> QED
    BY <1>11, <2>3, NewRows DEF TaskSaves, EndTask, Released
<1> QED
  BY <1>1, <1>2, <1>3, <1>4, <1>5, <1>6, <1>7, <1>8, <1>9, <1>10, <1>11 DEF TaskStep

LEMMA ReminderKeepsTypes ==
    ASSUME Types, ReminderStarts \/ ReminderStep \/ ReminderFails
    PROVE  Types'
<1> USE ViewFacts DEF Types, RoomTypes, TaskTypes, ReminderTypes, UnwatchTypes, DatabaseTypes,
        DiscordTypes, BoundTypes, task, reminder, unwatch, database, discord, bounds
<1>1. CASE ReminderStarts
  <2>1. view \in View /\ view.phase = "in_progress"
    BY <1>1 DEF ReminderStarts, TurnKey
  <2> QED
    BY <1>1, <2>1, UpdatesAssumption DEF ReminderStarts, MoreEvents
<1>2. CASE ReminderLocks
  BY <1>2 DEF ReminderLocks
<1>3. CASE ReminderChecks
  BY <1>3, NewRows DEF ReminderChecks, EndReminder, Released
<1>4. CASE ReminderUnpings
  <2> DEFINE m == rview.match
  <2>1. m \in Matches
    BY <1>4 DEF ReminderUnpings
  <2>2. WithPing(games[m], 0) \in Game /\ WithPing(rgame, 0) \in Game
    BY <2>1, WithPingIs
  <2> HIDE DEF m
  <2>3. CASE /\ DeleteMessage(rgame.ping)
             /\ rpc' = "unpinged"
             /\ UNCHANGED <<games, rgame>>
    BY <1>4, <2>3, DeleteTypes DEF ReminderUnpings
  <2>4. CASE /\ IF rgame.ping = 0 THEN UNCHANGED games ELSE Update(m, WithPing(games[m], 0))
             /\ rgame' = WithPing(rgame, 0)
             /\ rpc' = "send"
             /\ UNCHANGED <<pings, faults>>
    <3>1. games' \in [Matches -> Game]
      BY <2>1, <2>2, <2>4, UpdateTypes
    <3> QED
      BY <1>4, <2>2, <2>4, <3>1 DEF ReminderUnpings
  <2> QED
    BY <1>4, <2>3, <2>4 DEF ReminderUnpings, m
<1>5. CASE ReminderSends
  <2>1. PICK id \in {0, lastPing + 1} : SendMessage(rview, id) /\ rgame' = WithPing(rgame, id)
    BY <1>5 DEF ReminderSends
  <2>2. rview \in View /\ rview.phase = "in_progress"
    BY <1>5 DEF ReminderSends
  <2>3. /\ pings' \subseteq [id : Nat \ {0}, match : Matches, turn : Turns]
        /\ lastPing' \in Nat
        /\ id \in Nat
        /\ faults' \in 0 .. MaxEvents
    BY <2>1, <2>2, SendTypes
  <2>4. WithPing(rgame, id) \in Game
    BY <2>3, WithPingIs
  <2> QED
    BY <1>5, <2>1, <2>2, <2>3, <2>4 DEF ReminderSends
<1>6. CASE ReminderSaves
  <2>1. rview.match \in Matches
    BY <1>6 DEF ReminderSaves
  <2>2. WithPing(games[rview.match], rgame.ping) \in Game
    BY <2>1, WithPingIs, RowTypes
  <2>3. games' \in [Matches -> Game]
    BY <1>6, <2>1, <2>2, UpdateTypes DEF ReminderSaves
  <2> QED
    BY <1>6, <2>3, NewRows DEF ReminderSaves, EndReminder, Released
<1>7. CASE ReminderFails
  BY <1>7, NewRows, FaultTypes DEF ReminderFails, EndReminder, Released
<1> QED
  BY <1>1, <1>2, <1>3, <1>4, <1>5, <1>6, <1>7 DEF ReminderStep

LEMMA UnwatchKeepsTypes ==
    ASSUME Types, UnwatchStarts \/ UnwatchStep
    PROVE  Types'
<1> USE ViewFacts DEF Types, RoomTypes, TaskTypes, ReminderTypes, UnwatchTypes, DatabaseTypes,
        DiscordTypes, BoundTypes, task, reminder, unwatch, database, discord, bounds
<1>1. CASE UnwatchStarts
  <2> DEFINE ping == IF Latest = 0 THEN 0 ELSE games[Latest].ping
  <2>1. ping \in Nat
    BY LatestIsOpen, RowTypes
  <2>2. ping # 0 => Latest \in Matches
    BY LatestIsOpen
  <2>3. /\ ugame' = [match |-> Latest, ping |-> ping]
        /\ upc' = IF ping = 0 THEN "remove" ELSE "unping"
    BY <1>1 DEF UnwatchStarts
  <2> HIDE DEF ping
  <2>4. UnwatchTypes'
    BY <2>1, <2>2, <2>3, LatestIsOpen
  <2>5. unwatches' \in 0 .. MaxEvents
    BY <1>1, UpdatesAssumption DEF UnwatchStarts, MoreEvents
  <2> QED
    BY <1>1, <2>4, <2>5 DEF UnwatchStarts
<1>2. CASE UnwatchUnpings
  <2> DEFINE m == ugame.match
  <2>1. m \in Matches
    BY <1>2 DEF UnwatchUnpings
  <2>2. WithPing(games[m], 0) \in Game
    BY <2>1, WithPingIs
  <2> HIDE DEF m
  <2>3. CASE DeleteMessage(ugame.ping) /\ upc' = "unpinged" /\ UNCHANGED games
    BY <1>2, <2>1, <2>3, DeleteTypes DEF UnwatchUnpings, m
  <2>4. CASE Update(m, WithPing(games[m], 0)) /\ upc' = "remove" /\ UNCHANGED <<pings, faults>>
    <3>1. games' \in [Matches -> Game]
      BY <2>1, <2>2, <2>4, UpdateTypes
    <3> QED
      BY <1>2, <2>4, <3>1 DEF UnwatchUnpings
  <2> QED
    BY <1>2, <2>3, <2>4 DEF UnwatchUnpings, m
<1>3. CASE UnwatchRemoves
  <2>1. \A m \in Matches : archived[m] \in Nat /\ archived[m] + 1 \in Nat
    OBVIOUS
  <2>2. archived' \in [Matches -> Nat]
    BY <1>3, <2>1 DEF UnwatchRemoves
  <2>3. games' \in [Matches -> Game]
    BY <1>3, NewRows DEF UnwatchRemoves
  <2>4. watched' \in BOOLEAN
    BY <1>3 DEF UnwatchRemoves
  <2>5. upc' = "stop" /\ UNCHANGED <<server, view, lock, task, reminder, ugame, recorded, queued, discord, bounds>>
    BY <1>3 DEF UnwatchRemoves
  <2>6. DatabaseTypes'
    BY <2>2, <2>3, <2>4, <2>5
  <2> HIDE DEF DatabaseTypes
  <2> QED
    BY <2>5, <2>6
<1>4. CASE UnwatchStops
  BY <1>4, NewRows, UpdatesAssumption DEF UnwatchStops, EndTask, Released
<1> QED
  BY <1>1, <1>2, <1>3, <1>4 DEF UnwatchStep

LEMMA TypesStep ==
    ASSUME Types, [Next]_vars
    PROVE  Types'
<1> USE ViewFacts DEF Types, RoomTypes, TaskTypes, ReminderTypes, UnwatchTypes, DatabaseTypes,
        DiscordTypes, BoundTypes, task, reminder, unwatch, database, discord, bounds
<1>1. CASE Play
  BY <1>1 DEF Play
<1>2. CASE ViewArrives
  BY <1>2 DEF ViewArrives, Schedule
<1>3. CASE Refresh
  BY <1>3, NewRows, FaultTypes DEF Refresh, Released
<1>4. CASE TaskFails
  BY <1>4, NewRows, FaultTypes DEF TaskFails, EndTask, Released
<1>5. CASE Crash
  BY <1>5, NewRows, FaultTypes DEF Crash
<1>6. CASE UNCHANGED vars
  BY <1>6 DEF vars
<1> QED
  BY <1>1, <1>2, <1>3, <1>4, <1>5, <1>6, TaskKeepsTypes, ReminderKeepsTypes, UnwatchKeepsTypes DEF Next

(* The room, the three activities, the rows and the messages keep their
   types.                                                                  *)
THEOREM TypeCorrect == Spec => []TypeOK
BY TypesStart, TypesStep, TypesImply, PTL DEF Spec, Safe

-----------------------------------------------------------------------------
(* Rows and what is archived of them.                                      *)

\* A row without a lifecycle is none; an unwatched room has no rows.
RowsExist ==
    /\ \A m \in Matches : games[m].lifecycle = "none" => games[m] = NoGame
    /\ ~watched => \A m \in Matches : games[m] = NoGame

\* What is archived has finished, as long as the room is watched.
ArchivedFinished ==
    \A m \in Matches :
        /\ archived[m] <= 1
        /\ archived[m] = 1 /\ watched => games[m].lifecycle = "finished"

\* Until the update has used its copy of the row for the lifecycle, no other
\* activity changes that; the row may be gone, though.
CopyTrue ==
    LET row == games[tview.match] IN
    /\ tpc \in {"retire", "retired"} => row = NoGame \/ row.lifecycle = "lobby"
    /\ tpc = "start" => row = NoGame \/ row.lifecycle = tgame.lifecycle

\* unwatch stops the update after it has removed the watch.
StopsAfterRemoval == upc \in {"stop", "done"} => ~watched

RowsSound ==
    /\ RowsExist
    /\ ArchivedFinished
    /\ CopyTrue
    /\ StopsAfterRemoval

\* Lifecycles, and what is archived, stay.
Kept ==
    /\ UNCHANGED <<watched, archived>>
    /\ \A m \in Matches : /\ games'[m].lifecycle = games[m].lifecycle
                          /\ games[m] = NoGame => games'[m] = NoGame

\* The keys of the turns last pinged stay.
KeysKept == \A m \in Matches : games'[m].key = games[m].key

LEMMA UpdateKeeps ==
    ASSUME Types, NEW m \in Matches, NEW row \in Game, row.lifecycle = games[m].lifecycle,
           Update(m, row)
    PROVE  /\ \A n \in Matches : games'[n].lifecycle = games[n].lifecycle
           /\ \A n \in Matches : games[n] = NoGame => games'[n] = NoGame
           /\ row.key = games[m].key => KeysKept
<1>1. games \in [Matches -> Game]
  BY DEF Types, DatabaseTypes
<1> QED
  BY <1>1 DEF Update, KeysKept

\* Most steps keep them: storing and forgetting pings does.
LEMMA QuietSteps ==
    ASSUME Types, [Next]_vars,
           ~ TaskOpens, ~ TaskStartsGame, ~ TaskFinishes, ~ UnwatchRemoves
    PROVE  Kept /\ (TaskSaves \/ KeysKept)
<1> USE DEF Kept, task, reminder, unwatch, database, discord, bounds
<1>0. /\ games \in [Matches -> Game]
      /\ tgame.ping \in Nat /\ rgame.ping \in Nat
  BY RowTypes DEF Types, DatabaseTypes, TaskTypes, ReminderTypes
<1>1. CASE TaskRetires
  <2> DEFINE prev == Previous(tview.match)
  <2>1. prev \in Matches
    BY <1>1, PreviousIsMatch, ViewFacts DEF TaskRetires, Types, TaskTypes
  <2>2. /\ WithPing(games[prev], 0) \in Game
        /\ WithPing(games[prev], 0).lifecycle = games[prev].lifecycle
        /\ WithPing(games[prev], 0).key = games[prev].key
    BY <1>0, <2>1, WithPingIs
  <2>3. UNCHANGED <<watched, archived>> /\ (UNCHANGED games \/ Update(prev, WithPing(games[prev], 0)))
    BY <1>1 DEF TaskRetires
  <2> HIDE DEF prev
  <2> QED
    BY <2>1, <2>2, <2>3, UpdateKeeps DEF KeysKept
<1>2. CASE TaskUnpings
  <2> DEFINE m == tview.match
  <2>1. m \in Matches
    BY <1>2, ViewFacts DEF TaskUnpings, Types, TaskTypes
  <2>2. /\ WithPing(games[m], 0) \in Game
        /\ WithPing(games[m], 0).lifecycle = games[m].lifecycle
        /\ WithPing(games[m], 0).key = games[m].key
    BY <1>0, <2>1, WithPingIs
  <2>3. UNCHANGED <<watched, archived>> /\ (UNCHANGED games \/ Update(m, WithPing(games[m], 0)))
    BY <1>2 DEF TaskUnpings
  <2> HIDE DEF m
  <2> QED
    BY <2>1, <2>2, <2>3, UpdateKeeps DEF KeysKept
<1>3. CASE TaskSaves
  <2> DEFINE m == tview.match
             row == Pinged(games[m], TurnKey(tview), tgame.ping)
  <2>1. m \in Matches
    BY <1>3, ViewFacts DEF TaskSaves, Types, TaskTypes
  <2>2. row \in Game /\ row.lifecycle = games[m].lifecycle
    BY <1>0, <2>1, PingedIs, KeyTypes DEF Types, TaskTypes
  <2>3. UNCHANGED <<watched, archived>> /\ Update(m, row)
    BY <1>3 DEF TaskSaves
  <2> HIDE DEF m, row
  <2> QED
    BY <1>3, <2>1, <2>2, <2>3, UpdateKeeps
<1>4. CASE ReminderUnpings
  <2> DEFINE m == rview.match
  <2>1. m \in Matches
    BY <1>4, ViewFacts DEF ReminderUnpings, Types, ReminderTypes
  <2>2. /\ WithPing(games[m], 0) \in Game
        /\ WithPing(games[m], 0).lifecycle = games[m].lifecycle
        /\ WithPing(games[m], 0).key = games[m].key
    BY <1>0, <2>1, WithPingIs
  <2>3. UNCHANGED <<watched, archived>> /\ (UNCHANGED games \/ Update(m, WithPing(games[m], 0)))
    BY <1>4 DEF ReminderUnpings
  <2> HIDE DEF m
  <2> QED
    BY <2>1, <2>2, <2>3, UpdateKeeps DEF KeysKept
<1>5. CASE ReminderSaves
  <2> DEFINE m == rview.match
             row == WithPing(games[m], rgame.ping)
  <2>1. m \in Matches
    BY <1>5, ViewFacts DEF ReminderSaves, Types, ReminderTypes
  <2>2. row \in Game /\ row.lifecycle = games[m].lifecycle /\ row.key = games[m].key
    BY <1>0, <2>1, WithPingIs
  <2>3. UNCHANGED <<watched, archived>> /\ Update(m, row)
    BY <1>5 DEF ReminderSaves
  <2> HIDE DEF m, row
  <2> QED
    BY <2>1, <2>2, <2>3, UpdateKeeps DEF KeysKept
<1>6. CASE UnwatchUnpings
  <2> DEFINE m == ugame.match
  <2>1. m \in Matches
    BY <1>6 DEF UnwatchUnpings, Types, UnwatchTypes
  <2>2. /\ WithPing(games[m], 0) \in Game
        /\ WithPing(games[m], 0).lifecycle = games[m].lifecycle
        /\ WithPing(games[m], 0).key = games[m].key
    BY <1>0, <2>1, WithPingIs
  <2>3. UNCHANGED <<watched, archived>> /\ (UNCHANGED games \/ Update(m, WithPing(games[m], 0)))
    BY <1>6 DEF UnwatchUnpings
  <2> HIDE DEF m
  <2> QED
    BY <2>1, <2>2, <2>3, UpdateKeeps DEF KeysKept
<1>7. CASE UNCHANGED <<watched, games, archived>>
  BY <1>7 DEF KeysKept
<1>8. ASSUME ~ TaskRetires, ~ TaskUnpings, ~ TaskSaves, ~ ReminderUnpings, ~ ReminderSaves,
             ~ UnwatchUnpings
      PROVE  UNCHANGED <<watched, games, archived>>
  BY <1>8 DEF Next, vars, Play, ViewArrives, Refresh, TaskStep, TaskFails, TaskStarts, TaskLocks,
     TaskDraws, TaskNotifies, TaskSends, ReminderStarts, ReminderStep, ReminderFails,
     ReminderLocks, ReminderChecks, ReminderSends, UnwatchStarts, UnwatchStep, UnwatchStops, Crash
<1> QED
  BY <1>1, <1>2, <1>3, <1>4, <1>5, <1>6, <1>7, <1>8

\* Steps that keep lifecycles keep what is said of rows.
LEMMA RowsKeptSound ==
    ASSUME RowsSound, Kept
    PROVE  RowsExist' /\ ArchivedFinished'
<1>1. (~watched' => ~watched) /\ (watched' => watched)
  BY DEF Kept
<1>2. /\ archived' = archived
      /\ \A m \in Matches : /\ games'[m].lifecycle = games[m].lifecycle
                            /\ games[m] = NoGame => games'[m] = NoGame
  BY DEF Kept
<1>3. \A m \in Matches : games'[m].lifecycle = "none" => games'[m] = NoGame
  BY <1>2 DEF RowsSound, RowsExist
<1>4. ASSUME ~watched' PROVE \A m \in Matches : games'[m] = NoGame
  <2>1. ~watched
    BY <1>1, <1>4
  <2> QED
    BY <1>2, <2>1 DEF RowsSound, RowsExist
<1>5. ASSUME NEW m \in Matches
      PROVE  archived'[m] <= 1 /\ (archived'[m] = 1 /\ watched' => games'[m].lifecycle = "finished")
  <2>1. archived[m] <= 1 /\ (archived[m] = 1 /\ watched => games[m].lifecycle = "finished")
    BY DEF RowsSound, ArchivedFinished
  <2>2. archived'[m] = archived[m] /\ games'[m].lifecycle = games[m].lifecycle
    BY <1>2
  <2> HIDE DEF Kept
  <2> QED
    BY <1>1, <2>1, <2>2
<1> QED
  BY <1>3, <1>4, <1>5 DEF RowsExist, ArchivedFinished

\* A new row, one that has started or finished, and none after an unwatch.
LEMMA OpensSound ==
    ASSUME Types, RowsSound, TaskOpens
    PROVE  RowsSound'
<1> DEFINE m == tview.match
<1>0. /\ games \in [Matches -> Game] /\ m \in Matches
      /\ archived \in [Matches -> Nat]
  BY ViewFacts DEF Types, DatabaseTypes, TaskTypes, TaskOpens
<1>1. UNCHANGED <<watched, archived, upc>>
  BY DEF TaskOpens, database, unwatch
<1>2. (~watched' => ~watched) /\ (watched' => watched)
  BY <1>1
<1>3. StopsAfterRemoval'
  BY <1>1, <1>2 DEF RowsSound, StopsAfterRemoval
<1>4. CASE tpc' = "none" /\ UNCHANGED games
  <2>1. Kept
    BY <1>1, <1>4 DEF Kept
  <2> QED
    BY <1>3, <1>4, <2>1, RowsKeptSound DEF RowsSound, CopyTrue
<1>5. CASE tgame' = games[m] /\ tpc' = "start" /\ UNCHANGED <<games, tview>>
  <2>1. Kept
    BY <1>1, <1>5 DEF Kept
  <2> QED
    BY <1>3, <1>5, <2>1, RowsKeptSound DEF RowsSound, CopyTrue
<1>6. CASE /\ watched /\ games[m] = NoGame
           /\ games' = [games EXCEPT ![m] = NewGame]
           /\ tview' = tview
           /\ tpc' = "start" => tgame' = NewGame
           /\ tpc' \in {"start", "retire"}
  <2>1. games'[m] = NewGame /\ \A n \in Matches \ {m} : games'[n] = games[n]
    BY <1>0, <1>6
  <2>2. RowsExist'
    BY <1>2, <1>6, <2>1, NewRows DEF RowsSound, RowsExist
  <2>3. archived[m] # 1
    BY <1>6, <1>0, NewRows DEF RowsSound, ArchivedFinished
  <2>4. ArchivedFinished'
    BY <1>1, <1>2, <2>1, <2>3 DEF RowsSound, ArchivedFinished
  <2>5. CopyTrue'
    BY <1>6, <2>1, NewRows DEF CopyTrue
  <2> QED
    BY <1>3, <2>2, <2>4, <2>5 DEF RowsSound
<1> QED
  BY <1>4, <1>5, <1>6 DEF TaskOpens, EndTask

LEMMA StartsSound ==
    ASSUME Types, RowsSound, TaskStartsGame
    PROVE  /\ RowsSound'
           /\ \A n \in Matches : games'[n].lifecycle # games[n].lifecycle =>
                /\ games[n].lifecycle = "lobby"
                /\ games'[n].lifecycle = "in_progress"
           /\ UNCHANGED watched
<1> DEFINE m == tview.match
           row == WithLifecycle(games[m], "in_progress")
<1>0. games \in [Matches -> Game] /\ m \in Matches
  BY ViewFacts DEF Types, DatabaseTypes, TaskTypes, TaskStartsGame
<1>1. UNCHANGED <<watched, archived, upc>> /\ tpc = "start" /\ tpc' = "card"
  BY DEF TaskStartsGame, database, unwatch
<1>2. (~watched' => ~watched) /\ (watched' => watched)
  BY <1>1
<1>3. StopsAfterRemoval' /\ CopyTrue'
  BY <1>1, <1>2 DEF RowsSound, StopsAfterRemoval, CopyTrue
<1>4. CASE UNCHANGED games
  <2>1. Kept
    BY <1>1, <1>4 DEF Kept
  <2> QED
    BY <1>1, <1>3, <1>4, <2>1, RowsKeptSound DEF RowsSound
<1>5. CASE games # games' /\ tgame.lifecycle = "lobby" /\ Update(m, row)
  <2>1. games[m] # NoGame /\ games[m].lifecycle = "lobby"
    BY <1>0, <1>1, <1>5 DEF Update, RowsSound, CopyTrue
  <2>2. row.lifecycle = "in_progress"
    BY <1>0, WithLifecycleIs DEF Phases
  <2>3. games'[m] = row /\ \A n \in Matches \ {m} : games'[n] = games[n]
    BY <1>0, <1>5, <2>1 DEF Update
  <2> HIDE DEF row, m
  <2>4. RowsExist'
    BY <1>0, <1>2, <2>1, <2>2, <2>3 DEF RowsSound, RowsExist
  <2>5. ArchivedFinished'
    BY <1>0, <1>1, <1>2, <2>1, <2>2, <2>3 DEF RowsSound, ArchivedFinished
  <2> QED
    BY <1>1, <1>3, <2>1, <2>2, <2>3, <2>4, <2>5 DEF RowsSound
<1> QED
  BY <1>4, <1>5 DEF TaskStartsGame

LEMMA FinishesSound ==
    ASSUME Types, RowsSound, TaskFinishes
    PROVE  /\ RowsSound'
           /\ \A n \in Matches : games'[n].lifecycle # games[n].lifecycle =>
                /\ games'[n].lifecycle = "finished"
                /\ tpc' = "notify" /\ tview'.match = n
           /\ UNCHANGED watched
<1> DEFINE m == tview.match
           row == WithLifecycle(games[m], "finished")
<1>0. games \in [Matches -> Game] /\ m \in Matches /\ archived \in [Matches -> Nat]
  BY ViewFacts DEF Types, DatabaseTypes, TaskTypes, TaskFinishes
<1>1. UNCHANGED <<watched, upc>> /\ tpc' \in {"notify", "none"}
  BY DEF TaskFinishes, EndTask, database, unwatch
<1>2. (~watched' => ~watched) /\ (watched' => watched)
  BY <1>1
<1>3. StopsAfterRemoval' /\ CopyTrue'
  BY <1>1, <1>2 DEF RowsSound, StopsAfterRemoval, CopyTrue
<1>4. CASE UNCHANGED <<games, archived>>
  <2>1. Kept
    BY <1>1, <1>4 DEF Kept
  <2> QED
    BY <1>1, <1>3, <1>4, <2>1, RowsKeptSound DEF RowsSound
<1>5. CASE /\ FinishRecorded(m)
           /\ games' = [games EXCEPT ![m] = row]
           /\ archived' = [archived EXCEPT ![m] = @ + 1]
           /\ tpc' = "notify" /\ tview' = tview
  <2>1. games[m] # NoGame /\ games[m].lifecycle # "finished"
    BY <1>5 DEF FinishRecorded
  <2>2. row.lifecycle = "finished"
    BY <1>0, WithLifecycleIs DEF Phases
  <2>3. /\ games'[m] = row /\ archived'[m] = archived[m] + 1
        /\ \A n \in Matches \ {m} : games'[n] = games[n] /\ archived'[n] = archived[n]
    BY <1>0, <1>5
  <2>4. watched
    BY <1>0, <2>1 DEF RowsSound, RowsExist
  <2>5. archived[m] <= 1 /\ archived[m] # 1
    BY <1>0, <2>1, <2>4 DEF RowsSound, ArchivedFinished
  <2>6. archived'[m] = 1
    BY <1>0, <2>3, <2>5
  <2> HIDE DEF row
  <2>7. RowsExist'
    BY <1>0, <1>2, <2>2, <2>3, <2>4 DEF RowsSound, RowsExist
  <2>8. ArchivedFinished'
    BY <1>0, <1>2, <2>2, <2>3, <2>6 DEF RowsSound, ArchivedFinished
  <2> QED
    BY <1>1, <1>3, <1>5, <2>2, <2>3, <2>7, <2>8 DEF RowsSound
<1> QED
  BY <1>4, <1>5 DEF TaskFinishes

LEMMA RemovesSound ==
    ASSUME Types, RowsSound, UnwatchRemoves
    PROVE  RowsSound' /\ ~watched'
<1>0. archived \in [Matches -> Nat]
  BY DEF Types, DatabaseTypes
<1>1. ~watched' /\ \A m \in Matches : games'[m] = NoGame
  BY DEF UnwatchRemoves
<1>2. ASSUME NEW m \in Matches
      PROVE  archived'[m] <= 1
  <2>1. archived'[m] = IF Unfinished(m) THEN archived[m] + 1 ELSE archived[m]
    BY DEF UnwatchRemoves
  <2>2. archived[m] \in Nat /\ archived[m] <= 1
    BY <1>0 DEF RowsSound, ArchivedFinished
  <2>3. CASE Unfinished(m)
    <3>1. games[m].lifecycle = "in_progress"
      BY <2>3 DEF Unfinished
    <3>2. games[m] # NoGame
      BY <3>1, NewRows
    <3>3. watched
      BY <3>2 DEF RowsSound, RowsExist
    <3>4. archived[m] # 1
      BY <3>1, <3>3 DEF RowsSound, ArchivedFinished
    <3> QED
      BY <2>1, <2>2, <2>3, <3>4
  <2> QED
    BY <2>1, <2>2, <2>3
<1>3. RowsExist' /\ StopsAfterRemoval'
  BY <1>1 DEF RowsExist, StopsAfterRemoval
<1>4. ArchivedFinished'
  BY <1>1, <1>2 DEF ArchivedFinished
<1>5. CopyTrue'
  <2>1. CASE tpc \notin {"retire", "retired", "start"}
    BY <2>1 DEF UnwatchRemoves, task, CopyTrue
  <2>2. CASE tpc \in {"retire", "retired", "start"}
    <3>1. tview \in View /\ tview' = tview
      BY <2>2 DEF UnwatchRemoves, task, Types, TaskTypes
    <3> QED
      BY <1>1, <3>1, ViewFacts DEF CopyTrue
  <2> QED
    BY <2>1, <2>2
<1> QED
  BY <1>1, <1>3, <1>4, <1>5 DEF RowsSound

LEMMA QuietSound ==
    ASSUME Types, RowsSound, [Next]_vars,
           ~ TaskOpens, ~ TaskStartsGame, ~ TaskFinishes, ~ UnwatchRemoves
    PROVE  RowsSound'
<1>1. Kept
  BY QuietSteps
<1>2. RowsExist' /\ ArchivedFinished'
  BY <1>1, RowsKeptSound
<1>3. (watched' => watched) /\ \A m \in Matches : games[m] = NoGame => games'[m] = NoGame
  BY <1>1 DEF Kept
<1>4. \A m \in Matches : games'[m].lifecycle = games[m].lifecycle
  BY <1>1 DEF Kept
<1>5. StopsAfterRemoval'
  <2>1. upc' \in {"stop", "done"} => upc \in {"stop", "done"} \/ ~watched
    BY DEF Next, vars, unwatch, Play, ViewArrives, Refresh, TaskStep, TaskFails, TaskStarts, TaskLocks,
       TaskRetires, TaskDraws, TaskUnpings, TaskNotifies, TaskSends, TaskSaves, ReminderStarts,
       ReminderStep, ReminderFails, ReminderLocks, ReminderChecks, ReminderUnpings, ReminderSends,
       ReminderSaves, UnwatchStarts, UnwatchStep, UnwatchUnpings, UnwatchStops, Crash
  <2> QED
    BY <1>3, <2>1 DEF RowsSound, StopsAfterRemoval
<1>6. tpc \in {"retire", "retired", "start"} => tview.match \in Matches
  BY ViewFacts DEF Types, TaskTypes
<1>7. ASSUME UNCHANGED task PROVE CopyTrue'
  BY <1>3, <1>4, <1>6, <1>7 DEF RowsSound, CopyTrue, task
<1>8. ASSUME tpc' \notin {"retire", "retired", "start"} PROVE CopyTrue'
  BY <1>8 DEF CopyTrue
<1>9. ASSUME TaskRetires PROVE CopyTrue'
  <2>1. /\ tpc \in {"retire", "retired"} /\ tview' = tview
        /\ tpc' = "retired" \/ (tpc' = "start" /\ tgame' = NewGame)
    BY <1>9 DEF TaskRetires
  <2> QED
    BY <1>3, <1>4, <1>6, <2>1, NewRows DEF RowsSound, CopyTrue
<1>10. UNCHANGED task \/ tpc' \notin {"retire", "retired", "start"} \/ TaskRetires
  BY DEF Next, vars, task, Play, ViewArrives, Schedule, Refresh, TaskStep, TaskFails, EndTask, TaskStarts,
     TaskLocks, TaskDraws, TaskUnpings, TaskNotifies, TaskSends, TaskSaves, ReminderStarts,
     ReminderStep, ReminderFails, ReminderLocks, ReminderChecks, ReminderUnpings, ReminderSends,
     ReminderSaves, UnwatchStarts, UnwatchStep, UnwatchUnpings, UnwatchStops, Crash
<1>11. CopyTrue'
  BY <1>7, <1>8, <1>9, <1>10
<1> QED
  BY <1>2, <1>5, <1>11 DEF RowsSound

LEMMA RowsStart == Init => RowsSound
BY NewRows DEF Init, RowsSound, RowsExist, ArchivedFinished, CopyTrue, StopsAfterRemoval

LEMMA RowsStep ==
    ASSUME Types, RowsSound, [Next]_vars
    PROVE  RowsSound'
BY QuietSound, OpensSound, StartsSound, FinishesSound, RemovesSound

LEMMA RowsInvariant == Spec => [](Types /\ RowsSound)
BY TypesStart, TypesStep, RowsStart, RowsStep, PTL DEF Spec, Safe

(* A match is archived once: finish_codenames_game records a row that has
   not finished, remove_codenames_watch one that is in progress, and the
   row that tells them apart goes with the watch.                          *)
THEOREM RecordedOnce == Spec => []ArchivedOnce
<1>1. RowsSound => ArchivedOnce
  BY DEF RowsSound, ArchivedFinished, ArchivedOnce
<1> QED
  BY <1>1, RowsInvariant, PTL

\* No step takes a row back.
LEMMA LifecycleSteps ==
    ASSUME Types, RowsSound, [Next]_vars, watched', NEW m \in Matches
    PROVE  Rank(games[m].lifecycle) <= Rank(games'[m].lifecycle)
<1>0. /\ games[m] \in Game
      /\ games[m].lifecycle \in Phases \cup {"none"}
  BY RowTypes DEF Types, DatabaseTypes
<1>1. /\ Rank("none") = 0 /\ Rank("lobby") = 1 /\ Rank("in_progress") = 2 /\ Rank("finished") = 3
  BY DEF Rank
<1>2. CASE games'[m].lifecycle = games[m].lifecycle
  BY <1>0, <1>1, <1>2 DEF Phases
<1>3. CASE TaskOpens
  <2>1. \/ UNCHANGED games
        \/ games[tview.match] = NoGame /\ games' = [games EXCEPT ![tview.match] = NewGame]
    BY <1>3 DEF TaskOpens
  <2>2. games \in [Matches -> Game]
    BY DEF Types, DatabaseTypes
  <2>3. games'[m] = games[m] \/ (games[m] = NoGame /\ games'[m] = NewGame)
    BY <2>1, <2>2
  <2> QED
    BY <1>1, <1>2, <2>3, NewRows
<1>4. CASE TaskStartsGame
  BY <1>1, <1>2, <1>4, StartsSound
<1>5. CASE TaskFinishes
  <2>1. games'[m].lifecycle # games[m].lifecycle => games'[m].lifecycle = "finished"
    BY <1>5, FinishesSound
  <2> QED
    BY <1>0, <1>1, <1>2, <2>1 DEF Phases
<1>6. CASE UnwatchRemoves
  BY <1>6, RemovesSound
<1>7. ASSUME ~ TaskOpens, ~ TaskStartsGame, ~ TaskFinishes, ~ UnwatchRemoves
      PROVE  games'[m].lifecycle = games[m].lifecycle
  BY <1>7, QuietSteps DEF Kept
<1> QED
  BY <1>2, <1>3, <1>4, <1>5, <1>6, <1>7

(* A row moves on from lobby to in progress to finished: no update takes a
   finished game back, however old the copy of the row it works from.      *)
THEOREM RowsMoveOn == Spec => LifecycleMovesOn
<1>1. Types /\ RowsSound /\ [Next]_vars =>
        [watched' => \A m \in Matches : Rank(games[m].lifecycle) <= Rank(games'[m].lifecycle)]_vars
  BY LifecycleSteps
<1> QED
  BY <1>1, RowsInvariant, PTL DEF Spec, Safe, LifecycleMovesOn

-----------------------------------------------------------------------------
(* Results that are not reported.                                          *)

\* Faults are counted.
LEMMA FaultSteps ==
    ASSUME Types, [Next]_vars
    PROVE  faults' = faults \/ faults' = faults + 1
<1>1. \A kind : Fault(kind) => faults' = faults + 1
  BY DEF Fault
<1>2. \A id : DeleteMessage(id) => faults' = faults \/ faults' = faults + 1
  BY <1>1 DEF DeleteMessage
<1>3. \A v, id : SendMessage(v, id) => faults' = faults \/ faults' = faults + 1
  BY <1>1 DEF SendMessage
<1> QED
  BY <1>1, <1>2, <1>3 DEF Next, vars, bounds, Play, ViewArrives, Refresh, TaskStep, TaskFails, TaskStarts,
     TaskLocks, TaskOpens, TaskRetires, TaskStartsGame, TaskDraws, TaskUnpings, TaskFinishes,
     TaskNotifies, TaskSends, TaskSaves, ReminderStarts, ReminderStep, ReminderFails, ReminderLocks,
     ReminderChecks, ReminderUnpings, ReminderSends, ReminderSaves, UnwatchStarts, UnwatchStep,
     UnwatchUnpings, UnwatchRemoves, UnwatchStops, Crash

\* What is queued stays queued.
LEMMA QueuedStays ==
    ASSUME [Next]_vars
    PROVE  queued \subseteq queued'
BY DEF Next, vars, database, Play, ViewArrives, Refresh, TaskStep, TaskFails, TaskStarts,
   TaskLocks, TaskOpens, TaskRetires, TaskStartsGame, TaskDraws, TaskUnpings, TaskFinishes,
   TaskNotifies, TaskSends, TaskSaves, ReminderStarts, ReminderStep, ReminderFails, ReminderLocks,
   ReminderChecks, ReminderUnpings, ReminderSends, ReminderSaves, UnwatchStarts, UnwatchStep,
   UnwatchUnpings, UnwatchRemoves, UnwatchStops, Crash

\* A game that is recorded is about to be reported.
LEMMA RecordSteps ==
    ASSUME [Next]_vars
    PROVE  /\ recorded \subseteq recorded'
           /\ \A m \in recorded' : m \in recorded \/ (tpc' = "notify" /\ tview'.match = m)
BY DEF Next, vars, database, EndTask, Play, ViewArrives, Refresh, TaskStep, TaskFails, TaskStarts,
   TaskLocks, TaskOpens, TaskRetires, TaskStartsGame, TaskDraws, TaskUnpings, TaskFinishes,
   TaskNotifies, TaskSends, TaskSaves, ReminderStarts, ReminderStep, ReminderFails, ReminderLocks,
   ReminderChecks, ReminderUnpings, ReminderSends, ReminderSaves, UnwatchStarts, UnwatchStep,
   UnwatchUnpings, UnwatchRemoves, UnwatchStops, Crash

\* An unwatch that is through stays so.
LEMMA UnwatchedStays ==
    ASSUME RowsSound, [Next]_vars, upc = "done"
    PROVE  upc' = "done"
BY DEF RowsSound, StopsAfterRemoval, Next, vars, unwatch, Play, ViewArrives, Refresh, TaskStep, TaskFails,
   TaskStarts, TaskLocks, TaskOpens, TaskRetires, TaskStartsGame, TaskDraws, TaskUnpings, TaskFinishes,
   TaskNotifies, TaskSends, TaskSaves, ReminderStarts, ReminderStep, ReminderFails, ReminderLocks,
   ReminderChecks, ReminderUnpings, ReminderSends, ReminderSaves, UnwatchStarts, UnwatchStep,
   UnwatchUnpings, UnwatchRemoves, UnwatchStops, Crash

\* What may have been lost: one result for each fault, and one to an unwatch.
MayBeLost == faults + (IF upc = "done" THEN 1 ELSE 0)

LEMMA MayBeLostGrows ==
    ASSUME Types, RowsSound, [Next]_vars
    PROVE  /\ MayBeLost \in Nat /\ MayBeLost' \in Nat /\ MayBeLost <= MayBeLost'
           /\ faults' = faults + 1 => MayBeLost + 1 <= MayBeLost'
           /\ upc # "done" /\ upc' = "done" => MayBeLost + 1 <= MayBeLost'
<1>1. faults \in Nat /\ (faults' = faults \/ faults' = faults + 1)
  BY FaultSteps DEF Types, BoundTypes
<1>2. CASE upc = "done"
  BY <1>1, <1>2, UnwatchedStays DEF MayBeLost
<1>3. CASE upc # "done"
  BY <1>1, <1>3 DEF MayBeLost
<1> QED
  BY <1>2, <1>3

\* An update that is about to report does so, unless it is lost.
LEMMA NotifySteps ==
    ASSUME [Next]_vars, tpc = "notify", tview.match \notin queued', ~ UnwatchStops
    PROVE  (tpc' = tpc /\ tview' = tview) \/ faults' = faults + 1
<1>1. CASE TaskStep
  BY <1>1 DEF TaskStep, TaskStarts, TaskLocks, TaskOpens, TaskRetires, TaskStartsGame, TaskDraws,
     TaskUnpings, TaskFinishes, TaskNotifies, TaskSends, TaskSaves
<1>2. CASE Refresh \/ TaskFails \/ Crash
  BY <1>2 DEF Refresh, TaskFails, Crash, Fault
<1>3. CASE ViewArrives
  BY <1>3 DEF ViewArrives, Schedule
<1>4. CASE Play \/ ReminderStarts \/ ReminderStep \/ ReminderFails \/ UnwatchStarts \/ UnwatchStep \/ UNCHANGED vars
  BY <1>4 DEF task, vars, Play, ReminderStarts, ReminderStep, ReminderFails, ReminderLocks,
     ReminderChecks, ReminderUnpings, ReminderSends, ReminderSaves, UnwatchStarts, UnwatchStep,
     UnwatchUnpings, UnwatchRemoves
<1> QED
  BY <1>1, <1>2, <1>3, <1>4 DEF Next

LEMMA UnreportedSteps ==
    ASSUME Types, RowsSound, [Next]_vars
    PROVE  \/ Unreported' \subseteq Unreported
           \/ MayBeLost + 1 <= MayBeLost' /\ Unreported' \subseteq Unreported \cup {tview.match}
<1>1. ASSUME NEW m \in Unreported', m \notin Unreported
      PROVE  m = tview.match /\ MayBeLost + 1 <= MayBeLost'
  <2>1. m \in recorded' /\ m \notin queued' /\ ~(tpc' = "notify" /\ tview'.match = m)
    BY <1>1 DEF Unreported
  <2>2. m \in recorded /\ m \notin queued
    BY <2>1, RecordSteps, QueuedStays
  <2>3. tpc = "notify" /\ tview.match = m
    BY <1>1, <2>2 DEF Unreported
  <2>4. UnwatchStops => upc # "done" /\ upc' = "done"
    BY DEF UnwatchStops
  <2>5. tview.match \notin queued' /\ ~(tpc' = tpc /\ tview' = tview)
    BY <2>1, <2>3
  <2>6. faults' = faults + 1 \/ UnwatchStops
    BY <2>3, <2>5, NotifySteps
  <2> QED
    BY <2>3, <2>4, <2>6, MayBeLostGrows
<1> QED
  BY <1>1

\* No more results are lost than that.
LostBounded == IsFiniteSet(Unreported) /\ Cardinality(Unreported) <= MayBeLost

LEMMA LostStart == Init => LostBounded
<1> SUFFICES ASSUME Init PROVE LostBounded
  OBVIOUS
<1>1. Unreported = {} /\ MayBeLost = 0
  BY DEF Init, Unreported, MayBeLost
<1> QED
  BY <1>1, FS_EmptySet DEF LostBounded

LEMMA LostStep ==
    ASSUME Types, RowsSound, LostBounded, [Next]_vars
    PROVE  LostBounded'
<1>1. MayBeLost \in Nat /\ MayBeLost' \in Nat /\ MayBeLost <= MayBeLost'
  BY MayBeLostGrows
<1>2. IsFiniteSet(Unreported) /\ Cardinality(Unreported) \in Nat /\ Cardinality(Unreported) <= MayBeLost
  BY FS_CardinalityType DEF LostBounded
<1>3. CASE Unreported' \subseteq Unreported
  <2>1. IsFiniteSet(Unreported') /\ Cardinality(Unreported') <= Cardinality(Unreported)
    BY <1>2, <1>3, FS_Subset
  <2>2. Cardinality(Unreported') \in Nat
    BY <2>1, FS_CardinalityType
  <2> QED
    BY <1>1, <1>2, <2>1, <2>2 DEF LostBounded
<1>4. CASE MayBeLost + 1 <= MayBeLost' /\ Unreported' \subseteq Unreported \cup {tview.match}
  <2> DEFINE S == Unreported \cup {tview.match}
  <2>1. IsFiniteSet(S) /\ Cardinality(S) <= Cardinality(Unreported) + 1 /\ Cardinality(S) \in Nat
    <3>1. /\ IsFiniteSet(S)
          /\ Cardinality(S) =
               IF tview.match \in Unreported THEN Cardinality(Unreported) ELSE Cardinality(Unreported) + 1
      BY <1>2, FS_AddElement
    <3>2. Cardinality(S) \in Nat
      BY <3>1, FS_CardinalityType
    <3> HIDE DEF S
    <3> QED
      BY <1>2, <3>1, <3>2
  <2>2. IsFiniteSet(Unreported') /\ Cardinality(Unreported') <= Cardinality(S)
    BY <1>4, <2>1, FS_Subset
  <2>3. Cardinality(Unreported') \in Nat
    BY <2>2, FS_CardinalityType
  <2> HIDE DEF S
  <2> QED
    BY <1>1, <1>2, <1>4, <2>1, <2>2, <2>3 DEF LostBounded
<1> QED
  BY <1>3, <1>4, UnreportedSteps

(* Every game that was recorded as finished and is not reported took a
   fault (a crash, a cancelled update or an exception between recording and
   reporting), but for one that an unwatch cancelled there.                *)
THEOREM LossesTakeFaults == Spec => []LostResultsTakeFaults
<1>1. LostBounded => LostResultsTakeFaults
  BY DEF LostBounded, LostResultsTakeFaults, MayBeLost
<1> QED
  BY <1>1, RowsInvariant, LostStart, LostStep, PTL DEF Spec, Safe

-----------------------------------------------------------------------------
(* Turns that are pinged more than once.                                   *)

\* How far a view is into a match: its turn, or past all turns.
Pos(m, v) ==
    IF v.match # m THEN IF v.match < m THEN 0 ELSE MaxTurn + 1
    ELSE IF v.phase = "finished" THEN MaxTurn + 1 ELSE v.turn

\* The key of a turn; no turn has key 0.
KeyOf(t) == IF t = 0 THEN 0 ELSE ((t - 1) % Keys) + 1

\* Views do not go back, and an update never has one newer than the client's.
Ordered ==
    /\ view # NoView => \A m \in Matches : Pos(m, view) <= Pos(m, server)
    /\ tview # NoView => view # NoView
    /\ tview # NoView => \A m \in Matches : Pos(m, tview) <= Pos(m, view)
    /\ tpc = "sent" => tview.phase = "in_progress"

Working == {"retire", "retired", "start", "card", "unping", "unpinged", "act", "sent", "notify"}

\* The row an update works on is there while the room is watched.
RowThere == watched /\ tpc \in Working => games[tview.match].lifecycle # "none"

\* What an update of match m takes for the turn last pinged is L, or it is
\* about to ping a later one.
Knows(m, L) ==
    tview.match = m =>
        /\ tpc \in {"retire", "retired"} => L = 0
        /\ tpc \in {"start", "card"} => tgame.key = KeyOf(L)
        /\ tpc \in {"unping", "unpinged", "act", "sent"} /\ tview.phase = "in_progress" =>
             L < tview.turn

Pinging(m, t) == tpc = "sent" /\ tview.match = m /\ tview.turn = t

\* L is the last turn of the match whose ping was stored (or will never be);
\* later ones were pinged for nothing only when something went wrong.
PingedUpTo(m, L) ==
    /\ watched => games[m].key = KeyOf(L)
    /\ L <= Pos(m, server)
    /\ view # NoView => L <= Pos(m, view)
    /\ tview # NoView => L <= Pos(m, tview)
    /\ Knows(m, L)
    /\ \A t \in Turns : L < t => sent[<<m, t>>] <= faults \/ Pinging(m, t)

PingsSound ==
    /\ Ordered
    /\ RowThere
    /\ ExtraPingsTakeFaults
    /\ \A m \in Matches : \E L \in 0 .. MaxTurn : PingedUpTo(m, L)

LEMMA PosTypes ==
    ASSUME NEW m \in Matches, NEW v \in View
    PROVE  /\ Pos(m, v) \in Nat
           /\ v.match = m /\ v.phase = "in_progress" => Pos(m, v) = v.turn
<1>1. v.match \in Nat /\ v.turn \in Nat /\ m \in Nat /\ MaxTurn \in Nat
  BY ViewFacts, UpdatesAssumption DEF Matches
<1> QED
  BY <1>1 DEF Pos

LEMMA KeyOfTurn ==
    /\ KeyOf(0) = 0
    /\ \A t \in Turns : KeyOf(t) # 0
    /\ \A v \in View : v.phase = "in_progress" => TurnKey(v) = KeyOf(v.turn)
<1>1. \A t \in Turns : t # 0 /\ (t - 1) % Keys \in 0 .. (Keys - 1)
  BY UpdatesAssumption DEF Turns
<1>2. \A t \in Turns : KeyOf(t) # 0
  BY <1>1, UpdatesAssumption DEF KeyOf
<1>3. \A v \in View : v.phase = "in_progress" => v.turn # 0
  BY ViewFacts DEF Turns
<1> QED
  BY <1>2, <1>3 DEF KeyOf, TurnKey

\* The room only goes on.
LEMMA PlayMoves ==
    ASSUME Types, Play, NEW m \in Matches
    PROVE  Pos(m, server) <= Pos(m, server')
<1>1. server \in View /\ server' \in View
  BY DEF Types, RoomTypes, Play
<1>2. /\ server.match \in Nat /\ server.turn \in 0 .. MaxTurn /\ server.phase \in Phases
      /\ server'.match \in Nat /\ server'.turn \in 0 .. MaxTurn /\ server'.phase \in Phases
      /\ m \in Nat /\ MaxTurn \in Nat
  BY <1>1, ViewFacts, UpdatesAssumption DEF Matches
<1>3. server.phase = "lobby" => server.turn = 0
  BY <1>1 DEF View
<1>4. \/ /\ server'.match = server.match
         /\ \/ server.phase = "lobby" /\ server'.phase = "in_progress" /\ server'.turn = 1
            \/ server.phase = "in_progress" /\ server'.phase = "in_progress" /\ server'.turn = server.turn + 1
            \/ server.phase = "in_progress" /\ server'.phase = "finished" /\ server'.turn = 0
      \/ server'.match = server.match + 1 /\ server'.phase = "lobby" /\ server'.turn = 0
  BY DEF Play
<1> QED
  BY <1>2, <1>3, <1>4 DEF Pos, Phases

\* Which views a step changes, and to what.
LEMMA ViewSteps ==
    ASSUME [Next]_vars
    PROVE  /\ \/ server' = server
              \/ Play /\ view' = view /\ tview' = tview
           /\ \/ view' = view
              \/ view' = server /\ server' = server /\ tview' = tview
              \/ view' = NoView /\ tview' = NoView
           /\ \/ tview' = tview
              \/ tview' = NoView
              \/ tview' = view /\ view' = view /\ view # NoView
           /\ tpc' = "sent" => tview' = tview /\ (tpc = "sent" \/ tview.phase = "in_progress")
BY DEF Next, vars, task, Play, ViewArrives, Schedule, Refresh, TaskStep, TaskFails, EndTask, TaskStarts,
   TaskLocks, TaskOpens, TaskRetires, TaskStartsGame, TaskDraws, TaskUnpings, TaskFinishes,
   TaskNotifies, TaskSends, TaskSaves, ReminderStarts, ReminderStep, ReminderFails, ReminderLocks,
   ReminderChecks, ReminderUnpings, ReminderSends, ReminderSaves, UnwatchStarts, UnwatchStep,
   UnwatchUnpings, UnwatchRemoves, UnwatchStops, Crash

\* What every view has passed, every view has passed after the step.
LEMMA PositionsKept ==
    ASSUME Types, Types', [Next]_vars, NEW m \in Matches, NEW L \in 0 .. MaxTurn,
           L <= Pos(m, server),
           view # NoView => L <= Pos(m, view),
           tview # NoView => L <= Pos(m, tview)
    PROVE  /\ L <= Pos(m, server')
           /\ view' # NoView => L <= Pos(m, view')
           /\ tview' # NoView => L <= Pos(m, tview')
<1>1. L <= Pos(m, server')
  <2>1. CASE Play
    <3>1. Pos(m, server) \in Nat /\ Pos(m, server') \in Nat /\ L \in Nat
      BY PosTypes DEF Types, RoomTypes
    <3> QED
      BY <2>1, <3>1, PlayMoves
  <2> QED
    BY <2>1, ViewSteps
<1>2. view' # NoView => L <= Pos(m, view')
  BY ViewSteps
<1>3. tview' # NoView => L <= Pos(m, tview')
  BY ViewSteps
<1> QED
  BY <1>1, <1>2, <1>3

LEMMA OrderedStep ==
    ASSUME Types, Types', Ordered, [Next]_vars
    PROVE  Ordered'
<1>0. /\ server \in View /\ server' \in View
      /\ view # NoView => view \in View
      /\ view' # NoView => view' \in View
      /\ tview # NoView => tview \in View
  BY DEF Types, RoomTypes, TaskTypes
<1>1. ASSUME NEW m \in Matches, view' # NoView
      PROVE  Pos(m, view') <= Pos(m, server')
  <2>1. Pos(m, server) \in Nat /\ Pos(m, server') \in Nat /\ Pos(m, view') \in Nat
    BY <1>0, <1>1, PosTypes
  <2>2. Pos(m, server) <= Pos(m, server')
    <3>1. CASE Play
      BY <3>1, PlayMoves
    <3> QED
      BY <2>1, <3>1, ViewSteps
  <2>3. view' = view \/ view' = server
    BY <1>1, ViewSteps
  <2>4. Pos(m, view') <= Pos(m, server)
    BY <1>1, <2>1, <2>3 DEF Ordered
  <2> QED
    BY <2>1, <2>2, <2>4
<1>2. tview' # NoView => view' # NoView
  BY <1>0, ViewSteps, ViewFacts DEF Ordered
<1>3. ASSUME NEW m \in Matches, tview' # NoView
      PROVE  Pos(m, tview') <= Pos(m, view')
  <2>1. CASE tview' = view /\ view' = view
    <3>1. Pos(m, view) \in Nat
      BY <1>0, <1>3, <2>1, PosTypes
    <3> QED
      BY <2>1, <3>1
  <2>2. CASE tview' = tview
    <3>1. tview # NoView /\ view # NoView /\ Pos(m, tview) <= Pos(m, view)
      BY <1>3, <2>2 DEF Ordered
    <3>2. Pos(m, view) <= Pos(m, server)
      BY <3>1 DEF Ordered
    <3>3. Pos(m, tview) \in Nat /\ Pos(m, view) \in Nat /\ Pos(m, server) \in Nat
      BY <1>0, <3>1, PosTypes
    <3>4. view' = view \/ view' = server
      BY <1>3, ViewSteps
    <3> QED
      BY <2>2, <3>1, <3>2, <3>3, <3>4
  <2> QED
    BY <1>3, <2>1, <2>2, ViewSteps
<1>4. tpc' = "sent" => tview'.phase = "in_progress"
  BY ViewSteps DEF Ordered
<1> QED
  BY <1>1, <1>2, <1>3, <1>4 DEF Ordered

\* An update works on the view it has until it is over.
LEMMA WorkingSteps ==
    ASSUME [Next]_vars, ~ TaskOpens, tpc' \in Working
    PROVE  tpc \in Working /\ tview' = tview
BY DEF Working, Next, vars, task, Play, ViewArrives, Schedule, Refresh, TaskStep, TaskFails, EndTask, TaskStarts,
   TaskLocks, TaskRetires, TaskStartsGame, TaskDraws, TaskUnpings, TaskFinishes,
   TaskNotifies, TaskSends, TaskSaves, ReminderStarts, ReminderStep, ReminderFails, ReminderLocks,
   ReminderChecks, ReminderUnpings, ReminderSends, ReminderSaves, UnwatchStarts, UnwatchStep,
   UnwatchUnpings, UnwatchRemoves, UnwatchStops, Crash

LEMMA RowThereStep ==
    ASSUME Types, RowsSound, RowThere, [Next]_vars
    PROVE  RowThere'
<1> SUFFICES ASSUME watched', tpc' \in Working
             PROVE  games'[tview'.match].lifecycle # "none"
  BY DEF RowThere
<1>0. games \in [Matches -> Game]
  BY DEF Types, DatabaseTypes
<1>1. CASE TaskOpens
  <2>1. tview.match \in Matches
    BY <1>1, ViewFacts DEF TaskOpens, Types, TaskTypes
  <2>2. tview' = tview
    BY <1>1 DEF TaskOpens, EndTask, Working
  <2>3. \/ UNCHANGED games /\ games[tview.match] # NoGame
        \/ games' = [games EXCEPT ![tview.match] = NewGame]
    BY <1>1 DEF TaskOpens, EndTask, Working
  <2> QED
    BY <1>0, <2>1, <2>2, <2>3, NewRows DEF RowsSound, RowsExist
<1>2. ASSUME ~ TaskOpens PROVE games'[tview'.match].lifecycle # "none"
  <2>1. tpc \in Working /\ tview' = tview
    BY <1>2, WorkingSteps
  <2>2. tview.match \in Matches
    BY <2>1, ViewFacts DEF Types, TaskTypes, Working
  <2>3. CASE TaskStartsGame
    <3>1. watched
      BY <2>3, StartsSound
    <3>2. games[tview.match].lifecycle # "none"
      BY <2>1, <3>1 DEF RowThere
    <3> QED
      BY <2>1, <2>2, <2>3, <3>2, StartsSound
  <2>4. CASE TaskFinishes
    <3>1. watched
      BY <2>4, FinishesSound
    <3>2. games[tview.match].lifecycle # "none"
      BY <2>1, <3>1 DEF RowThere
    <3> QED
      BY <2>1, <2>2, <2>4, <3>2, FinishesSound
  <2>5. CASE UnwatchRemoves
    BY <2>5, RemovesSound
  <2>6. ASSUME ~ TaskStartsGame, ~ TaskFinishes, ~ UnwatchRemoves
        PROVE  games'[tview'.match].lifecycle # "none"
    <3>1. Kept
      BY <1>2, <2>6, QuietSteps
    <3>2. watched
      BY <3>1 DEF Kept
    <3>3. games[tview.match].lifecycle # "none"
      BY <2>1, <3>2 DEF RowThere
    <3> QED
      BY <2>1, <2>2, <3>1, <3>3 DEF Kept
  <2> QED
    BY <2>3, <2>4, <2>5, <2>6
<1> QED
  BY <1>1, <1>2

\* Most steps keep the keys, and only _send_turn_ping pings a turn.
LEMMA KeySteps ==
    ASSUME Types, [Next]_vars, ~ TaskOpens, ~ TaskSaves, ~ UnwatchRemoves
    PROVE  UNCHANGED watched /\ KeysKept
<1>0. games \in [Matches -> Game]
  BY DEF Types, DatabaseTypes
<1>1. CASE TaskStartsGame
  <2> DEFINE m == tview.match
             row == WithLifecycle(games[m], "in_progress")
  <2>1. m \in Matches
    BY <1>1, ViewFacts DEF TaskStartsGame, Types, TaskTypes
  <2>2. row.key = games[m].key
    BY <1>0, <2>1, WithLifecycleIs DEF Phases
  <2>3. UNCHANGED watched /\ (UNCHANGED games \/ Update(m, row))
    BY <1>1 DEF TaskStartsGame
  <2> HIDE DEF m, row
  <2> QED
    BY <1>0, <2>1, <2>2, <2>3 DEF Update, KeysKept
<1>2. CASE TaskFinishes
  <2> DEFINE m == tview.match
             row == WithLifecycle(games[m], "finished")
  <2>1. m \in Matches
    BY <1>2, ViewFacts DEF TaskFinishes, Types, TaskTypes
  <2>2. row.key = games[m].key
    BY <1>0, <2>1, WithLifecycleIs DEF Phases
  <2>3. UNCHANGED watched /\ (UNCHANGED games \/ games' = [games EXCEPT ![m] = row])
    BY <1>2 DEF TaskFinishes
  <2> HIDE DEF m, row
  <2> QED
    BY <1>0, <2>1, <2>2, <2>3 DEF KeysKept
<1>3. ASSUME ~ TaskStartsGame, ~ TaskFinishes PROVE UNCHANGED watched /\ KeysKept
  BY <1>3, QuietSteps DEF Kept
<1> QED
  BY <1>1, <1>2, <1>3

LEMMA SentSteps ==
    ASSUME [Next]_vars, ~ TaskSends
    PROVE  sent' = sent
BY DEF Next, vars, discord, Play, ViewArrives, Refresh, TaskStep, TaskFails, TaskStarts,
   TaskLocks, TaskOpens, TaskRetires, TaskStartsGame, TaskDraws, TaskUnpings, TaskFinishes,
   TaskNotifies, TaskSaves, ReminderStarts, ReminderStep, ReminderFails, ReminderLocks,
   ReminderChecks, ReminderUnpings, ReminderSends, ReminderSaves, UnwatchStarts, UnwatchStep,
   UnwatchUnpings, UnwatchRemoves, UnwatchStops, Crash

\* A ping that was sent is stored, but for a fault or an unwatch.
LEMMA SavingSteps ==
    ASSUME [Next]_vars, tpc = "sent"
    PROVE  \/ tpc' = "sent" /\ tview' = tview
           \/ faults' = faults + 1
           \/ TaskSaves
           \/ UnwatchStops
BY DEF Next, vars, task, Play, ViewArrives, Schedule, Refresh, Fault, TaskStep, TaskFails, TaskStarts,
   TaskLocks, TaskOpens, TaskRetires, TaskStartsGame, TaskDraws, TaskUnpings, TaskFinishes,
   TaskNotifies, TaskSends, ReminderStarts, ReminderStep, ReminderFails, ReminderLocks,
   ReminderChecks, ReminderUnpings, ReminderSends, ReminderSaves, UnwatchStarts, UnwatchStep,
   UnwatchUnpings, UnwatchRemoves, Crash

\* How an update that works on a match goes on.
KnowingSteps ==
    \/ UNCHANGED task
    \/ tpc' \notin Working
    \/ tpc' = "notify"
    \/ TaskRetires
    \/ TaskStartsGame
    \/ TaskDraws
    \/ TaskUnpings
    \/ TaskSends

LEMMA KnowingStepsAre ==
    ASSUME [Next]_vars, ~ TaskOpens, Types
    PROVE  KnowingSteps
BY DEF Next, vars, task, KnowingSteps, Working, Play, ViewArrives, Schedule, Refresh, TaskStep, TaskFails,
   EndTask, TaskStarts, TaskLocks, TaskFinishes, TaskNotifies, TaskSaves, ReminderStarts, ReminderStep,
   ReminderFails, ReminderLocks, ReminderChecks, ReminderUnpings, ReminderSends, ReminderSaves,
   UnwatchStarts, UnwatchStep, UnwatchUnpings, UnwatchRemoves, UnwatchStops, Crash

\* It goes on knowing which turn was pinged last, and that it pings a later one.
LEMMA KnowsStep ==
    ASSUME Types, [Next]_vars, ~ TaskOpens, NEW m \in Matches, NEW L \in 0 .. MaxTurn,
           Knows(m, L), tview # NoView => L <= Pos(m, tview)
    PROVE  Knows(m, L)'
<1>0. tgame \in Game /\ (tpc \in Working => tview \in View /\ tview # NoView)
  BY ViewFacts DEF Types, TaskTypes, Working
<1>1. CASE UNCHANGED task
  BY <1>1 DEF Knows, task
<1>2. CASE tpc' \notin Working \/ tpc' = "notify"
  BY <1>2 DEF Knows, Working
<1>3. CASE TaskRetires
  <2>1. /\ tpc \in {"retire", "retired"} /\ tview' = tview
        /\ tpc' = "retired" \/ (tpc' = "start" /\ tgame' = NewGame)
    BY <1>3 DEF TaskRetires
  <2> QED
    BY <2>1, NewRows, KeyOfTurn DEF Knows
<1>4. CASE TaskStartsGame
  <2>1. WithLifecycle(tgame, "in_progress").key = tgame.key
    BY <1>0, WithLifecycleIs DEF Phases
  <2>2. tpc = "start" /\ tpc' = "card" /\ tview' = tview /\ tgame'.key = tgame.key
    BY <1>4, <2>1 DEF TaskStartsGame
  <2> QED
    BY <2>2 DEF Knows
<1>5. CASE TaskDraws
  <2>1. tpc = "card" /\ (tpc' = "none" \/ (tpc' = "unping" /\ tview' = tview /\ ToDo))
    BY <1>5 DEF TaskDraws, EndTask
  <2>2. CASE tpc' = "none"
    BY <2>2 DEF Knows
  <2>3. CASE tpc' = "unping" /\ tview' = tview /\ ToDo
    <3> SUFFICES ASSUME tview.match = m, tview.phase = "in_progress" PROVE L < tview.turn
      BY <2>3 DEF Knows
    <3>1. tview \in View /\ L <= Pos(m, tview)
      BY <1>0, <2>1 DEF Working
    <3>2. Pos(m, tview) = tview.turn /\ tview.turn \in Nat
      BY <3>1, PosTypes
    <3>3. TurnKey(tview) # tgame.key
      BY <2>3 DEF ToDo, TurnChanged
    <3>4. KeyOf(tview.turn) # KeyOf(L)
      BY <2>1, <3>1, <3>3, KeyOfTurn DEF Knows
    <3> QED
      BY <3>1, <3>2, <3>4
  <2> QED
    BY <2>1, <2>2, <2>3
<1>6. CASE TaskUnpings
  <2>1. tpc \in {"unping", "unpinged"} /\ tpc' \in {"unpinged", "act"} /\ tview' = tview
    BY <1>6 DEF TaskUnpings
  <2> QED
    BY <2>1 DEF Knows
<1>7. CASE TaskSends
  <2>1. tpc = "act" /\ tpc' = "sent" /\ tview' = tview
    BY <1>7 DEF TaskSends
  <2> QED
    BY <2>1 DEF Knows
<1> QED
  BY <1>1, <1>2, <1>3, <1>4, <1>5, <1>6, <1>7, KnowingStepsAre DEF KnowingSteps

\* Sending a ping adds one to those of the update's turn, or is a fault.
LEMMA SendSteps ==
    ASSUME Types, TaskSends
    PROVE  /\ tpc = "act" /\ tpc' = "sent" /\ tview' = tview
           /\ tview \in View /\ tview.phase = "in_progress"
           /\ \A m \in Matches, t \in Turns :
                IF m = tview.match /\ t = tview.turn
                THEN sent'[<<m, t>>] = sent[<<m, t>>] \/ sent'[<<m, t>>] = sent[<<m, t>>] + 1
                ELSE sent'[<<m, t>>] = sent[<<m, t>>]
<1>1. tpc = "act" /\ tpc' = "sent" /\ tview' = tview /\ tview.phase = "in_progress"
  BY DEF TaskSends
<1>2. tview \in View
  BY <1>1 DEF Types, TaskTypes
<1>3. PICK id : sent' = [sent EXCEPT ![<<tview.match, tview.turn>>] = IF id = 0 THEN @ ELSE @ + 1]
  BY DEF TaskSends
<1>4. sent \in [Matches \X Turns -> Nat]
  BY DEF Types, DiscordTypes
<1> QED
  BY <1>1, <1>2, <1>3, <1>4

\* The row whose ping is stored has the turn's key, if it is still there.
LEMMA SaveSteps ==
    ASSUME Types, RowsSound, RowThere, TaskSaves
    PROVE  /\ tpc = "sent" /\ tpc' = "none" /\ tview' = NoView
           /\ UNCHANGED watched
           /\ \A m \in Matches : m # tview.match => games'[m].key = games[m].key
           /\ watched => games'[tview.match].key = TurnKey(tview)
<1> DEFINE m == tview.match
           row == Pinged(games[m], TurnKey(tview), tgame.ping)
<1>1. tpc = "sent" /\ tpc' = "none" /\ tview' = NoView /\ UNCHANGED watched /\ Update(m, row)
  BY DEF TaskSaves, EndTask
<1>2. m \in Matches /\ games \in [Matches -> Game] /\ tgame.ping \in Nat
  BY <1>1, ViewFacts, RowTypes DEF Types, TaskTypes, DatabaseTypes
<1>3. row.key = TurnKey(tview)
  BY <1>2, PingedIs, KeyTypes DEF Types, TaskTypes
<1>4. watched => games[m] # NoGame
  BY <1>1, NewRows DEF RowThere, Working
<1> HIDE DEF row
<1>5. \A n \in Matches : n # m => games'[n].key = games[n].key
  BY <1>1, <1>2 DEF Update
<1>6. watched => games'[m].key = TurnKey(tview)
  BY <1>1, <1>2, <1>3, <1>4 DEF Update
<1> QED
  BY <1>1, <1>5, <1>6

\* A row that is opened has the key of its last ping, none if it is new.
LEMMA OpenSteps ==
    ASSUME Types, TaskOpens, NEW m \in Matches, NEW L \in 0 .. MaxTurn, PingedUpTo(m, L)
    PROVE  /\ watched' => games'[m].key = KeyOf(L)
           /\ Knows(m, L)'
           /\ tpc = "open"
<1>0. games \in [Matches -> Game] /\ tview.match \in Matches
  BY ViewFacts DEF Types, DatabaseTypes, TaskTypes, TaskOpens
<1>1. (watched' => watched) /\ tpc = "open"
  BY DEF TaskOpens
<1>2. watched => games[m].key = KeyOf(L)
  BY DEF PingedUpTo
<1>3. CASE tpc' = "none" /\ UNCHANGED games
  BY <1>1, <1>2, <1>3 DEF Knows
<1>4. CASE /\ watched /\ tgame' = games[tview.match] /\ tpc' = "start"
           /\ UNCHANGED <<games, tview>>
  BY <1>1, <1>2, <1>4 DEF Knows
<1>5. CASE /\ watched /\ games[tview.match] = NoGame
           /\ games' = [games EXCEPT ![tview.match] = NewGame]
           /\ tpc' = "retire" \/ (tpc' = "start" /\ tgame' = NewGame)
           /\ tview' = tview
  <2>1. games'[m].key = games[m].key
    BY <1>0, <1>5, NewRows
  <2>2. tview.match = m => KeyOf(L) = 0
    BY <1>2, <1>5, NewRows
  <2>3. tview.match = m => L = 0
    <3>1. L \in Turns \/ L = 0
      BY UpdatesAssumption DEF Turns
    <3> QED
      BY <2>2, <3>1, KeyOfTurn
  <2>4. Knows(m, L)'
    BY <1>5, <2>2, <2>3, NewRows DEF Knows
  <2> QED
    BY <1>1, <1>2, <1>5, <2>1, <2>4
<1> QED
  BY <1>1, <1>3, <1>4, <1>5 DEF TaskOpens, EndTask

LEMMA ExtraStep ==
    ASSUME Types, PingsSound, [Next]_vars
    PROVE  ExtraPingsTakeFaults'
<1>1. faults \in Nat /\ (faults' = faults \/ faults' = faults + 1)
  BY FaultSteps DEF Types, BoundTypes
<1>2. \A m \in Matches, t \in Turns : sent[<<m, t>>] \in Nat /\ sent[<<m, t>>] <= 1 + faults
  BY DEF PingsSound, ExtraPingsTakeFaults, Types, DiscordTypes
<1>3. CASE TaskSends
  <2> SUFFICES ASSUME NEW m \in Matches, NEW t \in Turns
               PROVE  sent'[<<m, t>>] <= 1 + faults'
    BY DEF ExtraPingsTakeFaults
  <2>1. CASE m = tview.match /\ t = tview.turn
    <3>1. PICK L \in 0 .. MaxTurn : PingedUpTo(m, L)
      BY DEF PingsSound
    <3>2. tpc = "act" /\ tview.phase = "in_progress"
      BY <1>3, SendSteps
    <3>3. L < t
      BY <2>1, <3>1, <3>2 DEF PingedUpTo, Knows
    <3>4. sent[<<m, t>>] <= faults
      BY <3>1, <3>2, <3>3 DEF PingedUpTo, Pinging
    <3>5. sent'[<<m, t>>] = sent[<<m, t>>] \/ sent'[<<m, t>>] = sent[<<m, t>>] + 1
      BY <1>3, <2>1, SendSteps
    <3> QED
      BY <1>1, <1>2, <3>4, <3>5
  <2>2. CASE ~(m = tview.match /\ t = tview.turn)
    <3>1. sent'[<<m, t>>] = sent[<<m, t>>]
      BY <1>3, <2>2, SendSteps
    <3> QED
      BY <1>1, <1>2, <3>1
  <2> QED
    BY <2>1, <2>2
<1>4. CASE ~ TaskSends
  <2>1. sent' = sent
    BY <1>4, SentSteps
  <2>2. ASSUME NEW m \in Matches, NEW t \in Turns
        PROVE  sent'[<<m, t>>] <= 1 + faults'
    <3>1. sent[<<m, t>>] \in Nat /\ sent[<<m, t>>] <= 1 + faults
      BY <1>2
    <3> QED
      BY <1>1, <2>1, <3>1
  <2> QED
    BY <2>2 DEF ExtraPingsTakeFaults
<1> QED
  BY <1>3, <1>4

LEMMA PingedStep ==
    ASSUME Types, Types', RowsSound, PingsSound, [Next]_vars, NEW m \in Matches
    PROVE  \E L \in 0 .. MaxTurn : PingedUpTo(m, L)'
<1>0. PICK L \in 0 .. MaxTurn : PingedUpTo(m, L)
  BY DEF PingsSound
<1>1. faults \in Nat /\ (faults' = faults \/ faults' = faults + 1)
  BY FaultSteps DEF Types, BoundTypes
<1>2. \A t \in Turns : sent[<<m, t>>] \in Nat /\ sent[<<m, t>>] <= 1 + faults
  BY DEF PingsSound, ExtraPingsTakeFaults, Types, DiscordTypes
<1>3. /\ L <= Pos(m, server)
      /\ view # NoView => L <= Pos(m, view)
      /\ tview # NoView => L <= Pos(m, tview)
      /\ watched => games[m].key = KeyOf(L)
      /\ Knows(m, L)
      /\ \A t \in Turns : L < t => sent[<<m, t>>] <= faults \/ Pinging(m, t)
  BY <1>0 DEF PingedUpTo
<1>4. /\ L <= Pos(m, server')
      /\ view' # NoView => L <= Pos(m, view')
      /\ tview' # NoView => L <= Pos(m, tview')
  BY <1>3, PositionsKept
<1>5. CASE TaskSends
  <2>1. UNCHANGED watched /\ KeysKept /\ ~ TaskOpens
    <3>1. ~ TaskOpens /\ ~ TaskSaves /\ ~ UnwatchRemoves
      BY <1>5 DEF TaskSends, TaskOpens, TaskSaves, UnwatchRemoves, unwatch, database
    <3> QED
      BY <3>1, KeySteps
  <2>2. watched' => games'[m].key = KeyOf(L)
    BY <1>3, <2>1 DEF KeysKept
  <2>3. Knows(m, L)'
    BY <1>3, <2>1, KnowsStep
  <2>4. ASSUME NEW t \in Turns, L < t, ~ Pinging(m, t)'
        PROVE  sent'[<<m, t>>] <= faults'
    <3>1. tpc = "act" /\ ~(m = tview.match /\ t = tview.turn)
      BY <1>5, <2>4, SendSteps DEF Pinging
    <3>2. sent'[<<m, t>>] = sent[<<m, t>>]
      BY <1>5, <3>1, SendSteps
    <3>3. sent[<<m, t>>] <= faults
      BY <1>3, <2>4, <3>1 DEF Pinging
    <3> QED
      BY <1>1, <1>2, <3>2, <3>3
  <2>5. PingedUpTo(m, L)'
    BY <1>4, <2>2, <2>3, <2>4 DEF PingedUpTo
  <2> QED
    BY <2>5
<1>6. CASE ~ TaskSends /\ tpc = "sent" /\ tview.match = m /\ (TaskSaves \/ UnwatchStops)
  <2>1. tview \in View /\ tview # NoView /\ tview.phase = "in_progress"
    BY <1>6, ViewFacts DEF Types, TaskTypes, PingsSound, Ordered
  <2> PICK K \in 0 .. MaxTurn : K = tview.turn
    BY <2>1, ViewFacts
  <2>2. Pos(m, tview) = K /\ L < K /\ K = tview.turn
    BY <1>3, <1>6, <2>1, PosTypes DEF Knows
  <2>3. K <= Pos(m, view) /\ K <= Pos(m, server)
    <3>1. view # NoView /\ Pos(m, tview) <= Pos(m, view) /\ Pos(m, view) <= Pos(m, server)
      BY <2>1 DEF PingsSound, Ordered
    <3>2. Pos(m, view) \in Nat /\ Pos(m, server) \in Nat /\ K \in Nat
      BY <2>2, <3>1, PosTypes DEF Types, RoomTypes
    <3> QED
      BY <2>2, <3>1, <3>2
  <2>4. /\ K <= Pos(m, server')
        /\ view' # NoView => K <= Pos(m, view')
        /\ tview' # NoView => K <= Pos(m, tview')
    <3>1. K <= Pos(m, tview)
      BY <2>2
    <3> QED
      BY <2>2, <2>3, <3>1, PositionsKept
  <2>5. tview' = NoView /\ tpc' = "none"
    BY <1>6 DEF TaskSaves, UnwatchStops, EndTask
  <2>6. Knows(m, K)'
    BY <2>5 DEF Knows
  <2>7. watched' => games'[m].key = KeyOf(K)
    <3>1. CASE TaskSaves
      <4>1. (watched' => watched) /\ (watched => games'[m].key = TurnKey(tview))
        BY <1>6, <3>1, SaveSteps DEF PingsSound
      <4> QED
        BY <2>1, <4>1, KeyOfTurn
    <3>2. CASE UnwatchStops
      <4>1. ~ watched'
        BY <3>2 DEF UnwatchStops, database, RowsSound, StopsAfterRemoval
      <4> QED
        BY <4>1
    <3> QED
      BY <1>6, <3>1, <3>2
  <2>8. ASSUME NEW t \in Turns, K < t
        PROVE  sent'[<<m, t>>] <= faults'
    <3>1. sent' = sent
      BY <1>6, SentSteps
    <3>2. L < t /\ t # tview.turn
      BY <2>2, <2>8 DEF Turns
    <3>3. sent[<<m, t>>] <= faults
      BY <1>3, <3>2 DEF Pinging
    <3> QED
      BY <1>1, <1>2, <3>1, <3>3
  <2>9. PingedUpTo(m, K)'
    BY <2>4, <2>6, <2>7, <2>8 DEF PingedUpTo
  <2> QED
    BY <2>9
<1>7. CASE ~ TaskSends /\ ~(tpc = "sent" /\ tview.match = m /\ (TaskSaves \/ UnwatchStops))
  <2>1. sent' = sent
    BY <1>7, SentSteps
  <2>2. watched' => games'[m].key = KeyOf(L)
    <3>1. CASE TaskOpens
      BY <1>0, <3>1, OpenSteps
    <3>2. CASE TaskSaves
      <4>1. (watched' => watched) /\ (m # tview.match => games'[m].key = games[m].key) /\ tpc = "sent"
        BY <3>2, SaveSteps DEF PingsSound
      <4> QED
        BY <1>3, <1>7, <3>2, <4>1
    <3>3. CASE UnwatchRemoves
      BY <3>3, RemovesSound
    <3>4. ASSUME ~ TaskOpens, ~ TaskSaves, ~ UnwatchRemoves
          PROVE  watched' => games'[m].key = KeyOf(L)
      <4>1. (watched' => watched) /\ games'[m].key = games[m].key
        BY <3>4, KeySteps DEF KeysKept
      <4> QED
        BY <1>3, <4>1
    <3> QED
      BY <3>1, <3>2, <3>3, <3>4
  <2>3. Knows(m, L)'
    <3>1. CASE TaskOpens
      BY <1>0, <3>1, OpenSteps
    <3>2. CASE ~ TaskOpens
      BY <1>3, <3>2, KnowsStep
    <3> QED
      BY <3>1, <3>2
  <2>4. ASSUME NEW t \in Turns, L < t, ~ Pinging(m, t)'
        PROVE  sent'[<<m, t>>] <= faults'
    <3>1. CASE Pinging(m, t)
      <4>1. faults' = faults + 1
        BY <1>7, <2>4, <3>1, SavingSteps DEF Pinging
      <4> QED
        BY <1>1, <1>2, <2>1, <4>1
    <3>2. CASE ~ Pinging(m, t)
      <4>1. sent[<<m, t>>] <= faults
        BY <1>3, <2>4, <3>2
      <4> QED
        BY <1>1, <1>2, <2>1, <4>1
    <3> QED
      BY <3>1, <3>2
  <2>5. PingedUpTo(m, L)'
    BY <1>4, <2>2, <2>3, <2>4 DEF PingedUpTo
  <2> QED
    BY <2>5
<1> QED
  BY <1>5, <1>6, <1>7

LEMMA PingsStart == Init => PingsSound
<1> SUFFICES ASSUME Init PROVE PingsSound
  OBVIOUS
<1>1. Types
  BY TypesStart
<1>2. Ordered /\ RowThere
  BY DEF Init, Ordered, RowThere, Working
<1>3. ExtraPingsTakeFaults
  BY DEF Init, ExtraPingsTakeFaults
<1>4. ASSUME NEW m \in Matches PROVE PingedUpTo(m, 0)
  <2>1. 0 <= Pos(m, server)
    BY <1>1, PosTypes DEF Types, RoomTypes
  <2>2. games[m].key = KeyOf(0)
    BY NewRows, KeyOfTurn DEF Init
  <2>3. Knows(m, 0)
    BY DEF Init, Knows
  <2>4. \A t \in Turns : sent[<<m, t>>] <= faults
    BY DEF Init
  <2>5. view = NoView /\ tview = NoView
    BY DEF Init
  <2> QED
    BY <2>1, <2>2, <2>3, <2>4, <2>5 DEF PingedUpTo
<1>5. 0 \in 0 .. MaxTurn
  BY UpdatesAssumption
<1> QED
  BY <1>2, <1>3, <1>4, <1>5 DEF PingsSound

LEMMA PingsStep ==
    ASSUME Types, Types', RowsSound, PingsSound, [Next]_vars
    PROVE  PingsSound'
<1>1. Ordered'
  BY OrderedStep DEF PingsSound
<1>2. RowThere'
  BY RowThereStep DEF PingsSound
<1>3. \A m \in Matches : \E L \in 0 .. MaxTurn : PingedUpTo(m, L)'
  BY PingedStep
<1> QED
  BY <1>1, <1>2, <1>3, ExtraStep DEF PingsSound

(* A turn is pinged once, and once more for each fault: the stored key tells
   the turn pinged last, views do not go back, and an update stores the key
   of the turn it pinged unless something goes wrong in between.           *)
THEOREM PingedOnce == Spec => []ExtraPingsTakeFaults
<1>1. Types /\ RowsSound /\ PingsSound /\ [Next]_vars => PingsSound'
  BY TypesStep, PingsStep
<1>2. PingsSound => ExtraPingsTakeFaults
  BY DEF PingsSound
<1> QED
  BY <1>1, <1>2, RowsInvariant, PingsStart, PTL DEF Spec, Safe
-----------------------------------------------------------------------------
(* Pings that nobody will delete, in a room that is not unwatched.         *)

RowPing == IF Latest = 0 THEN 0 ELSE games[Latest].ping

\* Only who holds the lock works on a row.
Locks ==
    /\ tpc \notin {"none", "waiting", "lock"} => lock = "task"
    /\ rpc \notin {"none", "lock"} => lock = "reminder"

\* Matches are seen, and then opened, in their order.
InSeq ==
    /\ view.match <= server.match
    /\ tview.match <= view.match
    /\ Latest <= server.match
    /\ view # NoView => Latest <= view.match
    /\ tview # NoView => Latest <= tview.match

\* Whoever works on a row works on the latest one, and has in its copy the
\* row's ping until the row has none.
Carried ==
    /\ tpc \in {"none", "waiting", "lock", "open"} => tgame.ping = 0
    /\ tpc \notin {"none", "waiting", "lock", "open"} => Latest = tview.match
    /\ tpc \in {"start", "card", "unping", "unpinged"} => tgame.ping = RowPing
    /\ tpc \in {"act", "notify"} => tgame.ping = 0
    /\ tpc \in {"retire", "retired", "act", "sent", "notify"} => RowPing = 0
    /\ tpc # "send"
    /\ rpc \in {"none", "lock", "check"} => rgame.ping = 0
    /\ rpc \notin {"none", "lock", "check"} => Latest = rview.match
    /\ rpc \in {"unping", "unpinged"} => rgame.ping = RowPing
    /\ rpc = "send" => rgame.ping = 0
    /\ rpc \in {"send", "sent"} => RowPing = 0

\* Each message has an id of its own.
Distinct ==
    /\ IsFiniteSet(pings)
    /\ \A p \in pings : p.id <= lastPing
    /\ \A p, q \in pings : p.id = q.id => p = q

\* A ping is kept as long as the call to delete it has not been made.
Keeps(id) ==
    /\ tpc \notin {"retired", "unpinged"}
    /\ rpc # "unpinged"
    /\ id \in {tgame.ping, rgame.ping, RowPing}
Strays == {p \in pings : ~Keeps(p.id)}

Watching ==
    /\ upc = "none" /\ watched
    /\ Locks
    /\ InSeq
    /\ Carried
    /\ Distinct
    /\ Cardinality(Strays) <= faults

StraysSound == unwatches = 0 => Watching

\* What a step may do to the pings: it loses none, or one to a fault.
NoneLost == \A p \in pings' : Keeps(p.id)' \/ (p \in pings /\ ~Keeps(p.id))
OneLost ==
    /\ faults' = faults + 1
    /\ pings' \subseteq pings
    /\ \E k : \A p \in pings' : Keeps(p.id)' \/ ~Keeps(p.id) \/ p.id = k

\* The latest row, and its ping.
LEMMA LatestRow ==
    ASSUME Types, Latest # 0
    PROVE  Latest \in Opened /\ Latest \in Matches /\ games[Latest] \in Game /\ \A n \in Opened : n <= Latest
<1>1. Opened \subseteq Matches /\ Opened # {}
  BY DEF Opened, Latest
<1>2. \E m \in Opened : \A n \in Opened : n <= m
  BY <1>1, LatestOfSome
<1>3. Latest \in Opened /\ \A n \in Opened : n <= Latest
  BY <1>1, <1>2 DEF Latest
<1> QED
  BY <1>1, <1>3 DEF Types, DatabaseTypes

LEMMA NoLatest ==
    ASSUME Types
    PROVE  Latest = 0 <=> Opened = {}
<1>1. Latest # 0 => Opened # {}
  BY LatestRow
<1>2. Opened # {} => Latest # 0
  <2> SUFFICES ASSUME Opened # {} PROVE Latest # 0
    OBVIOUS
  <2>1. \E m \in Opened : \A n \in Opened : n <= m
    BY LatestOfSome DEF Opened
  <2>2. Latest \in Opened
    BY <2>1 DEF Latest
  <2> QED
    BY <2>2 DEF Opened, Matches
<1> QED
  BY <1>1, <1>2

LEMMA RowPingTypes ==
    ASSUME Types
    PROVE  RowPing \in Nat
BY LatestRow, RowTypes DEF RowPing

\* A row that is updated stays, and only the latest one's ping counts.
LEMMA UpdatePing ==
    ASSUME Types, RowsExist, NEW m \in Matches, NEW row \in Game, Update(m, row),
           row.lifecycle = games[m].lifecycle \/ row.lifecycle # "none"
    PROVE  /\ Latest' = Latest
           /\ RowPing' = IF Latest = m THEN row.ping ELSE RowPing
<1>1. games \in [Matches -> Game]
  BY DEF Types, DatabaseTypes
<1>2. games[m] # NoGame => row # NoGame
  BY NewRows DEF RowsExist
<1>3. Opened' = Opened
  BY <1>1, <1>2 DEF Opened, Update
<1>4. Latest' = Latest
  BY <1>3 DEF Latest
<1>5. CASE Latest = m
  <2>1. m # 0 /\ games[m] # NoGame
    BY <1>5, LatestRow DEF Matches, Opened
  <2> QED
    BY <1>1, <1>4, <1>5, <2>1 DEF RowPing, Update
<1>6. CASE Latest # m
  BY <1>1, <1>4, <1>6, LatestRow DEF RowPing, Update
<1> QED
  BY <1>4, <1>5, <1>6

LEMMA RowsStay ==
    ASSUME UNCHANGED games
    PROVE  Latest' = Latest /\ RowPing' = RowPing /\ Opened' = Opened
<1>1. Opened' = Opened
  BY DEF Opened
<1>2. Latest' = Latest
  BY <1>1 DEF Latest
<1> QED
  BY <1>1, <1>2 DEF RowPing

\* How the pings on Discord change.
LEMMA DistinctStep ==
    ASSUME Types, Types', Distinct,
           \/ pings' \subseteq pings /\ lastPing' = lastPing
           \/ \E p : p.id = lastPing + 1 /\ lastPing' = p.id /\ pings' = pings \cup {p}
    PROVE  Distinct'
<1>1. lastPing \in Nat /\ lastPing' \in Nat /\ \A p \in pings : p.id \in Nat
  BY DEF Types, DiscordTypes
<1>2. CASE pings' \subseteq pings /\ lastPing' = lastPing
  BY <1>2, FS_Subset DEF Distinct
<1>3. CASE \E p : p.id = lastPing + 1 /\ lastPing' = p.id /\ pings' = pings \cup {p}
  <2>1. PICK p : p.id = lastPing + 1 /\ lastPing' = p.id /\ pings' = pings \cup {p}
    BY <1>3
  <2>2. IsFiniteSet(pings')
    BY <2>1, FS_AddElement DEF Distinct
  <2>3. \A q \in pings : q.id <= lastPing /\ q.id # p.id
    BY <1>1, <2>1 DEF Distinct
  <2>4. \A q \in pings' : q.id <= lastPing'
    BY <1>1, <2>1, <2>3
  <2>5. \A q, r \in pings' : q.id = r.id => q = r
    BY <2>1, <2>3 DEF Distinct
  <2> QED
    BY <2>2, <2>4, <2>5 DEF Distinct
<1> QED
  BY <1>2, <1>3

LEMMA StraysCounted ==
    ASSUME Types, Types', Distinct, Cardinality(Strays) <= faults,
           faults' = faults \/ faults' = faults + 1, NoneLost \/ OneLost
    PROVE  Cardinality(Strays') <= faults'
<1>1. faults \in Nat /\ IsFiniteSet(Strays)
  BY FS_Subset DEF Types, BoundTypes, Distinct, Strays
<1>2. Cardinality(Strays) \in Nat
  BY <1>1, FS_CardinalityType
<1>3. CASE NoneLost
  <2>1. Strays' \subseteq Strays
    BY <1>3 DEF NoneLost, Strays
  <2>2. IsFiniteSet(Strays') /\ Cardinality(Strays') <= Cardinality(Strays)
    BY <1>1, <2>1, FS_Subset
  <2>3. Cardinality(Strays') \in Nat
    BY <2>2, FS_CardinalityType
  <2> QED
    BY <1>1, <1>2, <2>2, <2>3
<1>4. CASE OneLost
  <2>1. PICK k : \A p \in pings' : Keeps(p.id)' \/ ~Keeps(p.id) \/ p.id = k
    BY <1>4 DEF OneLost
  <2>2. \A p \in Strays' : p \in Strays \/ (p \in pings /\ p.id = k)
    BY <1>4, <2>1 DEF OneLost, Strays
  <2>3. PICK s : \A p \in pings : p.id = k => p = s
    BY DEF Distinct
  <2> DEFINE S == Strays \cup {s}
  <2>4. Strays' \subseteq S
    BY <2>2, <2>3
  <2>5. IsFiniteSet(S) /\ Cardinality(S) = IF s \in Strays THEN Cardinality(Strays) ELSE Cardinality(Strays) + 1
    BY <1>1, FS_AddElement
  <2>6. IsFiniteSet(Strays') /\ Cardinality(Strays') <= Cardinality(S)
    BY <2>4, <2>5, FS_Subset
  <2>7. Cardinality(Strays') \in Nat
    BY <2>6, FS_CardinalityType
  <2>8. Cardinality(S) <= Cardinality(Strays) + 1 /\ Cardinality(S) \in Nat
    BY <1>2, <2>5
  <2> HIDE DEF S
  <2>9. faults' = faults + 1
    BY <1>4 DEF OneLost
  <2> QED
    BY <1>1, <1>2, <2>6, <2>7, <2>8, <2>9
<1> QED
  BY <1>3, <1>4

LEMMA PingSteps ==
    ASSUME [Next]_vars
    PROVE  \/ pings' \subseteq pings /\ lastPing' = lastPing
           \/ \E p : p.id = lastPing + 1 /\ lastPing' = p.id /\ pings' = pings \cup {p}
<1>1. \A id : DeleteMessage(id) => pings' \subseteq pings
  BY DEF DeleteMessage
<1>2. ASSUME NEW v, NEW id, SendMessage(v, id)
      PROVE  \/ pings' \subseteq pings /\ lastPing' = lastPing
             \/ \E p : p.id = lastPing + 1 /\ lastPing' = p.id /\ pings' = pings \cup {p}
  <2> DEFINE p == [id |-> id, match |-> v.match, turn |-> v.turn]
  <2>1. p.id = id
    OBVIOUS
  <2> HIDE DEF p
  <2>2. CASE id = lastPing + 1 /\ lastPing' = id /\ pings' = pings \cup {p}
    BY <2>1, <2>2
  <2>3. CASE UNCHANGED <<lastPing, pings>>
    BY <2>3
  <2> QED
    BY <1>2, <2>2, <2>3 DEF SendMessage, p
<1>3. CASE TaskRetires \/ TaskUnpings \/ ReminderUnpings \/ UnwatchUnpings
  BY <1>1, <1>3 DEF TaskRetires, TaskUnpings, ReminderUnpings, UnwatchUnpings
<1>4. CASE TaskSends \/ ReminderSends
  BY <1>2, <1>4 DEF TaskSends, ReminderSends
<1>5. CASE ~(TaskRetires \/ TaskUnpings \/ ReminderUnpings \/ UnwatchUnpings \/ TaskSends \/ ReminderSends)
  BY <1>5 DEF Next, vars, discord, Play, ViewArrives, Refresh, TaskStep, TaskFails, TaskStarts,
     TaskLocks, TaskOpens, TaskStartsGame, TaskDraws, TaskFinishes, TaskNotifies, TaskSaves,
     ReminderStarts, ReminderStep, ReminderFails, ReminderLocks, ReminderChecks, ReminderSaves,
     UnwatchStarts, UnwatchStep, UnwatchRemoves, UnwatchStops, Crash
<1> QED
  BY <1>3, <1>4, <1>5

\* What a step must keep, but for the faults it takes.
Kind == Locks' /\ InSeq' /\ Carried' /\ (NoneLost \/ OneLost)

\* Steps that neither open nor change a row, nor touch a ping.
LEMMA IdleKind ==
    ASSUME Types, Types', Watching,
           \/ Play \/ ViewArrives \/ TaskStarts \/ TaskLocks \/ TaskDraws \/ TaskNotifies
           \/ ReminderStarts \/ ReminderLocks \/ ReminderChecks \/ UNCHANGED vars
    PROVE  Kind
<1> USE DEF Kind, Watching, Locks, InSeq, Carried, NoneLost, Keeps, task, reminder, unwatch, database, discord, bounds
<1>1. UNCHANGED <<games, pings>>
  BY DEF Play, ViewArrives, TaskStarts, TaskLocks, TaskDraws, TaskNotifies, ReminderStarts,
     ReminderLocks, ReminderChecks, vars
<1>2. UNCHANGED <<Latest, RowPing>> /\ RowPing \in Nat /\ Latest \in Nat
  BY <1>1, RowsStay, RowPingTypes, LatestIsOpen
<1>3. NoView.match = 0 /\ NoGame.ping = 0 /\ server.match \in Nat /\ view.match \in Nat /\ tview.match \in Nat
  BY ViewFacts, NewRows DEF Types, RoomTypes, TaskTypes, Matches
<1>4. \A p \in pings : p.id # 0
  BY DEF Types, DiscordTypes
<1>5. CASE Play
  <2>1. server.match <= server'.match
    BY <1>3, <1>5 DEF Play
  <2>2. server'.match \in Nat
    BY ViewFacts DEF Types, RoomTypes, Matches
  <2> QED
    BY <1>1, <1>2, <1>3, <1>5, <2>1, <2>2 DEF Play
<1>6. CASE ViewArrives
  BY <1>1, <1>2, <1>3, <1>6 DEF ViewArrives, Schedule
<1>7. CASE TaskStarts
  BY <1>1, <1>2, <1>3, <1>4, <1>7 DEF TaskStarts, EndTask, Released
<1>8. CASE TaskLocks
  BY <1>1, <1>2, <1>3, <1>4, <1>8 DEF TaskLocks
<1>9. CASE TaskDraws
  BY <1>1, <1>2, <1>3, <1>4, <1>9 DEF TaskDraws, EndTask, Released
<1>10. CASE TaskNotifies
  BY <1>1, <1>2, <1>3, <1>4, <1>10 DEF TaskNotifies, EndTask, Released
<1>11. CASE ReminderStarts
  BY <1>1, <1>2, <1>11 DEF ReminderStarts
<1>12. CASE ReminderLocks
  BY <1>1, <1>2, <1>12 DEF ReminderLocks
<1>13. CASE ReminderChecks
  <2>1. ReminderApplies => games[rview.match].ping = RowPing /\ Latest = rview.match
    <3>1. rpc = "check" => rview.match # 0
      BY ViewFacts DEF Types, ReminderTypes, Matches
    <3> QED
      BY <1>13, <3>1 DEF ReminderApplies, RowPing, ReminderChecks
  <2> QED
    BY <1>1, <1>2, <1>3, <1>4, <1>13, <2>1 DEF ReminderChecks, EndReminder, Released
<1>14. CASE UNCHANGED vars
  BY <1>1, <1>2, <1>14 DEF vars
<1> QED
  BY <1>5, <1>6, <1>7, <1>8, <1>9, <1>10, <1>11, <1>12, <1>13, <1>14

\* Steps that end an activity under way, to a fault.
LEMMA FaultKind ==
    ASSUME Types, Types', Watching, Refresh \/ TaskFails \/ ReminderFails \/ Crash
    PROVE  Kind
<1> USE DEF Kind, Watching, Locks, InSeq, Carried, NoneLost, OneLost, Keeps, task, reminder, unwatch, database, discord, bounds
<1>1. UNCHANGED <<games, pings>>
  BY DEF Refresh, TaskFails, ReminderFails, Crash
<1>2. UNCHANGED <<Latest, RowPing>> /\ RowPing \in Nat /\ Latest \in Nat
  BY <1>1, RowsStay, RowPingTypes, LatestIsOpen
<1>3. NoView.match = 0 /\ NoGame.ping = 0 /\ server.match \in Nat /\ view.match \in Nat /\ tview.match \in Nat
  BY ViewFacts, NewRows DEF Types, RoomTypes, TaskTypes, Matches
<1>4. \A p \in pings : p.id # 0
  BY DEF Types, DiscordTypes
<1>5. CASE Refresh
  <2>1. CASE tpc \in {"none", "waiting", "lock"}
    BY <1>1, <1>2, <1>3, <1>4, <1>5, <2>1 DEF Refresh, Released
  <2>2. CASE tpc \notin {"none", "waiting", "lock"} /\ Fault("cancel")
    <3>1. Locks' /\ InSeq' /\ Carried'
      BY <1>1, <1>2, <1>3, <1>5, <2>2 DEF Refresh, Released
    <3>2. OneLost
      <4>1. \A p \in pings' : Keeps(p.id)' \/ ~Keeps(p.id) \/ p.id = tgame.ping
        BY <1>1, <1>2, <1>4, <1>5, <2>2 DEF Refresh
      <4> QED
        BY <1>1, <2>2, <4>1 DEF Fault
    <3> QED
      BY <3>1, <3>2
  <2> QED
    BY <1>5, <2>1, <2>2 DEF Refresh
<1>6. CASE TaskFails
  <2>1. Locks' /\ InSeq' /\ Carried'
    BY <1>1, <1>2, <1>3, <1>6 DEF TaskFails, EndTask, Released
  <2>2. \A p \in pings' : Keeps(p.id)' \/ ~Keeps(p.id) \/ p.id = tgame.ping
    BY <1>1, <1>2, <1>4, <1>6 DEF TaskFails, EndTask
  <2> QED
    BY <1>1, <1>6, <2>1, <2>2 DEF TaskFails, Fault
<1>7. CASE ReminderFails
  <2>1. Locks' /\ InSeq' /\ Carried'
    BY <1>1, <1>2, <1>3, <1>7 DEF ReminderFails, EndReminder, Released
  <2>2. \A p \in pings' : Keeps(p.id)' \/ ~Keeps(p.id) \/ p.id = rgame.ping
    BY <1>1, <1>2, <1>4, <1>7 DEF ReminderFails, EndReminder
  <2> QED
    BY <1>1, <1>7, <2>1, <2>2 DEF ReminderFails, Fault
<1>8. CASE Crash
  <2>1. Locks' /\ InSeq' /\ Carried'
    BY <1>1, <1>2, <1>3, <1>8 DEF Crash
  <2>2. tgame.ping = 0 \/ rgame.ping = 0
    OBVIOUS
  <2>3. \E k : \A p \in pings' : Keeps(p.id)' \/ ~Keeps(p.id) \/ p.id = k
    <3>1. ASSUME NEW p \in pings' PROVE Keeps(p.id)' \/ ~Keeps(p.id) \/ p.id = tgame.ping \/ p.id = rgame.ping
      BY <1>1, <1>2, <1>4, <1>8 DEF Crash
    <3>2. \A p \in pings' : p.id # 0
      BY <1>1, <1>4
    <3> QED
      BY <2>2, <3>1, <3>2
  <2> QED
    BY <1>1, <1>8, <2>1, <2>3 DEF Crash, Fault
<1> QED
  BY <1>5, <1>6, <1>7, <1>8

\* A game is opened: its row is the latest, and the ping of the one before
\* goes along.
LEMMA OpenKind ==
    ASSUME Types, Types', Watching, TaskOpens
    PROVE  Kind
<1> USE DEF Kind, Watching, Locks, InSeq, Carried, NoneLost, Keeps, task, reminder, unwatch, discord, bounds
<1> DEFINE m == tview.match
<1>1. m \in Matches /\ tview # NoView /\ tview \in View /\ games \in [Matches -> Game] /\ m \in Nat /\ m # 0
  BY ViewFacts DEF TaskOpens, Types, TaskTypes, DatabaseTypes, Matches
<1>2. NoView.match = 0 /\ NoGame.ping = 0 /\ NewGame.ping = 0 /\ NewGame # NoGame
      /\ server.match \in Nat /\ view.match \in Nat /\ Latest \in Nat /\ RowPing \in Nat
  BY ViewFacts, NewRows, LatestIsOpen, RowPingTypes DEF Types, RoomTypes, TaskTypes, Matches
<1>3. \A p \in pings : p.id # 0
  BY DEF Types, DiscordTypes
<1>4. tpc = "open" /\ tgame.ping = 0 /\ UNCHANGED <<pings, tview, view, server, rpc, rview, rgame, faults, upc, watched, lock>>
      /\ Latest <= m /\ rpc \in {"none", "lock"}
  BY <1>1 DEF TaskOpens
<1> HIDE DEF m
<1>5. CASE games[m] # NoGame
  <2>1. tgame' = games[m] /\ tpc' = "start" /\ UNCHANGED games
    BY <1>5 DEF TaskOpens, m
  <2>2. m \in Opened
    BY <1>1, <1>5 DEF Opened
  <2>3. Latest # 0
    BY <2>2, NoLatest
  <2>4. Latest = m
    BY <1>1, <1>2, <1>4, <2>2, <2>3, LatestRow
  <2>5. tgame'.ping = RowPing
    BY <2>1, <2>3, <2>4 DEF RowPing
  <2>6. UNCHANGED <<Latest, RowPing>>
    BY <2>1, RowsStay
  <2> QED
    BY <1>2, <1>3, <1>4, <2>1, <2>4, <2>5, <2>6 DEF m
<1>6. CASE games[m] = NoGame
  <2>1. games' = [games EXCEPT ![m] = NewGame]
    BY <1>6 DEF TaskOpens, m
  <2>2. Opened' = Opened \cup {m} /\ m \notin Opened /\ Before(m) = Opened
    BY <1>1, <1>2, <1>6, <2>1 DEF Opened, Before
  <2>3. \A n \in Opened' : n \in Nat /\ n <= m
    <3>1. \A n \in Opened : n \in Nat /\ n <= Latest
      BY LatestRow, NoLatest DEF Opened, Matches
    <3> QED
      BY <1>1, <1>2, <1>4, <2>2, <3>1
  <2>4. Latest' # 0 /\ Latest' \in Opened' /\ \A n \in Opened' : n <= Latest'
    <3>1. \E k \in Opened' : \A n \in Opened' : n <= k
      BY <2>2, <2>3
    <3>2. Opened' # {}
      BY <2>2
    <3>3. Latest' \in Opened' /\ \A n \in Opened' : n <= Latest'
      BY <3>1, <3>2 DEF Latest
    <3> QED
      BY <3>3 DEF Opened, Matches
  <2>5. Latest' = m
    BY <1>1, <2>2, <2>3, <2>4
  <2>6. RowPing' = 0
    BY <1>1, <1>2, <2>1, <2>5 DEF RowPing
  <2>7. CASE Opened = {} /\ tgame' = NewGame /\ tpc' = "start"
    <3>1. RowPing = 0
      BY <2>7 DEF RowPing, Latest
    <3> QED
      BY <1>1, <1>2, <1>3, <1>4, <2>5, <2>6, <2>7, <3>1 DEF m
  <2>8. CASE Opened # {} /\ tgame' = games[Previous(m)] /\ tpc' = "retire"
    <3>1. Previous(m) = Latest /\ Latest # 0
      BY <2>2, <2>8, NoLatest DEF Previous, Latest
    <3>2. tgame'.ping = RowPing
      BY <2>8, <3>1 DEF RowPing
    <3> QED
      BY <1>1, <1>2, <1>3, <1>4, <2>5, <2>6, <2>8, <3>2 DEF m
  <2> QED
    BY <1>6, <2>2, <2>7, <2>8 DEF TaskOpens, m
<1> QED
  BY <1>5, <1>6

\* A call to delete a ping: it is gone, or left to a fault.
LEMMA DeleteKind ==
    ASSUME Types, NEW id, DeleteMessage(id), \A k : Keeps(k) => Keeps(k)' \/ k \in {id, 0}
    PROVE  NoneLost \/ OneLost
<1>1. \A p \in pings : p.id # 0
  BY DEF Types, DiscordTypes
<1>2. CASE pings' = {p \in pings : p.id # id}
  BY <1>1, <1>2 DEF NoneLost
<1>3. CASE Fault("drop") /\ UNCHANGED pings
  BY <1>1, <1>3 DEF OneLost, Fault
<1> QED
  BY <1>2, <1>3 DEF DeleteMessage

\* A call to send a ping, which who sent it keeps.
LEMMA SendKind ==
    ASSUME NEW v, NEW id, SendMessage(v, id), id # 0 => Keeps(id)', \A k : Keeps(k) => Keeps(k)' \/ k = 0,
           Types
    PROVE  NoneLost \/ OneLost
<1>1. \A p \in pings : p.id # 0
  BY DEF Types, DiscordTypes
<1> DEFINE new == [id |-> id, match |-> v.match, turn |-> v.turn]
<1>2. new.id = id
  OBVIOUS
<1> HIDE DEF new
<1>3. CASE id # 0 /\ pings' = pings \cup {new}
  BY <1>1, <1>2, <1>3 DEF NoneLost
<1>4. CASE UNCHANGED pings
  BY <1>1, <1>4 DEF NoneLost
<1> QED
  BY <1>3, <1>4 DEF SendMessage, new, Types, DiscordTypes

LEMMA RetireKind ==
    ASSUME Types, Types', RowsExist, Watching, TaskRetires
    PROVE  Kind
<1> USE DEF Watching, Locks, InSeq, Carried, task, reminder, unwatch, bounds
<1> DEFINE prev == Previous(tview.match)
<1>1. prev \in Matches /\ WithPing(games[prev], 0) \in Game /\ WithPing(games[prev], 0).lifecycle = games[prev].lifecycle
      /\ WithPing(games[prev], 0).ping = 0
  <2>1. tview.match \in Matches
    BY ViewFacts DEF TaskRetires, Types, TaskTypes
  <2>2. prev \in Matches
    BY <2>1, PreviousIsMatch
  <2>3. games[prev] \in Game
    BY <2>2 DEF Types, DatabaseTypes
  <2> QED
    BY <2>2, <2>3, WithPingIs DEF WithPing, Game
<1>2. tpc \in {"retire", "retired"} /\ NewGame.ping = 0 /\ RowPing = 0 /\ rpc \in {"none", "lock"} /\ rgame.ping = 0 /\ Latest = tview.match
      /\ UNCHANGED <<server, view, lock, tview, rpc, rview, rgame, watched, upc>>
  BY NewRows DEF TaskRetires
<1> HIDE DEF prev
<1>3. CASE tpc = "retire" /\ DeleteMessage(tgame.ping) /\ tpc' = "retired" /\ UNCHANGED <<games, tgame>>
  <2>1. UNCHANGED <<Latest, RowPing>>
    BY <1>3, RowsStay
  <2>2. Locks' /\ InSeq' /\ Carried'
    BY <1>2, <1>3, <2>1
  <2>3. \A k : Keeps(k) => Keeps(k)' \/ k \in {tgame.ping, 0}
    BY <1>2 DEF Keeps
  <2> QED
    BY <1>3, <2>2, <2>3, DeleteKind DEF Kind
<1>4. CASE /\ tpc = "retired" \/ tgame.ping = 0
           /\ IF tgame.ping = 0 THEN UNCHANGED games ELSE Update(prev, WithPing(games[prev], 0))
           /\ tgame' = NewGame /\ tpc' = "start" /\ UNCHANGED pings
  <2>1. Latest' = Latest /\ RowPing' = 0
    <3>1. CASE UNCHANGED games
      BY <1>2, <3>1, RowsStay
    <3>2. CASE Update(prev, WithPing(games[prev], 0))
      BY <1>1, <1>2, <3>2, UpdatePing
    <3> QED
      BY <1>4, <3>1, <3>2
  <2>2. Locks' /\ InSeq' /\ Carried'
    BY <1>2, <1>4, <2>1
  <2>3. \A p \in pings : p.id # 0
    BY DEF Types, DiscordTypes
  <2>4. NoneLost
    BY <1>2, <1>4, <2>1, <2>3 DEF NoneLost, Keeps
  <2> QED
    BY <2>2, <2>4 DEF Kind
<1> QED
  BY <1>3, <1>4 DEF TaskRetires, prev

LEMMA UnpingKind ==
    ASSUME Types, Types', RowsExist, Watching, TaskUnpings \/ ReminderUnpings
    PROVE  Kind
<1> USE DEF Watching, Locks, InSeq, Carried, task, reminder, unwatch, bounds
<1>1. ASSUME NEW m \in Matches
      PROVE  WithPing(games[m], 0) \in Game /\ WithPing(games[m], 0).lifecycle = games[m].lifecycle
             /\ WithPing(games[m], 0).ping = 0
  <2>1. games[m] \in Game
    BY DEF Types, DatabaseTypes
  <2> QED
    BY <2>1, WithPingIs DEF WithPing, Game
<1>2. WithPing(tgame, 0).ping = 0 /\ WithPing(rgame, 0).ping = 0
  BY DEF WithPing, Types, TaskTypes, ReminderTypes, Game
<1>3. \A p \in pings : p.id # 0
  BY DEF Types, DiscordTypes
<1>4. CASE TaskUnpings
  <2>1. tpc \in {"unping", "unpinged"} /\ tview.match \in Matches /\ Latest = tview.match /\ tgame.ping = RowPing /\ rgame.ping = 0 /\ rpc \in {"none", "lock"}
        /\ UNCHANGED <<server, view, lock, tview, rpc, rview, rgame, watched, upc>>
    BY <1>4, ViewFacts DEF TaskUnpings, Types, TaskTypes
  <2>2. CASE tpc = "unping" /\ DeleteMessage(tgame.ping) /\ tpc' = "unpinged" /\ UNCHANGED <<games, tgame>>
    <3>1. UNCHANGED <<Latest, RowPing>>
      BY <2>2, RowsStay
    <3>2. Locks' /\ InSeq' /\ Carried'
      BY <2>1, <2>2, <3>1
    <3>3. \A k : Keeps(k) => Keeps(k)' \/ k \in {tgame.ping, 0}
      BY <2>1 DEF Keeps
    <3> QED
      BY <2>2, <3>2, <3>3, DeleteKind DEF Kind
  <2>3. CASE /\ tpc = "unpinged" \/ tgame.ping = 0
             /\ IF tgame.ping = 0 THEN UNCHANGED games ELSE Update(tview.match, WithPing(games[tview.match], 0))
             /\ tgame' = WithPing(tgame, 0) /\ tpc' = "act" /\ UNCHANGED pings
    <3>1. Latest' = Latest /\ RowPing' = 0
      BY <1>1, <2>1, <2>3, RowsStay, UpdatePing
    <3>2. Locks' /\ InSeq' /\ Carried'
      BY <1>2, <2>1, <2>3, <3>1
    <3>3. NoneLost
      BY <1>3, <2>1, <2>3 DEF NoneLost, Keeps
    <3> QED
      BY <3>2, <3>3 DEF Kind
  <2> QED
    BY <1>4, <2>2, <2>3 DEF TaskUnpings
<1>5. CASE ReminderUnpings
  <2>1. rpc \in {"unping", "unpinged"} /\ rview.match \in Matches /\ Latest = rview.match /\ rgame.ping = RowPing /\ tgame.ping = 0
        /\ tpc \in {"none", "waiting", "lock"}
        /\ UNCHANGED <<server, view, lock, tview, tpc, rview, tgame, watched, upc>>
    BY <1>5, ViewFacts DEF ReminderUnpings, Types, ReminderTypes
  <2>2. CASE rpc = "unping" /\ DeleteMessage(rgame.ping) /\ rpc' = "unpinged" /\ UNCHANGED <<games, rgame>>
    <3>1. UNCHANGED <<Latest, RowPing>>
      BY <2>2, RowsStay
    <3>2. Locks' /\ InSeq' /\ Carried'
      BY <2>1, <2>2, <3>1
    <3>3. \A k : Keeps(k) => Keeps(k)' \/ k \in {rgame.ping, 0}
      BY <2>1 DEF Keeps
    <3> QED
      BY <2>2, <3>2, <3>3, DeleteKind DEF Kind
  <2>3. CASE /\ rpc = "unpinged" \/ rgame.ping = 0
             /\ IF rgame.ping = 0 THEN UNCHANGED games ELSE Update(rview.match, WithPing(games[rview.match], 0))
             /\ rgame' = WithPing(rgame, 0) /\ rpc' = "send" /\ UNCHANGED pings
    <3>1. Latest' = Latest /\ RowPing' = 0
      BY <1>1, <2>1, <2>3, RowsStay, UpdatePing
    <3>2. Locks' /\ InSeq' /\ Carried'
      BY <1>2, <2>1, <2>3, <3>1
    <3>3. NoneLost
      BY <1>3, <2>1, <2>3 DEF NoneLost, Keeps
    <3> QED
      BY <3>2, <3>3 DEF Kind
  <2> QED
    BY <1>5, <2>2, <2>3 DEF ReminderUnpings
<1> QED
  BY <1>4, <1>5

\* A ping is sent, and then stored in the row.
LEMMA PingKind ==
    ASSUME Types, Types', RowsExist, Watching, TaskSends \/ ReminderSends
    PROVE  Kind
<1> USE DEF Watching, Locks, InSeq, Carried, task, reminder, unwatch, database, bounds
<1>1. ASSUME NEW id \in {0, lastPing + 1}
      PROVE  WithPing(tgame, id).ping = id /\ WithPing(rgame, id).ping = id
  BY DEF WithPing, Types, TaskTypes, ReminderTypes, Game
<1>2. UNCHANGED <<Latest, RowPing>>
  BY RowsStay DEF TaskSends, ReminderSends
<1>3. CASE TaskSends
  <2>1. PICK id \in {0, lastPing + 1} : SendMessage(tview, id) /\ tgame' = WithPing(tgame, id)
    BY <1>3 DEF TaskSends
  <2>2. /\ tpc = "act" /\ tpc' = "sent" /\ RowPing = 0 /\ rgame.ping = 0 /\ tgame'.ping = id /\ tgame.ping = 0
        /\ UNCHANGED <<server, view, lock, tview, rpc, rview, rgame, watched, upc>>
    BY <1>1, <1>3, <2>1 DEF TaskSends
  <2>3. Locks' /\ InSeq' /\ Carried'
    BY <1>2, <2>2
  <2>4. (id # 0 => Keeps(id)') /\ \A k : Keeps(k) => Keeps(k)' \/ k = 0
    BY <1>2, <2>2 DEF Keeps
  <2> QED
    BY <2>1, <2>3, <2>4, SendKind DEF Kind
<1>4. CASE ReminderSends
  <2>1. PICK id \in {0, lastPing + 1} : SendMessage(rview, id) /\ rgame' = WithPing(rgame, id)
    BY <1>4 DEF ReminderSends
  <2>2. /\ rpc = "send" /\ rpc' = "sent" /\ RowPing = 0 /\ tgame.ping = 0 /\ rgame'.ping = id /\ rgame.ping = 0
        /\ tpc \in {"none", "waiting", "lock"}
        /\ UNCHANGED <<server, view, lock, tview, tpc, rview, tgame, watched, upc>>
    BY <1>1, <1>4, <2>1 DEF ReminderSends
  <2>3. Locks' /\ InSeq' /\ Carried'
    BY <1>2, <2>2
  <2>4. (id # 0 => Keeps(id)') /\ \A k : Keeps(k) => Keeps(k)' \/ k = 0
    BY <1>2, <2>2 DEF Keeps
  <2> QED
    BY <2>1, <2>3, <2>4, SendKind DEF Kind
<1> QED
  BY <1>3, <1>4

\* The other updates of a row.
LEMMA SaveKind ==
    ASSUME Types, Types', RowsExist, Watching, TaskStartsGame \/ TaskFinishes \/ TaskSaves \/ ReminderSaves
    PROVE  Kind
<1> USE DEF Kind, Watching, Locks, InSeq, Carried, Keeps, task, reminder, unwatch, discord, bounds
<1>1. NoView.match = 0 /\ NoGame.ping = 0 /\ server.match \in Nat /\ view.match \in Nat /\ tview.match \in Nat
      /\ RowPing \in Nat /\ Latest \in Nat
  BY ViewFacts, NewRows, RowPingTypes, LatestIsOpen DEF Types, RoomTypes, TaskTypes, Matches
<1>2. \A p \in pings : p.id # 0
  BY DEF Types, DiscordTypes
<1>3. tview \in View => tview.match \in Matches /\ games[tview.match] \in Game
  BY ViewFacts DEF Types, DatabaseTypes
<1>4. CASE TaskStartsGame
  <2> DEFINE row == WithLifecycle(games[tview.match], "in_progress")
  <2>1. tview.match \in Matches /\ games[tview.match] \in Game /\ Latest = tview.match
    BY <1>3, <1>4 DEF TaskStartsGame, Types, TaskTypes
  <2>2. row \in Game /\ row.lifecycle = "in_progress" /\ row.ping = games[tview.match].ping
        /\ WithLifecycle(tgame, "in_progress").ping = tgame.ping
    BY <2>1, WithLifecycleIs DEF WithLifecycle, Game, Phases, Types, TaskTypes
  <2>3. RowPing = games[tview.match].ping
    BY <2>1 DEF RowPing, Matches
  <2> HIDE DEF row
  <2>4. UNCHANGED <<Latest, RowPing>> /\ tgame'.ping = tgame.ping
    BY <1>4, <2>1, <2>2, <2>3, UpdatePing, RowsStay DEF TaskStartsGame, row
  <2> QED
    BY <1>4, <2>4 DEF TaskStartsGame, NoneLost
<1>5. CASE TaskFinishes
  <2> DEFINE row == WithLifecycle(games[tview.match], "finished")
  <2>1. tview.match \in Matches /\ games[tview.match] \in Game /\ games \in [Matches -> Game]
    BY <1>3, <1>5 DEF TaskFinishes, Types, TaskTypes, DatabaseTypes
  <2>2. row \in Game /\ row.lifecycle = "finished" /\ row.ping = games[tview.match].ping
    BY <2>1, WithLifecycleIs DEF WithLifecycle, Game, Phases
  <2>3. Latest = tview.match => RowPing = games[tview.match].ping
    BY <2>1 DEF RowPing, Matches
  <2>4. UNCHANGED <<Latest, RowPing>>
    <3>1. CASE UNCHANGED games
      BY <3>1, RowsStay
    <3>2. CASE FinishRecorded(tview.match) /\ games' = [games EXCEPT ![tview.match] = row]
      <4>1. Update(tview.match, row)
        BY <3>2 DEF Update, FinishRecorded
      <4> HIDE DEF row
      <4> QED
        BY <2>1, <2>2, <2>3, <4>1, UpdatePing
    <3> QED
      BY <1>5, <2>1, <3>1, <3>2 DEF TaskFinishes, WithLifecycle
  <2> QED
    BY <1>1, <1>2, <1>5, <2>4 DEF TaskFinishes, EndTask, Released, NoneLost
<1>6. CASE TaskSaves
  <2> DEFINE row == Pinged(games[tview.match], TurnKey(tview), tgame.ping)
  <2>1. tview.match \in Matches /\ games[tview.match] \in Game /\ Latest = tview.match
    BY <1>3, <1>6 DEF TaskSaves, Types, TaskTypes
  <2>2. row \in Game /\ row.lifecycle = games[tview.match].lifecycle /\ row.ping = tgame.ping
    <3>1. TurnKey(tview) \in 0 .. Keys /\ tgame.ping \in Nat
      BY KeyTypes, RowTypes DEF Types, TaskTypes
    <3> QED
      BY <2>1, <3>1, PingedIs DEF Pinged, Game
  <2> HIDE DEF row
  <2>3. Latest' = Latest /\ RowPing' = tgame.ping
    BY <1>6, <2>1, <2>2, UpdatePing DEF TaskSaves, row
  <2> QED
    BY <1>1, <1>2, <1>6, <2>3 DEF TaskSaves, EndTask, Released, NoneLost
<1>7. CASE ReminderSaves
  <2> DEFINE row == WithPing(games[rview.match], rgame.ping)
  <2>1. rview.match \in Matches /\ games[rview.match] \in Game /\ Latest = rview.match /\ rgame.ping \in Nat
    BY <1>7, ViewFacts, RowTypes DEF ReminderSaves, Types, ReminderTypes, DatabaseTypes
  <2>2. row \in Game /\ row.lifecycle = games[rview.match].lifecycle /\ row.ping = rgame.ping
    BY <2>1, WithPingIs DEF WithPing, Game
  <2> HIDE DEF row
  <2>3. Latest' = Latest /\ RowPing' = rgame.ping
    BY <1>7, <2>1, <2>2, UpdatePing DEF ReminderSaves, row
  <2> QED
    BY <1>1, <1>2, <1>7, <2>3 DEF ReminderSaves, EndReminder, Released, NoneLost
<1> QED
  BY <1>4, <1>5, <1>6, <1>7

LEMMA StraysStart == Init => StraysSound
<1> SUFFICES ASSUME Init PROVE Watching
  BY DEF StraysSound
<1>1. Opened = {} /\ Latest = 0 /\ RowPing = 0
  BY DEF Init, Opened, Latest, RowPing
<1>2. pings = {} /\ Strays = {} /\ Cardinality(Strays) = 0 /\ IsFiniteSet(pings)
  BY FS_EmptySet DEF Init, Strays
<1>3. Locks /\ InSeq /\ Carried
  BY <1>1, ViewFacts, NewRows DEF Init, Locks, InSeq, Carried
<1>4. Distinct
  BY <1>2 DEF Distinct
<1> QED
  BY <1>2, <1>3, <1>4 DEF Init, Watching

LEMMA StraysStep ==
    ASSUME Types, Types', RowsExist, StraysSound, [Next]_vars
    PROVE  StraysSound'
<1> SUFFICES ASSUME unwatches' = 0 PROVE Watching'
  BY DEF StraysSound
<1>1. unwatches = 0 /\ ~UnwatchStarts /\ UNCHANGED unwatches
  <2>1. unwatches \in Nat
    BY DEF Types, BoundTypes
  <2>2. unwatches' = unwatches \/ (UnwatchStarts /\ unwatches' = unwatches + 1)
    BY DEF Next, vars, bounds, Play, ViewArrives, Refresh, TaskStep, TaskFails, TaskStarts,
       TaskLocks, TaskOpens, TaskRetires, TaskStartsGame, TaskDraws, TaskUnpings, TaskFinishes,
       TaskNotifies, TaskSends, TaskSaves, ReminderStarts, ReminderStep, ReminderFails, ReminderLocks,
       ReminderChecks, ReminderUnpings, ReminderSends, ReminderSaves, UnwatchStarts, UnwatchStep,
       UnwatchUnpings, UnwatchRemoves, UnwatchStops, Crash
  <2> QED
    BY <2>1, <2>2 DEF UnwatchStarts
<1>2. Watching
  BY <1>1 DEF StraysSound
<1>3. ~UnwatchStep
  BY <1>2 DEF Watching, UnwatchStep, UnwatchUnpings, UnwatchRemoves, UnwatchStops
<1>4. upc' = "none" /\ watched'
  BY <1>1, <1>2, <1>3 DEF Watching, Next, vars, unwatch, database, Play, ViewArrives, Refresh, TaskStep, TaskFails,
     TaskStarts, TaskLocks, TaskOpens, TaskRetires, TaskStartsGame, TaskDraws, TaskUnpings, TaskFinishes,
     TaskNotifies, TaskSends, TaskSaves, ReminderStarts, ReminderStep, ReminderFails, ReminderLocks,
     ReminderChecks, ReminderUnpings, ReminderSends, ReminderSaves, Crash
<1>5. Kind
  BY <1>1, <1>2, <1>3, IdleKind, FaultKind, OpenKind, RetireKind, UnpingKind, PingKind, SaveKind
     DEF Next, TaskStep, ReminderStep
<1>6. Distinct'
  BY <1>2, PingSteps, DistinctStep DEF Watching
<1>7. Cardinality(Strays') <= faults'
  BY <1>2, <1>5, FaultSteps, StraysCounted DEF Watching, Kind
<1> QED
  BY <1>4, <1>5, <1>6, <1>7 DEF Watching, Kind

(* As long as the room is not unwatched, every ping on Discord will be
   deleted, but for one for each fault: whoever works on the latest row under
   the room's lock has its ping, and forgets it only when it made the call to
   delete it or stored the next.                                           *)
THEOREM StraysTakeFaults == Spec => []StrayPingsTakeFaults
<1>1. Types /\ RowsSound /\ StraysSound /\ [Next]_vars => StraysSound'
  BY TypesStep, StraysStep DEF RowsSound
<1>2. Types /\ StraysSound => StrayPingsTakeFaults
  <2> SUFFICES ASSUME Types, StraysSound, unwatches = 0
               PROVE  Cardinality({p \in pings : p.id \notin Known}) <= faults
    BY DEF StrayPingsTakeFaults
  <2> DEFINE S == {p \in pings : p.id \notin Known}
  <2>1. Watching /\ IsFiniteSet(Strays) /\ Cardinality(Strays) <= faults /\ faults \in Nat
    BY FS_Subset DEF StraysSound, Watching, Distinct, Strays, Types, BoundTypes
  <2>2. \A p \in pings : p.id # 0
    BY DEF Types, DiscordTypes
  <2>3. S \subseteq Strays
    BY <2>2 DEF Strays, Keeps, Known, RowPing
  <2>4. IsFiniteSet(S) /\ Cardinality(S) <= Cardinality(Strays)
    BY <2>1, <2>3, FS_Subset
  <2>5. Cardinality(S) \in Nat /\ Cardinality(Strays) \in Nat
    BY <2>1, <2>4, FS_CardinalityType
  <2> HIDE DEF S
  <2>6. Cardinality(S) <= faults
    BY <2>1, <2>4, <2>5
  <2> QED
    BY <2>6 DEF S
<1> QED
  BY <1>1, <1>2, RowsInvariant, StraysStart, PTL DEF Spec, Safe
=============================================================================

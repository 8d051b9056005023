----------------------------- MODULE RoomUpdates -----------------------------
(***************************************************************************)
(* One watched Codenames room: how the states its client sees become the   *)
(* card, the turn pings and the recorded result of each game.              *)
(*                                                                         *)
(* Views arrive whenever the room changes; a debounced update draws them   *)
(* under the room's lock, and a button press cancels an update that is     *)
(* under way and starts another.  The reminder loop pings under the same   *)
(* lock, from a view it read before.  /codenames unwatch takes no lock.    *)
(* Every database call and every Discord call that matters to pings and    *)
(* results is a step of its own; the board, the card's message id and the  *)
(* line-up ping are left out.  The room has one watch, its channel is      *)
(* bound to a tournament, and every finished game has a winner.  The game  *)
(* on codenames.game and the messages on Discord are external.             *)
(***************************************************************************)
EXTENDS Naturals, FiniteSets

CONSTANTS
    MaxMatch,     \* bound: matches played in the room
    MaxTurn,      \* bound: turns of a match
    Keys,         \* turn keys there are (a team and a role), taken in rotation
    FaultKinds,   \* what may go wrong: some of the kinds below
    MaxEvents     \* bound: faults, rounds of the reminder loop and unwatches together

ASSUME UpdatesAssumption ==
    /\ MaxMatch \in Nat \ {0}
    /\ MaxTurn \in Nat \ {0}
    /\ Keys \in Nat \ {0}
    /\ FaultKinds \subseteq {"crash", "cancel", "exception", "drop"}
    /\ MaxEvents \in Nat

Matches == 1 .. MaxMatch
Turns == 1 .. MaxTurn
Phases == {"lobby", "in_progress", "finished"}

\* A state of the room; the turn is 0 outside the game itself.
View == {v \in [match : Matches, phase : Phases, turn : 0 .. MaxTurn] :
            v.phase = "in_progress" <=> v.turn # 0}
NoView == [match |-> 0, phase |-> "lobby", turn |-> 0]

\* A game's row: its lifecycle, the key of the turn last pinged, the ping.
NoGame == [lifecycle |-> "none", key |-> 0, ping |-> 0]
NewGame == [lifecycle |-> "lobby", key |-> 0, ping |-> 0]
Game == [lifecycle : Phases \cup {"none"}, key : 0 .. Keys, ping : Nat]

VARIABLES
    server,    \* external: the room's true state
    view,      \* the last view the client delivered
    lock,      \* who holds the room's lock
    tpc, tview, tgame,         \* the update task: where it is, its view and its copy of the row
    rpc, rview, rgame,         \* the same for the reminder loop
    upc, ugame,                \* the same for /codenames unwatch
    watched,   \* the watch is in the database
    games,     \* its rows of codenames_games, by match
    archived,  \* how often each match is in game_history for this watch
    recorded,  \* the matches among them that finished
    queued,    \* matches whose result is in the outbox
    pings,     \* external: the turn pings and reminders on Discord
    lastPing,  \* the id of the last message
    sent,      \* history: how often each turn was pinged (not reminded)
    drawn,     \* external: the view the newest card shows
    faults, reminders, unwatches

task == <<tpc, tview, tgame>>
reminder == <<rpc, rview, rgame>>
unwatch == <<upc, ugame>>
discord == <<pings, lastPing, sent, drawn>>
database == <<watched, games, archived, recorded, queued>>
bounds == <<faults, reminders, unwatches>>
vars == <<server, view, lock, task, reminder, unwatch, database, discord, bounds>>

TypeOK ==
    /\ server \in View
    /\ view \in View \cup {NoView}
    /\ lock \in {"free", "task", "reminder"}
    /\ tpc \in {"none", "waiting", "lock", "open", "retire", "retired", "start", "card", "unping",
                "unpinged", "act", "send", "sent", "notify"}
    /\ tview \in View \cup {NoView}
    /\ tgame \in Game
    /\ rpc \in {"none", "lock", "check", "unping", "unpinged", "send", "sent"}
    /\ rview \in View \cup {NoView}
    /\ rgame \in Game
    /\ upc \in {"none", "unping", "unpinged", "remove", "stop", "done"}
    /\ ugame \in [match : 0 .. MaxMatch, ping : Nat]
    /\ watched \in BOOLEAN
    /\ games \in [Matches -> Game]
    /\ archived \in [Matches -> Nat]
    /\ recorded \subseteq Matches
    /\ queued \subseteq Matches
    /\ pings \subseteq [id : Nat \ {0}, match : Matches, turn : Turns]
    /\ lastPing \in Nat
    /\ sent \in [Matches \X Turns -> Nat]
    /\ drawn \in View \cup {NoView}
    /\ {faults, reminders, unwatches} \subseteq 0 .. MaxEvents

Init ==
    /\ server = [match |-> 1, phase |-> "lobby", turn |-> 0]
    /\ view = NoView
    /\ lock = "free"
    /\ tpc = "none" /\ tview = NoView /\ tgame = NoGame
    /\ rpc = "none" /\ rview = NoView /\ rgame = NoGame
    /\ upc = "none" /\ ugame = [match |-> 0, ping |-> 0]
    /\ watched = TRUE
    /\ games = [m \in Matches |-> NoGame]
    /\ archived = [m \in Matches |-> 0]
    /\ recorded = {}
    /\ queued = {}
    /\ pings = {}
    /\ lastPing = 0
    /\ sent = [mt \in Matches \X Turns |-> 0]
    /\ drawn = NoView
    /\ faults = 0
    /\ reminders = 0
    /\ unwatches = 0

TurnKey_OffByOne(v) == IF v.phase = "in_progress" THEN (v.turn % (Keys + 1)) + 1 ELSE 0

\* GameView.turn_key: 0 unless the game is in progress.
TurnKey(v) == IF v.phase = "in_progress" THEN ((v.turn - 1) % Keys) + 1 ELSE 0

Opened == {m \in Matches : games[m] # NoGame}

\* get_latest_codenames_game, 0 if there is none.
Latest == IF Opened = {} THEN 0 ELSE CHOOSE m \in Opened : \A n \in Opened : n <= m

MoreEvents == faults + reminders + unwatches < MaxEvents

\* Something goes wrong: the process crashes, an update is cancelled under way,
\* a call raises an exception, or Discord never executes one.
Fault(kind) ==
    /\ kind \in FaultKinds
    /\ MoreEvents
    /\ faults' = faults + 1

-----------------------------------------------------------------------------
(***************************************************************************)
(* The room (external), its views, and what starts an update.              *)
(***************************************************************************)

\* The game goes on: it starts, the turn passes, it ends, or a new one begins.
Play ==
    /\ server' \in
        {v \in View :
            \/ /\ v.match = server.match
               /\ \/ server.phase = "lobby" /\ v.phase = "in_progress" /\ v.turn = 1
                  \/ server.phase = "in_progress" /\ v.phase = "in_progress" /\ v.turn = server.turn + 1
                  \/ server.phase = "in_progress" /\ v.phase = "finished" /\ v.turn = 0
            \/ v.match = server.match + 1 /\ v.phase = "lobby" /\ v.turn = 0}
    /\ UNCHANGED <<view, lock, task, reminder, unwatch, database, discord, bounds>>

\* An update is pending from when it is scheduled until it is done.
Schedule ==
    /\ tpc' = IF tpc = "none" THEN "waiting" ELSE tpc
    /\ UNCHANGED <<tview, tgame, lock>>

\* _on_view: the client delivers the room's state, with a delay for bursts.
ViewArrives ==
    /\ upc # "done"
    /\ view' = server
    /\ Schedule
    /\ UNCHANGED <<server, reminder, unwatch, database, discord, bounds>>

Released(who) == IF lock = who THEN "free" ELSE lock

\* refresh_room: an update is started at once; one that is waiting or under
\* way is cancelled, at whatever call it is in.
Refresh ==
    /\ view # NoView
    /\ \/ tpc \in {"none", "waiting", "lock"} /\ UNCHANGED faults
       \/ tpc \notin {"none", "waiting", "lock"} /\ Fault("cancel")
    /\ tpc' = "lock"
    /\ tview' = view
    /\ tgame' = NoGame
    /\ lock' = Released("task")
    /\ UNCHANGED <<server, view, reminder, unwatch, database, discord, reminders, unwatches>>

EndTask ==
    /\ tpc' = "none"
    /\ tview' = NoView
    /\ tgame' = NoGame
    /\ lock' = Released("task")

\* An exception in the update (a Discord error, SeatTakenError) is logged.
TaskFails ==
    /\ tpc \notin {"none", "waiting", "lock"}
    /\ Fault("exception")
    /\ EndTask
    /\ UNCHANGED <<server, view, reminder, unwatch, database, discord, reminders, unwatches>>

-----------------------------------------------------------------------------
(***************************************************************************)
(* update_room and _update_watch.                                          *)
(***************************************************************************)

\* The delay is over: the view is read before the lock is taken.
TaskStarts ==
    /\ tpc = "waiting"
    /\ \/ /\ view = NoView
          /\ EndTask
       \/ /\ view # NoView
          /\ tpc' = "lock"
          /\ tview' = view
          /\ UNCHANGED <<tgame, lock>>
    /\ UNCHANGED <<server, view, reminder, unwatch, database, discord, bounds>>

\* With the lock, the room's watches are listed.
TaskLocks ==
    /\ tpc = "lock"
    /\ lock = "free"
    /\ \/ /\ watched
          /\ tpc' = "open"
          /\ lock' = "task"
          /\ UNCHANGED <<tview, tgame>>
       \/ /\ ~watched
          /\ EndTask
    /\ UNCHANGED <<server, view, reminder, unwatch, database, discord, bounds>>

\* The latest game before this match's.
Before(m) == Opened \ {m}
Previous(m) == IF Before(m) = {} THEN m ELSE CHOOSE n \in Before(m) : \A k \in Before(m) : k <= n

\* get_or_create_codenames_game.  A new row retires the game before it, whose
\* row `tgame' then is.  (If the watch is gone, the insert fails.)
TaskOpens ==
    LET m == tview.match IN
    /\ tpc = "open"
    /\ \/ /\ ~watched
          /\ EndTask
          /\ UNCHANGED games
       \/ /\ watched /\ games[m] # NoGame
          /\ tgame' = games[m]
          /\ tpc' = "start"
          /\ UNCHANGED <<games, tview, lock>>
       \/ /\ watched /\ games[m] = NoGame
          /\ games' = [games EXCEPT ![m] = NewGame]
          /\ \/ /\ Before(m) = {}
                /\ tgame' = NewGame
                /\ tpc' = "start"
             \/ /\ Before(m) # {}
                /\ tgame' = games[Previous(m)]
                /\ tpc' = "retire"
          /\ UNCHANGED <<tview, lock>>
    /\ UNCHANGED <<server, view, reminder, unwatch, watched, archived, recorded, queued, discord, bounds>>

\* What is changed of a row.
WithLifecycle(row, lifecycle) == [row EXCEPT !.lifecycle = lifecycle]
WithPing(row, id) == [row EXCEPT !.ping = id]
Pinged(row, key, id) == [row EXCEPT !.key = key, !.ping = id]

\* update_codenames_game: a row that is gone stays gone.
Update(m, row) == games' = IF games[m] = NoGame THEN games ELSE [games EXCEPT ![m] = row]

\* Deleting a message; it may fail, which is logged.
DeleteMessage(id) ==
    \/ pings' = {p \in pings : p.id # id} /\ UNCHANGED faults
    \/ Fault("drop") /\ UNCHANGED pings

\* Sending a ping for a turn; the call may be dropped (id 0).
SendMessage(v, id) ==
    \/ /\ id = lastPing + 1
       /\ lastPing' = id
       /\ pings' = pings \cup {[id |-> id, match |-> v.match, turn |-> v.turn]}
       /\ UNCHANGED faults
    \/ id = 0 /\ Fault("drop") /\ UNCHANGED <<lastPing, pings>>

\* _retire_game: delete the ping of the game before, then forget it.
TaskRetires ==
    LET prev == Previous(tview.match) IN
    /\ tpc \in {"retire", "retired"}
    /\ \/ /\ tpc = "retire" /\ tgame.ping # 0
          /\ DeleteMessage(tgame.ping)
          /\ tpc' = "retired"
          /\ UNCHANGED <<games, tgame>>
       \/ /\ tpc = "retired" \/ tgame.ping = 0
          /\ IF tgame.ping = 0 THEN UNCHANGED games ELSE Update(prev, WithPing(games[prev], 0))
          /\ tgame' = NewGame
          /\ tpc' = "start"
          /\ UNCHANGED <<pings, faults>>
    /\ UNCHANGED <<server, view, lock, tview, reminder, unwatch, watched, archived, recorded, queued,
                   lastPing, sent, drawn, reminders, unwatches>>

TaskStartsGame_Unguarded ==
    /\ tpc = "start"
    /\ tpc' = "card"
    /\ IF tview.phase # "lobby"
       THEN /\ Update(tview.match, WithLifecycle(games[tview.match], "in_progress"))
            /\ tgame' = WithLifecycle(tgame, "in_progress")
       ELSE UNCHANGED <<games, tgame>>
    /\ UNCHANGED <<server, view, lock, tview, reminder, unwatch, watched, archived, recorded, queued, discord, bounds>>

\* A game in the lobby has started.
TaskStartsGame ==
    /\ tpc = "start"
    /\ tpc' = "card"
    /\ IF tgame.lifecycle = "lobby" /\ tview.phase # "lobby"
       THEN /\ Update(tview.match, WithLifecycle(games[tview.match], "in_progress"))
            /\ tgame' = WithLifecycle(tgame, "in_progress")
       ELSE UNCHANGED <<games, tgame>>
    /\ UNCHANGED <<server, view, lock, tview, reminder, unwatch, watched, archived, recorded, queued, discord, bounds>>

\* There is a turn to ping for, or a finished game to record.
TurnChanged == tview.phase # "finished" /\ TurnKey(tview) # tgame.key
ToDo_TurnOnly == TurnChanged
ToDo == tview.phase = "finished" \/ TurnChanged

\* _send_or_edit_card: an edit may be dropped, and so may the first card,
\* which ends the update.
TaskDraws ==
    /\ tpc = "card"
    /\ \/ /\ drawn' = tview /\ UNCHANGED faults
          /\ IF ToDo THEN tpc' = "unping" /\ UNCHANGED <<tview, tgame, lock>> ELSE EndTask
       \/ /\ Fault("drop") /\ UNCHANGED drawn
          /\ \/ EndTask
             \/ ToDo /\ tpc' = "unping" /\ UNCHANGED <<tview, tgame, lock>>
    /\ UNCHANGED <<server, view, reminder, unwatch, database, pings, lastPing, sent, reminders, unwatches>>

TaskUnpings_Forgets ==
    /\ tpc = "unping"
    /\ tgame' = WithPing(tgame, 0)
    /\ tpc' = "act"
    /\ UNCHANGED <<server, view, lock, tview, reminder, unwatch, database, discord, bounds>>

\* _delete_ping: the game's last ping goes before a new one, or when it ended.
TaskUnpings ==
    LET m == tview.match IN
    /\ tpc \in {"unping", "unpinged"}
    /\ \/ /\ tpc = "unping" /\ tgame.ping # 0
          /\ DeleteMessage(tgame.ping)
          /\ tpc' = "unpinged"
          /\ UNCHANGED <<games, tgame>>
       \/ /\ tpc = "unpinged" \/ tgame.ping = 0
          /\ IF tgame.ping = 0 THEN UNCHANGED games ELSE Update(m, WithPing(games[m], 0))
          /\ tgame' = WithPing(tgame, 0)
          /\ tpc' = "act"
          /\ UNCHANGED <<pings, faults>>
    /\ UNCHANGED <<server, view, lock, tview, reminder, unwatch, watched, archived, recorded, queued,
                   lastPing, sent, drawn, reminders, unwatches>>

\* finish_codenames_game: the row is there and not finished yet.
FinishRecorded(m) == games[m] # NoGame /\ games[m].lifecycle # "finished"

\* A finished game is recorded, and whoever records it tells the bridge.
TaskFinishes ==
    LET m == tview.match IN
    /\ tpc = "act" /\ tview.phase = "finished"
    /\ \/ /\ tgame.lifecycle # "finished" /\ FinishRecorded(m)
          /\ games' = [games EXCEPT ![m] = WithLifecycle(@, "finished")]
          /\ archived' = [archived EXCEPT ![m] = @ + 1]
          /\ recorded' = recorded \cup {m}
          /\ tpc' = "notify"
          /\ UNCHANGED <<tview, tgame, lock>>
       \/ /\ tgame.lifecycle = "finished" \/ ~FinishRecorded(m)
          /\ EndTask
          /\ UNCHANGED <<games, archived, recorded>>
    /\ UNCHANGED <<server, view, reminder, unwatch, watched, queued, discord, bounds>>

TaskNotifies_IfCurrent ==
    /\ tpc = "notify"
    /\ queued' = IF view = tview THEN queued \cup {tview.match} ELSE queued
    /\ EndTask
    /\ UNCHANGED <<server, view, reminder, unwatch, watched, games, archived, recorded, discord, bounds>>

\* _notify_game_finished: the bridge queues the result (on_game_finished).
TaskNotifies ==
    /\ tpc = "notify"
    /\ queued' = queued \cup {tview.match}
    /\ EndTask
    /\ UNCHANGED <<server, view, reminder, unwatch, watched, games, archived, recorded, discord, bounds>>

\* _send_turn_ping, then the turn is stored as pinged.
TaskSends ==
    /\ tpc = "act" /\ tview.phase = "in_progress"
    /\ \E id \in {0, lastPing + 1} :
        /\ SendMessage(tview, id)
        /\ tgame' = WithPing(tgame, id)
        /\ sent' = [sent EXCEPT ![<<tview.match, tview.turn>>] = IF id = 0 THEN @ ELSE @ + 1]
    /\ tpc' = "sent"
    /\ UNCHANGED <<server, view, lock, tview, reminder, unwatch, database, drawn, reminders, unwatches>>

TaskSaves_KeepsKey ==
    /\ tpc = "sent"
    /\ Update(tview.match, WithPing(games[tview.match], tgame.ping))
    /\ EndTask
    /\ UNCHANGED <<server, view, reminder, unwatch, watched, archived, recorded, queued, discord, bounds>>

TaskSaves ==
    /\ tpc = "sent"
    /\ Update(tview.match, Pinged(games[tview.match], TurnKey(tview), tgame.ping))
    /\ EndTask
    /\ UNCHANGED <<server, view, reminder, unwatch, watched, archived, recorded, queued, discord, bounds>>

TaskStep ==
    \/ TaskStarts
    \/ TaskLocks
    \/ TaskOpens
    \/ TaskRetires
    \/ TaskStartsGame
    \/ TaskDraws
    \/ TaskUnpings
    \/ TaskFinishes
    \/ TaskNotifies
    \/ TaskSends
    \/ TaskSaves

-----------------------------------------------------------------------------
(***************************************************************************)
(* send_due_reminders for this room, with the view it found in its list.   *)
(***************************************************************************)
EndReminder ==
    /\ rpc' = "none"
    /\ rview' = NoView
    /\ rgame' = NoGame
    /\ lock' = Released("reminder")

ReminderStarts ==
    /\ rpc = "none"
    /\ MoreEvents
    /\ TurnKey(view) # 0
    /\ reminders' = reminders + 1
    /\ rpc' = "lock"
    /\ rview' = view
    /\ UNCHANGED <<server, view, lock, task, rgame, unwatch, database, discord, faults, unwatches>>

ReminderLocks ==
    /\ rpc = "lock"
    /\ lock = "free"
    /\ lock' = "reminder"
    /\ rpc' = "check"
    /\ UNCHANGED <<server, view, task, rview, rgame, unwatch, database, discord, bounds>>

ReminderApplies ==
    /\ Latest = rview.match
    /\ games[Latest].key = TurnKey(rview)

\* The latest game is still on that turn, which may have waited long enough.
ReminderChecks ==
    /\ rpc = "check"
    /\ \/ /\ ReminderApplies
          /\ rgame' = games[rview.match]
          /\ rpc' = "unping"
          /\ UNCHANGED <<rview, lock>>
       \/ EndReminder
    /\ UNCHANGED <<server, view, task, unwatch, database, discord, bounds>>

ReminderUnpings ==
    LET m == rview.match IN
    /\ rpc \in {"unping", "unpinged"}
    /\ \/ /\ rpc = "unping" /\ rgame.ping # 0
          /\ DeleteMessage(rgame.ping)
          /\ rpc' = "unpinged"
          /\ UNCHANGED <<games, rgame>>
       \/ /\ rpc = "unpinged" \/ rgame.ping = 0
          /\ IF rgame.ping = 0 THEN UNCHANGED games ELSE Update(m, WithPing(games[m], 0))
          /\ rgame' = WithPing(rgame, 0)
          /\ rpc' = "send"
          /\ UNCHANGED <<pings, faults>>
    /\ UNCHANGED <<server, view, lock, task, rview, unwatch, watched, archived, recorded, queued,
                   lastPing, sent, drawn, reminders, unwatches>>

ReminderSends ==
    /\ rpc = "send"
    /\ \E id \in {0, lastPing + 1} :
        /\ SendMessage(rview, id)
        /\ rgame' = WithPing(rgame, id)
    /\ rpc' = "sent"
    /\ UNCHANGED <<server, view, lock, task, rview, unwatch, database, sent, drawn, reminders, unwatches>>

ReminderSaves ==
    /\ rpc = "sent"
    /\ Update(rview.match, WithPing(games[rview.match], rgame.ping))
    /\ EndReminder
    /\ UNCHANGED <<server, view, task, unwatch, watched, archived, recorded, queued, discord, bounds>>

ReminderFails ==
    /\ rpc \notin {"none", "lock"}
    /\ Fault("exception")
    /\ EndReminder
    /\ UNCHANGED <<server, view, task, unwatch, database, discord, reminders, unwatches>>

ReminderStep ==
    \/ ReminderLocks
    \/ ReminderChecks
    \/ ReminderUnpings
    \/ ReminderSends
    \/ ReminderSaves

-----------------------------------------------------------------------------
(***************************************************************************)
(* unwatch: without the lock, the latest game's ping is deleted, then the  *)
(* watch (and its games) and, as nobody watches the room, the client, the  *)
(* view and the pending update.                                            *)
(***************************************************************************)
UnwatchStarts ==
    /\ upc = "none"
    /\ MoreEvents
    /\ unwatches' = unwatches + 1
    /\ LET ping == IF Latest = 0 THEN 0 ELSE games[Latest].ping IN
        /\ ugame' = [match |-> Latest, ping |-> ping]
        /\ upc' = IF ping = 0 THEN "remove" ELSE "unping"
    /\ UNCHANGED <<server, view, lock, task, reminder, database, discord, faults, reminders>>

UnwatchUnpings ==
    LET m == ugame.match IN
    /\ \/ /\ upc = "unping"
          /\ DeleteMessage(ugame.ping)
          /\ upc' = "unpinged"
          /\ UNCHANGED games
       \/ /\ upc = "unpinged"
          /\ Update(m, WithPing(games[m], 0))
          /\ upc' = "remove"
          /\ UNCHANGED <<pings, faults>>
    /\ UNCHANGED <<server, view, lock, task, reminder, ugame, watched, archived, recorded, queued,
                   lastPing, sent, drawn, reminders, unwatches>>

Unfinished_AnyStarted(m) == m = Latest /\ games[m].lifecycle # "lobby"
\* The watch's latest game, if it is still in progress.
Unfinished(m) == m = Latest /\ games[m].lifecycle = "in_progress"

\* remove_codenames_watch: a game in progress is archived as unwatched.
UnwatchRemoves ==
    /\ upc = "remove"
    /\ upc' = "stop"
    /\ watched' = FALSE
    /\ games' = [m \in Matches |-> NoGame]
    /\ archived' = [m \in Matches |-> IF Unfinished(m) THEN archived[m] + 1 ELSE archived[m]]
    /\ UNCHANGED <<server, view, lock, task, reminder, ugame, recorded, queued, discord, bounds>>

\* _stop_if_unwatched
UnwatchStops ==
    /\ upc = "stop"
    /\ upc' = "done"
    /\ ugame' = [match |-> 0, ping |-> 0]
    /\ view' = NoView
    /\ EndTask
    /\ UNCHANGED <<server, reminder, database, discord, bounds>>

UnwatchStep == UnwatchUnpings \/ UnwatchRemoves \/ UnwatchStops

-----------------------------------------------------------------------------
\* The process dies and is started again: a watched room gets a new client.
Crash ==
    /\ Fault("crash")
    /\ view' = NoView
    /\ tpc' = "none" /\ tview' = NoView /\ tgame' = NoGame
    /\ rpc' = "none" /\ rview' = NoView /\ rgame' = NoGame
    /\ upc' = IF watched THEN "none" ELSE "done"
    /\ lock' = "free"
    /\ UNCHANGED <<server, ugame, database, discord, reminders, unwatches>>

Next ==
    \/ Play
    \/ ViewArrives
    \/ Refresh
    \/ TaskStep
    \/ TaskFails
    \/ ReminderStarts
    \/ ReminderStep
    \/ ReminderFails
    \/ UnwatchStarts
    \/ UnwatchStep
    \/ Crash

Safe == Init /\ [][Next]_vars

\* The event loop runs every task that is ready; an asyncio lock is fair.
Spec == Safe /\ WF_vars(TaskStep) /\ WF_vars(ReminderStep) /\ WF_vars(UnwatchStep)

-----------------------------------------------------------------------------
(***************************************************************************)
(* A game's row only moves on, from lobby to in progress to finished, as   *)
(* long as the watch is there: no update works from a copy of the row so   *)
(* old that it takes a finished game back.                                 *)
(***************************************************************************)
Rank(lifecycle) ==
    CASE lifecycle = "none" -> 0
      [] lifecycle = "lobby" -> 1
      [] lifecycle = "in_progress" -> 2
      [] lifecycle = "finished" -> 3

LifecycleMovesOn ==
    [][watched' => \A m \in Matches : Rank(games[m].lifecycle) <= Rank(games'[m].lifecycle)]_vars

(***************************************************************************)
(* "so a restart replaying the final state never records the game twice"   *)
(* (finish_codenames_game): a watch archives each match at most once, also *)
(* when it is removed while the game is being recorded.                    *)
(***************************************************************************)
ArchivedOnce == \A m \in Matches : archived[m] <= 1

(***************************************************************************)
(* A turn is pinged once, whatever views are replayed; each further ping   *)
(* for it takes a fault of its own (turn_key in schema.sql).               *)
(***************************************************************************)
ExtraPingsTakeFaults == \A m \in Matches, t \in Turns : sent[<<m, t>>] <= 1 + faults

(***************************************************************************)
(* "The previous ping is deleted": every ping on Discord is one the latest *)
(* game's row or a ping under way knows of, so that it will be deleted;    *)
(* each stray one takes a fault, as long as the room is not unwatched.  An *)
(* unwatch, which takes no lock, may leave the ping of an update or of a   *)
(* reminder that is under way, and the one that row forgot.                *)
(***************************************************************************)
Known == {tgame.ping, rgame.ping} \cup IF Latest = 0 THEN {} ELSE {games[Latest].ping}

StrayPingsTakeFaults ==
    unwatches = 0 => Cardinality({p \in pings : p.id \notin Known}) <= faults

(***************************************************************************)
(* A game recorded as finished is reported to the bridge, whether its room *)
(* is still watched or not: each result that is lost takes a fault of its  *)
(* own, but for one that an unwatch cancels between recording and          *)
(* reporting (_stop_if_unwatched).                                         *)
(***************************************************************************)
Unreported == {m \in recorded : m \notin queued /\ ~(tpc = "notify" /\ tview.match = m)}

LostResultsTakeFaults == Cardinality(Unreported) <= faults + (IF upc = "done" THEN 1 ELSE 0)

(***************************************************************************)
(* A view that waits for an update is drawn, its turn pinged and its       *)
(* result queued, unless before that a newer view takes its place, a fault *)
(* happens or the room is unwatched.  Turn keys repeat: a turn whose key   *)
(* is that of the turn last pinged, as the bot saw none in between, gets   *)
(* no ping of its own.  Earlier faults may have left a turn stored without *)
(* its ping, and a recorded result unreported; no more than that.          *)
(***************************************************************************)
LastPinged(m) == {t \in Turns : /\ sent[<<m, t>>] > 0
                                /\ \A u \in Turns : u > t => sent[<<m, u>>] = 0}

SameKey(v, t) == TurnKey([v EXCEPT !.turn = t]) = TurnKey(v)

TurnAnnounced(v) ==
    \/ \E t \in LastPinged(v.match) : SameKey(v, t)
    \/ faults > 0 /\ games[v.match].key = TurnKey(v)

ResultReported(v) == v.match \in queued \/ (faults > 0 /\ v.match \in recorded)

Handled(v) ==
    /\ drawn = v
    /\ v.phase = "in_progress" => TurnAnnounced(v)
    /\ v.phase = "finished" => ResultReported(v)

WaitingViewHandled ==
    \A v \in View, n \in 0 .. MaxEvents :
        (tpc = "waiting" /\ view = v /\ faults = n) ~> (Handled(v) \/ view # v \/ faults > n \/ upc # "none")

(***************************************************************************)
(* docs/tournament-bridge.md: "a restart or an outage on either side loses *)
(* nothing": a finished game's result is queued once it is recorded.       *)
(***************************************************************************)
RestartLosesNothing == Unreported = {}
=============================================================================

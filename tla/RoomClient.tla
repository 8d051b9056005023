------------------------------ MODULE RoomClient ------------------------------
(***************************************************************************)
(* CodenamesRoomClient and its MatchTracker: one room on codenames.game,   *)
(* followed through lobby, game server, redirects, dropped connections,    *)
(* idle rooms and new matches.                                             *)
(*                                                                         *)
(* The handler of an event is one step: it changes the client before its   *)
(* first await.  A state of a match is its `_stateID`, which counts the    *)
(* moves; what it contains is the set of moves that went into it, and the  *)
(* log of clues and guesses is a set of moves too.  The site is external:  *)
(* which server has the room, its matches, and the messages both ways,     *)
(* which arrive in order.                                                  *)
(***************************************************************************)
EXTENDS Naturals, Sequences

CONSTANTS
    GameServers,   \* the servers a room can be on
    MaxMatch,      \* bound: matches played in the room
    MaxMove,       \* bound: moves of a match
    MaxFailures,   \* max_failures
    FaultKinds,    \* what may go wrong: some of the kinds below
    MaxFaults      \* bound: faults, of all kinds together

ASSUME ClientAssumption ==
    /\ GameServers # {} /\ "lobby" \notin GameServers /\ "none" \notin GameServers
    /\ {MaxMatch, MaxFailures} \subseteq Nat \ {0}
    /\ {MaxMove, MaxFaults} \subseteq Nat
    /\ FaultKinds \subseteq {"refused", "drop", "error", "sleep", "slow", "move", "duet", "unfit", "late"}

Servers == GameServers \cup {"lobby"}
Matches == 1 .. MaxMatch
Moves == 1 .. MaxMove

\* What the tracker holds of a match (state None is `synced` FALSE), and a view of it.
Track == [match : 0 .. MaxMatch, synced : BOOLEAN, id : 0 .. MaxMove, moves : SUBSET Moves, log : SUBSET Moves]
NoTrack == [match |-> 0, synced |-> FALSE, id |-> 0, moves |-> {}, log |-> {}]

\* An event from the server.  A sync or a patch carries the state after move
\* `id`.  A patch does not fit when it touches what the spectator never got, and
\* a sync does not when it is overtaken by a move.
Event == [kind : {"updateServerURL", "createdMatch", "sync", "patch", "update", "matchData",
                  "playNextMatch", "room-timeout", "wrongNamespace", "sync-error"},
          match : 0 .. MaxMatch, id : 0 .. MaxMove, fits : BOOLEAN, url : Servers \cup {"none"}]
Ev(kind, m, id) == [kind |-> kind, match |-> m, id |-> id, fits |-> TRUE, url |-> "none"]

VARIABLES
    home,       \* external: the server that has the room
    played,     \* external: the moves of each match so far
    current,    \* external: the room's current match
    up,         \* external: the connection is open
    entered,    \* external: this connection is in the room
    asks,       \* external: the client's sync requests, 0 for "default"
    inbox,      \* external: the server's events on their way to the client
    pc,         \* where run() and _run_connection are
    url,        \* _server_url
    moveTo,     \* _move_to, "none" if not set
    joined,     \* _joined is set
    gotIn,      \* what _run_connection returns
    ended,      \* _connection_ended is set
    reason,     \* _close_reason
    timedOut,   \* _room_timed_out
    failures,
    tracker,
    shown,      \* the last view given to on_view
    faults,
    outages,    \* history: faults that cost a connection, since one that got into the room was lost
    late        \* history: the shown view may be from a late answer

site == <<home, played, current>>
connection == <<up, entered, asks, inbox>>
control == <<url, moveTo, joined, gotIn, ended, reason, timedOut, failures>>
trouble == <<faults, outages>>
vars == <<site, connection, pc, control, tracker, shown, trouble, late>>

TypeOK ==
    /\ home \in GameServers
    /\ played \in [Matches -> 0 .. MaxMove]
    /\ current \in Matches
    /\ up \in BOOLEAN
    /\ asks \in Seq(0 .. MaxMatch)
    /\ inbox \in Seq(Event)
    /\ pc \in {"check", "connect", "join", "stay", "disconnect", "pause", "report", "over"}
    /\ url \in Servers
    /\ moveTo \in Servers \cup {"none"}
    /\ reason \in {"none", "stopped", "unsupported", "failed"}
    /\ {entered, joined, gotIn, ended, timedOut, late} \subseteq BOOLEAN
    /\ failures \in 0 .. MaxFailures
    /\ tracker \in Track
    /\ shown \in Track
    /\ {faults, outages} \subseteq 0 .. MaxFaults

Init ==
    /\ home \in GameServers
    /\ played = [m \in Matches |-> 0] /\ current = 1
    /\ up = FALSE /\ entered = FALSE /\ asks = <<>> /\ inbox = <<>>
    /\ pc = "check" /\ url = "lobby" /\ moveTo = "none"
    /\ joined = FALSE /\ gotIn = FALSE /\ ended = FALSE /\ reason = "none" /\ timedOut = FALSE /\ failures = 0
    /\ tracker = NoTrack /\ shown = NoTrack
    /\ faults = 0 /\ outages = 0 /\ late = FALSE

Fault(kind) ==
    /\ kind \in FaultKinds
    /\ faults < MaxFaults
    /\ faults' = faults + 1
    /\ outages' = outages + (IF kind \in {"refused", "drop", "error", "slow"} THEN 1 ELSE 0)

-----------------------------------------------------------------------------
(***************************************************************************)
(* The site (external).  Whoever is in the room is told of each move and   *)
(* each new match; requests are answered in order.                         *)
(***************************************************************************)
Send(e) == inbox' = Append(inbox, e)

Tell(e) == IF up /\ entered THEN Send(e) ELSE UNCHANGED inbox

\* A move is sent as a patch or as a full state.  Not every patch fits the
\* redacted state that a spectator has.
Play ==
    LET n == played[current] + 1 IN
    /\ n <= MaxMove
    /\ played' = [played EXCEPT ![current] = n]
    /\ \/ Tell(Ev("patch", current, n)) /\ UNCHANGED trouble
       \/ Tell([Ev("patch", current, n) EXCEPT !.fits = FALSE]) /\ Fault("unfit")
       \/ Tell(Ev("update", current, n)) /\ Fault("unfit")
    /\ UNCHANGED <<home, current, up, entered, asks, pc, control, tracker, shown, late>>

PlayNext ==
    /\ current < MaxMatch
    /\ current' = current + 1
    /\ Tell(Ev("playNextMatch", 0, 0))
    /\ UNCHANGED <<home, played, up, entered, asks, pc, control, tracker, shown, trouble, late>>

\* Somebody opens or closes the room.
Visit ==
    /\ up /\ entered /\ inbox = <<>>
    /\ Send(Ev("matchData", current, 0))
    /\ UNCHANGED <<site, up, entered, asks, pc, control, tracker, shown, trouble, late>>

\* A sync of "default": the lobby names the room's server, another server than
\* the room's does too, and the room's own server names the current match.
AnswerDefault ==
    /\ up /\ asks # <<>> /\ Head(asks) = 0
    /\ asks' = Tail(asks)
    /\ \/ /\ Fault("duet") /\ Send(Ev("wrongNamespace", 0, 0)) /\ UNCHANGED entered
       \/ /\ Fault("error") /\ Send(Ev("sync-error", 0, 0)) /\ UNCHANGED entered
       \/ /\ url = "lobby"
          /\ Send([Ev("updateServerURL", 0, 0) EXCEPT !.url = home])
          /\ UNCHANGED <<entered, trouble>>
       \/ /\ url # "lobby"
          /\ Send([Ev("createdMatch", current, 0) EXCEPT !.url = home])
          /\ entered' = (url = home)
          /\ UNCHANGED trouble
    /\ UNCHANGED <<site, up, pc, control, tracker, shown, late>>

\* A sync of a match: its state, or its state before the last move when that
\* move was told while the answer was being put together.
AnswerSync ==
    LET m == Head(asks) IN
    /\ up /\ asks # <<>> /\ m # 0
    /\ asks' = Tail(asks)
    /\ \/ Send([Ev("sync", m, played[m]) EXCEPT !.url = home]) /\ UNCHANGED trouble
       \/ /\ played[m] > 0 /\ entered /\ Fault("late")
          /\ Send([Ev("sync", m, played[m] - 1) EXCEPT !.url = home, !.fits = FALSE])
    /\ UNCHANGED <<site, up, entered, pc, control, tracker, shown, late>>

\* The room moves to another server, or the connection is lost, or the server
\* puts an idle room to sleep.
SiteFails ==
    /\ \/ /\ Fault("move")
          /\ home' \in GameServers \ {home}
          /\ Tell([Ev("updateServerURL", 0, 0) EXCEPT !.url = home'])
          /\ entered' = FALSE
          /\ UNCHANGED <<up, asks, ended>>
       \/ /\ up /\ Fault("drop")
          /\ up' = FALSE /\ asks' = <<>> /\ inbox' = <<>> /\ entered' = FALSE
          /\ ended' = TRUE
          /\ UNCHANGED home
       \/ /\ up /\ entered /\ Fault("sleep")
          /\ Send(Ev("room-timeout", current, 0))
          /\ UNCHANGED <<home, up, entered, asks, ended>>
    /\ UNCHANGED <<played, current, pc, url, moveTo, joined, gotIn, reason, timedOut, failures, tracker, shown, late>>

-----------------------------------------------------------------------------
(***************************************************************************)
(* MatchTracker.                                                           *)
(***************************************************************************)
UpTo(n) == 1 .. n

\* apply_sync replaces the state and the log.
ApplySync(t, id) == [t EXCEPT !.synced = TRUE, !.id = id, !.moves = UpTo(id), !.log = UpTo(id)]

\* apply_patch refuses a patch that does not follow on the state held.
Follows(t, e) == t.synced /\ t.id = e.id - 1 /\ e.fits
ApplyPatch(t, e) == [t EXCEPT !.id = e.id, !.moves = @ \cup {e.id}, !.log = @ \cup {e.id}]

-----------------------------------------------------------------------------
(***************************************************************************)
(* Events, handled while the connection is open, also while it is being    *)
(* closed (nothing is sent then).                                          *)
(***************************************************************************)
Receives(kind) ==
    /\ up /\ pc \in {"join", "stay", "disconnect"}
    /\ inbox # <<>> /\ Head(inbox).kind = kind
    /\ inbox' = Tail(inbox)

\* _request_sync
Ask(m) == asks' = IF pc = "disconnect" THEN asks ELSE Append(asks, m)

\* _redirect leaves this connection for another server.
Elsewhere(e) == e.url \notin {"none", url}
Redirect(e) ==
    /\ moveTo' = e.url
    /\ ended' = TRUE
    /\ joined' = TRUE

OnUpdateServerURL ==
    /\ Receives("updateServerURL")
    /\ IF Elsewhere(Head(inbox)) THEN Redirect(Head(inbox)) ELSE UNCHANGED <<moveTo, ended, joined>>
    /\ UNCHANGED <<site, up, entered, asks, pc, url, gotIn, reason, timedOut, failures, tracker, shown, trouble, late>>

\* A match that the tracker does not have yet starts from nothing.
OnCreatedMatch_EmptyState ==
    LET e == Head(inbox) IN
    /\ Receives("createdMatch")
    /\ IF Elsewhere(e)
       THEN Redirect(e) /\ UNCHANGED <<asks, tracker>>
       ELSE /\ tracker' = [NoTrack EXCEPT !.match = e.match, !.synced = TRUE]
            /\ Ask(e.match)
            /\ UNCHANGED <<moveTo, ended, joined>>
    /\ UNCHANGED <<site, up, entered, pc, url, gotIn, reason, timedOut, failures, shown, trouble, late>>

OnCreatedMatch_KeepsTracker ==
    LET e == Head(inbox) IN
    /\ Receives("createdMatch")
    /\ IF Elsewhere(e)
       THEN Redirect(e) /\ UNCHANGED <<asks, tracker>>
       ELSE /\ tracker' = [tracker EXCEPT !.match = e.match]
            /\ Ask(e.match)
            /\ UNCHANGED <<moveTo, ended, joined>>
    /\ UNCHANGED <<site, up, entered, pc, url, gotIn, reason, timedOut, failures, shown, trouble, late>>

OnCreatedMatch ==
    LET e == Head(inbox) IN
    /\ Receives("createdMatch")
    /\ IF Elsewhere(e)
       THEN Redirect(e) /\ UNCHANGED <<asks, tracker>>
       ELSE /\ tracker' = IF tracker.match = e.match THEN tracker ELSE [NoTrack EXCEPT !.match = e.match]
            /\ Ask(e.match)
            /\ UNCHANGED <<moveTo, ended, joined>>
    /\ UNCHANGED <<site, up, entered, pc, url, gotIn, reason, timedOut, failures, shown, trouble, late>>

\* A sync of another match is an answer to an old request.
OnSync ==
    LET e == Head(inbox) IN
    /\ Receives("sync")
    /\ \/ /\ tracker.match # e.match
          /\ UNCHANGED <<moveTo, ended, joined, tracker, shown, late>>
       \/ /\ tracker.match = e.match /\ Elsewhere(e)
          /\ Redirect(e)
          /\ UNCHANGED <<tracker, shown, late>>
       \/ /\ tracker.match = e.match /\ ~Elsewhere(e)
          /\ tracker' = ApplySync(tracker, e.id)
          /\ shown' = tracker'
          /\ joined' = TRUE
          /\ late' = ~e.fits
          /\ UNCHANGED <<moveTo, ended>>
    /\ UNCHANGED <<site, up, entered, asks, pc, url, gotIn, reason, timedOut, failures, trouble>>

\* A patch out of step is answered with a request for the whole state.
OnPatch ==
    LET e == Head(inbox) IN
    /\ Receives("patch")
    /\ \/ /\ tracker.match # e.match
          /\ UNCHANGED <<asks, tracker, shown>>
       \/ /\ tracker.match = e.match /\ Follows(tracker, e)
          /\ tracker' = ApplyPatch(tracker, e)
          /\ shown' = tracker'
          /\ UNCHANGED asks
       \/ /\ tracker.match = e.match /\ ~Follows(tracker, e)
          /\ Ask(tracker.match)
          /\ UNCHANGED <<tracker, shown>>
    /\ UNCHANGED <<site, up, entered, pc, control, trouble, late>>

OnUpdate ==
    /\ Receives("update")
    /\ IF tracker.match = Head(inbox).match THEN Ask(tracker.match) ELSE UNCHANGED asks
    /\ UNCHANGED <<site, up, entered, pc, control, tracker, shown, trouble, late>>

\* The players change, not the state: the view is given again.
OnMatchData ==
    /\ Receives("matchData")
    /\ shown' = IF tracker.match = Head(inbox).match /\ tracker.synced THEN tracker ELSE shown
    /\ UNCHANGED <<site, up, entered, asks, pc, control, tracker, trouble, late>>

OnPlayNextMatch_Ignored ==
    /\ Receives("playNextMatch")
    /\ UNCHANGED <<site, up, entered, asks, pc, control, tracker, shown, trouble, late>>

OnPlayNextMatch ==
    /\ Receives("playNextMatch")
    /\ Ask(0)
    /\ UNCHANGED <<site, up, entered, pc, control, tracker, shown, trouble, late>>

OnRoomTimeout ==
    /\ Receives("room-timeout")
    /\ timedOut' = TRUE
    /\ ended' = TRUE
    /\ UNCHANGED <<site, up, entered, asks, pc, url, moveTo, joined, gotIn, reason, failures, tracker, shown, trouble, late>>

\* _close: the first reason stays.
Close_Last(why) ==
    /\ reason' = why
    /\ ended' = TRUE

Close(why) ==
    /\ reason' = IF reason = "none" THEN why ELSE reason
    /\ ended' = TRUE

OnWrongNamespace ==
    /\ Receives("wrongNamespace")
    /\ Close("unsupported")
    /\ UNCHANGED <<site, up, entered, asks, pc, url, moveTo, joined, gotIn, timedOut, failures, tracker, shown, trouble, late>>

OnSyncError ==
    /\ Receives("sync-error")
    /\ ended' = TRUE
    /\ UNCHANGED <<site, up, entered, asks, pc, url, moveTo, joined, gotIn, reason, timedOut, failures, tracker, shown, trouble, late>>

-----------------------------------------------------------------------------
(***************************************************************************)
(* run() and _run_connection.                                              *)
(***************************************************************************)
quiet == <<site, tracker, shown, late>>

\* The loop's head, and the events of a new connection cleared.
Checks ==
    /\ pc = "check"
    /\ IF reason # "none"
       THEN pc' = "report" /\ UNCHANGED <<joined, ended>>
       ELSE pc' = "connect" /\ joined' = FALSE /\ ended' = FALSE
    /\ UNCHANGED <<quiet, connection, url, moveTo, gotIn, reason, timedOut, failures, trouble>>

\* A new connection asks for the room's current match.
Connects ==
    /\ pc = "connect"
    /\ \/ /\ up' = TRUE /\ asks' = <<0>>
          /\ pc' = "join"
          /\ UNCHANGED <<gotIn, trouble>>
       \/ /\ Fault("refused")
          /\ gotIn' = FALSE
          /\ pc' = "disconnect"
          /\ UNCHANGED <<up, asks>>
    /\ UNCHANGED <<quiet, entered, inbox, url, moveTo, joined, ended, reason, timedOut, failures>>

\* The state came, or another server was named.
Joins ==
    /\ pc = "join" /\ joined
    /\ \/ moveTo = "none" /\ pc' = "stay" /\ UNCHANGED gotIn
       \/ moveTo # "none" /\ pc' = "disconnect" /\ gotIn' = TRUE
    /\ UNCHANGED <<quiet, connection, url, moveTo, joined, ended, reason, timedOut, failures, trouble>>

\* Nothing came within join_timeout.  A stop waits for this too.
JoinTimesOut ==
    /\ pc = "join" /\ ~joined
    /\ \/ (reason # "none" \/ (asks = <<>> /\ inbox = <<>>)) /\ UNCHANGED trouble
       \/ Fault("slow")
    /\ gotIn' = FALSE
    /\ pc' = "disconnect"
    /\ UNCHANGED <<quiet, connection, url, moveTo, joined, ended, reason, timedOut, failures>>

Leaves ==
    /\ pc = "stay" /\ ended
    /\ gotIn' = joined
    /\ pc' = "disconnect"
    /\ UNCHANGED <<quiet, connection, url, moveTo, joined, ended, reason, timedOut, failures, trouble>>

\* A connection that got into the room, or a room gone to sleep, starts the count again.
Tries_OneLess == IF timedOut \/ gotIn THEN failures - 1 ELSE failures + 1
Tries_NeverReset == failures + 1
Tries == IF timedOut \/ gotIn THEN 0 ELSE failures + 1

\* The connection is closed; then a redirect is followed at once, or the client
\* gives up or pauses before it starts from the lobby again.
Disconnects ==
    /\ pc = "disconnect"
    /\ up' = FALSE /\ entered' = FALSE /\ asks' = <<>> /\ inbox' = <<>>
    /\ ended' = TRUE
    /\ \/ /\ reason # "none"
          /\ pc' = "report"
          /\ UNCHANGED <<url, moveTo, reason, timedOut, failures, outages>>
       \/ /\ reason = "none" /\ moveTo # "none"
          /\ url' = moveTo /\ moveTo' = "none"
          /\ pc' = "check"
          /\ UNCHANGED <<reason, timedOut, failures, outages>>
       \/ /\ reason = "none" /\ moveTo = "none"
          /\ url' = "lobby"
          /\ timedOut' = FALSE
          /\ failures' = Tries
          /\ outages' = IF timedOut \/ gotIn THEN 0 ELSE outages
          /\ \/ Tries >= MaxFailures /\ reason' = "failed" /\ pc' = "report"
             \/ Tries < MaxFailures /\ pc' = "pause" /\ UNCHANGED reason
          /\ UNCHANGED moveTo
    /\ UNCHANGED <<quiet, joined, gotIn, faults>>

\* The backoff or room_timeout_delay is over, or the client is stopped.
Resumes ==
    /\ pc = "pause"
    /\ pc' = "check"
    /\ UNCHANGED <<quiet, connection, control, trouble>>

\* stop()
Stop ==
    /\ pc \notin {"report", "over"} /\ reason = "none"
    /\ Close("stopped")
    /\ UNCHANGED <<quiet, connection, pc, url, moveTo, joined, gotIn, timedOut, failures, trouble>>

\* on_closed returns.
Finishes ==
    /\ pc = "report"
    /\ pc' = "over"
    /\ UNCHANGED <<quiet, connection, control, trouble>>

-----------------------------------------------------------------------------
Answers == AnswerDefault \/ AnswerSync

Handles ==
    \/ OnUpdateServerURL
    \/ OnCreatedMatch
    \/ OnSync
    \/ OnPatch
    \/ OnUpdate
    \/ OnMatchData
    \/ OnPlayNextMatch
    \/ OnRoomTimeout
    \/ OnWrongNamespace
    \/ OnSyncError

Runs ==
    \/ Checks
    \/ Connects
    \/ Joins
    \/ JoinTimesOut
    \/ Leaves
    \/ Disconnects
    \/ Resumes
    \/ Finishes

Next ==
    \/ Play
    \/ PlayNext
    \/ Visit
    \/ SiteFails
    \/ Stop
    \/ Answers
    \/ Handles
    \/ Runs

Safe == Init /\ [][Next]_vars

\* The site answers, what it sends arrives, and the event loop runs the client.
Spec == Safe /\ WF_vars(Answers) /\ WF_vars(Handles) /\ WF_vars(Runs)

-----------------------------------------------------------------------------
\* A view shows one state of a match, with exactly the clues and guesses that led
\* to it: nothing of a match before, no move missing and none from later.
ShownIsTrue ==
    /\ shown.moves = UpTo(shown.id)
    /\ shown.log = UpTo(shown.id)
    /\ shown.synced => shown.id <= played[shown.match] /\ shown.match <= current

\* The view of a match never goes back to an earlier state, unless the site's
\* answer to a request was overtaken by a move; and a match never comes back.
RollbackTakesLateSync ==
    [][\/ shown'.match > shown.match
       \/ shown'.match = shown.match /\ (shown'.id >= shown.id \/ late')]_vars

\* When nothing goes wrong any more, the view becomes the room's state and stays
\* it, unless the client ended or shows a late answer.
CatchesUp ==
    <>[](\/ shown.synced /\ shown.match = current /\ shown.id = played[current]
         \/ reason # "none"
         \/ late)

\* The client gives up only when as many connections as it may lose failed, each
\* to a fault of its own, since it last lost one that had got into the room
\* or whose room went to sleep: redirects and later losses do not add up.  (Failures from
\* before a stay that a redirect ended do: only losing the room resets them.)
GivesUpOnFailures == reason = "failed" => outages >= MaxFailures

\* This client is one that the monitor can rely on.
Contract == INSTANCE ClientContract WITH
    life <- CASE pc = "over" -> "over"
              [] pc = "report" -> "reporting"
              [] pc \notin {"over", "report"} /\ reason = "none" -> "running"
              [] OTHER -> "ending",
    reason <- reason
KeepsContract == Contract!Spec
===============================================================================

# A TLA+ model of the BoardGameArena Discord turn bot

The bot watches Board Game Arena tables and codenames.game rooms and posts
cards, turn pings and results to Discord; a tournament service may bind
channels to its matches and is told the results.  This directory models the
parts of it whose correctness rests on the order of steps, checks them with
TLC, and proves the main safety properties of eight of them with TLAPS.

Paths below are relative to the repository's `src/bga_turn/`.

## 1. How the program runs

One process runs one asyncio event loop.  Code between two `await`s is atomic
with respect to every other task.

* **Database.**  Every call goes through `AsyncDatabase`, which runs the method
  in a thread under one re-entrant lock (`database.py`).  One method is
  therefore one atomic step, and each `await self.db...` is a point where other
  tasks run.  A multi-row method commits once at its end, or in one transaction.
* **Discord.**  Calls go through `DiscordRateLimiter.call`: executed, given up
  on (it returns `None`), or ending in an exception.
* **Tasks.**  One delivery task for the tournament bridge; per room a socket.io
  client and at most one pending update; a reminder loop; a worker per watched
  BGA table; handlers of slash commands, buttons and HTTP requests.
* **Restarts.**  Everything in memory is gone; the database and the messages on
  Discord stay.

## 2. Inventory

| Component | Code | State | Operations | Modelled |
|---|---|---|---|---|
| Account links | `database.py` (users table) | Discord user → BGA id, name | link, override, unlink, completion from player maps | AccountLinks |
| Result outbox and delivery | `bridge/service.py`, `bridge/store.py` | outbox rows, wake event, delivery task | queue, send again, deliver, retry, give up | BridgeOutbox, ResultDelivery |
| Bindings and line-ups | `bridge/store.py`, `bridge/service.py` | one binding per channel, last outbox id at binding | bind, unbind, is the line-up current | BridgeLineups (state only, not the invitations and redraws it triggers) |
| HTTP API | `bridge/api.py` | none | authenticate, parse, call the service | no |
| Room updates | `codenames/monitor.py`, `codenames/store.py` | last view, pending update, lock per room; game rows | schedule, draw, ping, remind, record, unwatch | RoomUpdates |
| Room clients | `codenames/monitor.py` | watches, client per room, lock, last activity | watch, unwatch, leave a server, refresh, close, restart | RoomClients |
| Room client and tracker | `codenames/client.py`, `state.py` | socket, server, failures, match tracker | connect, join, handle events, redirect, stop | RoomClient, ClientContract |
| Seats and devices | `codenames/store.py`, `views.py`, `monitor.py` | holder, device and name of each seat, remembered names, invitations | claim, assign, release, add a device, invite, auto-claim, link | Seats |
| BGA table monitor | `bga/monitor.py`, `database.py` | worker per table, subscriptions, the card of each subscription | sync, poll, draw, finalise, adopt, redraw, reset | TableWatch (one table in one channel) |
| BGA commands | `bga/commands.py` | links claimed | register a posted link | TableWatch (registration) |
| BGA client | `bga/client.py` | a session with its page, roster, pending packets | load, connect, command, interpret packets, poll | TableStream (`watch_table` and what is stored of it) |
| BGA views, cards | `bga/` | none of their own | layout | no |
| Rate limiter | `discord_io.py` | a shared pause | call with retries | no; its outcomes are steps of the modules that call it |
| Statistics, dashboard, i18n, wiring | several | none that the above depends on | SQL aggregates, pages, start-up | no, but for the monitor's start (RoomClients) |

How they interact.  The monitor uses a room's client (RoomClient) only as
ClientContract says, which is how RoomClients has it.  The client calls back
(`_on_view`, `_on_closed`); the monitor's update calls Discord and the database
and, when it has recorded a finished game, the bridge (`on_game_finished`),
which writes the outbox and wakes the delivery task.  The tournament answers a
result by binding the channel again with the next line-up, which makes the
monitor redraw the card (`refresh_room`) and thereby cancels an update that is
under way.  The table monitor completes the users table from the players it
sees, and both monitors read that table to know whom to ping.

### What is hard here

* An update holds copies of rows and views across awaits, while button presses
  cancel it, the reminder loop writes the same row and `unwatch` takes no lock.
* A message is sent before the fact that it was sent is stored.
* A finished game is recorded in one database call and reported in another.
* The delivery task works from a list it read earlier, while results are queued
  and sent again; the wake-up event is cleared after the outbox was looked at.
* The tournament's line-ups, the bot's reports and their re-sends cross.
* An account may be held by its id in one row and by its name in another, and
  rows are completed in bulk.
* A table's card is sent, edited, adopted, redrawn and deleted by a worker, the
  handlers of posted links and two kinds of sync, each from its own copy of the
  subscription; the dashboard removes the row under all of them.
* `_ensure_client` looks, awaits and then registers; `unwatch` looks whether a
  room is watched, awaits and then stops; an ending client and an idle close want
  the same lock, and one of them waits for the other.
* A room's client gets full states and patches in an order that redirects, lost
  connections and late answers disturb.
* An update gives seats away from a list it read before, while buttons, admins
  and other updates give away the same seats.
* A BGA session is told what changes, not how things stand: what is published
  while it opens, or comes in a frame behind a reply, is not sent again.

`PROJECT.json` lists each hazard at its line, with the properties that cover it
or the reason why none does yet.

### What makes each component correct

* *Links*: an id or name has one holder; a row never mixes two players.
* *Outbox*: a queued result stays until it is settled, "delivered" only if the
  tournament took it, and is settled eventually; each gets its attempts.
* *Line-ups*: a line-up is shown if and only if it is for the channel's next game.
* *Room updates*: a game is archived once; a turn is pinged once; the last ping
  is deleted; a finished game is reported; what was seen is drawn.
* *Clients*: a watched room has exactly one running client, an unwatched one
  none; nothing waits for ever.
* *Client*: what it shows is one true state of the match, never goes back and
  catches up; it ends once, for one reason.
* *Table sessions*: the bot waits for exactly the players who are to move, an
  ended game is reported, and no other.
* *Tables*: a watched table has one worker; a card that shows a running game is
  one the bot will draw again; a final card stays final; an ended table is
  unwatched; a watch that was stopped stays so.
* *Seats*: a player has one seat; nobody loses a seat but by their own or an
  admin's doing; cards show who is who.

## 3. The modules

### AccountLinks (`database.py`)

`users` is the table as the connection sees it, `disk` what a restart reads
back.  `Link`, `Unlink` are `link_user` and `remove_linked_user`;
`enrich_linked_users_from_players` walks a player map under the lock and commits
once at the end, so `EnrichBegin` and `EnrichStep` go one player at a time and
`Crash` may fall between them.  Strings are model values; `Fold` is what
`strip().casefold()` tells apart.  Discord ids, avatars and timestamps are left
out.  Run **account_links**: three users, two accounts, one name in two
spellings; entries by id, by name and by both.  Three users are enough for a
collision whose override hits two holders at once, two accounts for a mixed row.
What is *not* promised by these rules is that an account has one holder: one user
may hold it by its id and another by its name (section 6).

### BridgeOutbox and ResultDelivery (`bridge/service.py`, `bridge/store.py`)

`Bridge` holds the constants that this module and the next share.
`ResultDelivery` is the promise of `docs/tournament-bridge.md`.  `BridgeOutbox`
is the code: `outbox` with `lastId` (INSERT OR IGNORE on the event id),
the task's program counter `pc` with what its frames hold (`batch`, `url`,
`verdict`, `alarm`), the event `wake`, and `wakers`, the calls that have queued
something and have not yet come back from the database to set it.  The callback
URLs are tried one after the other (`PostAccepted`, `PostRefused`,
`PostFailed`); a failed POST may still have reached the tournament.  Retry
delays are abstracted to "due or not"; `RetryDue` is time passing.
`Crash` loses the task, the event and the wakers; `PassFails` is an exception
in `deliver_due`; `CallerCancelled` is an update that is cancelled in
`on_game_finished`.

Run **outbox**: two channels, two events, two URLs, two attempts, passes of one
row, one fault, one re-send.  Two events are needed for a pass to hold one entry
while another changes, `BatchLimit` 1 for a pass that leaves due rows behind;
two attempts for a retry that is followed by giving up.  It shows `BatchIsFresh`
and `AllAttemptsMade`, and that BridgeOutbox implements ResultDelivery *with its
liveness* (`Delivers`, refinement mapping: an event's result is its row's status).
Of the sleep the code needs the timeout for this: a wake-up that comes between
looking and clearing is lost (the mutant `Awake_NoTimeout` breaks `Delivers`).

### BridgeLineups (`bridge/store.py`)

`bindings`, the outbox `rows` in the order of their ids, and `finishing`: calls
of `on_game_finished` that have read the binding and not queued yet.  The
tournament (external) processes results in any order, binds a new line-up when
it has dealt with all of them, and may send the last one again at any time.
`LineupAfter` is the rule of `upsert_codenames_binding` that an unchanged
line-up keeps the id it was first stored after.  A line-up carries the set of
results it takes into account (`covers`), which the bot does not see: the
properties compare `LineupIsCurrent` with it, in both directions.  Run
**lineups**: two channels, two events, three line-ups each, which covers a
re-send of the same line-up before and after a report, two channels reporting
the same game, and a rebind between the two halves of `on_game_finished`.
Assumed of the tournament, since the code cannot know: a line-up is bound at
once, and not sent again once withdrawn.

### RoomUpdates (`codenames/monitor.py`, `codenames/store.py`)

One room with one watch.  `server` is the true state of the room, `view` what
the client delivered last (views between may be skipped).  Three activities have
a program counter each: the update task `tpc` (`_schedule`, `update_room`,
`_update_watch`), the reminder loop `rpc` and `/codenames unwatch` `upc`; the
first two hold the room's `lock`, unwatch does not.  Each keeps the view it read
and its copy of the game's row, as the code does.  `Refresh` is a button press
or a rebinding, which cancels the update at whatever call it is in; a database
call that a cancelled update had started counts as done, or as not begun.
Faults are a crash, a cancelled update, an exception, and a Discord call that was
given up on.  `archived` counts the rows of each match in game_history and
`recorded` is the matches whose rows there are results; both outlive the watch.
History variables: `sent` counts the pings of each turn, `drawn` what the card shows.

Turn keys repeat (a team and a role): turn *t* has key ((*t*−1) mod Keys) + 1.

* Run **room_updates**: two matches of two turns, and any two of: faults,
  reminder rounds, unwatches (1,816,000 states).  Shows `ArchivedOnce`,
  `LifecycleMovesOn`, and that each repeated ping and lost result costs a fault of
  its own, and so does each stray ping of a room that is not unwatched.  One lost
  result costs none: an unwatch that comes between recording and reporting a game
  stops the room's client and cancels the update (`_stop_if_unwatched`).  Two
  matches are needed to retire a game, two events to cross a crash or a
  cancellation with a reminder or an unwatch.
* Run **room_progress**: one match of three turns over two keys, any two events
  (166,000 states).  `WaitingViewHandled`: a view an update is pending for is drawn,
  its turn pinged and its result queued, unless a newer view, a fault or an unwatch
  intervenes.  Three turns are needed for a key to come back: if the bot saw nothing
  between two turns of one key, the second gets no ping, and the property says that
  this is the only turn left out.
* Run **restart_results**: section 6.

`CHECK_DEADLOCK FALSE` in the room's configurations: the room may have played
its last match with nothing left to do.

### RoomClient and ClientContract (`codenames/client.py`, `codenames/state.py`)

`ClientContract` is what the monitor relies on: a client runs, ends for one
reason, closes its connection, reports that reason once.  `RoomClient` is the
code: `pc` is where `run` and `_run_connection` are, the `On...` actions are the
socket.io handlers (each is one step up to its first await), `url`, `moveTo`,
`joined`, `ended`, `reason`, `timedOut`, `failures` are the fields and locals of
the same names.  The site is external: which server has the room (`home`), the
moves of its matches, and the messages both ways, in order.  A state of a match
is the number of moves made, and what it *contains* is the set of moves that went
into it, so that a patch applied to the wrong state shows.

Run **room_client** (329,000 states): two servers, two matches of one move, two
failures allowed, and any two of nine kinds of trouble (a refused, lost or slow
connection, an error, a sleeping room, a moved room, a game that is not
followed, a patch that does not fit, an answer overtaken by a move).  It shows
that a view is one true state (`ShownIsTrue`), goes back only by a late answer,
becomes the room's state in the end (`CatchesUp`), that a client gives up only
for as many failed connections as `max_failures` says, and that RoomClient
implements ClientContract with its liveness (`KeepsContract`; `Close_Last`, which
forgets the first reason, breaks it).  All but `CatchesUp` and the liveness of the
last is proved for all sizes (section 5).

`outages`, with which `GivesUpOnFailures` counts, starts again where a room that
was joined is lost or goes to sleep, as `failures` does in `run`, and not where it
is joined: a stay that a redirect ends keeps the failures from before it
(`codenames/client.py:105`), so "in a row" would be wrong of them.  Two faults are too
few to tell the two apart; the proof needed it.

### RoomClients (`codenames/monitor.py`)

One room, watched in the channels of one server (guild).  `reg` is
`_clients[room]`, `clients` every client ever made, each taking the steps of
ClientContract, `lock` the room's lock, `update` the task in `_pending`, `old` the
client that a cancelled update was waiting for.  `Watch` to `Creates` are
`watch_room` and `_ensure_client`, `Unwatch` to `StopReturns` are `unwatch`,
`remove_guild` and `_stop_if_unwatched`; `Reports`, `Locks` and `ClientCloses` are
`_on_closed` and `_close_room`, `Wakes` to `UpdateCloses` are `_schedule` and
`update_room` as far as closing goes; `Restart` is `start` after a stop.

Run **room_clients** (266,000 states): two channels, one of them bound to a
tournament, three calls or restarts, two at once, one refused note.  Three calls
are needed for a watch, an unwatch and a watch that meets it.
`FollowsWhatIsWatched` is stated for rooms on which nothing overlapped (`mixed`)
and no close broke off (`failed`): overlapping calls do leave two clients or none
(section 6).  `ComesToRest` is stated for all behaviours and names the only
deadlock there is.

### Seats (`codenames/store.py`, `codenames/views.py`, `codenames/monitor.py`)

`holder`, `name`, `device` are the columns of `codenames_players` and
`codenames_devices` by seat, `remembered` the name each user had last, `invited`
the members of each watch.  `PickSeat`, `PickDevice`, `NotPlaying` are the seat
picker, `Assign` the admin's command, `Invite` is `/codenames players`; `replies`
are claims whose reply Discord has not taken yet, after which the cards are drawn
again.  The update is `update_room` with its reads apart: the view's names
(`StoresNames`), the list of seats (`ListsPlayers`), the members of each watch
matched with that list (`MatchesMembers` with `AutoClaims`, the two rounds of
`_auto_claim_invited`), each claim (`AutoClaim`, where `SeatTakenError` breaks off
the update), and `seat_links` in its two reads.

Run **seats** (496,000 states): two seats, two users, two watches, two spellings
of one name, three events, one refused reply or card.  Both users remember the
same name and one of them goes by it on Discord, so both rounds of matching and
their conflicts happen; two watches let one list be used twice.

### TableStream (`bga/client.py`, `bga/monitor.py`)

One worker following one game with `watch_table`.  `game` is the truth, `socket`
the frames on their way, a frame being a sequence of packets and replies,
`session` the generator with its page, roster and pending packets, `watch` what
`_apply_table_state` has stored.  `LoadsPage`, `Connects`, `Subscribes`,
`Presence`, `YieldsPage`, `YieldsPending`, `Receives`, `Polls` are the generator
up to its next await or yield; `Interpret` is one event of
`_extract_states_from_packet`, with the rule that an acknowledgement counts only
if at most one player was waited for (`Heeds`), `FromItems` a frame.
`Before` is `_send_command_and_wait`: what precedes the reply in its frame is kept,
what follows is not.  The end of a game comes first in `Interpret`, since the code
returns there: what follows it in a packet is not looked at.

Run **table_stream** (576,000 states): two players, one id that does not play, two
packets, one fault.  Two packets let one fall into a gap and another meet the
stream.  `missed` records that the session cannot know who is to move (something
was published between page and subscription or behind a reply, or the packet
is incomplete); without it the bot waits for exactly the right players.
`WatchedToTheEnd` is the other error: that a watch is ended before its game, for
instance because it is nobody's turn (`endPrivateAction` may leave nobody).
`EndReported` needs no such exception but one: a healthy session that missed the
end, with the fallback poll switched off.  Three packets or two faults take TLC
beyond five minutes.

### TableWatch (`bga/monitor.py`, `bga/commands.py`)

One table watched in one channel.  External are `bga`, the phase of the table,
and `messages`, what is on Discord; message ids grow, as snowflakes do.  `row` is
the subscription with its state (by scope for the upsert and the removal, by id
for tracking, which is where stale copies differ).  The code's tasks are
programs of one step per database, Discord or BGA call:

* `worker` is `_run_table_worker` with `_sync_subscriptions_from_snapshot`,
  `_apply_invite_state`, `_apply_table_state` and `_finalize_finished_table`
  in one program counter; `registered` is `_table_tasks`;
* `call` is `_publish_or_update_lifecycle_message` of a worker or of the link's
  handler, with the copy of the subscription it draws from; `mlock` is the
  message lock it takes, `active` is `_active_messages`;
* `sync` is `_sync_tables_once`, run by the loop and by the handler at once;
* `link` is the handler of a posted link: the note, the registration, handing
  the note over as the card (`adopt_link_status_message`), the redraw, the reset.

`Cancel` is `task.cancel()` at whatever await the worker is in: a message being
sent may still appear, and a database call already in its thread is still made
(`LateCall`).  `Stop` is the dashboard's button or the bot leaving a server.
`Init` is an empty bot, or one restarted with a table in its database.  Deleting
a message returns nothing, which the code takes for a failure: `LinkResets`
models that.  "note" stands for a message whose signature in memory no card
equals.

A Discord call that is given up on returns nothing, and the work goes on.  One that
raises goes through to the caller (`CallRaises`): a worker starts over, unless it
was finalising a table that is gone, which it does within the handler of an
exception; then its task ends and the next sync starts another.  A link's handler
ends without its sync.  Refused edits and lookups are caught where they are made.

* Run **table_watch** (419,000 states): two worker slots, a posted link, and one
  of: a crash, a dropped Discord call, an exception raised by Discord, a failing
  fetch, a deletion by a moderator, a stop.  Shows `OneWorker`, `StraysTakeEvents`
  (a card that shows a running game and that neither the row, the memory nor a call
  knows costs a fault), `FinalCardStays`, and `FinishedUnwatched`: an ended table is
  unwatched in the end and for good, or its registered worker still listens to a
  websocket that does not tell it (section 6).  The two properties about cards are
  stated for a watch that is not stopped and whose link is not posted again
  (`disturbed`); the other two for every watch.
* Run **table_stopped**: section 6.

What re-posting a link weakens: it stores the row as recruiting (`LinkStates`), so
that the redraw shows a running game as recruiting until its worker has stored
more.  And the redraw reads the row, then waits for the message lock: if the worker
finalises the table in between, the final card is drawn over as one that has not
ended, and nothing draws it again.  Stopping a watch can leave a card behind in the
same way.

## 4. Bounds and fairness

Bounds are the constants whose declaration says "bound": `MaxFaults`,
`MaxRequeues`, `MaxLineups`, `MaxMatch`, `MaxTurn`, `MaxMove`, `MaxEvents`,
`MaxRows`, `MaxLinks`, `MaxCalls`, `MaxNoteFails`, `MaxPackets`.  `Urls`,
`MaxAttempts`, `BatchLimit` and `MaxFailures` are the program's own settings, set
small.  A match of one move is enough for RoomClient's races (a state before and
after), and `ShownIsTrue` is proved for any number.
`lastId`, attempts and message ids are bounded by what the others allow.

`BridgeOutbox!Spec` assumes weak fairness of the delivery task (the event loop
runs a task that is ready; the wait has a timeout) and of `RetryDue` (time
passes).  It assumes nothing about `SetWake`: an update may be cancelled before
it wakes the task.  It assumes that POSTs end, which the HTTP timeout
guarantees, not that they succeed.  `RoomUpdates!Spec` assumes weak fairness of
the steps of the update, the reminder and unwatch: asyncio runs ready tasks, its
lock is first come first served, calls to Discord and the database return.
Nothing is assumed of the players, of `Refresh` or of views.
`TableWatch!Spec` assumes weak fairness of what each worker does by itself
(`WorkerRuns`, and its calls), of the link's handler and of the sync loop, for the
same reasons, and that no more than `MaxEvents` fetches and calls fail.  It assumes
nothing of what a websocket brings (`WorkerHears` has no fairness: a session may
stay open and silent), nor of the table or of links.
`RoomClient!Spec` assumes that the site answers what it was asked, that what is
sent arrives or the connection is lost, and that the event loop runs handlers and
client; not that connections succeed more often than `MaxFaults` allows.
`ClientContract!Spec` promises that an ending client reports, not that it
ends.  `RoomClients!Spec` has weak fairness of calls, and strong fairness of what
wants the room's lock (clients and the update), because asyncio's lock serves
waiters in turn; calls to Discord and the database return.  `Seats!Spec` has it of
replies and the update, `TableStream!Spec` of the session and the channel's answers
to it.  Nothing is assumed of players, users, admins or games.  AccountLinks and
BridgeLineups have no liveness: nothing there must happen.
`CHECK_DEADLOCK FALSE` in these configurations stands for a client that is over,
calls that are used up, seats nobody touches, a watch that has ended.

## 5. Proofs

Eight modules prove, for every value of the constants that the modules' ASSUMEs
allow:

| Theorem | States |
|---|---|
| AccountLinksProofs!TypeCorrect | types |
| AccountLinksProofs!HeldOnce | `IdOrNameHeldOnce`, in memory and on disk |
| AccountLinksProofs!Unmixing | `NeverMixed`, assuming `Truthful` |
| BridgeProofs!LineupsTypeCorrect | types of the line-ups |
| BridgeProofs!StaleNeverShown | `StaleLineupNeverShown` |
| BridgeProofs!AlwaysFresh | `FreshLineupShown` |
| BridgeProofs!TypeCorrect | types of the outbox |
| BridgeProofs!NeverStale | `BatchIsFresh` |
| BridgeProofs!AttemptsKept | `AllAttemptsMade` |
| BridgeProofs!DeliversSafely | the outbox implements `ResultDelivery!Safe` |
| RoomClientProofs!TypeCorrect | types |
| RoomClientProofs!ShowsTruth | `ShownIsTrue` |
| RoomClientProofs!ContractSafely | the client implements `ClientContract!Safe` |
| RoomClientProofs!GivesUp | `GivesUpOnFailures` |
| RoomClientProofs!NoWayBack | `RollbackTakesLateSync` |
| RoomClientsProofs!TypeCorrect | types |
| RoomClientsProofs!FollowsTheWatched | `FollowsWhatIsWatched` |
| RoomUpdatesProofs!TypeCorrect | types |
| RoomUpdatesProofs!RecordedOnce | `ArchivedOnce` |
| RoomUpdatesProofs!RowsMoveOn | `LifecycleMovesOn` |
| RoomUpdatesProofs!LossesTakeFaults | `LostResultsTakeFaults` |
| RoomUpdatesProofs!PingedOnce | `ExtraPingsTakeFaults` |
| RoomUpdatesProofs!StraysTakeFaults | `StrayPingsTakeFaults` |
| SeatsProofs!TypeCorrect | types |
| SeatsProofs!OneSeat | `HoldsOneSeat` |
| SeatsProofs!AdminsReplace | `OnlyAdminsReplace` |
| SeatsProofs!ListedKept | `AutoClaimsKeepListed` |
| TableStreamProofs!TypeCorrect | types |
| TableStreamProofs!WaitsRightly | `WaitsForTheRightPlayers` |
| TableStreamProofs!EndsRightly | `WatchedToTheEnd` |
| TableStreamProofs!EndOnItsWay | `EndComing`: an end that was not missed is still to be told |
| TableWatchProofs!TypeCorrect | types |
| TableWatchProofs!OneWatcher | `OneWorker` |
| TableWatchProofs!FinalStays | `FinalCardStays` |
| TableWatchProofs!CardsTakeEvents | `StraysTakeEvents` |

*Links.*  `Exclusive` is inductive for both tables.  Linking refuses or removes
every holder of the new row's id or name, *including the id or name the row
keeps from before* (`NewRow`); an enrichment completes a row only for a player
that nobody else matches, so the completed id and name are held by nobody else.
`Unmixing` strengthens `NeverMixed` with `RosterTrue`, that the players still to
be walked are true of some account.  Its assumption `Truthful` says that
accounts differ in id and folded name, and that what people enter and tables show
is true of some account; an admin who enters a wrong pair does mix two players.

*Outbox.*  `BatchIsFresh` and `AllAttemptsMade` are not inductive.  The
invariant `IInv` adds `RowsDistinct` (outbox ids are distinct and at most
`lastId`, so "the next entry" is one entry: lemma `NextIsOne`) and `VerdictSound`
(what is about to be stored: "delivered" only for an accepted event, "abandoned"
only with the last attempt, "pending" only with attempts left).  That a pass is
never stale rests on "send again" taking only rows that are not pending, as every
entry of a pass is pending.  `DeliversSafely` maps each step to a step of
ResultDelivery or a stutter, using that the entry a pass stores is still pending.

*Line-ups.*  Neither property mentions the id a line-up was stored after as anything
but a number.  `BoundSoundly` says what that number is: the line-up takes into
account exactly the channel's results with ids up to it, and the result it names is
one of them.  It holds when a line-up is new, is not touched when it is sent again
(the id is kept, and what is bound is what was sent last), and a result queued later
has a greater id and a new event.  Both properties then follow from the channel's
last result being its greatest id (lemma `LatestIsLast`, for which `MaxIsGreatest`
uses that the natural numbers are well-founded).

*Room updates.*  `RowsSound` holds the argument for rows: what is archived has
finished or went with its watch; and until the update has used its copy of the
lifecycle, no other activity changes that (`CopyTrue`), since the reminder and
unwatch only touch pings or remove everything.  The lock is not needed for this.
`LossesTakeFaults` counts recorded games, not rows, which an unwatch removes: only a
fault adds to those unreported (`UnreportedSteps`), and the last step of an unwatch,
which cancels an update that may be about to report one game (`LostBounded`).  `PingsSound` says that for each match there is a turn *L*, the last
whose ping was stored: the row has its key, every view has reached it, an update
past its comparison pings a later one, and later turns have been pinged by faults
only.  That two turns may have one key does no harm here, as views do not go back.
`StraysTakeFaults` is the argument that the lock is for.  `Locks` says that update
and reminder work on a row only while they hold it, and `Carried` that whoever does
works on the latest row and has in its copy the ping the row has, until the row
has none.  So a ping is kept (`Keeps`) by a row or by a copy until the call to
delete it, and a step loses no ping (`NoneLost`), or one to a fault of its own
(`OneLost`).  Messages have ids of their own (`Distinct`), or one lost id could be
many pings.  The argument ends where an unwatch begins, which takes no lock.

*Client.*  `Types` is `TypeOK` in parts, with what makes it inductive: outages are
no more than faults, and failures stay below their limit while there is no reason
to end.  `IInv` says of the tracker, whether it has a state yet or not, and of the
view what `ShownIsTrue` says of the view; and that every state on its way from the
site is one that its match has been in (`InboxTrue`), and no match is asked for
that the room has not had (`AsksTrue`).  It is kept because a match's moves only
grow (`SiteGrows`, `TrueStays`), a sync replaces state and log together, and a
patch is applied only to the state it follows on (lemma `TrackerTrue`).
`ContractSafely` needs only the types.
`GivesUp` counts outages against failures (`Counted`): a connection that waits for
its state has one on its way (`StateComes`: asked for, or in the inbox, or a move
to where it will come), or an outage has used it up.  `NoWayBack` needs that what
is on its way is in order (`InOrder`: of two events the later names no earlier
match, and a sync that was not overtaken has all the moves of states before it)
and beyond what is shown (`Ahead`); a patch adds one move to what is shown, so
only a late sync takes any back.

*Clients of a room.*  `Types` needs that there is an id left for every watch and
client that is still to be made (`Counted`: those made, and those that calls under way
may make, are no more than the calls and restarts).  `Follows` is
`FollowsWhatIsWatched` between rests.  As long as nothing met and no close broke
off, one thing goes on at a time (`Alone`: a call, an ending client or an idle
close), and `Phases` says what holds at each point of it: between `remove` and
`pop` a client may run for a room that is unwatched, between `add` and `create` a
watched room may have none, and a close that has listed the watches has all of them still on
its list.  Where none is under way (`Quiet`) the registered client runs if and
only if the room is watched.

*Seats.*  Every step leaves the holders alone, takes a user's seat away or gives a
seat to a user (lemma `HolderSteps`), and only an admin gives one that somebody
else holds; `OneSeat` and `AdminsReplace` follow from that.  `ListedKept` needs
the invariant `ClaimsFromList`: every claim still to be made is of a seat that the
update's list shows free, for a user without a seat on it, however old the list is.

*Tables.*  `OneWorker` is not inductive: which worker is cancelled depends on which
is registered.  `Watching` says that a worker is the registered one and the only
one running, before the end and *as long as it goes by a state from before the end*
(`Before`), and that a worker goes by the end only when there was one.  After the end
workers may be several, since one that saw the end is not registered any more when
it lingers.  `FinalCardStays` needs the second half: a final card appears only when a
worker has seen the end, and then no other goes by an earlier state, as it would
have been the only one (`Closed`).  `Closed` adds that a worker with a call under way
waits for the card it asked for, that the handler of a link draws only where the
link was posted again (`disturbed`), and that each message has one id.
`CardsTakeEvents` counts cards that will not be drawn again rather than strays,
which come and go.  `Keeps` says which card will be: the one in memory; or, with
none there, the row's, unless a call has given up looking for it (`Sending`).  The
worker about to remove the row keeps none (`Finishing`): it has drawn the final
card, or failed to, by a fault.  As at most one card is kept, a step loses no card,
or one to a fault (`Pays`), which `Counted` adds up, if every step that changes
memory or row keeps the card.  `Going` says why it does: the copies of the row
that a worker, its calls and the handler of a link work with name the row's card, or
there is a newer one in memory (`Copies`); a call that holds the message lock
knows what is in memory (`CallGoing`), which nobody changes meanwhile; and a note is
older than every card while its link is being registered (`Later`), so a note is
adopted only if there is no card, or none that can be found.  That stops at the two
ends of a watch: before the first row nothing is drawn (`Unwatched`), and after the
last one nothing brings it back (`Over`).

*Following a game.*  What a packet makes of a state, and a frame of a session, are
folds.  TLAPS cannot instantiate the library's induction theorems, so the proofs go
by sets of positions instead: a set that holds 0, and *i* with *i* − 1, is the whole
segment, or it would lack a least one (lemma `Climbs`).  With it a fold is the last
of a *trace*, one state for each event or item (`PacketIsTraced`, `ItemsAreTraced`),
and what every step keeps the last state has.

`WaitsForTheRightPlayers` speaks of a session with nothing left to deal with; its
invariant must say where everything that is left leads.  Left are, in this order,
the states to be yielded, the page, what is pending, and the frames.  Where a packet
leads depends on the names that are known when it is interpreted, and those are of
a later state than the one in which it is sent.  So a packet leads from a set of
players to *some* sets, one for each set of names that has all players in it
(`ItemStep`), and a sequence leads where a path of such steps does (`Leads`).
`TurnKnown` says that as long as nothing was missed, everything that is left leads
to nobody but the players who are to move; `EndComing`, that after the end of the
game something that is left says so.  A move appends to what is left: a packet that is
complete leads to its turn from anywhere, one of a single event that names somebody
from the turn before it (`LoneTurn`), and any other is missed.  A reply in the frame
loses what follows it, which is missed by then.  Reading takes
steps off the path at its other end, and needs that the names then known do have
all players in them (`OutSound`, `Phases`).  When nothing is left, the empty path
leads from who is waited for to who is to move.

`EndsRightly` needs of all this only the types: until the game is over no page,
pending packet, state or frame says that it is (`NothingEnds`), which each step of
the folds keeps (`PacketGoing`, `ItemsGoing`).

A proof attempt found one thing in the model.  `Interpret` was a `CASE` whose first
guard, that the game is over, overlaps with the others; TLA+ lets any true guard be
taken, and only TLC takes the first.  It is an `IF` now, as the code has it.

TLAPS 1.4.5 does not do liveness under fairness or ENABLED, so the liveness halves
of `Delivers` and `KeepsContract`, and `WaitingViewHandled`, `FinishedUnwatched`,
`CatchesUp`, `ComesToRest`, `CardsShowLinks` and `EndReported`, are model-checked
only.  Every safety property of a passing run is proved.

## 6. Where the code and what is said of it differ

Two are shown by runs:

1. **restart_results.**  A finished game is committed before its result is
   queued.  A crash between the two loses the result: the replayed final state
   finds the game finished.  `docs/tournament-bridge.md` says a restart loses
   nothing.  `LostResultsTakeFaults` is what does hold: a fault loses one result, and
   so does an unwatch that cancels the update between the two.
2. **table_stopped**.  A worker upserts the subscriptions it read before it
   fetched the table.  If the watch is stopped during the fetch and the table's
   address has changed, the upsert inserts the subscription again.  The dashboard
   says that the message will no longer update, and "removed from monitoring".

The others follow from the modules and have no run of their own; each says what
does hold.

* README.md says each account can be linked to only one Discord user.  One user
  may link it by its id and another by its name, since `link_user` compares ids
  with ids and names with names.  What holds is `IdOrNameHeldOnce`.
* README.md and `schema.sql` say that a restart never pings twice.  A ping is sent
  before the turn is stored as pinged; a crash between the two pings again, and
  the first ping is never deleted.  What holds is `ExtraPingsTakeFaults`.
* A turn is compared with the last one pinged by its key, a team and a role
  (`codenames/monitor.py:495`).  A bot that sees nothing for exactly one cycle does
  not ping the new turn (`WaitingViewHandled` excepts it).
* Registering a link again calls `update_watch_state` without a lifecycle, which
  stores "recruiting" (`database.py:1268`, `bga/commands.py:889`); the redraw that
  follows takes "the stored state" to be "current" (`bga/monitor.py:1130`) and draws a
  running game as recruiting.  `LinkStates` and `LinkRedraws` have it; the next
  state that the worker hears of puts it right.
* An ended table stays watched while its session is silent, as long as the connection
  holds and the fallback poll is off (`bga/client.py:611`, `:652`), and while Discord
  refuses a new message for its final card: the refusal goes through to the worker,
  which starts over before the subscription is removed (`bga/monitor.py:716`,
  `discord_io.py:93`).  `FinishedUnwatched` excepts the first, and holds once refusals
  cease.
* A view that arrives while an update is under way schedules nothing, and that
  update works from an older one (`codenames/monitor.py:289`); until the room
  changes again the card is out of date.  `WaitingViewHandled` is what holds; Seats
  has the same case as `missed`.
* An idle close tells the client to stop and waits for it with the room's lock in
  hand (`codenames/monitor.py:314`).  If that client was just ending for another
  reason, it waits for the lock: neither goes on (`Deadlocked`).
* A watch that meets an unwatch, or another watch, may leave the room with two
  clients or none.  A note that Discord refuses breaks off `_close_room` and leaves
  a client registered that has ended, so posting the link again starts no new one,
  against what README.md says of closed rooms.  `FollowsWhatIsWatched` holds
  without these.
* The docstring of `_auto_claim_invited` says a seat is claimed only when exactly
  one member matches it.  In the round of remembered names the first of two members
  gets it.  No seat is taken from anybody by that (`AutoClaimsKeepListed`).
* `_extract_states_from_packet`: an acknowledgement in the packet that opens a turn
  of several players replaces them, as the list before the packet decides whether
  it counts; packets behind a reply are dropped.  `Complete` and `missed` name
  these cases in `WaitsForTheRightPlayers`.

## 7. Abstractions and what is not modelled

* *RoomUpdates*: the board image, the card's message id, line-up pings, ping
  threads, several watches of a room, and when a reminder is due.  Seats and idle
  closing have modules of their own (a `SeatTakenError` is `TaskFails` here).  A finished game has a winner and its
  channel is bound, so every one is to be reported.
* *RoomClient*: what a state says of the board, the teams and the names; the
  addresses of servers; the lengths of backoffs and timeouts (a timeout may happen
  when nothing is left to come, or as a fault).
* *RoomClients*: other rooms and servers, what is drawn (RoomUpdates), debouncing.
* *Seats*: the bot's own seat; a member's names on Discord and in the tournament
  are one constant set (`MemberNames`); how names are normalised and compared
  (`Norm`, `Alike`); another room's seats.
* *TableStream*: how names and ids are found in pages and packets; a page that
  tells a wrong turn of a running game; recruiting-only sessions; the three events
  that set who is to move are one kind; channels that bring the same packets.
* *Limiter* (`discord_io.py`): retries and the shared pause; its outcomes
  (executed, given up on, raised) are taken by the modules that call it.  A pause
  that another call's success clears is listed as a hazard.
* *TableWatch*: other tables and channels (a worker finalises the subscriptions of
  its table one after the other), two links at once, recruiting-only mode, forced
  channels, error notes, legacy cards that Discord refuses to edit, player names
  and standings.  With `MaxRows` 1 a link that was looked at before the table
  ended does not make a new subscription afterwards; **table_stopped** has two.
  An upsert at that bound waits, and a sync waits for a worker slot.  A call to the
  database is taken to succeed, but for storing the state of a row that is gone.
* *BridgeOutbox*: the payload, its signature and the delays.  The database calls
  of the task outside `deliver_due` are taken to succeed; if one fails the task
  ends (listed as a hazard).  At least one callback URL is configured.
* *BridgeLineups*: bindings from before `lineup_after` existed (the column is
  NULL, `updated_at` is compared instead), and the two reads of
  `_current_lineup`, between which the binding may change for one drawing.
* Migrations, settings, presentation, translations, statistics, the dashboard,
  and parsing of BGA pages: no order of steps to get wrong, or pure I/O.

## 8. Plan

Done: AccountLinks, ResultDelivery, BridgeOutbox, BridgeLineups, RoomUpdates,
ClientContract, RoomClient, RoomClients, Seats, TableStream, TableWatch; proofs
of every safety property of these.  Next, in this order:

1. **TableWatch** with a second channel and recruiting-only mode.
2. **Limiter**: the shared pause of `discord_io.py`.

To check everything in this directory: `tlc -config X.cfg M` for each run of
`PROJECT.json` (module and configuration are named there) and `tlapm M.tla` for
the eight proof modules.

------------------------------ MODULE RoomClients ------------------------------
(***************************************************************************)
(* CodenamesMonitor: which client follows a room.  Calls add and remove    *)
(* watches of the room and register, replace or stop its client; a client  *)
(* that ends on its own, and an update that finds the room idle, close the *)
(* room.  All of it runs on one event loop: a step is what happens up to   *)
(* the next await, and a call may run between two steps of another.        *)
(*                                                                         *)
(* One room.  A client takes the steps of ClientContract; on_closed takes  *)
(* the room's lock unless the client was stopped, and so does an update.   *)
(***************************************************************************)
EXTENDS Naturals, FiniteSets

CONSTANTS
    Channels,      \* channels the room may be watched in, all of one guild
    Bound,         \* those that a tournament has bound
    Calls,         \* calls that may be under way together, as numbers
    MaxCalls,      \* bound: calls and restarts of the bot, together
    MaxNoteFails   \* bound: notes or cards that Discord refuses

ASSUME ClientsAssumption ==
    /\ Bound \subseteq Channels
    /\ 1 \in Calls /\ Calls \subseteq Nat
    /\ {MaxCalls, MaxNoteFails} \subseteq Nat

\* A call makes at most one watch and one client, and a restart one client.
Watches == 1 .. MaxCalls
Clients == 1 .. MaxCalls

\* The task that holds the room's lock: 0 for none, a client, or the update.
Update == MaxCalls + 1

VARIABLES
    watches,    \* codenames_watches: the watch of each channel, 0 for none
    added,      \* the highest watch id given out
    reg,        \* _clients[room], 0 for none
    clients,    \* every client: where its task is, its reason, the watches it has still to close
    hasView,    \* the room is in _views
    idle,       \* nothing has happened in the room for idle_hours
    lock,       \* _locks[room]: who holds it
    update,     \* _pending[room]: where it is, the client it stops, the watches it has still to close
    old,        \* the client that a cancelled update is still waiting for, 0 for none
    calls,      \* what each call is doing
    made,       \* bound: calls made
    fails,      \* bound: notes refused
    mixed,      \* history: something began while something else was going on
    failed      \* history: a close broke off because a note was refused

bounds == <<made, fails>>
history == <<mixed, failed>>
vars == <<watches, added, reg, clients, hasView, idle, lock, update, old, calls, bounds, history>>

NoClient == [life |-> "none", reason |-> "none", todo |-> {}]
OverClient == [NoClient EXCEPT !.life = "over"]
NoUpdate == [pc |-> "none", client |-> 0, todo |-> {}]
NoCall == [pc |-> "none", channel |-> "none", ids |-> {}, client |-> 0]

TypeOK ==
    /\ watches \in [Channels -> 0 .. MaxCalls]
    /\ added \in 0 .. MaxCalls
    /\ reg \in 0 .. MaxCalls
    /\ clients \in [Clients -> [life : {"none", "running", "ending", "lock", "list", "closing", "over"},
                                reason : {"none", "stopped", "unsupported", "failed"}, todo : SUBSET Watches]]
    /\ lock \in 0 .. Update
    /\ update \in [pc : {"none", "waiting", "lock", "tournament", "stopping", "list", "closing", "draw"},
                   client : 0 .. MaxCalls, todo : SUBSET Watches]
    /\ old \in 0 .. MaxCalls
    /\ calls \in [Calls -> [pc : {"none", "add", "check", "create", "remove", "list", "pop", "stop"},
                            channel : Channels \cup {"none"}, ids : SUBSET Watches, client : 0 .. MaxCalls]]
    /\ made \in 0 .. MaxCalls /\ fails \in 0 .. MaxNoteFails
    /\ {hasView, idle, mixed, failed} \subseteq BOOLEAN

Init ==
    /\ watches = [ch \in Channels |-> 0] /\ added = 0
    /\ reg = 0 /\ clients = [c \in Clients |-> NoClient]
    /\ hasView = FALSE /\ idle = FALSE
    /\ lock = 0 /\ update = NoUpdate /\ old = 0
    /\ calls = [k \in Calls |-> NoCall]
    /\ made = 0 /\ fails = 0 /\ mixed = FALSE /\ failed = FALSE

-----------------------------------------------------------------------------
Watched == {watches[ch] : ch \in Channels} \ {0}
Without_Drops(ids) == [ch \in {c \in Channels : watches[c] \notin ids} |-> watches[ch]]
Without(ids) == [ch \in Channels |-> IF watches[ch] \in ids THEN 0 ELSE watches[ch]]
Running(c) == c # 0 /\ clients[c].life = "running"

\* A call, a client's end, or the close of an idle room is under way.
Busy ==
    \/ \E k \in Calls : calls[k].pc # "none"
    \/ \E c \in Clients : clients[c].life \in {"ending", "lock", "list", "closing"}
    \/ update.pc \in {"tournament", "stopping", "list", "closing"}
    \/ old # 0
Begins == mixed' = (mixed \/ Busy)

AtRest == ~Busy /\ update.pc = "none"

\* client.stop() marks the client; a client that is ending already keeps its reason.
Stopped(c) == IF Running(c) THEN [clients EXCEPT ![c].life = "ending", ![c].reason = "stopped"] ELSE clients

\* A cancelled update lets go of the lock, unless it is stopping a client: then
\* the client's task is cancelled, which ends it if it waits for the lock, and the
\* update goes on waiting for it.
CancelUpdate(cs) ==
    LET c == update.client IN
    /\ lock' = IF update.pc \in {"tournament", "list", "closing", "draw"} THEN 0 ELSE lock
    /\ old' = IF update.pc = "stopping" THEN c ELSE old
    /\ clients' = IF update.pc = "stopping" /\ cs[c].life = "lock" THEN [cs EXCEPT ![c] = OverClient] ELSE cs

\* _schedule with a delay leaves an update alone that is still under way; without
\* one it cancels it and starts over.
Waiting == [NoUpdate EXCEPT !.pc = "waiting"]
ScheduleLater == update' = IF update.pc = "none" THEN Waiting ELSE update
ScheduleNow(cs) == CancelUpdate(cs) /\ update' = Waiting

\* refresh_room, and the end of watch_room.
Refresh(cs) ==
    \/ hasView /\ ScheduleNow(cs)
    \/ ~hasView /\ clients' = cs /\ UNCHANGED <<lock, update, old>>

-----------------------------------------------------------------------------
(***************************************************************************)
(* watch_room: add the watch, then make a client unless there is one.      *)
(***************************************************************************)
Call(k, call) ==
    /\ calls[k].pc = "none" /\ made < MaxCalls
    /\ \A j \in Calls : j < k => calls[j].pc # "none"
    /\ calls' = [calls EXCEPT ![k] = call]
    /\ made' = made + 1
    /\ Begins

Watch(k) ==
    /\ \E ch \in Channels : Call(k, [NoCall EXCEPT !.pc = "add", !.channel = ch])
    /\ UNCHANGED <<watches, added, reg, clients, hasView, idle, lock, update, old, fails, failed>>

Adds(k) ==
    LET ch == calls[k].channel IN
    /\ calls[k].pc = "add"
    /\ calls' = [calls EXCEPT ![k] = [NoCall EXCEPT !.pc = "check"]]
    /\ \/ watches[ch] # 0 /\ UNCHANGED <<watches, added>>
       \/ /\ watches[ch] = 0
          /\ added' = added + 1
          /\ watches' = [watches EXCEPT ![ch] = added']
    /\ UNCHANGED <<reg, clients, hasView, idle, lock, update, old, bounds, history>>

\* _ensure_client looks for a client, then awaits the room's identity, then
\* registers a client of its own.
Checks_Blind(k) ==
    /\ calls[k].pc = "check"
    /\ calls' = [calls EXCEPT ![k].pc = "create"]
    /\ UNCHANGED <<watches, added, reg, clients, hasView, idle, lock, update, old, bounds, history>>

Checks(k) ==
    /\ calls[k].pc = "check"
    /\ \/ /\ reg # 0
          /\ calls' = [calls EXCEPT ![k] = NoCall]
          /\ Refresh(clients)
       \/ /\ reg = 0
          /\ calls' = [calls EXCEPT ![k].pc = "create"]
          /\ UNCHANGED <<clients, lock, update, old>>
    /\ UNCHANGED <<watches, added, reg, hasView, idle, bounds, history>>

Creates(k) ==
    LET c == CHOOSE c \in Clients : clients[c].life = "none" /\ \A d \in Clients : d < c => clients[d].life # "none" IN
    /\ calls[k].pc = "create"
    /\ calls' = [calls EXCEPT ![k] = NoCall]
    /\ reg' = c
    /\ idle' = FALSE
    /\ Refresh([clients EXCEPT ![c].life = "running"])
    /\ UNCHANGED <<watches, added, hasView, bounds, history>>

\* A claim or new players have the cards drawn again.
Redraw ==
    /\ hasView /\ made < MaxCalls
    /\ made' = made + 1
    /\ Begins
    /\ Refresh(clients)
    /\ UNCHANGED <<watches, added, reg, hasView, idle, calls, fails, failed>>

-----------------------------------------------------------------------------
(***************************************************************************)
(* unwatch and remove_guild: remove a watch, or all of them, then stop the *)
(* client unless there are watches.                                        *)
(***************************************************************************)
Unwatch(k) ==
    /\ Watched # {}
    /\ \E ids \in {{w} : w \in Watched} \cup {Watched} : Call(k, [NoCall EXCEPT !.pc = "remove", !.ids = ids])
    /\ UNCHANGED <<watches, added, reg, clients, hasView, idle, lock, update, old, fails, failed>>

Removes(k) ==
    /\ calls[k].pc = "remove"
    /\ watches' = Without(calls[k].ids)
    /\ calls' = [calls EXCEPT ![k] = [NoCall EXCEPT !.pc = "list"]]
    /\ UNCHANGED <<added, reg, clients, hasView, idle, lock, update, old, bounds, history>>

Lists(k) ==
    /\ calls[k].pc = "list"
    /\ calls' = [calls EXCEPT ![k].pc = IF Watched = {} THEN "pop" ELSE "none"]
    /\ UNCHANGED <<watches, added, reg, clients, hasView, idle, lock, update, old, bounds, history>>

Pops(k) ==
    /\ calls[k].pc = "pop"
    /\ reg' = 0 /\ hasView' = FALSE
    /\ CancelUpdate(Stopped(reg)) /\ update' = NoUpdate
    /\ calls' = [calls EXCEPT ![k] = [NoCall EXCEPT !.pc = "stop", !.client = reg]]
    /\ UNCHANGED <<watches, added, idle, bounds, history>>

Over == {0} \cup {c \in Clients : clients[c].life = "over"}

StopReturns(k) ==
    /\ calls[k].pc = "stop" /\ calls[k].client \in Over
    /\ calls' = [calls EXCEPT ![k] = NoCall]
    /\ UNCHANGED <<watches, added, reg, clients, hasView, idle, lock, update, old, bounds, history>>

-----------------------------------------------------------------------------
(***************************************************************************)
(* A client, and on_closed.                                                *)
(***************************************************************************)
\* A client gives views until its connection is closed.
OnView(c) ==
    /\ clients[c].life \in {"running", "ending"}
    /\ hasView' = TRUE
    /\ \/ idle' = FALSE
       \/ UNCHANGED idle
    /\ ScheduleLater
    /\ UNCHANGED <<watches, added, reg, clients, lock, old, calls, bounds, history>>

Ends(c) ==
    /\ Running(c)
    /\ \E why \in {"unsupported", "failed"} : clients' = [clients EXCEPT ![c].life = "ending", ![c].reason = why]
    /\ Begins
    /\ UNCHANGED <<watches, added, reg, hasView, idle, lock, update, old, calls, bounds, failed>>

\* on_closed of a stopped client returns at once.
Reports_Always(c) ==
    /\ clients[c].life = "ending"
    /\ clients' = [clients EXCEPT ![c].life = "lock"]
    /\ UNCHANGED <<watches, added, reg, hasView, idle, lock, update, old, calls, bounds, history>>

Reports(c) ==
    /\ clients[c].life = "ending"
    /\ clients' = [clients EXCEPT ![c] = IF @.reason = "stopped" THEN OverClient ELSE [@ EXCEPT !.life = "lock"]]
    /\ UNCHANGED <<watches, added, reg, hasView, idle, lock, update, old, calls, bounds, history>>

Locks(c) ==
    /\ clients[c].life = "lock" /\ lock = 0
    /\ lock' = c
    /\ clients' = [clients EXCEPT ![c].life = "list"]
    /\ UNCHANGED <<watches, added, reg, hasView, idle, update, old, calls, bounds, history>>

-----------------------------------------------------------------------------
(***************************************************************************)
(* _close_room, by the client c (its life tells how far it is) or by the   *)
(* update: note on each watch's card that the room is closed, and remove   *)
(* the watch.                                                              *)
(***************************************************************************)
Forgets == reg' = 0 /\ hasView' = FALSE

ClientCloses(c) ==
    /\ \/ /\ clients[c].life = "list"
          /\ clients' = [clients EXCEPT ![c].life = "closing", ![c].todo = Watched]
          /\ UNCHANGED <<watches, reg, hasView, lock, fails, failed>>
       \/ /\ clients[c].life = "closing"
          /\ \E w \in clients[c].todo :
              \/ /\ clients' = [clients EXCEPT ![c].todo = @ \ {w}]
                 /\ watches' = Without({w})
                 /\ UNCHANGED <<lock, fails, failed>>
              \/ /\ fails < MaxNoteFails /\ fails' = fails + 1 /\ failed' = TRUE
                 /\ clients' = [clients EXCEPT ![c] = OverClient]
                 /\ lock' = 0
                 /\ UNCHANGED watches
          /\ UNCHANGED <<reg, hasView>>
       \/ /\ clients[c].life = "closing" /\ clients[c].todo = {}
          /\ Forgets
          /\ clients' = [clients EXCEPT ![c] = OverClient]
          /\ lock' = 0
          /\ UNCHANGED <<watches, fails, failed>>
    /\ UNCHANGED <<added, idle, update, old, calls, made, mixed>>

UpdateCloses ==
    /\ \/ /\ update.pc = "list"
          /\ update' = [update EXCEPT !.pc = "closing", !.todo = Watched]
          /\ UNCHANGED <<watches, reg, hasView, lock, fails, failed>>
       \/ /\ update.pc = "closing"
          /\ \E w \in update.todo :
              \/ /\ update' = [update EXCEPT !.todo = @ \ {w}]
                 /\ watches' = Without({w})
                 /\ UNCHANGED <<lock, fails, failed>>
              \/ /\ fails < MaxNoteFails /\ fails' = fails + 1 /\ failed' = TRUE
                 /\ update' = NoUpdate
                 /\ lock' = 0
                 /\ UNCHANGED watches
          /\ UNCHANGED <<reg, hasView>>
       \/ /\ update.pc = "closing" /\ update.todo = {}
          /\ Forgets
          /\ update' = NoUpdate
          /\ lock' = 0
          /\ UNCHANGED <<watches, fails, failed>>
    /\ UNCHANGED <<added, idle, clients, old, calls, made, mixed>>

-----------------------------------------------------------------------------
(***************************************************************************)
(* update_room.                                                            *)
(***************************************************************************)
Wakes ==
    /\ update.pc = "waiting"
    /\ update' = IF hasView THEN [update EXCEPT !.pc = "lock"] ELSE NoUpdate
    /\ UNCHANGED <<watches, added, reg, clients, hasView, idle, lock, old, calls, bounds, history>>

UpdateLocks ==
    /\ update.pc = "lock" /\ lock = 0
    /\ lock' = Update
    /\ \/ idle /\ update' = [update EXCEPT !.pc = "tournament"] /\ Begins
       \/ ~idle /\ update' = [update EXCEPT !.pc = "draw"] /\ UNCHANGED mixed
    /\ UNCHANGED <<watches, added, reg, clients, hasView, idle, old, calls, bounds, failed>>

\* A tournament's room is never idle; another one is closed once its client has stopped.
ReadsTournament ==
    /\ update.pc = "tournament"
    /\ \/ /\ \E ch \in Bound : watches[ch] # 0
          /\ update' = [update EXCEPT !.pc = "draw"]
          /\ UNCHANGED clients
       \/ /\ \A ch \in Bound : watches[ch] = 0
          /\ update' = [update EXCEPT !.pc = IF reg = 0 THEN "list" ELSE "stopping", !.client = reg]
          /\ clients' = Stopped(reg)
    /\ UNCHANGED <<watches, added, reg, hasView, idle, lock, old, calls, bounds, history>>

ClientStopped ==
    /\ \/ /\ update.pc = "stopping" /\ update.client \in Over
          /\ update' = [NoUpdate EXCEPT !.pc = "list"]
          /\ UNCHANGED <<lock, old>>
       \/ /\ old # 0 /\ old \in Over
          /\ old' = 0 /\ lock' = 0
          /\ UNCHANGED update
    /\ UNCHANGED <<watches, added, reg, clients, hasView, idle, calls, bounds, history>>

\* The cards are drawn (module RoomUpdates).
Draws ==
    /\ update.pc = "draw"
    /\ update' = NoUpdate
    /\ lock' = 0
    /\ UNCHANGED <<watches, added, reg, clients, hasView, idle, old, calls, bounds, history>>

-----------------------------------------------------------------------------
\* Days go by (external).
DaysPass ==
    /\ ~idle /\ AtRest
    /\ idle' = TRUE
    /\ UNCHANGED <<watches, added, reg, clients, hasView, lock, update, old, calls, bounds, history>>

\* The bot goes down and comes up again: start() makes a client for a watched room.
Restart ==
    /\ made < MaxCalls
    /\ made' = made + 1
    /\ reg' = 0 /\ hasView' = FALSE /\ idle' = FALSE
    /\ clients' = [c \in Clients |-> IF clients[c].life = "none" THEN NoClient ELSE OverClient]
    /\ lock' = 0 /\ update' = NoUpdate /\ old' = 0
    /\ calls' = [k \in Calls |-> IF k = 1 /\ Watched # {} THEN [NoCall EXCEPT !.pc = "check"] ELSE NoCall]
    /\ mixed' = FALSE /\ failed' = FALSE
    /\ UNCHANGED <<watches, added, fails>>

-----------------------------------------------------------------------------
CallSteps(k) ==
    \/ Adds(k)
    \/ Checks(k)
    \/ Creates(k)
    \/ Removes(k)
    \/ Lists(k)
    \/ Pops(k)
    \/ StopReturns(k)

ClientSteps(c) ==
    \/ Reports(c)
    \/ Locks(c)
    \/ ClientCloses(c)

UpdateSteps ==
    \/ Wakes
    \/ UpdateLocks
    \/ ReadsTournament
    \/ ClientStopped
    \/ UpdateCloses
    \/ Draws

Next ==
    \/ \E k \in Calls : Watch(k) \/ Unwatch(k) \/ CallSteps(k)
    \/ \E c \in Clients : OnView(c) \/ Ends(c) \/ ClientSteps(c)
    \/ UpdateSteps
    \/ Redraw
    \/ DaysPass
    \/ Restart

\* The event loop runs every task, and the lock is handed on in turn.
Spec ==
    /\ Init /\ [][Next]_vars
    /\ WF_vars(\E k \in Calls : CallSteps(k))
    /\ SF_vars(\E c \in Clients : ClientSteps(c))
    /\ SF_vars(UpdateSteps)

-----------------------------------------------------------------------------
\* Unless two things on the room were under way at once (a call with a call, a
\* close or an ending client) or a close broke off, a room at rest is followed by
\* exactly one client if it is watched, the registered one, and by none if not.
FollowsWhatIsWatched ==
    AtRest /\ ~mixed /\ ~failed =>
        {c \in Clients : Running(c)} = IF Watched = {} THEN {} ELSE {reg}

\* An idle close that waits for a client, which waits for the lock that the close
\* holds: the client was ending for another reason when it was told to stop.
Deadlocked ==
    \E c \in Clients :
        /\ c \in {update.client, old} /\ lock = Update
        /\ clients[c].life = "lock" /\ clients[c].reason # "stopped"

\* Whatever is under way on the room comes to an end, also when calls overlap or
\* notes are refused: only that deadlock ever holds it up.
ComesToRest == Busy ~> (~Busy \/ Deadlocked)
===============================================================================

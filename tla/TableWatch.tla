----------------------------- MODULE TableWatch -----------------------------
(***************************************************************************)
(* One Board Game Arena table watched in one channel: from the link that   *)
(* somebody posts to the final card.                                       *)
(*                                                                         *)
(* A link is answered with a note, the table is registered, and the note   *)
(* becomes the table's card.  A worker polls the table and keeps the card  *)
(* up to date; the sync loop (which a link also runs) starts and cancels   *)
(* workers and deletes cards nobody watches.  The dashboard stops a watch  *)
(* in the database alone.  Every database call and every Discord call is a *)
(* step.  The table on Board Game Arena and the messages on Discord are    *)
(* external.                                                               *)
(***************************************************************************)
EXTENDS Naturals, FiniteSets

CONSTANTS
    Workers,     \* slots for worker tasks, including cancelled ones
    MaxRows,     \* bound: subscriptions ever made
    MaxLinks,    \* bound: links posted
    FaultKinds,  \* what may go wrong: some of the kinds below
    MaxEvents    \* bound: faults, and watches stopped

ASSUME WatchAssumption ==
    /\ Workers # {} /\ IsFiniteSet(Workers) /\ {"none", "link"} \cap Workers = {}
    /\ MaxRows \in Nat \ {0} /\ {MaxLinks, MaxEvents} \subseteq Nat
    /\ FaultKinds \subseteq {"crash", "drop", "exception", "bga", "moderator"}

Lives == {"recruiting", "playing", "finished"}
Rank(life) == CASE life = "recruiting" -> 0 [] life = "playing" -> 1 [] life = "finished" -> 2

\* A subscription with its state: the lifecycle, the table's page (its address
\* changes when the game starts) and the tracked message, 0 if none.
NoRow == [id |-> 0, life |-> "recruiting", page |-> "recruiting", msg |-> 0]
Row == [id : 0 .. MaxRows, life : Lives, page : {"recruiting", "playing"}, msg : Nat]
Page(phase) == IF phase = "recruiting" THEN "recruiting" ELSE "playing"

\* What a message shows: a card, a status note, or a card found after a restart.
Kinds == Lives \cup {"note"}
NoCard == [msg |-> 0, kind |-> "note"]

\* A worker (`from' is what it finalises for: a fetched table, a state of the
\* game, or a table that is gone), and a call that draws the card.
Sources == {"fetch", "state", "gone"}
NoWorker == [pc |-> "idle", sub |-> NoRow, phase |-> "recruiting", from |-> "fetch"]
NoCall == [pc |-> "idle", sub |-> NoRow, life |-> "recruiting", msg |-> 0]
NoLink == [pc |-> "idle", sub |-> NoRow, phase |-> "recruiting", note |-> 0, old |-> 0, known |-> FALSE]
NoSync == [pc |-> "idle", todo |-> {}, watched |-> FALSE]

VARIABLES
    bga,         \* external: the table's phase
    row,         \* the subscription in the database
    lastRow,     \* the last subscription id given out
    active,      \* _active_messages: the card of each subscription
    mlock,       \* _message_locks: who holds each subscription's lock
    worker,      \* the worker tasks
    registered,  \* _table_tasks: the table's worker
    call,        \* publishing calls, of workers and of the link's handler
    link,        \* the handler of a posted link
    sync,        \* runs of _sync_tables_once: the loop's and the handler's
    messages,    \* external: the messages on Discord and what they show
    lastMsg,
    links,
    events,      \* faults, and watches stopped
    disturbed    \* history: a watch was stopped, or its link posted again

database == <<row, lastRow>>
memory == <<active, mlock>>
tasks == <<worker, registered, sync>>
discord == <<messages, lastMsg>>
bounds == <<links, events, disturbed>>
vars == <<bga, database, memory, tasks, call, link, discord, bounds>>

Rows == 1 .. MaxRows
Callers == Workers \cup {"link"}
Syncs == {"loop", "link"}

TypeOK ==
    /\ bga \in Lives
    /\ row \in Row
    /\ lastRow \in 0 .. MaxRows
    /\ active \in [Rows -> [msg : Nat, kind : Kinds]]
    /\ mlock \in [Rows -> Callers \cup {"none"}]
    /\ worker \in [Workers ->
            [pc : {"idle", "read", "fetch", "upsert", "reread", "invite", "invited", "stream",
                   "apply", "turn", "store", "remove", "forget", "gone",
                   "late upsert", "late remove"},
             sub : Row, phase : Lives, from : Sources]]
    /\ registered \in Workers \cup {"none"}
    /\ call \in [Callers -> [pc : {"idle", "lock", "check", "fetch", "untrack", "edit", "lost", "send", "save"},
                             sub : Row, life : Lives, msg : Nat]]
    /\ link \in [pc : {"idle", "exists", "probe", "upsert", "state", "reload", "lock", "adopt", "save",
                       "replace", "drop", "redraw", "drawing", "reset", "untrack", "sync"},
                 sub : Row, phase : Lives, note : Nat, old : Nat, known : BOOLEAN]
    /\ sync \in [Syncs -> [pc : {"idle", "orphans"}, todo : SUBSET Rows, watched : BOOLEAN]]
    /\ messages \in SUBSET [id : Nat \ {0}, kind : Kinds]
    /\ lastMsg \in Nat
    /\ links \in 0 .. MaxLinks
    /\ events \in 0 .. MaxEvents
    /\ disturbed \in BOOLEAN

\* The bot starts, with nothing to watch or with a table that it watched before.
Init ==
    /\ bga = "recruiting"
    /\ \/ /\ row = NoRow /\ lastRow = 0
          /\ messages = {} /\ lastMsg = 0
       \/ /\ row = [NoRow EXCEPT !.id = 1, !.msg = 1] /\ lastRow = 1
          /\ messages = {[id |-> 1, kind |-> "recruiting"]} /\ lastMsg = 1
    /\ active = [i \in Rows |-> NoCard]
    /\ mlock = [i \in Rows |-> "none"]
    /\ worker = [w \in Workers |-> NoWorker]
    /\ registered = "none"
    /\ call = [a \in Callers |-> NoCall]
    /\ link = NoLink
    /\ sync = [s \in Syncs |-> NoSync]
    /\ links = 0 /\ events = 0 /\ disturbed = FALSE

Fault(kind) ==
    /\ kind \in FaultKinds
    /\ events < MaxEvents
    /\ events' = events + 1

Exists(id) == \E m \in messages : m.id = id
Showing(id, kind) == {m \in messages : m.id # id} \cup {[id |-> id, kind |-> kind]}
Without(id) == {m \in messages : m.id # id}

-----------------------------------------------------------------------------
(***************************************************************************)
(* The database: each of these is one call.                                *)
(***************************************************************************)

\* A form without the conflict on table and channel: each upsert inserts.
Upsert_Inserts(phase) ==
    /\ lastRow' = lastRow + 1
    /\ row' = [NoRow EXCEPT !.id = lastRow + 1, !.page = Page(phase)]

\* upsert_watch_subscription: by table and channel, so a row that is gone comes back.
Upsert(phase) ==
    IF row = NoRow
    THEN /\ lastRow < MaxRows
         /\ lastRow' = lastRow + 1
         /\ row' = [NoRow EXCEPT !.id = lastRow + 1, !.page = Page(phase)]
    ELSE /\ row' = [row EXCEPT !.page = Page(phase)]
         /\ UNCHANGED lastRow

\* update_watch_message_tracking: by id, so a row that is gone stays gone.
Track(id, life, msg) ==
    /\ row' = IF row.id = id THEN [row EXCEPT !.life = life, !.msg = msg] ELSE row
    /\ UNCHANGED lastRow

\* remove_watch_subscription: by table and channel.
Remove ==
    /\ row' = NoRow
    /\ UNCHANGED lastRow

\* update_watch_state violates the foreign key if the row is gone.
Gone(id) == row.id # id

-----------------------------------------------------------------------------
(***************************************************************************)
(* _publish_or_update_lifecycle_message: a call draws the card from the    *)
(* caller's copy of the subscription, under the subscription's lock.       *)
(***************************************************************************)
Publish(a, sub, life) ==
    call' = [call EXCEPT ![a] = [pc |-> "lock", sub |-> sub, life |-> life, msg |-> 0]]

CallGoes(a, pc) == call' = [call EXCEPT ![a].pc = pc]

\* A call takes the lock, or has it when it starts again.
MayDraw(a) == mlock[call[a].sub.id] = IF call[a].pc = "lock" THEN "none" ELSE a

Unlocked_Kept(a) == mlock
Unlocked(a) == [i \in Rows |-> IF mlock[i] = a THEN "none" ELSE mlock[i]]

CallReturns(a) ==
    /\ call' = [call EXCEPT ![a] = NoCall]
    /\ mlock' = Unlocked(a)

\* A card that shows this already is left alone.  Otherwise the tracked message
\* is edited; after a restart it is looked up first.  (Nothing is drawn while
\* Discord's limit is exhausted.)
CallChecks(a) ==
    LET c == call[a]
        card == active[c.sub.id]
    IN
    /\ c.pc \in {"lock", "check"}
    /\ MayDraw(a)
    /\ \/ /\ Fault("drop") \/ (card.msg # 0 /\ card.kind = c.life /\ UNCHANGED events)
          /\ CallReturns(a)
       \/ /\ mlock' = [mlock EXCEPT ![c.sub.id] = a]
          /\ call' = [call EXCEPT
                ![a].pc = IF card.msg # 0 THEN "edit" ELSE IF c.sub.msg # 0 THEN "fetch" ELSE "send",
                ![a].msg = card.msg]
          /\ UNCHANGED events
    /\ UNCHANGED <<bga, database, active, tasks, link, discord, links, disturbed>>

\* _resolve_tracked_message.  When the lookup fails for any other reason than
\* that the message is gone, a new one is sent.
CallFetches(a) ==
    LET c == call[a] IN
    /\ c.pc = "fetch"
    /\ \/ /\ Exists(c.sub.msg)
          /\ active' = [active EXCEPT ![c.sub.id] = [msg |-> c.sub.msg, kind |-> "note"]]
          /\ call' = [call EXCEPT ![a].pc = "edit", ![a].msg = c.sub.msg]
          /\ UNCHANGED events
       \/ /\ ~Exists(c.sub.msg)
          /\ CallGoes(a, "untrack")
          /\ UNCHANGED <<active, events>>
       \/ /\ Fault("drop")
          /\ CallGoes(a, "send")
          /\ UNCHANGED active
    /\ UNCHANGED <<bga, database, mlock, tasks, link, discord, links, disturbed>>

\* A message that is gone is forgotten; "lost" was tracked in memory too.
CallUntracks(a) ==
    LET c == call[a] IN
    /\ c.pc \in {"untrack", "lost"}
    /\ Track(c.sub.id, c.sub.life, 0)
    /\ \/ /\ c.pc = "untrack"
          /\ CallGoes(a, "send")
          /\ UNCHANGED active
       \/ /\ c.pc = "lost"
          /\ CallGoes(a, "check")
          /\ active' = [active EXCEPT ![c.sub.id] = NoCard]
    /\ UNCHANGED <<bga, mlock, tasks, link, discord, bounds>>

\* An edit that Discord drops or refuses leaves everything as it was.
CallEdits(a) ==
    LET c == call[a] IN
    /\ c.pc = "edit"
    /\ \/ /\ Exists(c.msg)
          /\ messages' = Showing(c.msg, c.life)
          /\ active' = [active EXCEPT ![c.sub.id] = [msg |-> c.msg, kind |-> c.life]]
          /\ CallGoes(a, "save")
          /\ UNCHANGED <<mlock, events>>
       \/ /\ ~Exists(c.msg)
          /\ CallGoes(a, "lost")
          /\ UNCHANGED <<messages, active, mlock, events>>
       \/ /\ Fault("drop")
          /\ CallReturns(a)
          /\ UNCHANGED <<messages, active>>
    /\ UNCHANGED <<bga, database, tasks, link, lastMsg, links, disturbed>>

\* When Discord's limit is exhausted the call returns, having sent nothing.
CallSends(a) ==
    LET c == call[a]
        id == lastMsg + 1
    IN
    /\ c.pc = "send"
    /\ \/ /\ messages' = Showing(id, c.life)
          /\ lastMsg' = id
          /\ active' = [active EXCEPT ![c.sub.id] = [msg |-> id, kind |-> c.life]]
          /\ call' = [call EXCEPT ![a].pc = "save", ![a].msg = id]
          /\ UNCHANGED <<mlock, events>>
       \/ /\ Fault("drop")
          /\ CallReturns(a)
          /\ UNCHANGED <<messages, lastMsg, active>>
    /\ UNCHANGED <<bga, database, tasks, link, links, disturbed>>

CallSaves(a) ==
    LET c == call[a] IN
    /\ c.pc = "save"
    /\ Track(c.sub.id, c.life, c.msg)
    /\ CallReturns(a)
    /\ UNCHANGED <<bga, active, tasks, link, discord, bounds>>

CallStep(a) ==
    \/ CallChecks(a)
    \/ CallFetches(a)
    \/ CallUntracks(a)
    \/ CallEdits(a)
    \/ CallSends(a)
    \/ CallSaves(a)

-----------------------------------------------------------------------------
(***************************************************************************)
(* _run_table_worker                                                       *)
(***************************************************************************)
\* What a worker has seen counts until it waits for something new.
Becomes(w, task) ==
    worker' = [worker EXCEPT ![w] =
        IF task.pc \in {"read", "invited", "stream", "gone"} THEN [NoWorker EXCEPT !.pc = task.pc] ELSE task]
WorkerGoes(w, pc) == Becomes(w, [worker[w] EXCEPT !.pc = pc])
WorkerEnds(w) == worker' = [worker EXCEPT ![w] = NoWorker]

\* An exception in a worker: it starts over, except when it was finalising a
\* table that is gone, within the handler of an exception.  Then its task ends.
WorkerRaises(w) == IF worker[w].from = "gone" THEN WorkerEnds(w) ELSE WorkerGoes(w, "read")

\* The handler of a link does not catch what drawing raises: no sync follows.
CallerRaises(a) ==
    \/ a \in Workers /\ WorkerRaises(a) /\ UNCHANGED link
    \/ a = "link" /\ link' = NoLink /\ UNCHANGED worker

\* What Discord raises goes through to the caller: any refusal of a new
\* message, and of a lookup or an edit what is no error of Discord's own.
CallRaises(a) ==
    /\ call[a].pc \in {"fetch", "edit", "send"}
    /\ Fault("exception")
    /\ CallReturns(a)
    /\ CallerRaises(a)
    /\ UNCHANGED <<bga, database, active, registered, sync, discord, links, disturbed>>

\* _finalize_finished_table: the final card first.
Finalise(w, sub, from) ==
    /\ Becomes(w, [NoWorker EXCEPT !.pc = "store", !.sub.id = sub.id, !.from = from])
    /\ Publish(w, sub, "finished")

\* What a worker does about the phase it has seen.
Follow(w, sub, phase) ==
    \/ /\ phase = "recruiting"
       /\ Becomes(w, [NoWorker EXCEPT !.pc = "invite", !.sub = sub])
       /\ UNCHANGED call
    \/ phase = "playing" /\ WorkerGoes(w, "stream") /\ UNCHANGED call
    \/ phase = "finished" /\ Finalise(w, sub, "fetch")

\* A worker that finds no subscription is done.
WorkerReads(w) ==
    /\ worker[w].pc = "read"
    /\ \/ row = NoRow /\ WorkerEnds(w)
       \/ row # NoRow /\ worker' = [worker EXCEPT ![w].pc = "fetch", ![w].sub = row]
    /\ UNCHANGED <<bga, database, memory, registered, sync, call, link, discord, bounds>>

\* The table is fetched; if that fails, again after a while.
WorkerFetches(w) ==
    /\ worker[w].pc = "fetch"
    /\ \/ /\ worker[w].sub.page = Page(bga)
          /\ Follow(w, worker[w].sub, bga)
          /\ UNCHANGED events
       \/ /\ worker[w].sub.page # Page(bga)
          /\ Becomes(w, [NoWorker EXCEPT !.pc = "upsert", !.phase = bga])
          /\ UNCHANGED <<call, events>>
       \/ /\ Fault("bga")
          /\ WorkerGoes(w, "read")
          /\ UNCHANGED call
    /\ UNCHANGED <<bga, database, memory, registered, sync, link, discord, links, disturbed>>

\* _sync_subscriptions_from_snapshot stores what the table's page is now, then reads again.
WorkerUpserts(w) ==
    /\ worker[w].pc = "upsert"
    /\ Upsert(worker[w].phase)
    /\ WorkerGoes(w, "reread")
    /\ UNCHANGED <<bga, memory, registered, sync, call, link, discord, bounds>>

WorkerRereads(w) ==
    /\ worker[w].pc = "reread"
    /\ \/ row = NoRow /\ WorkerGoes(w, "read") /\ UNCHANGED call
       \/ row # NoRow /\ Follow(w, row, worker[w].phase)
    /\ UNCHANGED <<bga, database, memory, registered, sync, link, discord, bounds>>

\* _can_transition_lifecycle
CanBecome(sub, life) == Rank(life) >= Rank(sub.life)

\* update_watch_state.  Storing the state of a row that is gone raises.
Store(w, life, next) ==
    \/ /\ Gone(worker[w].sub.id)
       /\ WorkerRaises(w)
       /\ UNCHANGED database
    \/ /\ ~Gone(worker[w].sub.id)
       /\ row' = [row EXCEPT !.life = life]
       /\ WorkerGoes(w, next)
       /\ UNCHANGED lastRow

\* _apply_invite_state stores the state and draws the card; then the worker sleeps.
WorkerInvites(w) ==
    /\ worker[w].pc = "invite"
    /\ IF CanBecome(worker[w].sub, "recruiting")
       THEN /\ Store(w, "recruiting", "invited")
            /\ IF Gone(worker[w].sub.id) THEN UNCHANGED call ELSE Publish(w, worker[w].sub, "recruiting")
       ELSE WorkerGoes(w, "read") /\ UNCHANGED <<database, call>>
    /\ UNCHANGED <<bga, memory, registered, sync, link, discord, bounds>>

WorkerInvited(w) ==
    /\ worker[w].pc = "invited" /\ call[w].pc = "idle"
    /\ WorkerGoes(w, "read")
    /\ UNCHANGED <<bga, database, memory, registered, sync, call, link, discord, bounds>>

\* The websocket brings a state of the game, or it ends or fails, or the table
\* turns out to be no longer available.  Nothing says that it ever does any of
\* these: a session that missed the end may stay open and silent (TableStream).
WorkerHears(w) ==
    /\ worker[w].pc = "stream"
    /\ \/ worker' = [worker EXCEPT ![w].pc = "apply", ![w].phase = bga] /\ bga # "recruiting"
       \/ WorkerGoes(w, "read")
       \/ WorkerGoes(w, "gone") /\ bga = "finished"
    /\ UNCHANGED <<bga, database, memory, registered, sync, call, link, discord, bounds>>

\* _apply_table_state reads the subscription and draws the card, or finalises.
WorkerApplies(w) ==
    /\ worker[w].pc = "apply"
    /\ \/ row = NoRow /\ WorkerGoes(w, "stream") /\ UNCHANGED call
       \/ row # NoRow /\ worker[w].phase = "finished" /\ Finalise(w, row, "state")
       \/ /\ row # NoRow /\ worker[w].phase = "playing"
          /\ IF CanBecome(row, "playing")
             THEN /\ worker' = [worker EXCEPT ![w].pc = "turn", ![w].sub = row]
                  /\ Publish(w, row, "playing")
             ELSE WorkerGoes(w, "stream") /\ UNCHANGED call
    /\ UNCHANGED <<bga, database, memory, registered, sync, link, discord, bounds>>

WorkerTurns(w) ==
    /\ worker[w].pc = "turn" /\ call[w].pc = "idle"
    /\ Store(w, "playing", "stream")
    /\ UNCHANGED <<bga, memory, registered, sync, call, link, discord, bounds>>

\* A table that is not available any more is finalised, too.
WorkerGivesUp(w) ==
    /\ worker[w].pc = "gone"
    /\ \/ row = NoRow /\ WorkerEnds(w) /\ registered' = "none" /\ UNCHANGED call
       \/ row # NoRow /\ Finalise(w, row, "gone") /\ UNCHANGED registered
    /\ UNCHANGED <<bga, database, memory, sync, link, discord, bounds>>

(***************************************************************************)
(* _finalize_finished_table.  One that a state of the game led to returns  *)
(* to the websocket, which goes on until it is closed or quiet.            *)
(***************************************************************************)
WorkerStores(w) ==
    /\ worker[w].pc = "store" /\ call[w].pc = "idle"
    /\ Store(w, "finished", "remove")
    /\ UNCHANGED <<bga, memory, registered, sync, call, link, discord, bounds>>

WorkerRemoves(w) ==
    /\ worker[w].pc = "remove"
    /\ Remove
    /\ WorkerGoes(w, "forget")
    /\ UNCHANGED <<bga, memory, registered, sync, call, link, discord, bounds>>

WorkerForgets(w) ==
    /\ worker[w].pc = "forget"
    /\ active' = [active EXCEPT ![worker[w].sub.id] = NoCard]
    /\ registered' = "none"
    /\ IF worker[w].from = "state" THEN WorkerGoes(w, "stream") ELSE WorkerEnds(w)
    /\ UNCHANGED <<bga, database, mlock, sync, call, link, discord, bounds>>

\* A cancelled worker's thread may still have a database call to make.
LateCall(w) ==
    /\ \/ worker[w].pc = "late upsert" /\ Upsert(worker[w].phase)
       \/ worker[w].pc = "late remove" /\ Remove
    /\ WorkerEnds(w)
    /\ UNCHANGED <<bga, memory, registered, sync, call, link, discord, bounds>>

\* What a worker does without waiting for its websocket.
WorkerRuns(w) ==
    \/ WorkerReads(w)
    \/ WorkerFetches(w)
    \/ WorkerUpserts(w)
    \/ WorkerRereads(w)
    \/ WorkerInvites(w)
    \/ WorkerInvited(w)
    \/ WorkerApplies(w)
    \/ WorkerTurns(w)
    \/ WorkerGivesUp(w)
    \/ WorkerStores(w)
    \/ WorkerRemoves(w)
    \/ WorkerForgets(w)
    \/ LateCall(w)

WorkerStep(w) == WorkerRuns(w) \/ WorkerHears(w)

-----------------------------------------------------------------------------
(***************************************************************************)
(* _sync_tables_once, run by a loop and by the link's handler.             *)
(***************************************************************************)
Late == {"late upsert", "late remove"}
Running(w) == worker[w].pc \notin {"idle"} \cup Late

\* The worker is cancelled at whatever await it is in; a message that is being
\* sent may appear all the same.
Cancel(w) ==
    /\ \/ WorkerEnds(w)
       \/ worker[w].pc = "upsert" /\ worker' = [worker EXCEPT ![w].pc = "late upsert"]
       \/ worker[w].pc = "remove" /\ worker' = [worker EXCEPT ![w].pc = "late remove"]
    /\ CallReturns(w)
    /\ \/ UNCHANGED discord
       \/ /\ call[w].pc = "send"
          /\ lastMsg' = lastMsg + 1
          /\ messages' = Showing(lastMsg + 1, call[w].life)

NeedsWorker_Always == TRUE
NeedsWorker == \A w \in Workers : registered = w => ~Running(w)

Start(w) ==
    /\ worker[w].pc = "idle"
    /\ worker' = [worker EXCEPT ![w].pc = "read"]
    /\ registered' = w

\* The end of a run: an unwatched table's worker is cancelled, a watched one
\* without a worker gets one.
Supply(s, watched) ==
    /\ \/ /\ ~watched /\ registered # "none"
          /\ Cancel(registered)
          /\ registered' = "none"
       \/ /\ watched /\ NeedsWorker
          /\ \E w \in Workers : Start(w)
          /\ UNCHANGED <<call, mlock, discord>>
       \/ /\ IF watched THEN ~NeedsWorker ELSE registered = "none"
          /\ UNCHANGED <<worker, registered, call, mlock, discord>>
    /\ sync' = [sync EXCEPT ![s] = NoSync]
    /\ link' = IF s = "link" THEN NoLink ELSE link
    /\ UNCHANGED <<active, events>>

\* Cards of subscriptions that are gone.
Orphans == {i \in Rows : active[i].msg # 0 /\ i # row.id}

\* list_watch_subscriptions; without orphans, what follows is not interrupted.
SyncLists(s) ==
    /\ sync[s].pc = "idle"
    /\ s = "link" => link.pc = "sync"
    /\ \/ Orphans = {} /\ Supply(s, row # NoRow)
       \/ /\ Orphans # {}
          /\ sync' = [sync EXCEPT ![s] = [pc |-> "orphans", todo |-> Orphans, watched |-> row # NoRow]]
          /\ UNCHANGED <<memory, worker, registered, call, link, discord, events>>
    /\ UNCHANGED <<bga, database, links, disturbed>>

SyncDeletes(s) ==
    /\ sync[s].pc = "orphans"
    /\ \E i \in sync[s].todo :
        /\ sync' = [sync EXCEPT ![s].todo = @ \ {i}]
        /\ active' = [active EXCEPT ![i] = NoCard]
        /\ \/ messages' = Without(active[i].msg) /\ UNCHANGED events
           \/ Fault("drop") /\ UNCHANGED messages
    /\ UNCHANGED <<bga, database, mlock, worker, registered, call, link, lastMsg, links, disturbed>>

SyncSupplies(s) ==
    /\ sync[s].pc = "orphans"
    /\ sync[s].todo = {}
    /\ Supply(s, sync[s].watched)
    /\ UNCHANGED <<bga, database, links, disturbed>>

SyncStep(s) == SyncLists(s) \/ SyncDeletes(s) \/ SyncSupplies(s)

-----------------------------------------------------------------------------
(***************************************************************************)
(* A posted link: _handle_shared_links, _register_shared_link,             *)
(* _register_watch and adopt_link_status_message.                          *)
(***************************************************************************)
\* What the handler holds counts until nothing but the sync is left to do.
LinkBecomes(task) == link' = IF task.pc \in {"drawing", "sync"} THEN [NoLink EXCEPT !.pc = task.pc] ELSE task
LinkGoes(pc) == LinkBecomes([link EXCEPT !.pc = pc])

\* The note that answers the link; it may not get through.
LinkPosted ==
    /\ link.pc = "idle"
    /\ links < MaxLinks
    /\ links' = links + 1
    /\ \/ /\ lastMsg' = lastMsg + 1
          /\ messages' = Showing(lastMsg + 1, "note")
          /\ link' = [NoLink EXCEPT !.pc = "exists", !.note = lastMsg + 1]
          /\ UNCHANGED events
       \/ /\ Fault("drop")
          /\ LinkGoes("exists")
          /\ UNCHANGED discord
    /\ UNCHANGED <<bga, database, memory, tasks, call, disturbed>>

\* get_watch_subscription_by_scope
LinkLooks ==
    /\ link.pc = "exists"
    /\ link' = [link EXCEPT !.pc = "probe", !.known = row # NoRow]
    /\ disturbed' = (disturbed \/ row # NoRow)
    /\ UNCHANGED <<bga, database, memory, tasks, call, discord, links, events>>

\* The registration failed: the note says why and is a message on its own.
LinkFails ==
    /\ link' = NoLink
    /\ messages' = Without(link.note)

LinkProbes ==
    /\ link.pc = "probe"
    /\ \/ bga = "finished" /\ LinkFails /\ UNCHANGED events
       \/ Fault("bga") /\ LinkFails
       \/ /\ bga # "finished"
          /\ link' = [link EXCEPT !.pc = "upsert", !.phase = bga]
          /\ UNCHANGED <<messages, events>>
    /\ UNCHANGED <<bga, database, memory, tasks, call, lastMsg, links, disturbed>>

LinkUpserts ==
    /\ link.pc = "upsert"
    /\ Upsert(link.phase)
    /\ link' = [link EXCEPT !.pc = "state", !.sub = row']
    /\ UNCHANGED <<bga, memory, tasks, call, discord, bounds>>

\* update_watch_state without a lifecycle, which it takes for a recruiting table.
LinkStates ==
    /\ link.pc = "state"
    /\ \/ Gone(link.sub.id) /\ LinkFails /\ UNCHANGED row
       \/ /\ ~Gone(link.sub.id)
          /\ row' = [row EXCEPT !.life = "recruiting"]
          /\ LinkGoes("reload")
          /\ UNCHANGED messages
    /\ UNCHANGED <<bga, lastRow, memory, tasks, call, lastMsg, bounds>>

\* What follows when the note did not become the card.
Unadopted == IF link.known THEN "reset" ELSE "sync"

LinkReloads ==
    /\ link.pc = "reload"
    /\ LinkBecomes([link EXCEPT !.pc = IF link.note = 0 THEN Unadopted ELSE "lock",
                                 !.sub = IF Gone(link.sub.id) THEN link.sub ELSE row])
    /\ UNCHANGED <<bga, database, memory, tasks, call, discord, bounds>>

\* A form that does not look at the card there is.
Adopt_Blindly(old) ==
    /\ link' = [link EXCEPT !.pc = "save", !.old = 0]
    /\ active' = [active EXCEPT ![link.sub.id] = [msg |-> link.note, kind |-> "note"]]

\* A card older than the note is to be replaced, a newer one to be kept.
Adopt(old) ==
    \/ /\ old > link.note
       /\ LinkGoes("drop")
       /\ active' = [active EXCEPT ![link.sub.id] = IF @.msg = 0 THEN [msg |-> old, kind |-> "note"] ELSE @]
    \/ /\ old < link.note
       /\ link' = [link EXCEPT !.pc = "save", !.old = old]
       /\ active' = [active EXCEPT ![link.sub.id] = [msg |-> link.note, kind |-> "note"]]

\* After a restart the card is looked up.
LinkLocks ==
    LET id == link.sub.id IN
    /\ link.pc = "lock"
    /\ mlock[id] = "none"
    /\ mlock' = [mlock EXCEPT ![id] = "link"]
    /\ \/ active[id].msg # 0 /\ Adopt(active[id].msg)
       \/ active[id].msg = 0 /\ link.sub.msg = 0 /\ Adopt(0)
       \/ active[id].msg = 0 /\ link.sub.msg # 0 /\ LinkGoes("adopt") /\ UNCHANGED active
    /\ UNCHANGED <<bga, database, tasks, call, discord, bounds>>

LinkAdopts ==
    LET tracked == link.sub.msg IN
    /\ link.pc = "adopt"
    /\ \/ /\ Exists(tracked)
          /\ Adopt(tracked)
          /\ UNCHANGED <<row, events>>
       \/ /\ ~Exists(tracked)
          /\ Adopt(0)
          /\ row' = IF Gone(link.sub.id) THEN row ELSE [row EXCEPT !.life = link.sub.life, !.msg = 0]
          /\ UNCHANGED events
       \/ /\ Fault("drop")
          /\ Adopt(0)
          /\ UNCHANGED row
    /\ UNCHANGED <<bga, lastRow, mlock, tasks, call, discord, links, disturbed>>

\* Once adopted, the note of a table that was watched becomes the card at once.
Adopted == IF link.known THEN "redraw" ELSE "sync"

LinkSaves ==
    /\ link.pc = "save"
    /\ Track(link.sub.id, link.sub.life, link.note)
    /\ IF link.old # 0
       THEN LinkGoes("replace") /\ UNCHANGED mlock
       ELSE LinkGoes(Adopted) /\ mlock' = Unlocked("link")
    /\ UNCHANGED <<bga, active, tasks, call, discord, bounds>>

\* The older card is deleted, or the note.
LinkDeletes ==
    LET gone == IF link.pc = "replace" THEN link.old ELSE link.note IN
    /\ link.pc \in {"replace", "drop"}
    /\ \/ messages' = Without(gone) /\ UNCHANGED events
       \/ Fault("drop") /\ UNCHANGED messages
    /\ LinkBecomes([link EXCEPT !.pc = IF link.pc = "replace" THEN Adopted ELSE Unadopted,
                                 !.old = 0, !.note = 0])
    /\ mlock' = Unlocked("link")
    /\ UNCHANGED <<bga, database, active, tasks, call, lastMsg, links, disturbed>>

\* redraw_card_from_saved_state: not if the row is gone or finished, nor before
\* the worker has stored a first state of the game.  As LinkStates has reset the
\* row, this draws a recruiting table unless a worker has stored more since.
LinkRedraws ==
    /\ link.pc = "redraw"
    /\ \/ /\ ~Gone(link.sub.id) /\ row.life # "finished"
          /\ Publish("link", row, row.life)
          /\ LinkGoes("drawing")
       \/ /\ Gone(link.sub.id) \/ row.life # "recruiting"
          /\ LinkGoes("sync")
          /\ UNCHANGED call
    /\ UNCHANGED <<bga, database, memory, tasks, discord, bounds>>

LinkDrawn ==
    /\ link.pc = "drawing" /\ call["link"].pc = "idle"
    /\ LinkGoes("sync")
    /\ UNCHANGED <<bga, database, memory, tasks, call, discord, bounds>>

(***************************************************************************)
(* reset_tracked_message, without the lock.  Deleting a message returns    *)
(* nothing, which is taken for a failure, so that only one that was gone   *)
(* already is forgotten.                                                   *)
(***************************************************************************)
LinkResets ==
    LET id == link.sub.id
        target == IF active[id].msg # 0 THEN active[id].msg ELSE link.sub.msg
    IN
    /\ link.pc = "reset"
    /\ \/ /\ Exists(target)
          /\ messages' = Without(target)
          /\ active' = [active EXCEPT ![id] = [msg |-> target, kind |-> IF @.msg = 0 THEN "note" ELSE @.kind]]
          /\ LinkGoes("sync")
          /\ UNCHANGED events
       \/ /\ ~Exists(target)
          /\ active' = [active EXCEPT ![id] = NoCard]
          /\ LinkGoes("untrack")
          /\ UNCHANGED <<messages, events>>
       \/ /\ target # 0 /\ Fault("drop")
          /\ LinkGoes("sync")
          /\ UNCHANGED <<messages, active>>
    /\ UNCHANGED <<bga, database, mlock, tasks, call, lastMsg, links, disturbed>>

LinkUntracks ==
    /\ link.pc = "untrack"
    /\ Track(link.sub.id, link.sub.life, 0)
    /\ LinkGoes("sync")
    /\ UNCHANGED <<bga, memory, tasks, call, discord, bounds>>

LinkStep ==
    \/ LinkLooks
    \/ LinkProbes
    \/ LinkUpserts
    \/ LinkStates
    \/ LinkReloads
    \/ LinkLocks
    \/ LinkAdopts
    \/ LinkSaves
    \/ LinkDeletes
    \/ LinkRedraws
    \/ LinkDrawn
    \/ LinkResets
    \/ LinkUntracks

-----------------------------------------------------------------------------
\* External: the table starts, and ends.
Play ==
    /\ \E life \in Lives : Rank(life) > Rank(bga) /\ bga' = life
    /\ UNCHANGED <<database, memory, tasks, call, link, discord, bounds>>

\* "Stop watching" on the dashboard, or the bot left the server.
Stop ==
    /\ row # NoRow
    /\ events < MaxEvents
    /\ events' = events + 1
    /\ disturbed' = TRUE
    /\ Remove
    /\ UNCHANGED <<bga, memory, tasks, call, link, discord, links>>

\* External: a moderator deletes a message.
Moderate ==
    /\ Fault("moderator")
    /\ \E m \in messages : messages' = messages \ {m}
    /\ UNCHANGED <<bga, database, memory, tasks, call, link, lastMsg, links, disturbed>>

Crash ==
    /\ Fault("crash")
    /\ active' = [i \in Rows |-> NoCard]
    /\ mlock' = [i \in Rows |-> "none"]
    /\ worker' = [w \in Workers |-> NoWorker]
    /\ registered' = "none"
    /\ call' = [a \in Callers |-> NoCall]
    /\ link' = NoLink
    /\ sync' = [s \in Syncs |-> NoSync]
    /\ UNCHANGED <<bga, database, discord, links, disturbed>>

Next ==
    \/ Play
    \/ LinkPosted
    \/ LinkStep
    \/ \E w \in Workers : WorkerStep(w)
    \/ \E a \in Callers : CallStep(a) \/ CallRaises(a)
    \/ \E s \in Syncs : SyncStep(s)
    \/ Stop
    \/ Moderate
    \/ Crash

Safe == Init /\ [][Next]_vars

\* The event loop runs every task that can go on, and the sync loop is one of
\* them.  Nothing is assumed of what a websocket brings.
Spec ==
    /\ Safe
    /\ WF_vars(LinkStep \/ CallStep("link") \/ SyncStep("link"))
    /\ \A w \in Workers : WF_vars(WorkerRuns(w) \/ CallStep(w))
    /\ WF_vars(SyncStep("loop"))

-----------------------------------------------------------------------------
(***************************************************************************)
(* Properties                                                              *)
(***************************************************************************)

\* While the table is being played, at most one worker polls it and draws its
\* card: sync runs of the loop and of link handlers, each with its own list of
\* watches, neither start a second one nor leave a cancelled one running.  (A
\* worker that saw the end may linger in its websocket.)
OneWorker == bga # "finished" => Cardinality({w \in Workers : Running(w)}) <= 1

\* Messages that the database, the bot's memory or a call under way knows.
Known ==
    {active[i].msg : i \in Rows} \cup {row.msg, link.note, link.old}
        \cup {call[a].msg : a \in Callers}

Strays == {m \in messages : m.kind \in {"recruiting", "playing"} /\ m.id \notin Known}

\* A card that still shows a running game is one the bot knows, so that it will
\* be drawn again: through the lock, adopting a note, a lookup that fails and a
\* restart, a card is left behind only by a fault, one for each.  (A watch that
\* is stopped, or whose link is posted again, has weaker guarantees.)
StraysTakeEvents == ~disturbed => Cardinality(Strays) <= events

\* A card that shows the final result is never drawn as a running game again,
\* unless the link was posted again or the watch was stopped: a state that a
\* worker read before the end is not drawn after it.
FinalCardStays ==
    [][~disturbed => \A m \in messages : m.kind = "finished" =>
        ~\E n \in messages' : n.id = m.id /\ n.kind \in {"recruiting", "playing"}]_vars

\* A table that ended is unwatched in the end and for good, whatever was
\* cancelled, raised or restarted on the way, once that has ceased; or its worker
\* still listens to a websocket that does not tell it (monitor.py has no other
\* means then).  No lock, call or cancelled task keeps it watched.
Listening == \E w \in Workers : registered = w /\ worker[w].pc = "stream"

FinishedUnwatched == bga = "finished" ~> [](row = NoRow \/ Listening)

\* A watch that ended (it was stopped, or the table finished) comes back only
\* by a link that is posted.
StoppedStaysStopped == [][row = NoRow /\ row' # NoRow => link.pc = "upsert"]_vars
=============================================================================

---------------------------- MODULE BridgeOutbox ----------------------------
(***************************************************************************)
(* The tournament bridge's outbox: results of finished games are queued in *)
(* the database and one task delivers them to the tournament's callback    *)
(* URLs.  Every database call is one step, since the bot awaits it, and so *)
(* is every POST.  The task is the control state `pc' with what its frames *)
(* hold (batch, url, verdict, alarm).  The tournament is external: it      *)
(* takes, refuses or never sees what is POSTed.                            *)
(***************************************************************************)
EXTENDS Bridge, Naturals, FiniteSets

CONSTANTS
    Urls,         \* the number of callback URLs
    MaxAttempts,  \* give up on a result after this many attempts
    BatchLimit,   \* rows one delivery pass reads
    MaxFaults,    \* bound: crashes, failed passes and cancelled calls
    MaxRequeues   \* bound: requests to send again

ASSUME OutboxAssumption ==
    /\ None \notin Channels
    /\ Urls \in Nat \ {0}
    /\ MaxAttempts \in Nat \ {0}
    /\ BatchLimit \in Nat \ {0}
    /\ MaxFaults \in Nat
    /\ MaxRequeues \in Nat

Settled == {"delivered", "rejected", "abandoned"}
NoRow == [id |-> 0, channel |-> None, status |-> "unknown", attempts |-> 0, due |-> FALSE]

VARIABLES
    outbox,      \* the outbox, by event id (which is UNIQUE)
    lastId,      \* the last outbox_id given out
    pc,          \* where the delivery task is
    batch,       \* the entries this pass has still to deliver, as it read them
    url,         \* the callback URL being tried
    verdict,     \* the status about to be stored
    wake,        \* the wake-up event
    wakers,      \* calls that have queued something and will set it
    alarm,       \* how long the task sleeps: until a row is due, or 5 minutes
    accepted,    \* external: the events the tournament has taken
    faults, requeues

task == <<pc, batch, url, verdict, alarm>>
waking == <<wake, wakers>>
bounds == <<faults, requeues>>
vars == <<outbox, lastId, task, waking, accepted, bounds>>

Row == [id : Nat, channel : Channels \cup {None}, status : Settled \cup {"pending", "unknown"},
        attempts : Nat, due : BOOLEAN]
Entry == [event : Events, attempts : Nat]

TypeOK ==
    /\ outbox \in [Events -> Row]
    /\ lastId \in Nat
    /\ pc \in {"list", "post", "save", "look", "clear", "asleep"}
    /\ batch \subseteq Entry
    /\ url \in Nat
    /\ verdict \in Settled \cup {"pending"}
    /\ wake \in BOOLEAN
    /\ wakers \in Nat
    /\ alarm \in {"due", "long"}
    /\ accepted \subseteq Events
    /\ faults \in Nat
    /\ requeues \in Nat

Init ==
    /\ outbox = [e \in Events |-> NoRow]
    /\ lastId = 0
    /\ pc = "list"
    /\ batch = {}
    /\ url = 1
    /\ verdict = "pending"
    /\ wake = FALSE
    /\ wakers = 0
    /\ alarm = "long"
    /\ accepted = {}
    /\ faults = 0
    /\ requeues = 0

Queued(c) == {e \in Events : outbox[e].channel = c}
Pending == {e \in Events : outbox[e].status = "pending"}
Due == {e \in Pending : outbox[e].due}

-----------------------------------------------------------------------------
(***************************************************************************)
(* A game finished in a room watched from a bound channel: the result is   *)
(* queued (on_game_finished, enqueue_bridge_result).  One already queued   *)
(* under its event id, from this channel or another, is left alone.        *)
(***************************************************************************)
NewRow(c) == [id |-> lastId + 1, channel |-> c, status |-> "pending", attempts |-> 0, due |-> TRUE]

Enqueue(c, e) ==
    /\ outbox[e] = NoRow
    /\ outbox' = [outbox EXCEPT ![e] = NewRow(c)]
    /\ lastId' = lastId + 1
    /\ wakers' = wakers + 1
    /\ UNCHANGED <<wake, task, accepted, bounds>>

\* The rows "send again" takes: those not pending.
Requeueable_All(c) == Queued(c)
Requeueable(c) == Queued(c) \ Pending

Reset_NewStatus(row) == [row EXCEPT !.status = "queued", !.attempts = 0, !.due = TRUE]
Reset(row) == [row EXCEPT !.status = "pending", !.attempts = 0, !.due = TRUE]

\* redeliver / requeue_bridge_results
Requeue(c) ==
    /\ Requeueable(c) # {}
    /\ requeues < MaxRequeues
    /\ requeues' = requeues + 1
    /\ outbox' = [e \in Events |->
                    IF e \in Requeueable(c)
                    THEN Reset(outbox[e]) ELSE outbox[e]]
    /\ wakers' = wakers + 1
    /\ UNCHANGED <<lastId, wake, task, accepted, faults>>

\* The call wakes the task, once the database call returns to it.
SetWake ==
    /\ wakers > 0
    /\ wakers' = wakers - 1
    /\ wake' = TRUE
    /\ UNCHANGED <<outbox, lastId, task, accepted, bounds>>

\* The call is cancelled before it does (a new update of the room's cards).
CallerCancelled ==
    /\ wakers > 0
    /\ faults < MaxFaults
    /\ faults' = faults + 1
    /\ wakers' = wakers - 1
    /\ UNCHANGED <<outbox, lastId, wake, task, accepted, requeues>>

-----------------------------------------------------------------------------
(***************************************************************************)
(* The delivery task.                                                      *)
(***************************************************************************)

\* The first BatchLimit due rows, in the order they were queued.
DueEntries ==
    {[event |-> e, attempts |-> outbox[e].attempts] :
        e \in {d \in Due : Cardinality({x \in Due : outbox[x].id <= outbox[d].id}) <= BatchLimit}}

ListDue ==
    /\ pc = "list"
    /\ batch' = DueEntries
    /\ pc' = IF DueEntries = {} THEN "look" ELSE "post"
    /\ url' = 1
    /\ UNCHANGED <<outbox, lastId, waking, verdict, alarm, accepted, bounds>>

\* Entries are delivered in the order of their rows.
IsNext(n) == \A m \in batch : outbox[n.event].id <= outbox[m.event].id

\* A 2xx answer.
PostAccepted(n) ==
    /\ IsNext(n)
    /\ pc = "post"
    /\ accepted' = accepted \cup {n.event}
    /\ pc' = "save"
    /\ verdict' = "delivered"
    /\ UNCHANGED <<outbox, lastId, waking, batch, url, alarm, bounds>>

\* A 4xx answer that sending again would not change.
PostRefused(n) ==
    /\ IsNext(n)
    /\ pc = "post"
    /\ pc' = "save"
    /\ verdict' = "rejected"
    /\ UNCHANGED <<outbox, lastId, waking, batch, url, alarm, accepted, bounds>>

\* What to store after the last URL failed.
GiveUp_OneTooMany(attempts) == attempts > MaxAttempts
GiveUp(attempts) == attempts >= MaxAttempts

\* No answer, or one worth retrying: the next URL, or else store the failure.
\* The tournament may have taken the result and the answer been lost.
PostFailed(n) ==
    /\ IsNext(n)
    /\ pc = "post"
    /\ accepted' = accepted \cup {n.event} \/ UNCHANGED accepted
    /\ \/ /\ url < Urls
          /\ url' = url + 1
          /\ UNCHANGED <<pc, verdict>>
       \/ /\ url >= Urls
          /\ pc' = "save"
          /\ verdict' = IF GiveUp(n.attempts + 1) THEN "abandoned" ELSE "pending"
          /\ UNCHANGED url
    /\ UNCHANGED <<outbox, lastId, waking, batch, alarm, bounds>>

\* update_bridge_result, and on to the next entry of the pass.
Save(n) ==
    /\ IsNext(n)
    /\ pc = "save"
    /\ outbox' = [outbox EXCEPT ![n.event].status = verdict,
                                ![n.event].attempts = n.attempts + 1,
                                ![n.event].due = verdict # "pending"]
    /\ batch' = batch \ {n}
    /\ pc' = IF batch' = {} THEN "look" ELSE "post"
    /\ url' = 1
    /\ UNCHANGED <<lastId, waking, verdict, alarm, accepted, bounds>>

\* An exception in deliver_due is logged and ends the pass.
PassFails ==
    /\ pc \in {"list", "post", "save"}
    /\ faults < MaxFaults
    /\ faults' = faults + 1
    /\ batch' = {}
    /\ pc' = "look"
    /\ UNCHANGED <<outbox, lastId, waking, url, verdict, alarm, accepted, requeues>>

\* next_bridge_result_due_at
Look ==
    /\ pc = "look"
    /\ alarm' = IF Pending = {} THEN "long" ELSE "due"
    /\ pc' = "clear"
    /\ UNCHANGED <<outbox, lastId, waking, batch, url, verdict, accepted, bounds>>

\* A wake-up that came since the task last looked is forgotten here.
ClearWake ==
    /\ pc = "clear"
    /\ wake' = FALSE
    /\ pc' = "asleep"
    /\ UNCHANGED <<outbox, lastId, wakers, batch, url, verdict, alarm, accepted, bounds>>

Awake_NoTimeout == wake
Awake == wake \/ alarm = "long" \/ Due # {}

WakeUp ==
    /\ pc = "asleep"
    /\ Awake
    /\ pc' = "list"
    /\ UNCHANGED <<outbox, lastId, waking, batch, url, verdict, alarm, accepted, bounds>>

\* A retry's delay is over.
RetryDue(e) ==
    /\ e \in Pending \ Due
    /\ outbox' = [outbox EXCEPT ![e].due = TRUE]
    /\ UNCHANGED <<lastId, waking, task, accepted, bounds>>

\* The process dies and is started again.
Crash ==
    /\ faults < MaxFaults
    /\ faults' = faults + 1
    /\ pc' = "list"
    /\ batch' = {}
    /\ url' = 1
    /\ verdict' = "pending"
    /\ wake' = FALSE
    /\ wakers' = 0
    /\ alarm' = "long"
    /\ UNCHANGED <<outbox, lastId, accepted, requeues>>

Deliver ==
    \/ ListDue
    \/ \E n \in batch : PostAccepted(n) \/ PostRefused(n) \/ PostFailed(n) \/ Save(n)
    \/ Look
    \/ ClearWake
    \/ WakeUp

Next ==
    \/ \E c \in Channels : Requeue(c)
    \/ \E c \in Channels, e \in Events : Enqueue(c, e)
    \/ SetWake
    \/ CallerCancelled
    \/ Deliver
    \/ PassFails
    \/ \E e \in Events : RetryDue(e)
    \/ Crash

Safe == Init /\ [][Next]_vars

\* The event loop runs every task that is ready, and time passes.
Spec == Safe /\ WF_vars(Deliver) /\ \A e \in Events : WF_vars(RetryDue(e))

-----------------------------------------------------------------------------
(***************************************************************************)
(* A pass works from entries it read earlier, while results are queued and *)
(* sent again around it.  What it still holds is never stale: each entry   *)
(* is pending in the database with the attempts the pass read, so storing  *)
(* the outcome overwrites nobody's change.                                 *)
(***************************************************************************)
BatchIsFresh ==
    \A n \in batch : /\ outbox[n.event].status = "pending"
                     /\ outbox[n.event].attempts = n.attempts

(***************************************************************************)
(* A result gets all its attempts before it is given up, and is tried no   *)
(* more once it has had them, also after it was sent again and across      *)
(* crashes (max_attempts in _deliver).                                     *)
(***************************************************************************)
AllAttemptsMade ==
    \A e \in Events : /\ outbox[e].status = "pending" => outbox[e].attempts < MaxAttempts
                      /\ outbox[e].status = "abandoned" => outbox[e].attempts = MaxAttempts

(***************************************************************************)
(* The bridge delivers results as docs/tournament-bridge.md promises, from *)
(* the moment they are in the outbox.                                      *)
(***************************************************************************)
Delivery == INSTANCE ResultDelivery WITH
    result <- [e \in Events |-> outbox[e].status]

Delivers == Delivery!Spec
=============================================================================

---------------------------- MODULE BridgeProofs ----------------------------
(***************************************************************************)
(* Theorems about the tournament bridge, for any number of channels and    *)
(* events: about BridgeOutbox, for any number of URLs and attempts, its    *)
(* invariants, and that it implements the safety part of ResultDelivery;   *)
(* about BridgeLineups, for any number of line-ups, that a line-up is      *)
(* shown exactly while it is current.                                      *)
(***************************************************************************)
EXTENDS BridgeOutbox, BridgeLineups, SequenceTheorems, WellFoundedInduction, TLAPS

-----------------------------------------------------------------------------
(***************************************************************************)
(* The outbox and its delivery                                             *)
(***************************************************************************)
\* Every variable has its type.
THEOREM TypeCorrect == Safe => []TypeOK
<1>1. Init => TypeOK
  <2>1. NoRow \in Row
    BY DEF NoRow, Row
  <2>2. 0 \in Nat /\ 1 \in Nat
    OBVIOUS
  <2> QED
    BY <2>1, <2>2 DEF Init, TypeOK, Settled
<1>2. TypeOK /\ [Next]_vars => TypeOK'
  <2> SUFFICES ASSUME TypeOK, [Next]_vars
               PROVE  TypeOK'
    OBVIOUS
  <2> USE DEF TypeOK, task, waking, bounds
  <2>1. ASSUME NEW c \in Channels, Requeue(c)
        PROVE  TypeOK'
    <3>1. \A e \in Events : Reset(outbox[e]) \in Row
      BY DEF Reset, Row
    <3>2. outbox' \in [Events -> Row]
      BY <2>1, <3>1 DEF Requeue
    <3>3. wakers' = wakers + 1 /\ requeues' = requeues + 1
          /\ UNCHANGED <<lastId, wake, task, accepted, faults>>
      BY <2>1 DEF Requeue
    <3> QED
      BY <3>2, <3>3
  <2>2. ASSUME NEW c \in Channels, NEW e \in Events, Enqueue(c, e)
        PROVE  TypeOK'
    <3>1. NewRow(c) \in Row
      BY DEF NewRow, Row
    <3> QED
      BY <2>2, <3>1 DEF Enqueue
  <2>3. CASE ListDue
    <3>1. DueEntries \subseteq Entry
      <4>1. \A e \in Events : outbox[e].attempts \in Nat
        BY DEF Row
      <4>2. ASSUME NEW n \in DueEntries
            PROVE  n \in Entry
        <5>1. PICK e \in Events : n = [event |-> e, attempts |-> outbox[e].attempts]
          BY DEF DueEntries, Due, Pending
        <5> QED
          BY <4>1, <5>1 DEF Entry
      <4> QED
        BY <4>2
    <3> QED
      BY <2>3, <3>1 DEF ListDue
  <2>4. ASSUME NEW n \in batch, PostAccepted(n)
        PROVE  TypeOK'
    BY <2>4 DEF PostAccepted, Entry, Settled
  <2>5. ASSUME NEW n \in batch, PostRefused(n)
        PROVE  TypeOK'
    BY <2>5 DEF PostRefused, Settled
  <2>6. ASSUME NEW n \in batch, PostFailed(n)
        PROVE  TypeOK'
    BY <2>6 DEF PostFailed, Entry, Settled
  <2>7. ASSUME NEW n \in batch, Save(n)
        PROVE  TypeOK'
    <3>1. n.event \in Events /\ n.attempts + 1 \in Nat
      BY DEF Entry
    <3>2. [outbox[n.event] EXCEPT !.status = verdict, !.attempts = n.attempts + 1,
                                  !.due = verdict # "pending"] \in Row
      BY <3>1 DEF Row
    <3>3. outbox' \in [Events -> Row]
      BY <2>7, <3>1, <3>2 DEF Save
    <3> QED
      BY <2>7, <3>3 DEF Save
  <2>8. CASE Look \/ ClearWake \/ WakeUp
    BY <2>8 DEF Look, ClearWake, WakeUp
  <2>9. CASE PassFails
    BY <2>9 DEF PassFails
  <2>12. CASE Crash
    <3>1. /\ outbox' \in [Events -> Row] /\ lastId' \in Nat /\ accepted' \subseteq Events
          /\ requeues' \in Nat /\ faults' \in Nat /\ wakers' \in Nat
      BY <2>12 DEF Crash
    <3>2. /\ pc' = "list" /\ batch' = {} /\ url' = 1 /\ verdict' = "pending" /\ wake' = FALSE
          /\ alarm' = "long"
      BY <2>12 DEF Crash
    <3>3. url' \in Nat /\ wake' \in BOOLEAN /\ batch' \subseteq Entry
      BY <3>2
    <3> QED
      BY <3>1, <3>2, <3>3
  <2>10. ASSUME NEW e \in Events, RetryDue(e)
         PROVE  TypeOK'
    <3>1. [outbox[e] EXCEPT !.due = TRUE] \in Row
      BY DEF Row
    <3> QED
      BY <2>10, <3>1 DEF RetryDue
  <2>11. CASE UNCHANGED vars
    BY <2>11 DEF vars
  <2>13. CASE SetWake \/ CallerCancelled
    <3>1. /\ UNCHANGED <<outbox, lastId, task, accepted, requeues>>
          /\ faults' = faults \/ faults' = faults + 1
          /\ wakers > 0 /\ wakers' = wakers - 1
      BY <2>13 DEF SetWake, CallerCancelled
    <3>2. wakers' \in Nat /\ faults' \in Nat
      BY <3>1
    <3>3. wake' = TRUE \/ wake' = wake
      BY <2>13 DEF SetWake, CallerCancelled
    <3>4. wake' \in BOOLEAN
      BY <3>3
    <3>5. /\ outbox' \in [Events -> Row] /\ lastId' \in Nat /\ accepted' \subseteq Events
          /\ requeues' \in Nat /\ batch' \subseteq Entry /\ url' \in Nat
          /\ pc' = pc /\ verdict' = verdict /\ alarm' = alarm
      BY <3>1
    <3> QED
      BY <3>2, <3>4, <3>5
  <2> QED
    BY <2>1, <2>2, <2>3, <2>4, <2>5, <2>6, <2>7, <2>8, <2>9, <2>10, <2>11, <2>12, <2>13 DEF Next, Deliver
<1> QED
  BY <1>1, <1>2, PTL DEF Safe

-----------------------------------------------------------------------------
(***************************************************************************)
(* The inductive invariant.  Rows have ids of their own, so at most one    *)
(* entry of a batch is next, and what was decided about it is what Save    *)
(* stores for it.                                                          *)
(***************************************************************************)
RowsDistinct ==
    /\ \A e \in Events : outbox[e].status = "unknown" => outbox[e] = NoRow
    /\ \A e \in Events : outbox[e].status # "unknown" => outbox[e].id \in 1 .. lastId
    /\ \A e, f \in Events : /\ outbox[e].status # "unknown"
                            /\ outbox[f].status # "unknown"
                            /\ outbox[e].id = outbox[f].id
                            => e = f

VerdictSound ==
    pc = "save" =>
        \A n \in batch : IsNext(n) =>
            /\ verdict = "delivered" => n.event \in accepted
            /\ verdict = "abandoned" => n.attempts + 1 = MaxAttempts
            /\ verdict = "pending" => n.attempts + 1 < MaxAttempts

IInv == RowsDistinct /\ BatchIsFresh /\ AllAttemptsMade /\ VerdictSound

\* Two entries that are next are the same entry.
LEMMA NextIsOne ==
    ASSUME TypeOK, RowsDistinct, BatchIsFresh,
           NEW n \in batch, NEW m \in batch, IsNext(n), IsNext(m)
    PROVE  n = m
<1>1. n \in Entry /\ m \in Entry
  BY DEF TypeOK
<1>2. outbox[n.event].id \in Nat /\ outbox[m.event].id \in Nat
  BY <1>1 DEF TypeOK, Row, Entry
<1>3. outbox[n.event].id = outbox[m.event].id
  BY <1>2 DEF IsNext
<1>4. n.event = m.event
  BY <1>1, <1>3 DEF RowsDistinct, BatchIsFresh, Entry
<1>5. n.attempts = m.attempts
  BY <1>4 DEF BatchIsFresh
<1> QED
  BY <1>1, <1>4, <1>5 DEF Entry

LEMMA IInvInit == Init => IInv
  BY OutboxAssumption DEF Init, IInv, RowsDistinct, BatchIsFresh, AllAttemptsMade, VerdictSound, NoRow

LEMMA EnqueueKeepsIInv ==
    ASSUME TypeOK, IInv, NEW c \in Channels, NEW e \in Events, Enqueue(c, e)
    PROVE  IInv'
<1> USE DEF IInv
<1>0. outbox' = [outbox EXCEPT ![e] = NewRow(c)] /\ lastId' = lastId + 1 /\ lastId \in Nat
      /\ outbox \in [Events -> Row] /\ outbox[e] = NoRow
  BY DEF Enqueue, TypeOK
<1>1. RowsDistinct'
  <2>1. \A f \in Events : outbox'[f].status = "unknown" => outbox'[f] = NoRow
    BY <1>0 DEF RowsDistinct, NewRow
  <2>2. outbox'[e].id = lastId + 1 /\ \A f \in Events \ {e} : outbox'[f] = outbox[f]
    BY <1>0 DEF NewRow
  <2>3. \A f \in Events : outbox'[f].status # "unknown" => outbox'[f].id \in 1 .. lastId'
    BY <1>0, <2>2 DEF RowsDistinct
  <2>4. \A f \in Events \ {e} : outbox'[f].status # "unknown" => outbox'[f].id # lastId + 1
    BY <1>0, <2>2 DEF RowsDistinct
  <2> QED
    BY <2>1, <2>2, <2>3, <2>4 DEF RowsDistinct
<1>2. \A n \in batch : n.event \in Events \ {e}
  BY <1>0 DEF TypeOK, Entry, BatchIsFresh, NoRow
<1>3. batch' = batch /\ pc' = pc /\ verdict' = verdict /\ accepted' = accepted
  BY DEF Enqueue, task
<1>4. \A n \in batch : outbox'[n.event] = outbox[n.event]
  BY <1>0, <1>2
<1>5. BatchIsFresh'
  BY <1>3, <1>4 DEF BatchIsFresh
<1>6. AllAttemptsMade'
  BY <1>0, OutboxAssumption DEF AllAttemptsMade, NewRow
<1>7. VerdictSound'
  BY <1>3, <1>4 DEF VerdictSound, IsNext
<1> QED
  BY <1>1, <1>5, <1>6, <1>7

\* Sending again touches no row that is in the batch: those are pending.
LEMMA RequeueKeepsIInv ==
    ASSUME TypeOK, IInv, NEW c \in Channels, Requeue(c)
    PROVE  IInv'
<1> USE DEF IInv
<1>1. /\ batch' = batch /\ pc' = pc /\ verdict' = verdict /\ accepted' = accepted
      /\ lastId' = lastId
  BY DEF Requeue, task
<1>2. \A e \in Events \ Requeueable(c) : outbox'[e] = outbox[e]
  BY DEF Requeue
<1>3. \A e \in Requeueable(c) : /\ e \in Events
                                /\ outbox'[e].id = outbox[e].id
                                /\ outbox'[e].status = "pending"
                                /\ outbox'[e].attempts = 0
  BY DEF Requeue, Requeueable, Queued, Reset, TypeOK, Row
<1>4. \A e \in Requeueable(c) : outbox[e].status \notin {"pending", "unknown"}
  BY OutboxAssumption DEF Requeueable, Queued, Pending, RowsDistinct, NoRow
<1>5. RowsDistinct'
  BY <1>1, <1>2, <1>3, <1>4 DEF RowsDistinct
<1>6. \A n \in batch : outbox'[n.event] = outbox[n.event]
  BY <1>2, <1>4 DEF BatchIsFresh, TypeOK, Entry
<1>7. BatchIsFresh'
  BY <1>1, <1>6 DEF BatchIsFresh
<1>8. AllAttemptsMade'
  BY <1>2, <1>3, OutboxAssumption DEF AllAttemptsMade
<1>9. VerdictSound'
  BY <1>1, <1>6 DEF VerdictSound, IsNext
<1> QED
  BY <1>5, <1>7, <1>8, <1>9

LEMMA ListKeepsIInv ==
    ASSUME TypeOK, IInv, ListDue
    PROVE  IInv'
<1>1. outbox' = outbox /\ lastId' = lastId /\ pc' # "save" /\ batch' = DueEntries
  BY DEF ListDue
<1>2. BatchIsFresh'
  <2> SUFFICES ASSUME NEW n \in DueEntries
               PROVE  outbox[n.event].status = "pending" /\ outbox[n.event].attempts = n.attempts
    BY <1>1 DEF BatchIsFresh
  <2>1. PICK e \in Due : n = [event |-> e, attempts |-> outbox[e].attempts]
    BY DEF DueEntries
  <2> QED
    BY <2>1 DEF Due, Pending
<1> QED
  BY <1>1, <1>2 DEF IInv, RowsDistinct, AllAttemptsMade, VerdictSound

LEMMA PostKeepsIInv ==
    ASSUME TypeOK, IInv, NEW n \in batch, PostAccepted(n) \/ PostRefused(n) \/ PostFailed(n)
    PROVE  IInv'
<1> USE DEF IInv
<1>1. outbox' = outbox /\ lastId' = lastId /\ batch' = batch /\ IsNext(n)
  BY DEF PostAccepted, PostRefused, PostFailed
<1>2. \A m \in batch : IsNext(m) => m = n
  BY <1>1, NextIsOne
<1>3. n \in Entry /\ n.attempts < MaxAttempts
  BY DEF TypeOK, Entry, BatchIsFresh, AllAttemptsMade
<1>4. \A m \in batch : IsNext(m)' <=> IsNext(m)
  BY <1>1 DEF IsNext
<1>5. CASE PostAccepted(n)
  <2>1. verdict' = "delivered" /\ n.event \in accepted'
    BY <1>5 DEF PostAccepted
  <2>2. VerdictSound'
    BY <1>1, <1>2, <1>4, <2>1 DEF VerdictSound
  <2> QED
    BY <1>1, <2>2 DEF RowsDistinct, BatchIsFresh, AllAttemptsMade
<1>6. CASE PostRefused(n)
  <2>1. verdict' = "rejected"
    BY <1>6 DEF PostRefused
  <2>2. VerdictSound'
    BY <2>1 DEF VerdictSound
  <2> QED
    BY <1>1, <2>2 DEF RowsDistinct, BatchIsFresh, AllAttemptsMade
<1>7. CASE PostFailed(n)
  <2>1. ASSUME pc' = "save"
        PROVE  VerdictSound'
    <3>1. verdict' = IF n.attempts + 1 >= MaxAttempts THEN "abandoned" ELSE "pending"
      BY <1>7, <2>1 DEF PostFailed, GiveUp
    <3>2. /\ verdict' # "delivered"
          /\ verdict' = "abandoned" => n.attempts + 1 = MaxAttempts
          /\ verdict' = "pending" => n.attempts + 1 < MaxAttempts
      BY <1>3, <3>1, OutboxAssumption DEF Entry
    <3> QED
      BY <1>1, <1>2, <1>4, <3>2 DEF VerdictSound
  <2>3. VerdictSound'
    BY <2>1 DEF VerdictSound
  <2> QED
    BY <1>1, <2>3 DEF RowsDistinct, BatchIsFresh, AllAttemptsMade
<1> QED
  BY <1>5, <1>6, <1>7

LEMMA SaveKeepsIInv ==
    ASSUME TypeOK, IInv, NEW n \in batch, Save(n)
    PROVE  IInv'
<1> USE DEF IInv
<1>0. n \in Entry /\ n.event \in Events /\ outbox[n.event].status = "pending"
      /\ outbox \in [Events -> Row] /\ n.attempts \in Nat
  BY DEF TypeOK, Entry, BatchIsFresh
<1>1. /\ lastId' = lastId /\ batch' = batch \ {n} /\ verdict' = verdict /\ accepted' = accepted
      /\ IsNext(n) /\ pc = "save" /\ pc' # "save"
  BY DEF Save
<1>2. \A e \in Events \ {n.event} : outbox'[e] = outbox[e]
  BY <1>0 DEF Save
<1>3. /\ outbox'[n.event].id = outbox[n.event].id
      /\ outbox'[n.event].status = verdict
      /\ outbox'[n.event].attempts = n.attempts + 1
  BY <1>0 DEF Save, Row
<1>4. verdict # "unknown"
  BY DEF TypeOK, Settled
<1>5. RowsDistinct'
  BY <1>0, <1>1, <1>2, <1>3, <1>4 DEF RowsDistinct
<1>6. BatchIsFresh'
  <2>1. \A m \in batch \ {n} : m.event \in Events \ {n.event}
    BY <1>0 DEF BatchIsFresh, TypeOK, Entry
  <2> QED
    BY <1>1, <1>2, <2>1 DEF BatchIsFresh
<1>7. AllAttemptsMade'
  BY <1>0, <1>1, <1>2, <1>3, OutboxAssumption DEF AllAttemptsMade, VerdictSound
<1>8. VerdictSound'
  BY <1>1 DEF VerdictSound
<1> QED
  BY <1>5, <1>6, <1>7, <1>8

LEMMA RetryDueKeepsIInv ==
    ASSUME TypeOK, IInv, NEW e \in Events, RetryDue(e)
    PROVE  IInv'
<1> USE DEF IInv
<1>1. /\ outbox' = [outbox EXCEPT ![e].due = TRUE] /\ lastId' = lastId /\ batch' = batch
      /\ pc' = pc /\ verdict' = verdict /\ accepted' = accepted
      /\ outbox[e].status = "pending"
  BY DEF RetryDue, task, Pending
<1>2. \A f \in Events : /\ outbox'[f].id = outbox[f].id
                        /\ outbox'[f].status = outbox[f].status
                        /\ outbox'[f].attempts = outbox[f].attempts
  BY <1>1 DEF TypeOK, Row
<1>3. \A f \in Events \ {e} : outbox'[f] = outbox[f]
  BY <1>1 DEF TypeOK
<1>4. RowsDistinct'
  BY <1>1, <1>2, <1>3 DEF RowsDistinct
<1>5. \A n \in batch : n.event \in Events
  BY DEF TypeOK, Entry
<1>6. BatchIsFresh'
  BY <1>1, <1>2, <1>5 DEF BatchIsFresh
<1>7. AllAttemptsMade'
  BY <1>2 DEF AllAttemptsMade
<1>8. VerdictSound'
  BY <1>1, <1>2, <1>5 DEF VerdictSound, IsNext
<1> QED
  BY <1>4, <1>6, <1>7, <1>8

LEMMA IInvStep == TypeOK /\ IInv /\ [Next]_vars => IInv'
<1> SUFFICES ASSUME TypeOK, IInv, [Next]_vars
             PROVE  IInv'
  OBVIOUS
<1>1. ASSUME NEW n \in batch, PostAccepted(n) \/ PostRefused(n) \/ PostFailed(n)
      PROVE  IInv'
  BY <1>1, PostKeepsIInv
<1>5. ASSUME NEW n \in batch, Save(n)
      PROVE  IInv'
  BY <1>5, SaveKeepsIInv
<1>6. ASSUME NEW c \in Channels, Requeue(c)
      PROVE  IInv'
  BY <1>6, RequeueKeepsIInv
<1>7. ASSUME NEW c \in Channels, NEW e \in Events, Enqueue(c, e)
      PROVE  IInv'
  BY <1>7, EnqueueKeepsIInv
<1>8. ASSUME NEW e \in Events, RetryDue(e)
      PROVE  IInv'
  BY <1>8, RetryDueKeepsIInv
<1>2. CASE Look \/ ClearWake \/ WakeUp
  <2>1. outbox' = outbox /\ lastId' = lastId /\ batch' = batch /\ pc' # "save"
    BY <1>2 DEF Look, ClearWake, WakeUp
  <2> QED
    BY <2>1 DEF IInv, RowsDistinct, BatchIsFresh, AllAttemptsMade, VerdictSound
<1>3. CASE PassFails \/ Crash
  <2>1. outbox' = outbox /\ lastId' = lastId /\ batch' = {} /\ pc' # "save"
    BY <1>3 DEF PassFails, Crash
  <2> QED
    BY <2>1 DEF IInv, RowsDistinct, BatchIsFresh, AllAttemptsMade, VerdictSound
<1>4. CASE SetWake \/ CallerCancelled \/ UNCHANGED vars
  BY <1>4 DEF SetWake, CallerCancelled, vars, task, IInv, RowsDistinct, BatchIsFresh, AllAttemptsMade, VerdictSound, IsNext
<1> QED
  BY <1>1, <1>2, <1>3, <1>4, <1>5, <1>6, <1>7, <1>8, ListKeepsIInv DEF Next, Deliver

LEMMA Inductive == Safe => []IInv
<1> QED
  BY IInvInit, IInvStep, TypeCorrect, PTL DEF Safe

\* A pass never holds a stale entry, so it overwrites nobody's change.
THEOREM NeverStale == Safe => []BatchIsFresh
<1>1. IInv => BatchIsFresh
  BY DEF IInv
<1> QED
  BY <1>1, Inductive, PTL

\* A result is given up after exactly MaxAttempts attempts, never before.
THEOREM AttemptsKept == Safe => []AllAttemptsMade
<1>1. IInv => AllAttemptsMade
  BY DEF IInv
<1> QED
  BY <1>1, Inductive, PTL

-----------------------------------------------------------------------------
(***************************************************************************)
(* The outbox and its task implement ResultDelivery: every step is a step  *)
(* of the abstract specification or leaves its variables alone.            *)
(***************************************************************************)
Statuses == [e \in Events |-> outbox[e].status]

LEMMA DeliveryInit == Init => Delivery!Init
  BY DEF Init, Delivery!Init, NoRow

LEMMA SaveSettles ==
    ASSUME TypeOK, IInv, NEW n \in batch, Save(n)
    PROVE  Delivery!Next \/ UNCHANGED Delivery!vars
<1>1. n.event \in Events /\ outbox[n.event].status = "pending" /\ IsNext(n) /\ pc = "save"
  BY DEF TypeOK, Entry, IInv, BatchIsFresh, Save
<1>2. Statuses' = [Statuses EXCEPT ![n.event] = verdict] /\ accepted' = accepted
  BY <1>1 DEF Save, Statuses, TypeOK, Row
<1>3. CASE verdict = "pending"
  <2>1. Statuses' = Statuses
    BY <1>1, <1>2, <1>3 DEF Statuses
  <2> QED
    BY <1>2, <2>1 DEF Delivery!vars, Statuses
<1>4. CASE verdict \in Settled
  <2>1. verdict = "delivered" => n.event \in accepted
    BY <1>1 DEF IInv, VerdictSound
  <2>2. Delivery!Settle(n.event, verdict)
    BY <1>1, <1>2, <2>1 DEF Delivery!Settle, Statuses
  <2>3. verdict \in Delivery!Settled
    BY <1>4 DEF Settled, Delivery!Settled
  <2>4. \E e \in Events, s \in Delivery!Settled : Delivery!Settle(e, s)
    BY <1>1, <2>2, <2>3 DEF Delivery!Settle
  <2> QED
    BY <2>4 DEF Delivery!Next
<1> QED
  BY <1>3, <1>4 DEF TypeOK

LEMMA RequeueResends ==
    ASSUME TypeOK, IInv, NEW c \in Channels, Requeue(c)
    PROVE  Delivery!Next
<1>1. Requeueable(c) \subseteq Events
  BY DEF Requeueable, Queued
<1>2. \A e \in Requeueable(c) : outbox[e].status \in Settled
  BY OutboxAssumption DEF Requeueable, Queued, Pending, IInv, RowsDistinct, NoRow, TypeOK, Row
<1>3. /\ Statuses' = [e \in Events |-> IF e \in Requeueable(c) THEN "pending" ELSE Statuses[e]]
      /\ accepted' = accepted
  BY DEF Requeue, Reset, Statuses, TypeOK, Row
<1>4. Delivery!Resend(Requeueable(c))
  <2>1. \A e \in Requeueable(c) : Statuses[e] \in Delivery!Settled
    BY <1>1, <1>2 DEF Statuses, Settled, Delivery!Settled
  <2> QED
    BY <1>3, <2>1 DEF Delivery!Resend, Statuses
<1>5. \E S \in SUBSET Events : Delivery!Resend(S)
  BY <1>1, <1>4 DEF Delivery!Resend
<1> QED
  BY <1>5 DEF Delivery!Next

LEMMA DeliveryStep == TypeOK /\ IInv /\ [Next]_vars => [Delivery!Next]_(Delivery!vars)
<1> SUFFICES ASSUME TypeOK, IInv, [Next]_vars
             PROVE  Delivery!Next \/ UNCHANGED Delivery!vars
  OBVIOUS
<1>1. ASSUME NEW c \in Channels, NEW e \in Events, Enqueue(c, e)
      PROVE  Delivery!Next
  <2>1. /\ Statuses[e] = "unknown"
        /\ Statuses' = [Statuses EXCEPT ![e] = "pending"]
        /\ accepted' = accepted
    <3>1. outbox[e].status = "unknown" /\ accepted' = accepted
      BY <1>1 DEF Enqueue, NoRow
    <3>2. outbox' = [outbox EXCEPT ![e] = NewRow(c)] /\ NewRow(c).status = "pending"
      BY <1>1 DEF Enqueue, NewRow
    <3>3. \A f \in Events : outbox'[f].status = IF f = e THEN "pending" ELSE outbox[f].status
      BY <3>2 DEF TypeOK
    <3> QED
      BY <3>1, <3>3 DEF Statuses
  <2>2. Delivery!Queue(e)
    BY <2>1 DEF Delivery!Queue, Statuses
  <2> QED
    BY <2>2 DEF Delivery!Next
<1>2. ASSUME NEW n \in batch, PostAccepted(n) \/ PostRefused(n) \/ PostFailed(n)
      PROVE  Delivery!Next \/ UNCHANGED Delivery!vars
  <2>1. n.event \in Events /\ Statuses[n.event] = "pending"
    BY DEF TypeOK, Entry, IInv, BatchIsFresh, Statuses
  <2>2. /\ Statuses' = Statuses
        /\ accepted' = accepted \cup {n.event} \/ accepted' = accepted
    BY <1>2 DEF PostAccepted, PostRefused, PostFailed, Statuses
  <2>3. CASE accepted' = accepted \cup {n.event}
    <3>1. Delivery!Take(n.event)
      BY <2>1, <2>2, <2>3 DEF Delivery!Take, Statuses
    <3> QED
      BY <2>1, <3>1 DEF Delivery!Next
  <2>4. CASE accepted' = accepted
    BY <2>2, <2>4 DEF Delivery!vars, Statuses
  <2> QED
    BY <2>2, <2>3, <2>4
<1>3. ASSUME NEW e \in Events, RetryDue(e)
      PROVE  UNCHANGED Delivery!vars
  <2>1. Statuses' = Statuses /\ accepted' = accepted
    BY <1>3 DEF RetryDue, Statuses, TypeOK, Row
  <2> QED
    BY <2>1 DEF Delivery!vars, Statuses
<1>4. CASE \/ ListDue \/ Look \/ ClearWake \/ WakeUp \/ SetWake
           \/ CallerCancelled \/ PassFails \/ Crash \/ UNCHANGED vars
  <2>1. outbox' = outbox /\ accepted' = accepted
    BY <1>4 DEF SetWake, CallerCancelled, ListDue, Look, ClearWake, WakeUp, PassFails, Crash, vars
  <2> QED
    BY <2>1 DEF Delivery!vars
<1>5. ASSUME NEW c \in Channels, Requeue(c)
      PROVE  Delivery!Next
  BY <1>5, RequeueResends
<1>6. ASSUME NEW n \in batch, Save(n)
      PROVE  Delivery!Next \/ UNCHANGED Delivery!vars
  BY <1>6, SaveSettles
<1> QED
  BY <1>1, <1>2, <1>3, <1>4, <1>5, <1>6 DEF Next, Deliver

\* The safety part of the promise: a queued result stays pending until it is
\* settled, is settled as delivered only if the tournament has it, and is
\* pending again only when it is asked for again.
THEOREM DeliversSafely == Safe => Delivery!Safe
<1> QED
  BY DeliveryInit, DeliveryStep, TypeCorrect, Inductive, PTL DEF Safe, Delivery!Safe

-----------------------------------------------------------------------------
(***************************************************************************)
(* Line-ups                                                                *)
(***************************************************************************)
(* Facts about the operators.                                              *)

\* A set of positive numbers up to n has a greatest, which Max chooses.
LEMMA MaxIsGreatest ==
    ASSUME NEW n \in Nat, NEW I \in SUBSET (1 .. n), I # {}
    PROVE  Max(I) \in I /\ \A i \in I : Max(I) >= i
<1> DEFINE T == {n - i : i \in I}
<1>1. \A i \in I : i \in Nat /\ n - i \in Nat
  OBVIOUS
<1>2. T \subseteq Nat
  BY <1>1
<1>3. T # {}
  OBVIOUS
<1>4. PICK t \in T : \A y \in T : ~ (<<y, t>> \in OpToRel(<, Nat))
  BY <1>2, <1>3, NatLessThanWellFounded, WFMin
<1>5. \A y \in T : ~ (y < t)
  BY <1>2, <1>4 DEF OpToRel
<1>6. PICK i \in I : t = n - i
  OBVIOUS
<1>7. \A j \in I : ~ (n - j < n - i)
  BY <1>5, <1>6
<1>8. \A j \in I : i >= j
  <2> TAKE j \in I
  <2>1. i \in Nat /\ j \in Nat
    BY <1>1
  <2>2. ~ (n - j < n - i)
    BY <1>7
  <2> QED
    BY <2>1, <2>2
<1> QED
  BY <1>8 DEF Max

\* The channel's last result is the last row that is the channel's.
LEMMA LatestIsLast ==
    ASSUME NEW c \in Channels, rows \in Seq(Result)
    PROVE  /\ LatestId(c) \in 0 .. Len(rows)
           /\ LatestId(c) # 0 => rows[LatestId(c)].channel = c
           /\ \A i \in 1 .. Len(rows) : rows[i].channel = c => i <= LatestId(c)
<1> DEFINE I == {i \in 1 .. Len(rows) : rows[i].channel = c}
<1>1. LatestId(c) = IF I # {} THEN Max(I) ELSE 0
  BY DEF LatestId, SelectLastInSeq
<1>2. Len(rows) \in Nat
  OBVIOUS
<1>3. I \in SUBSET (1 .. Len(rows))
  OBVIOUS
<1>4. CASE I = {}
  BY <1>1, <1>2, <1>4
<1>5. CASE I # {}
  <2> HIDE DEF I
  <2>1. Max(I) \in I /\ \A i \in I : Max(I) >= i
    BY <1>2, <1>3, <1>5, MaxIsGreatest
  <2>2. Max(I) \in 1 .. Len(rows) /\ rows[Max(I)].channel = c
    BY <2>1 DEF I
  <2>3. \A i \in 1 .. Len(rows) : rows[i].channel = c => i <= Max(I)
    BY <2>1, <2>2 DEF I
  <2>4. LatestId(c) = Max(I)
    BY <1>1, <1>5
  <2> QED
    BY <1>2, <2>2, <2>3, <2>4
<1> QED
  BY <1>4, <1>5

\* The events reported from a channel are those of its rows.
LEMMA ReportedAreRows ==
    ASSUME NEW c, rows \in Seq(Result)
    PROVE  \A e : e \in Reported(c) <=>
               \E i \in 1 .. Len(rows) : rows[i].channel = c /\ rows[i].event = e
BY DEF Reported, Range

\* What the tournament has processed last in a channel is a result from there.
LEMMA LastProcessedIsProcessed ==
    ASSUME NEW c \in Channels, processed \in Seq(Result)
    PROVE  \/ LastProcessed(c) = None
           \/ \E i \in 1 .. Len(processed) :
                /\ processed[i].channel = c
                /\ processed[i].event = LastProcessed(c)
<1> DEFINE I == {i \in 1 .. Len(processed) : processed[i].channel = c}
           last == SelectLastInSeq(processed, LAMBDA r : r.channel = c)
<1>1. last = IF I # {} THEN Max(I) ELSE 0
  BY DEF SelectLastInSeq
<1>2. LastProcessed(c) = IF last = 0 THEN None ELSE processed[last].event
  BY DEF LastProcessed
<1>3. I \in SUBSET (1 .. Len(processed)) /\ Len(processed) \in Nat
  OBVIOUS
<1>4. CASE I = {}
  BY <1>1, <1>2, <1>4
<1>5. CASE I # {}
  <2> HIDE DEF I, last
  <2>1. Max(I) \in I
    BY <1>3, <1>5, MaxIsGreatest
  <2>2. last \in I
    BY <1>1, <1>5, <2>1
  <2>3. last \in 1 .. Len(processed) /\ processed[last].channel = c /\ last # 0
    BY <2>2, <1>3 DEF I
  <2> QED
    BY <1>2, <2>3
<1> QED
  BY <1>4, <1>5

-----------------------------------------------------------------------------
(* The invariant.                                                          *)

\* The tournament processes what the outbox has told it.
ProcessedWereQueued ==
    \A i \in 1 .. Len(processed) : \E j \in 1 .. Len(rows) : rows[j] = processed[i]

\* A line-up takes into account exactly the channel's results up to the id it is
\* stored after, and so the one it names.
BoundSoundly(c) ==
    LET b == bindings[c] IN
    b # None /\ b.lineup # None =>
        /\ b.lineup = sent[c]
        /\ b.after <= Len(rows)
        /\ b.lineup.covers \subseteq Reported(c)
        /\ b.lineup.last \in b.lineup.covers \cup {None}
        /\ \A i \in 1 .. Len(rows) :
             rows[i].channel = c => (rows[i].event \in b.lineup.covers <=> i <= b.after)

LineupsIInv ==
    /\ LineupsTypeOK
    /\ ProcessedWereQueued
    /\ \A c \in Channels : BoundSoundly(c)

-----------------------------------------------------------------------------
(* Types.                                                                  *)

\* Storing a line-up keeps the bindings' types.
LEMMA UpsertTypes ==
    ASSUME LineupsTypeOK, NEW c \in Channels, NEW lineup \in Lineup \cup {None}, Upsert(c, lineup)
    PROVE  /\ bindings' \in [Channels -> Binding \cup {None}]
           /\ bindings'[c] = [lineup |-> lineup, after |-> LineupAfter(c, lineup)]
           /\ \A d \in Channels \ {c} : bindings'[d] = bindings[d]
<1>1. LatestId(c) \in Nat
  BY LatestIsLast DEF LineupsTypeOK
<1>2. bindings[c] # None => bindings[c].after \in Nat
  BY DEF LineupsTypeOK, Binding
<1>3. LineupAfter(c, lineup) \in Nat
  BY <1>1, <1>2 DEF LineupAfter
<1>4. [lineup |-> lineup, after |-> LineupAfter(c, lineup)] \in Binding
  BY <1>3 DEF Binding
<1> QED
  BY <1>4 DEF LineupsTypeOK, Upsert

\* A line-up the tournament works out is one.
LEMMA NewLineupTypes ==
    ASSUME LineupsTypeOK, NEW c \in Channels, NextNumber(c) <= MaxLineups
    PROVE  [number |-> NextNumber(c), last |-> LastProcessed(c), covers |-> Reported(c)] \in Lineup
<1>1. NextNumber(c) \in 1 .. MaxLineups
  <2>1. sent[c] # None => sent[c].number \in Nat
    BY DEF LineupsTypeOK, Lineup
  <2> QED
    BY <2>1, LineupsAssumption DEF NextNumber
<1>2. LastProcessed(c) \in Events \cup {None}
  <2>1. \A i \in 1 .. Len(processed) : processed[i] \in Result
    BY DEF LineupsTypeOK
  <2>2. \A i \in 1 .. Len(processed) : processed[i].event \in Events
    BY <2>1 DEF Result
  <2> QED
    BY <2>2, LastProcessedIsProcessed DEF LineupsTypeOK
<1>3. Reported(c) \in SUBSET Events
  <2>1. \A i \in 1 .. Len(rows) : rows[i] \in Result
    BY DEF LineupsTypeOK
  <2>2. \A i \in 1 .. Len(rows) : rows[i].event \in Events
    BY <2>1 DEF Result
  <2> QED
    BY <2>2, ReportedAreRows DEF LineupsTypeOK
<1> QED
  BY <1>1, <1>2, <1>3 DEF Lineup

LEMMA LineupsTypeStep ==
    ASSUME LineupsTypeOK, [LineupsNext]_lineupsVars
    PROVE  LineupsTypeOK'
<1> USE DEF LineupsTypeOK
<1>1. ASSUME NEW c \in Channels, BindBare(c) PROVE LineupsTypeOK'
  BY <1>1, UpsertTypes DEF BindBare
<1>2. ASSUME NEW c \in Channels, BindNewLineup(c) PROVE LineupsTypeOK'
  BY <1>2, UpsertTypes, NewLineupTypes DEF BindNewLineup
<1>3. ASSUME NEW c \in Channels, BindAgain(c) PROVE LineupsTypeOK'
  BY <1>3, UpsertTypes DEF BindAgain
<1>4. ASSUME NEW c \in Channels, Unbind(c) PROVE LineupsTypeOK'
  BY <1>4 DEF Unbind
<1>5. ASSUME NEW c \in Channels, NEW e \in Events, GameFinished(c, e) PROVE LineupsTypeOK'
  BY <1>5 DEF GameFinished, Result
<1>6. ASSUME NEW r \in Result, QueueResult(r) PROVE LineupsTypeOK'
  <2>1. rows' \in Seq(Result)
    BY <1>6, AppendProperties DEF QueueResult
  <2> QED
    BY <1>6, <2>1 DEF QueueResult
<1>7. ASSUME NEW r \in Result, Process(r) PROVE LineupsTypeOK'
  <2>1. processed' \in Seq(Result)
    BY <1>7, AppendProperties DEF Process
  <2> QED
    BY <1>7, <2>1 DEF Process
<1>8. CASE CallsLost
  BY <1>8 DEF CallsLost
<1>9. CASE UNCHANGED lineupsVars
  BY <1>9 DEF lineupsVars
<1> QED
  BY <1>1, <1>2, <1>3, <1>4, <1>5, <1>6, <1>7, <1>8, <1>9 DEF LineupsNext

-----------------------------------------------------------------------------
(* Line-ups.                                                               *)

\* A binding that stays as it is stays sound while no result is queued.
LEMMA StaysSound ==
    ASSUME NEW c \in Channels, BoundSoundly(c), rows' = rows,
           bindings'[c] = bindings[c], sent'[c] = sent[c]
    PROVE  BoundSoundly(c)'
BY DEF BoundSoundly, Reported

\* A result that is queued comes after every result a line-up knew of.
LEMMA QueuedSound ==
    ASSUME LineupsIInv, NEW c \in Channels, NEW r \in Result, QueueResult(r)
    PROVE  BoundSoundly(c)'
<1>1. CASE \E x \in Range(rows) : x.event = r.event
  BY <1>1, StaysSound DEF LineupsIInv, QueueResult
<1>2. CASE ~ \E x \in Range(rows) : x.event = r.event
  <2>1. rows \in Seq(Result) /\ rows' = Append(rows, r)
    BY <1>2 DEF QueueResult, LineupsIInv, LineupsTypeOK
  <2>2. /\ rows' \in Seq(Result)
        /\ Len(rows') = Len(rows) + 1
        /\ \A i \in 1 .. Len(rows) : rows'[i] = rows[i]
        /\ rows'[Len(rows) + 1] = r
    BY <2>1, AppendProperties
  <2>3. bindings' = bindings /\ sent' = sent
    BY DEF QueueResult
  <2> SUFFICES ASSUME bindings[c] # None, bindings[c].lineup # None
               PROVE  LET b == bindings[c] IN
                      /\ b.lineup = sent[c]
                      /\ b.after <= Len(rows')
                      /\ b.lineup.covers \subseteq Reported(c)'
                      /\ b.lineup.last \in b.lineup.covers \cup {None}
                      /\ \A i \in 1 .. Len(rows') : rows'[i].channel = c =>
                           (rows'[i].event \in b.lineup.covers <=> i <= b.after)
    BY <2>3 DEF BoundSoundly
  <2>4. /\ bindings[c].lineup = sent[c]
        /\ bindings[c].after <= Len(rows)
        /\ bindings[c].lineup.covers \subseteq Reported(c)
        /\ bindings[c].lineup.last \in bindings[c].lineup.covers \cup {None}
        /\ \A i \in 1 .. Len(rows) : rows[i].channel = c =>
             (rows[i].event \in bindings[c].lineup.covers <=> i <= bindings[c].after)
    BY DEF LineupsIInv, BoundSoundly
  <2>5. bindings[c].after \in Nat /\ Len(rows) \in Nat
    BY <2>1 DEF LineupsIInv, LineupsTypeOK, Binding
  <2>6. Reported(c) \subseteq Reported(c)'
    <3>1. \A e : e \in Reported(c)' <=>
            \E i \in 1 .. Len(rows') : rows'[i].channel = c /\ rows'[i].event = e
      BY <2>2 DEF Reported, Range
    <3>2. 1 .. Len(rows) \subseteq 1 .. Len(rows')
      BY <2>2, <2>5
    <3> QED
      BY <2>1, <2>2, <3>1, <3>2, ReportedAreRows
  <2>7. r.event \notin Reported(c)
    BY <1>2 DEF Reported
  <2>8. ASSUME NEW i \in 1 .. Len(rows'), rows'[i].channel = c
        PROVE  rows'[i].event \in bindings[c].lineup.covers <=> i <= bindings[c].after
    <3>1. CASE i \in 1 .. Len(rows)
      BY <2>2, <2>4, <2>8, <3>1
    <3>2. CASE i = Len(rows) + 1
      <4>1. ~ (i <= bindings[c].after)
        BY <2>4, <2>5, <3>2
      <4>2. rows'[i].event \notin bindings[c].lineup.covers
        BY <2>2, <2>4, <2>7, <3>2
      <4> QED
        BY <4>1, <4>2
    <3> QED
      BY <2>2, <2>5, <3>1, <3>2
  <2> QED
    BY <2>2, <2>4, <2>5, <2>6, <2>8
<1> QED
  BY <1>1, <1>2

\* A line-up that was worked out with every result dealt with is stored soundly.
LEMMA BoundNewSound ==
    ASSUME LineupsIInv, NEW c \in Channels, BindNewLineup(c)
    PROVE  BoundSoundly(c)'
<1> DEFINE lineup == [number |-> NextNumber(c), last |-> LastProcessed(c), covers |-> Reported(c)]
           b == [lineup |-> lineup, after |-> LineupAfter(c, lineup)]
<1>1. rows \in Seq(Result) /\ processed \in Seq(Result) /\ LineupsTypeOK
  BY DEF LineupsIInv, LineupsTypeOK
<1>2. lineup \in Lineup /\ Upsert(c, lineup) /\ sent' = [sent EXCEPT ![c] = lineup] /\ rows' = rows
  BY <1>1, NewLineupTypes DEF BindNewLineup
<1>3. bindings'[c] = b /\ sent'[c] = lineup
  BY <1>1, <1>2, UpsertTypes DEF LineupsTypeOK
<1>4. lineup.covers = Reported(c) /\ lineup.last = LastProcessed(c) /\ b.lineup = lineup
  OBVIOUS
<1>5. LastProcessed(c) \in Reported(c) \cup {None}
  BY <1>1, LastProcessedIsProcessed, ReportedAreRows DEF LineupsIInv, ProcessedWereQueued
<1>6. lineup # None =>
        /\ b.after <= Len(rows)
        /\ \A i \in 1 .. Len(rows) :
             rows[i].channel = c => (rows[i].event \in Reported(c) <=> i <= b.after)
  <2> HIDE DEF lineup
  <2>1. CASE bindings[c] # None /\ bindings[c].lineup = lineup
    <3>1. b.after = bindings[c].after
      BY <2>1 DEF LineupAfter
    <3> QED
      BY <2>1, <3>1, <1>4 DEF LineupsIInv, BoundSoundly
  <2>2. CASE ~ (bindings[c] # None /\ bindings[c].lineup = lineup)
    <3>1. b.after = LatestId(c)
      BY <2>2 DEF LineupAfter
    <3>2. Len(rows) \in Nat
      BY <1>1
    <3> QED
      BY <1>1, <3>1, <3>2, LatestIsLast, ReportedAreRows
  <2> QED
    BY <2>1, <2>2
<1>7. Reported(c)' = Reported(c)
  BY <1>2 DEF Reported
<1> HIDE DEF lineup, b
<1> QED
  BY <1>2, <1>3, <1>4, <1>5, <1>6, <1>7 DEF BoundSoundly

\* Sending the line-up again changes nothing.
LEMMA BoundAgainSound ==
    ASSUME LineupsIInv, NEW c \in Channels, BindAgain(c)
    PROVE  BoundSoundly(c)'
<1>1. bindings[c] # None /\ bindings[c].lineup # None /\ bindings[c].lineup = sent[c]
  BY DEF LineupsIInv, BindAgain, BoundSoundly
<1>2. LineupsTypeOK /\ sent[c] \in Lineup \cup {None} /\ Upsert(c, sent[c]) /\ rows' = rows /\ sent' = sent
  BY DEF LineupsIInv, LineupsTypeOK, BindAgain
<1>3. bindings'[c] = [lineup |-> sent[c], after |-> bindings[c].after]
  BY <1>1, <1>2, UpsertTypes DEF LineupAfter
<1>4. bindings'[c] = bindings[c]
  BY <1>1, <1>2, <1>3 DEF LineupsTypeOK, Binding
<1> QED
  BY <1>2, <1>4, StaysSound DEF LineupsIInv

-----------------------------------------------------------------------------
(* Every step keeps the invariant.                                         *)

\* What is processed was queued before, and rows are never taken back.
LEMMA ProcessedStep ==
    ASSUME LineupsTypeOK, ProcessedWereQueued, [LineupsNext]_lineupsVars
    PROVE  ProcessedWereQueued'
<1> USE DEF ProcessedWereQueued
<1>1. CASE UNCHANGED <<rows, processed>>
  BY <1>1
<1>2. ASSUME NEW r \in Result, QueueResult(r) PROVE ProcessedWereQueued'
  <2>1. CASE rows' = rows
    BY <1>2, <2>1 DEF QueueResult
  <2>2. CASE rows' = Append(rows, r)
    <3>1. Len(rows') = Len(rows) + 1 /\ \A i \in 1 .. Len(rows) : rows'[i] = rows[i]
      BY <2>2, AppendProperties DEF LineupsTypeOK
    <3>2. 1 .. Len(rows) \subseteq 1 .. Len(rows') /\ processed' = processed
      BY <1>2, <3>1 DEF LineupsTypeOK, QueueResult
    <3> QED
      BY <3>1, <3>2
  <2> QED
    BY <1>2, <2>1, <2>2 DEF QueueResult
<1>3. ASSUME NEW r \in Result, Process(r) PROVE ProcessedWereQueued'
  <2>1. /\ Len(processed') = Len(processed) + 1
        /\ \A i \in 1 .. Len(processed) : processed'[i] = processed[i]
        /\ processed'[Len(processed) + 1] = r
        /\ Len(processed) \in Nat
    BY <1>3, AppendProperties DEF Process, LineupsTypeOK
  <2>2. (\E j \in 1 .. Len(rows) : rows[j] = r) /\ rows' = rows
    BY <1>3 DEF Process, Range, LineupsTypeOK
  <2>3. ASSUME NEW i \in 1 .. Len(processed')
        PROVE  \E j \in 1 .. Len(rows) : rows[j] = processed'[i]
    <3>1. CASE i \in 1 .. Len(processed)
      BY <2>1, <3>1
    <3>2. CASE i = Len(processed) + 1
      BY <2>1, <2>2, <3>2
    <3> QED
      BY <2>1, <3>1, <3>2
  <2> QED
    BY <2>2, <2>3
<1> QED
  BY <1>1, <1>2, <1>3
  DEF LineupsNext, lineupsVars, BindBare, BindNewLineup, BindAgain, Unbind, GameFinished, CallsLost

LEMMA BoundStep ==
    ASSUME LineupsIInv, [LineupsNext]_lineupsVars, NEW c \in Channels
    PROVE  BoundSoundly(c)'
<1>0. LineupsTypeOK /\ BoundSoundly(c)
  BY DEF LineupsIInv
<1>1. ASSUME NEW d \in Channels, BindBare(d) PROVE BoundSoundly(c)'
  <2>1. Upsert(d, None) /\ rows' = rows /\ sent' = sent
    BY <1>1 DEF BindBare
  <2>2. CASE d = c
    <3>1. bindings'[c] = [lineup |-> None, after |-> LineupAfter(c, None)]
      BY <1>0, <2>1, <2>2, UpsertTypes
    <3>2. bindings'[c].lineup = None
      BY <3>1
    <3> QED
      BY <3>2 DEF BoundSoundly
  <2>3. CASE d # c
    BY <1>0, <2>1, <2>3, UpsertTypes, StaysSound
  <2> QED
    BY <2>2, <2>3
<1>2. ASSUME NEW d \in Channels, BindNewLineup(d) PROVE BoundSoundly(c)'
  <2>1. CASE d = c
    BY <1>2, <2>1, BoundNewSound
  <2>2. CASE d # c
    BY <1>0, <1>2, <2>2, UpsertTypes, NewLineupTypes, StaysSound DEF BindNewLineup, LineupsTypeOK
  <2> QED
    BY <2>1, <2>2
<1>3. ASSUME NEW d \in Channels, BindAgain(d) PROVE BoundSoundly(c)'
  <2>1. CASE d = c
    BY <1>3, <2>1, BoundAgainSound
  <2>2. CASE d # c
    BY <1>0, <1>3, <2>2, UpsertTypes, StaysSound DEF BindAgain, LineupsTypeOK
  <2> QED
    BY <2>1, <2>2
<1>4. ASSUME NEW d \in Channels, Unbind(d) PROVE BoundSoundly(c)'
  <2>1. CASE d = c
    BY <1>0, <1>4, <2>1 DEF Unbind, BoundSoundly, LineupsTypeOK
  <2>2. CASE d # c
    BY <1>0, <1>4, <2>2, StaysSound DEF Unbind, LineupsTypeOK
  <2> QED
    BY <2>1, <2>2
<1>5. ASSUME NEW r \in Result, QueueResult(r) PROVE BoundSoundly(c)'
  BY <1>5, QueuedSound
<1>6. CASE UNCHANGED <<bindings, rows, sent>>
  BY <1>0, <1>6, StaysSound
<1> QED
  BY <1>1, <1>2, <1>3, <1>4, <1>5, <1>6 DEF LineupsNext, lineupsVars, GameFinished, Process, CallsLost

LEMMA LineupsStart == LineupsInit => LineupsIInv
<1> SUFFICES ASSUME LineupsInit PROVE LineupsIInv
  OBVIOUS
<1>1. LineupsTypeOK
  BY EmptySeq DEF LineupsInit, LineupsTypeOK
<1>2. ProcessedWereQueued
  BY DEF LineupsInit, ProcessedWereQueued
<1>3. \A c \in Channels : BoundSoundly(c)
  BY DEF LineupsInit, BoundSoundly
<1> QED
  BY <1>1, <1>2, <1>3 DEF LineupsIInv

LEMMA LineupsStep == LineupsIInv /\ [LineupsNext]_lineupsVars => LineupsIInv'
BY LineupsTypeStep, ProcessedStep, BoundStep DEF LineupsIInv

LEMMA LineupsInvariant == LineupsSpec => []LineupsIInv
BY LineupsStart, LineupsStep, PTL DEF LineupsSpec

-----------------------------------------------------------------------------
(* Bindings, the outbox and line-ups have their types.                     *)
THEOREM LineupsTypeCorrect == LineupsSpec => []LineupsTypeOK
<1>1. LineupsIInv => LineupsTypeOK
  BY DEF LineupsIInv
<1> QED
  BY <1>1, LineupsInvariant, PTL

\* A sound line-up that is taken for current knows of every result.
LEMMA CurrentIsFresh == LineupsIInv => StaleLineupNeverShown
<1> SUFFICES ASSUME LineupsIInv, NEW c \in Channels, LineupIsCurrent(c), NEW e \in Reported(c)
             PROVE  e \in bindings[c].lineup.covers
  BY DEF StaleLineupNeverShown
<1> DEFINE b == bindings[c]
           latest == LatestId(c)
<1>1. LineupsTypeOK /\ rows \in Seq(Result) /\ Len(rows) \in Nat
  BY DEF LineupsIInv, LineupsTypeOK
<1>2. b # None /\ b.lineup # None /\ b.after \in Nat
  BY <1>1 DEF LineupIsCurrent, LineupsTypeOK, Binding
<1>3. /\ b.lineup.last \in b.lineup.covers \cup {None}
      /\ \A i \in 1 .. Len(rows) :
           rows[i].channel = c => (rows[i].event \in b.lineup.covers <=> i <= b.after)
  BY <1>2 DEF LineupsIInv, BoundSoundly
<1>4. PICK i \in 1 .. Len(rows) : rows[i].channel = c /\ rows[i].event = e
  BY <1>1, ReportedAreRows
<1>5. latest \in 1 .. Len(rows) /\ rows[latest].channel = c /\ i <= latest
  BY <1>1, <1>4, LatestIsLast
<1>6. b.lineup.last = rows[latest].event \/ b.after >= latest
  BY <1>5 DEF LineupIsCurrent
<1>7. latest <= b.after
  <2>1. CASE b.lineup.last = rows[latest].event
    <3>1. rows[latest] \in Result
      BY <1>1, <1>5
    <3>2. rows[latest].event # None
      BY <3>1, LineupsAssumption DEF Result
    <3> QED
      BY <1>3, <1>5, <2>1, <3>2
  <2>2. CASE b.after >= latest
    BY <1>2, <1>5, <2>2
  <2> QED
    BY <1>6, <2>1, <2>2
<1>8. i <= b.after
  <2> HIDE DEF b, latest
  <2> QED
    BY <1>2, <1>4, <1>5, <1>7
<1> QED
  BY <1>3, <1>4, <1>8

\* The line-up that knows of every result is taken for current.
LEMMA FreshIsCurrent == LineupsIInv => FreshLineupShown
<1> SUFFICES ASSUME LineupsIInv, NEW c \in Channels,
                    bindings[c] # None, bindings[c].lineup # None,
                    Reported(c) \subseteq bindings[c].lineup.covers
             PROVE  LineupIsCurrent(c)
  BY DEF FreshLineupShown
<1>1. rows \in Seq(Result) /\ Len(rows) \in Nat /\ bindings[c].after \in Nat
  BY DEF LineupsIInv, LineupsTypeOK, Binding
<1>2. \A i \in 1 .. Len(rows) : rows[i].channel = c =>
        (rows[i].event \in bindings[c].lineup.covers <=> i <= bindings[c].after)
  BY DEF LineupsIInv, BoundSoundly
<1>3. CASE LatestId(c) = 0
  BY <1>3 DEF LineupIsCurrent
<1>4. CASE LatestId(c) # 0
  <2>1. LatestId(c) \in 1 .. Len(rows) /\ rows[LatestId(c)].channel = c
    BY <1>1, <1>4, LatestIsLast
  <2>2. rows[LatestId(c)].event \in Reported(c)
    BY <1>1, <2>1, ReportedAreRows
  <2>3. LatestId(c) <= bindings[c].after
    BY <1>2, <2>1, <2>2
  <2>4. bindings[c].after >= LatestId(c)
    BY <1>1, <2>1, <2>3
  <2> QED
    BY <2>4 DEF LineupIsCurrent
<1> QED
  BY <1>3, <1>4

(* A line-up older than a report is never shown, though it may be sent again
   after it: codenames_lineup_is_current, with the id that
   upsert_codenames_binding keeps.                                         *)
THEOREM StaleNeverShown == LineupsSpec => []StaleLineupNeverShown
BY LineupsInvariant, CurrentIsFresh, PTL

(* And the channel's next line-up is not held back by the same rule.       *)
THEOREM AlwaysFresh == LineupsSpec => []FreshLineupShown
BY LineupsInvariant, FreshIsCurrent, PTL
=============================================================================

-------------------------- MODULE TableWatchProofs --------------------------
(***************************************************************************)
(* Theorems about TableWatch, for any number of workers, subscriptions,    *)
(* links and faults.                                                       *)
(***************************************************************************)
EXTENDS TableWatch, FiniteSetTheorems, TLAPS

-----------------------------------------------------------------------------
(* Types, in the parts that steps touch together.                          *)
Message == [id : Nat \ {0}, kind : Kinds]
Card == [msg : Nat, kind : Kinds]
WorkerPcs == {"idle", "read", "fetch", "upsert", "reread", "invite", "invited", "stream",
              "apply", "turn", "store", "remove", "forget", "gone", "late upsert", "late remove"}
WorkerRec == [pc : WorkerPcs, sub : Row, phase : Lives, from : Sources]
CallPcs == {"idle", "lock", "check", "fetch", "untrack", "edit", "lost", "send", "save"}
CallRec == [pc : CallPcs, sub : Row, life : Lives, msg : Nat]
LinkPcs == {"idle", "exists", "probe", "upsert", "state", "reload", "lock", "adopt", "save",
            "replace", "drop", "redraw", "drawing", "reset", "untrack", "sync"}
LinkRec == [pc : LinkPcs, sub : Row, phase : Lives, note : Nat, old : Nat, known : BOOLEAN]
SyncRec == [pc : {"idle", "orphans"}, todo : SUBSET Rows, watched : BOOLEAN]

\* Whoever goes on with a subscription holds one that was in the database.
Numbered(sub) == sub.id \in Rows
TaskHolds(t) == t.pc \in {"fetch", "invite", "turn", "store", "remove", "forget"} => Numbered(t.sub)
CallHolds(c) == c.pc # "idle" => Numbered(c.sub)
LinkHolds(t) ==
    t.pc \in {"state", "reload", "lock", "adopt", "save", "replace", "drop", "redraw", "reset", "untrack"} => Numbered(t.sub)

DataTypes ==
    /\ bga \in Lives
    /\ row \in Row /\ lastRow \in 0 .. MaxRows
    /\ row.id = 0 => row = NoRow

DiscordTypes ==
    /\ messages \in SUBSET Message
    /\ lastMsg \in Nat
    /\ \A m \in messages : m.id <= lastMsg

MemoryTypes ==
    /\ active \in [Rows -> Card]
    /\ mlock \in [Rows -> Callers \cup {"none"}]

WorkerTypes ==
    /\ worker \in [Workers -> WorkerRec]
    /\ \A w \in Workers : TaskHolds(worker[w])

CallTypes ==
    /\ call \in [Callers -> CallRec]
    /\ \A a \in Callers : CallHolds(call[a])

LinkTypes == link \in LinkRec /\ LinkHolds(link)

TaskTypes ==
    /\ registered \in Workers \cup {"none"}
    /\ sync \in [Syncs -> SyncRec]

BoundTypes ==
    /\ links \in 0 .. MaxLinks /\ events \in 0 .. MaxEvents
    /\ disturbed \in BOOLEAN

Types ==
    /\ DataTypes
    /\ DiscordTypes
    /\ MemoryTypes
    /\ WorkerTypes
    /\ CallTypes
    /\ LinkTypes
    /\ TaskTypes
    /\ BoundTypes

LEMMA TypesImply == Types => TypeOK
BY DEF Types, DataTypes, DiscordTypes, MemoryTypes, WorkerTypes, CallTypes, LinkTypes, TaskTypes, BoundTypes, TypeOK,
       Message, Card, WorkerPcs, WorkerRec, CallPcs, CallRec, LinkPcs, LinkRec, SyncRec

\* What a step leaves alone keeps its type.
LEMMA Unmoved ==
    ASSUME Types
    PROVE  /\ UNCHANGED <<bga, row, lastRow>> => DataTypes'
           /\ UNCHANGED <<messages, lastMsg>> => DiscordTypes'
           /\ UNCHANGED <<active, mlock>> => MemoryTypes'
           /\ UNCHANGED worker => WorkerTypes'
           /\ UNCHANGED call => CallTypes'
           /\ UNCHANGED link => LinkTypes'
           /\ UNCHANGED <<registered, sync>> => TaskTypes'
           /\ UNCHANGED <<links, events, disturbed>> => BoundTypes'
<1>1. UNCHANGED <<bga, row, lastRow>> => DataTypes'
  BY DEF Types, DataTypes
<1>2. UNCHANGED <<messages, lastMsg>> => DiscordTypes'
  BY DEF Types, DiscordTypes
<1>3. UNCHANGED <<active, mlock>> => MemoryTypes'
  BY DEF Types, MemoryTypes
<1>4. UNCHANGED worker => WorkerTypes'
  BY DEF Types, WorkerTypes
<1>5. UNCHANGED call => CallTypes'
  BY DEF Types, CallTypes
<1>6. UNCHANGED link => LinkTypes'
  BY DEF Types, LinkTypes
<1>7. UNCHANGED <<registered, sync>> => TaskTypes'
  BY DEF Types, TaskTypes
<1>8. UNCHANGED <<links, events, disturbed>> => BoundTypes'
  BY DEF Types, BoundTypes
<1> QED
  BY <1>1, <1>2, <1>3, <1>4, <1>5, <1>6, <1>7, <1>8

-----------------------------------------------------------------------------
(* Facts about the operators.                                              *)
LEMMA Blank ==
    /\ MaxRows \in Nat /\ 1 \in Rows /\ 0 \notin Rows /\ Rows \subseteq 0 .. MaxRows
    /\ "link" \in Callers /\ Workers \subseteq Callers /\ "link" \notin Workers /\ "none" \notin Workers
    /\ NoRow \in Row /\ NoRow.id = 0
    /\ NoCard \in Card
    /\ NoWorker \in WorkerRec /\ NoWorker.pc = "idle" /\ NoWorker.phase = "recruiting" /\ TaskHolds(NoWorker)
    /\ NoCall \in CallRec /\ NoCall.pc = "idle" /\ CallHolds(NoCall)
    /\ NoLink \in LinkRec /\ NoLink.pc = "idle" /\ LinkHolds(NoLink) /\ NoLink.known = FALSE
    /\ NoSync \in SyncRec
    /\ "fetch" \in Sources /\ "state" \in Sources /\ "gone" \in Sources
BY WatchAssumption DEF Sources, Rows, Callers, NoRow, NoCard, NoWorker, NoCall, NoLink, NoSync, Row, Card, Kinds, Lives,
   WorkerRec, WorkerPcs, CallRec, CallPcs, LinkRec, LinkPcs, SyncRec, TaskHolds, CallHolds, LinkHolds

\* The phase of a page, and of a stored subscription.
LEMMA PageTypes == \A phase : Page(phase) \in {"recruiting", "playing"}
BY DEF Page

LEMMA UpsertTypes ==
    ASSUME DataTypes, NEW phase, Upsert(phase), UNCHANGED bga
    PROVE  DataTypes' /\ Numbered(row')
<1>1. CASE row = NoRow
  <2>1. lastRow + 1 \in Rows
    BY <1>1, Blank DEF Upsert, DataTypes, Rows
  <2>2. row' = [NoRow EXCEPT !.id = lastRow + 1, !.page = Page(phase)] /\ lastRow' = lastRow + 1
    BY <1>1 DEF Upsert
  <2>3. row' \in Row /\ row'.id = lastRow + 1
    BY <2>1, <2>2, Blank, PageTypes DEF Row
  <2>4. lastRow' \in 0 .. MaxRows /\ row'.id # 0
    BY <2>1, <2>2, <2>3, Blank
  <2> QED
    BY <2>1, <2>3, <2>4 DEF DataTypes, Numbered
<1>2. CASE row # NoRow
  BY <1>2, Blank, PageTypes DEF Upsert, DataTypes, Row, Rows, Numbered
<1> QED
  BY <1>1, <1>2

LEMMA TrackTypes ==
    ASSUME DataTypes, NEW id \in Rows, NEW life \in Lives, NEW msg \in Nat, Track(id, life, msg), UNCHANGED bga
    PROVE  DataTypes'
BY Blank DEF DataTypes, Track, Row

LEMMA RemoveTypes ==
    ASSUME DataTypes, Remove, UNCHANGED bga
    PROVE  DataTypes'
BY Blank DEF DataTypes, Remove

\* A subscription in the database.
LEMMA RowNumbered ==
    ASSUME DataTypes
    PROVE  row # NoRow => Numbered(row)
BY Blank DEF DataTypes, Row, Rows, Numbered

LEMMA FaultTypes ==
    ASSUME BoundTypes, UNCHANGED events \/ \E kind : Fault(kind)
    PROVE  events' \in 0 .. MaxEvents
BY WatchAssumption DEF BoundTypes, Fault

LEMMA MessagesTyped ==
    ASSUME DiscordTypes, NEW id \in 1 .. lastMsg + 1, NEW kind \in Kinds
    PROVE  /\ Showing(id, kind) \in SUBSET Message
           /\ \A m \in Showing(id, kind) : m.id <= lastMsg \/ m.id = id
           /\ Without(id) \subseteq messages
BY DEF DiscordTypes, Showing, Without, Message

\* A message that is there has a number.
LEMMA ExistsNumbered ==
    ASSUME DiscordTypes, NEW id, Exists(id)
    PROVE  id \in 1 .. lastMsg
BY DEF DiscordTypes, Exists, Message

LEMMA UnlockTypes ==
    ASSUME MemoryTypes, NEW a
    PROVE  Unlocked(a) \in [Rows -> Callers \cup {"none"}]
BY DEF MemoryTypes, Unlocked

LEMMA CallChanges ==
    ASSUME CallTypes, NEW a \in Callers, NEW c \in CallRec, CallHolds(c), call' = [call EXCEPT ![a] = c]
    PROVE  CallTypes'
BY DEF CallTypes

LEMMA CallGoesTypes ==
    ASSUME CallTypes, NEW a \in Callers, call[a].pc # "idle", NEW pc \in CallPcs, CallGoes(a, pc)
    PROVE  CallTypes'
<1>1. [call[a] EXCEPT !.pc = pc] \in CallRec /\ CallHolds([call[a] EXCEPT !.pc = pc])
  BY DEF CallTypes, CallRec, CallHolds, Numbered
<1> QED
  BY <1>1, CallChanges DEF CallTypes, CallGoes

LEMMA PublishTypes ==
    ASSUME CallTypes, NEW a \in Callers, NEW sub \in Row, Numbered(sub), NEW life \in Lives, Publish(a, sub, life)
    PROVE  CallTypes'
<1>1. [pc |-> "lock", sub |-> sub, life |-> life, msg |-> 0] \in CallRec
      /\ CallHolds([pc |-> "lock", sub |-> sub, life |-> life, msg |-> 0])
  BY DEF CallRec, CallPcs, CallHolds
<1> QED
  BY <1>1, CallChanges DEF Publish

LEMMA ReturnTypes ==
    ASSUME CallTypes, NEW a \in Callers, CallReturns(a)
    PROVE  CallTypes'
BY Blank, CallChanges DEF CallReturns
LEMMA CallStepTypes ==
    ASSUME Types, NEW a \in Callers, CallStep(a)
    PROVE  Types'
<1> USE Blank DEF database, memory, tasks, discord, bounds
<1>0. DataTypes /\ DiscordTypes /\ MemoryTypes /\ CallTypes /\ BoundTypes
  BY DEF Types
<1>1. /\ call[a] \in CallRec /\ call[a].sub \in Row /\ call[a].life \in Lives /\ call[a].msg \in Nat
      /\ call[a].pc # "idle" /\ call[a].sub.id \in Rows /\ call[a].sub.msg \in Nat
      /\ call[a].sub.life \in Lives
      /\ active[call[a].sub.id] \in Card /\ active[call[a].sub.id].msg \in Nat
  <2>1. call[a] \in CallRec /\ call[a].pc # "idle"
    BY <1>0 DEF CallTypes, CallStep, CallChecks, CallFetches, CallUntracks, CallEdits, CallSends, CallSaves
  <2>2. call[a].sub.id \in Rows /\ call[a].sub \in Row
    BY <1>0, <2>1 DEF CallTypes, CallHolds, Numbered, CallRec
  <2>3. active[call[a].sub.id] \in Card
    BY <1>0, <2>2 DEF MemoryTypes
  <2> QED
    BY <2>1, <2>2, <2>3 DEF CallRec, Row, Card
<1>2. CASE CallChecks(a)
  <2>1. events' \in 0 .. MaxEvents
    BY <1>0, <1>2, FaultTypes DEF CallChecks
  <2>2. MemoryTypes'
    BY <1>0, <1>1, <1>2, UnlockTypes DEF CallChecks, CallReturns, MemoryTypes
  <2>3. CallTypes'
    <3>1. CASE CallReturns(a)
      BY <1>0, <3>1, ReturnTypes
    <3>2. ASSUME NEW pc \in {"edit", "fetch", "send"}, NEW msg \in Nat,
                 call' = [call EXCEPT ![a].pc = pc, ![a].msg = msg]
          PROVE  CallTypes'
      <4> DEFINE c == [call[a] EXCEPT !.pc = pc, !.msg = msg]
      <4>1. c \in CallRec /\ CallHolds(c)
        BY <1>1, <3>2 DEF CallRec, CallPcs, CallHolds, Numbered
      <4>2. call' = [call EXCEPT ![a] = c]
        BY <1>0, <3>2 DEF CallTypes
      <4> QED
        BY <1>0, <4>1, <4>2, CallChanges
    <3> QED
      BY <1>1, <1>2, <3>1, <3>2 DEF CallChecks
  <2>4. BoundTypes'
    BY <1>0, <1>2, <2>1 DEF CallChecks, BoundTypes
  <2> QED
    BY <1>2, <2>2, <2>3, <2>4, Unmoved DEF CallChecks, Types
<1>3. CASE CallFetches(a)
  <2>1. events' \in 0 .. MaxEvents
    BY <1>0, <1>3, FaultTypes DEF CallFetches
  <2>2. MemoryTypes'
    <3>1. [msg |-> call[a].sub.msg, kind |-> "note"] \in Card
      BY <1>1 DEF Card, Kinds
    <3> QED
      BY <1>0, <1>1, <1>3, <3>1 DEF CallFetches, MemoryTypes
  <2>3. CallTypes'
    <3>1. ASSUME NEW pc \in {"untrack", "send"}, CallGoes(a, pc)
          PROVE  CallTypes'
      BY <1>0, <1>1, <3>1, CallGoesTypes DEF CallPcs
    <3>2. CASE call' = [call EXCEPT ![a].pc = "edit", ![a].msg = call[a].sub.msg]
      <4> DEFINE c == [call[a] EXCEPT !.pc = "edit", !.msg = call[a].sub.msg]
      <4>1. c \in CallRec /\ CallHolds(c)
        BY <1>1, <3>2 DEF CallRec, CallPcs, CallHolds, Numbered
      <4>2. call' = [call EXCEPT ![a] = c]
        BY <1>0, <3>2 DEF CallTypes
      <4> QED
        BY <1>0, <4>1, <4>2, CallChanges
    <3> QED
      BY <1>3, <3>1, <3>2 DEF CallFetches
  <2>4. BoundTypes'
    BY <1>0, <1>3, <2>1 DEF CallFetches, BoundTypes
  <2> QED
    BY <1>3, <2>2, <2>3, <2>4, Unmoved DEF CallFetches, Types
<1>4. CASE CallUntracks(a)
  <2>1. DataTypes'
    BY <1>0, <1>1, <1>4, 0 \in Nat, TrackTypes DEF CallUntracks
  <2>2. MemoryTypes'
    BY <1>0, <1>1, <1>4 DEF CallUntracks, MemoryTypes
  <2>3. CallTypes'
    BY <1>0, <1>1, <1>4, CallGoesTypes DEF CallUntracks, CallPcs
  <2> QED
    BY <1>4, <2>1, <2>2, <2>3, Unmoved DEF CallUntracks, Types
<1>5. CASE CallEdits(a)
  <2>1. events' \in 0 .. MaxEvents
    BY <1>0, <1>5, FaultTypes DEF CallEdits
  <2>2. MemoryTypes'
    <3>1. [msg |-> call[a].msg, kind |-> call[a].life] \in Card
      BY <1>1 DEF Card, Kinds
    <3> QED
      BY <1>0, <1>1, <1>5, <3>1, UnlockTypes DEF CallEdits, CallReturns, MemoryTypes
  <2>3. CallTypes'
    BY <1>0, <1>1, <1>5, CallGoesTypes, ReturnTypes DEF CallEdits, CallPcs
  <2>4. DiscordTypes'
    <3>1. CASE Exists(call[a].msg) /\ messages' = Showing(call[a].msg, call[a].life) /\ UNCHANGED lastMsg
      <4>1. call[a].msg \in 1 .. lastMsg /\ lastMsg \in Nat /\ call[a].life \in Kinds
        BY <1>0, <1>1, <3>1, ExistsNumbered DEF Kinds, DiscordTypes
      <4> QED
        BY <1>0, <3>1, <4>1, MessagesTyped DEF DiscordTypes
    <3>2. CASE UNCHANGED <<messages, lastMsg>>
      BY <3>2, Unmoved
    <3> QED
      BY <1>5, <3>1, <3>2 DEF CallEdits
  <2>5. BoundTypes'
    BY <1>0, <1>5, <2>1 DEF CallEdits, BoundTypes
  <2> QED
    BY <1>5, <2>2, <2>3, <2>4, <2>5, Unmoved DEF CallEdits, Types
<1>6. CASE CallSends(a)
  <2>1. events' \in 0 .. MaxEvents
    BY <1>0, <1>6, FaultTypes DEF CallSends
  <2>2. MemoryTypes'
    <3>1. [msg |-> lastMsg + 1, kind |-> call[a].life] \in Card
      BY <1>0, <1>1 DEF Card, Kinds, DiscordTypes
    <3> QED
      BY <1>0, <1>1, <1>6, <3>1, UnlockTypes DEF CallSends, CallReturns, MemoryTypes
  <2>3. CallTypes'
    <3>1. CASE CallReturns(a)
      BY <1>0, <3>1, ReturnTypes
    <3>2. CASE call' = [call EXCEPT ![a].pc = "save", ![a].msg = lastMsg + 1]
      <4> DEFINE c == [call[a] EXCEPT !.pc = "save", !.msg = lastMsg + 1]
      <4>0. lastMsg + 1 \in Nat
        BY <1>0 DEF DiscordTypes
      <4>1. c \in CallRec /\ CallHolds(c)
        BY <1>1, <4>0 DEF CallRec, CallPcs, CallHolds, Numbered
      <4>2. call' = [call EXCEPT ![a] = c]
        BY <1>0, <3>2 DEF CallTypes
      <4> QED
        BY <1>0, <4>1, <4>2, CallChanges
    <3> QED
      BY <1>6, <3>1, <3>2 DEF CallSends
  <2>4. DiscordTypes'
    <3>1. CASE messages' = Showing(lastMsg + 1, call[a].life) /\ lastMsg' = lastMsg + 1
      <4>1. lastMsg + 1 \in 1 .. lastMsg + 1 /\ lastMsg \in Nat /\ call[a].life \in Kinds
        BY <1>0, <1>1 DEF Kinds, DiscordTypes
      <4>2. /\ Showing(lastMsg + 1, call[a].life) \subseteq Message
            /\ \A m \in Showing(lastMsg + 1, call[a].life) : m.id <= lastMsg \/ m.id = lastMsg + 1
        BY <1>0, <4>1, MessagesTyped
      <4>3. \A m \in Message : m.id \in Nat
        BY DEF Message
      <4> QED
        BY <3>1, <4>1, <4>2, <4>3 DEF DiscordTypes
    <3>2. CASE UNCHANGED <<messages, lastMsg>>
      BY <3>2, Unmoved
    <3> QED
      BY <1>6, <3>1, <3>2 DEF CallSends
  <2>5. BoundTypes'
    BY <1>0, <1>6, <2>1 DEF CallSends, BoundTypes
  <2> QED
    BY <1>6, <2>2, <2>3, <2>4, <2>5, Unmoved DEF CallSends, Types
<1>7. CASE CallSaves(a)
  <2>1. DataTypes'
    BY <1>0, <1>1, <1>7, TrackTypes DEF CallSaves
  <2>2. MemoryTypes'
    BY <1>0, <1>7, UnlockTypes DEF CallSaves, CallReturns, MemoryTypes
  <2>3. CallTypes'
    BY <1>0, <1>7, ReturnTypes DEF CallSaves
  <2> QED
    BY <1>7, <2>1, <2>2, <2>3, Unmoved DEF CallSaves, Types
<1> QED
  BY <1>2, <1>3, <1>4, <1>5, <1>6, <1>7 DEF CallStep

\* What a worker does next.
LEMMA BecomesTypes ==
    ASSUME WorkerTypes, NEW w \in Workers, NEW task \in WorkerRec, TaskHolds(task), Becomes(w, task)
    PROVE  WorkerTypes'
<1>1. ASSUME NEW pc \in {"read", "invited", "stream", "gone"}
      PROVE  [NoWorker EXCEPT !.pc = pc] \in WorkerRec /\ TaskHolds([NoWorker EXCEPT !.pc = pc])
  BY Blank DEF WorkerRec, WorkerPcs, TaskHolds
<1>2. PICK t \in WorkerRec : TaskHolds(t) /\ worker' = [worker EXCEPT ![w] = t]
  <2>1. CASE task.pc \in {"read", "invited", "stream", "gone"}
    BY <1>1, <2>1 DEF Becomes
  <2>2. CASE task.pc \notin {"read", "invited", "stream", "gone"}
    BY <2>2 DEF Becomes
  <2> QED
    BY <2>1, <2>2
<1> QED
  BY <1>2 DEF WorkerTypes

LEMMA WorkerGoesTypes ==
    ASSUME WorkerTypes, NEW w \in Workers, NEW pc \in WorkerPcs, WorkerGoes(w, pc),
           pc \in {"fetch", "invite", "turn", "store", "remove", "forget"} => Numbered(worker[w].sub)
    PROVE  WorkerTypes'
<1>1. [worker[w] EXCEPT !.pc = pc] \in WorkerRec /\ TaskHolds([worker[w] EXCEPT !.pc = pc])
  BY DEF WorkerTypes, WorkerRec, TaskHolds, Numbered
<1> QED
  BY <1>1, BecomesTypes DEF WorkerGoes

LEMMA WorkerEndsTypes ==
    ASSUME WorkerTypes, NEW w \in Workers, WorkerEnds(w)
    PROVE  WorkerTypes'
BY Blank DEF WorkerTypes, WorkerEnds

\* What Discord raises ends a call, and its caller begins again or ends.
LEMMA CallRaisesTypes ==
    ASSUME Types, NEW a \in Callers, CallRaises(a)
    PROVE  Types'
<1>0. MemoryTypes /\ WorkerTypes /\ CallTypes /\ LinkTypes /\ BoundTypes
  BY DEF Types
<1>1. events' \in 0 .. MaxEvents
  BY <1>0, FaultTypes DEF CallRaises
<1>2. BoundTypes'
  BY <1>0, <1>1 DEF CallRaises, BoundTypes
<1>3. CallTypes' /\ MemoryTypes'
  BY <1>0, ReturnTypes, UnlockTypes DEF CallRaises, CallReturns, MemoryTypes
<1>4. WorkerTypes' /\ LinkTypes'
  <2>1. CASE a \in Workers /\ WorkerRaises(a) /\ UNCHANGED link
    BY <1>0, <2>1, WorkerGoesTypes, WorkerEndsTypes, Unmoved DEF WorkerRaises, WorkerPcs
  <2>2. CASE link' = NoLink /\ UNCHANGED worker
    BY <1>0, <2>2, Blank, Unmoved DEF LinkTypes
  <2> QED
    BY <2>1, <2>2 DEF CallRaises, CallerRaises
<1> QED
  BY <1>2, <1>3, <1>4, Unmoved DEF CallRaises, database, discord, Types

LEMMA FinaliseTypes ==
    ASSUME WorkerTypes, CallTypes, NEW w \in Workers, NEW sub \in Row, Numbered(sub), NEW from \in Sources,
           Finalise(w, sub, from)
    PROVE  WorkerTypes' /\ CallTypes'
<1> DEFINE task == [NoWorker EXCEPT !.pc = "store", !.sub.id = sub.id, !.from = from]
<1>1. NoWorker.sub \in Row
  BY Blank DEF WorkerRec
<1>2. [NoWorker.sub EXCEPT !.id = sub.id] \in Row /\ [NoWorker.sub EXCEPT !.id = sub.id].id = sub.id
  BY <1>1, Blank DEF Row, Numbered
<1>3. task \in WorkerRec /\ task.sub = [NoWorker.sub EXCEPT !.id = sub.id]
  BY <1>2, Blank DEF WorkerRec, WorkerPcs
<1>4. TaskHolds(task)
  BY <1>2, <1>3 DEF TaskHolds, Numbered
<1>5. WorkerTypes'
  <2> HIDE DEF task
  <2>1. Becomes(w, task)
    BY DEF Finalise, task
  <2> QED
    BY <1>3, <1>4, <2>1, BecomesTypes
<1>6. "finished" \in Lives /\ w \in Callers
  BY Blank DEF Lives
<1>7. CallTypes'
  BY <1>6, PublishTypes DEF Finalise
<1> QED
  BY <1>5, <1>7

LEMMA FollowTypes ==
    ASSUME WorkerTypes, CallTypes, NEW w \in Workers, NEW sub \in Row, Numbered(sub), NEW phase, Follow(w, sub, phase)
    PROVE  WorkerTypes' /\ CallTypes'
<1>1. CASE Becomes(w, [NoWorker EXCEPT !.pc = "invite", !.sub = sub]) /\ UNCHANGED call
  <2> DEFINE task == [NoWorker EXCEPT !.pc = "invite", !.sub = sub]
  <2>1. task \in WorkerRec /\ TaskHolds(task)
    BY Blank DEF WorkerRec, WorkerPcs, TaskHolds
  <2> HIDE DEF task
  <2>2. Becomes(w, task)
    BY <1>1 DEF task
  <2> QED
    BY <1>1, <2>1, <2>2, BecomesTypes DEF CallTypes
<1>2. CASE WorkerGoes(w, "stream") /\ UNCHANGED call
  BY <1>2, WorkerGoesTypes DEF WorkerPcs, CallTypes
<1>3. CASE Finalise(w, sub, "fetch")
  BY <1>3, Blank, FinaliseTypes
<1> QED
  BY <1>1, <1>2, <1>3 DEF Follow

LEMMA StoreTypes ==
    ASSUME DataTypes, WorkerTypes, NEW w \in Workers, Numbered(worker[w].sub), NEW life \in Lives, NEW next \in WorkerPcs,
           Store(w, life, next), UNCHANGED bga
    PROVE  DataTypes' /\ WorkerTypes'
<1>1. WorkerTypes'
  BY WorkerGoesTypes, WorkerEndsTypes DEF Store, WorkerRaises, WorkerPcs
<1>2. DataTypes'
  BY Blank DEF Store, DataTypes, database, Row, Gone, Numbered
<1> QED
  BY <1>1, <1>2

LEMMA WorkerStepTypes ==
    ASSUME Types, NEW w \in Workers, WorkerStep(w)
    PROVE  Types'
<1> USE Blank DEF database, memory, tasks, discord, bounds
<1>0. DataTypes /\ DiscordTypes /\ MemoryTypes /\ WorkerTypes /\ CallTypes /\ TaskTypes /\ BoundTypes
  BY DEF Types
<1>1. /\ worker[w] \in WorkerRec /\ TaskHolds(worker[w]) /\ worker[w].sub \in Row /\ w \in Callers
      /\ row \in Row /\ (row # NoRow => Numbered(row)) /\ bga \in Lives
  BY <1>0, RowNumbered DEF WorkerTypes, WorkerRec, DataTypes
<1>2. CASE WorkerReads(w)
  <2>1. WorkerTypes'
    <3>1. CASE row # NoRow /\ worker' = [worker EXCEPT ![w].pc = "fetch", ![w].sub = row]
      <4>1. [worker[w] EXCEPT !.pc = "fetch", !.sub = row] \in WorkerRec
            /\ TaskHolds([worker[w] EXCEPT !.pc = "fetch", !.sub = row])
        BY <1>1, <3>1 DEF WorkerRec, WorkerPcs, TaskHolds
      <4> QED
        BY <1>0, <3>1, <4>1 DEF WorkerTypes
    <3> QED
      BY <1>0, <1>2, <3>1, WorkerEndsTypes DEF WorkerReads
  <2> QED
    BY <1>2, <2>1, Unmoved DEF WorkerReads, Types
<1>3. CASE WorkerFetches(w)
  <2>1. events' \in 0 .. MaxEvents
    BY <1>0, <1>3, FaultTypes DEF WorkerFetches
  <2>2. WorkerTypes' /\ CallTypes'
    <3>1. CASE Follow(w, worker[w].sub, bga)
      BY <1>0, <1>1, <1>3, <3>1, FollowTypes DEF WorkerFetches, TaskHolds
    <3>2. CASE Becomes(w, [NoWorker EXCEPT !.pc = "upsert", !.phase = bga]) /\ UNCHANGED call
      <4> DEFINE task == [NoWorker EXCEPT !.pc = "upsert", !.phase = bga]
      <4>1. task \in WorkerRec /\ TaskHolds(task)
        BY <1>1 DEF WorkerRec, WorkerPcs, TaskHolds
      <4> HIDE DEF task
      <4>2. Becomes(w, task)
        BY <3>2 DEF task
      <4> QED
        BY <1>0, <3>2, <4>1, <4>2, BecomesTypes DEF CallTypes
    <3>3. CASE WorkerGoes(w, "read") /\ UNCHANGED call
      BY <1>0, <3>3, WorkerGoesTypes DEF WorkerPcs, CallTypes
    <3> QED
      BY <1>3, <3>1, <3>2, <3>3 DEF WorkerFetches
  <2>3. BoundTypes'
    BY <1>0, <1>3, <2>1 DEF WorkerFetches, BoundTypes
  <2> QED
    BY <1>3, <2>2, <2>3, Unmoved DEF WorkerFetches, Types
<1>4. CASE WorkerUpserts(w)
  <2>1. DataTypes' /\ WorkerTypes'
    BY <1>0, <1>4, UpsertTypes, WorkerGoesTypes DEF WorkerUpserts, WorkerPcs
  <2> QED
    BY <1>4, <2>1, Unmoved DEF WorkerUpserts, Types
<1>5. CASE WorkerRereads(w)
  <2>1. WorkerTypes' /\ CallTypes'
    BY <1>0, <1>1, <1>5, FollowTypes, WorkerGoesTypes, Unmoved DEF WorkerRereads, WorkerPcs
  <2> QED
    BY <1>5, <2>1, Unmoved DEF WorkerRereads, Types
<1>6. CASE WorkerInvites(w)
  <2>1. Numbered(worker[w].sub) /\ "recruiting" \in Lives /\ "invited" \in WorkerPcs /\ "read" \in WorkerPcs
    BY <1>1, <1>6 DEF WorkerInvites, TaskHolds, Lives, WorkerPcs
  <2>2. DataTypes' /\ WorkerTypes'
    <3>1. CASE Store(w, "recruiting", "invited")
      BY <1>0, <1>6, <2>1, <3>1, StoreTypes DEF WorkerInvites
    <3>2. CASE WorkerGoes(w, "read") /\ UNCHANGED database
      BY <1>0, <1>6, <2>1, <3>2, WorkerGoesTypes, Unmoved DEF WorkerInvites
    <3> QED
      BY <1>6, <3>1, <3>2 DEF WorkerInvites
  <2>3. CallTypes'
    BY <1>0, <1>1, <1>6, <2>1, PublishTypes, Unmoved DEF WorkerInvites
  <2> QED
    BY <1>6, <2>2, <2>3, Unmoved DEF WorkerInvites, Types
<1>7. CASE WorkerInvited(w)
  BY <1>0, <1>7, WorkerGoesTypes, Unmoved DEF WorkerInvited, WorkerPcs, Types
<1>8. CASE WorkerHears(w)
  <2>1. WorkerTypes'
    <3>1. CASE worker' = [worker EXCEPT ![w].pc = "apply", ![w].phase = bga]
      <4>1. [worker[w] EXCEPT !.pc = "apply", !.phase = bga] \in WorkerRec
            /\ TaskHolds([worker[w] EXCEPT !.pc = "apply", !.phase = bga])
        BY <1>1, <3>1 DEF WorkerRec, WorkerPcs, TaskHolds
      <4> QED
        BY <1>0, <3>1, <4>1 DEF WorkerTypes
    <3> QED
      BY <1>0, <1>8, <3>1, WorkerGoesTypes DEF WorkerHears, WorkerPcs
  <2> QED
    BY <1>8, <2>1, Unmoved DEF WorkerHears, Types
<1>9. CASE WorkerApplies(w)
  <2>1. WorkerTypes' /\ CallTypes'
    <3>1. CASE WorkerGoes(w, "stream") /\ UNCHANGED call
      BY <1>0, <3>1, WorkerGoesTypes, Unmoved DEF WorkerPcs
    <3>2. CASE row # NoRow /\ Finalise(w, row, "state")
      BY <1>0, <1>1, <3>2, FinaliseTypes
    <3>3. CASE row # NoRow /\ worker' = [worker EXCEPT ![w].pc = "turn", ![w].sub = row] /\ Publish(w, row, "playing")
      <4>1. [worker[w] EXCEPT !.pc = "turn", !.sub = row] \in WorkerRec
            /\ TaskHolds([worker[w] EXCEPT !.pc = "turn", !.sub = row])
        BY <1>1, <3>3 DEF WorkerRec, WorkerPcs, TaskHolds
      <4>2. CallTypes'
        BY <1>0, <1>1, <3>3, PublishTypes DEF Lives
      <4> QED
        BY <1>0, <3>3, <4>1, <4>2 DEF WorkerTypes
    <3> QED
      BY <1>9, <3>1, <3>2, <3>3 DEF WorkerApplies
  <2> QED
    BY <1>9, <2>1, Unmoved DEF WorkerApplies, Types
<1>10. CASE WorkerTurns(w)
  <2>1. DataTypes' /\ WorkerTypes'
    BY <1>0, <1>1, <1>10, StoreTypes DEF WorkerTurns, TaskHolds, Lives, WorkerPcs
  <2> QED
    BY <1>10, <2>1, Unmoved DEF WorkerTurns, Types
<1>11. CASE WorkerGivesUp(w)
  <2>1. WorkerTypes' /\ CallTypes'
    BY <1>0, <1>1, <1>11, FinaliseTypes, WorkerEndsTypes, Unmoved DEF WorkerGivesUp
  <2>2. TaskTypes'
    BY <1>0, <1>11 DEF WorkerGivesUp, TaskTypes
  <2> QED
    BY <1>11, <2>1, <2>2, Unmoved DEF WorkerGivesUp, Types
<1>12. CASE WorkerStores(w)
  <2>1. DataTypes' /\ WorkerTypes'
    BY <1>0, <1>1, <1>12, StoreTypes DEF WorkerStores, TaskHolds, Lives, WorkerPcs
  <2> QED
    BY <1>12, <2>1, Unmoved DEF WorkerStores, Types
<1>13. CASE WorkerRemoves(w)
  <2>1. DataTypes' /\ WorkerTypes'
    BY <1>0, <1>1, <1>13, RemoveTypes, WorkerGoesTypes DEF WorkerRemoves, TaskHolds, WorkerPcs
  <2> QED
    BY <1>13, <2>1, Unmoved DEF WorkerRemoves, Types
<1>14. CASE WorkerForgets(w)
  <2>1. WorkerTypes'
    BY <1>0, <1>14, WorkerEndsTypes, WorkerGoesTypes DEF WorkerForgets, WorkerPcs
  <2>2. MemoryTypes' /\ TaskTypes'
    BY <1>0, <1>14 DEF WorkerForgets, MemoryTypes, TaskTypes
  <2> QED
    BY <1>14, <2>1, <2>2, Unmoved DEF WorkerForgets, Types
<1>15. CASE LateCall(w)
  <2>1. DataTypes' /\ WorkerTypes'
    BY <1>0, <1>15, UpsertTypes, RemoveTypes, WorkerEndsTypes DEF LateCall
  <2> QED
    BY <1>15, <2>1, Unmoved DEF LateCall, Types
<1> QED
  BY <1>2, <1>3, <1>4, <1>5, <1>6, <1>7, <1>8, <1>9, <1>10, <1>11, <1>12, <1>13, <1>14, <1>15 DEF WorkerStep, WorkerRuns

LEMMA SupplyTypes ==
    ASSUME Types, NEW s \in Syncs, NEW watched \in BOOLEAN, Supply(s, watched),
           UNCHANGED <<bga, row, lastRow, links, disturbed>>
    PROVE  Types'
<1> USE Blank
<1>0. DataTypes /\ DiscordTypes /\ MemoryTypes /\ WorkerTypes /\ CallTypes /\ TaskTypes /\ BoundTypes
  BY DEF Types
<1>1. LinkTypes' /\ BoundTypes' /\ DataTypes'
  <2>1. LinkTypes'
    BY DEF Supply, Types, LinkTypes
  <2> QED
    BY <2>1, Unmoved DEF Supply
<1>2. sync' \in [Syncs -> SyncRec]
  BY <1>0 DEF Supply, TaskTypes
<1>3. CASE registered # "none" /\ Cancel(registered) /\ registered' = "none"
  <2>1. registered \in Workers /\ registered \in Callers /\ worker[registered] \in WorkerRec /\ TaskHolds(worker[registered])
        /\ call[registered] \in CallRec
    BY <1>0, <1>3 DEF TaskTypes, WorkerTypes, CallTypes
  <2>2. WorkerTypes'
    <3>1. ASSUME NEW pc \in {"late upsert", "late remove"}, worker' = [worker EXCEPT ![registered].pc = pc]
          PROVE  WorkerTypes'
      <4>1. [worker[registered] EXCEPT !.pc = pc] \in WorkerRec /\ TaskHolds([worker[registered] EXCEPT !.pc = pc])
        BY <2>1 DEF WorkerRec, WorkerPcs, TaskHolds
      <4> QED
        BY <1>0, <2>1, <3>1, <4>1 DEF WorkerTypes
    <3> QED
      BY <1>0, <1>3, <2>1, <3>1, WorkerEndsTypes DEF Cancel
  <2>3. CallTypes' /\ MemoryTypes'
    BY <1>0, <1>3, <2>1, ReturnTypes, UnlockTypes DEF Cancel, CallReturns, MemoryTypes, Supply
  <2>4. DiscordTypes'
    <3>1. CASE messages' = Showing(lastMsg + 1, call[registered].life) /\ lastMsg' = lastMsg + 1
      <4>1. lastMsg + 1 \in 1 .. lastMsg + 1 /\ lastMsg \in Nat /\ call[registered].life \in Kinds
        BY <1>0, <2>1 DEF Kinds, DiscordTypes, CallRec
      <4>2. /\ Showing(lastMsg + 1, call[registered].life) \subseteq Message
            /\ \A m \in Showing(lastMsg + 1, call[registered].life) : m.id <= lastMsg \/ m.id = lastMsg + 1
        BY <1>0, <4>1, MessagesTyped
      <4>3. \A m \in Message : m.id \in Nat
        BY DEF Message
      <4> QED
        BY <3>1, <4>1, <4>2, <4>3 DEF DiscordTypes
    <3> QED
      BY <1>3, <3>1, Unmoved DEF Cancel, discord
  <2> QED
    BY <1>1, <1>2, <1>3, <2>2, <2>3, <2>4 DEF Types, TaskTypes
<1>4. CASE (\E w \in Workers : Start(w)) /\ UNCHANGED <<call, mlock, discord>>
  <2>1. PICK w \in Workers : Start(w)
    BY <1>4
  <2>2. [worker[w] EXCEPT !.pc = "read"] \in WorkerRec /\ TaskHolds([worker[w] EXCEPT !.pc = "read"])
    BY <1>0 DEF WorkerTypes, WorkerRec, WorkerPcs, TaskHolds
  <2>3. WorkerTypes' /\ registered' \in Workers
    BY <1>0, <2>1, <2>2 DEF Start, WorkerTypes
  <2> QED
    BY <1>1, <1>2, <1>4, <2>3, Unmoved DEF Types, TaskTypes, Supply, discord
<1>5. CASE UNCHANGED <<worker, registered, call, mlock, discord>>
  BY <1>0, <1>1, <1>2, <1>5, Unmoved DEF Types, TaskTypes, Supply, discord
<1> QED
  BY <1>3, <1>4, <1>5 DEF Supply

LEMMA SyncStepTypes ==
    ASSUME Types, NEW s \in Syncs, SyncStep(s)
    PROVE  Types'
<1> USE Blank DEF database, memory, tasks, discord, bounds
<1>0. DataTypes /\ DiscordTypes /\ MemoryTypes /\ TaskTypes /\ BoundTypes /\ sync[s] \in SyncRec
  BY DEF Types, TaskTypes
<1>1. CASE SyncLists(s)
  <2>1. CASE Supply(s, row # NoRow)
    BY <1>1, <2>1, SupplyTypes DEF SyncLists
  <2>2. CASE /\ sync' = [sync EXCEPT ![s] = [pc |-> "orphans", todo |-> Orphans, watched |-> row # NoRow]]
             /\ UNCHANGED <<memory, worker, registered, call, link, discord, events>>
    <3>1. [pc |-> "orphans", todo |-> Orphans, watched |-> row # NoRow] \in SyncRec
      BY DEF SyncRec, Orphans
    <3>2. TaskTypes'
      BY <1>0, <2>2, <3>1 DEF TaskTypes
    <3> QED
      BY <1>1, <2>2, <3>2, Unmoved DEF SyncLists, Types
  <2> QED
    BY <1>1, <2>1, <2>2 DEF SyncLists
<1>2. CASE SyncDeletes(s)
  <2>1. PICK i \in sync[s].todo :
            /\ sync' = [sync EXCEPT ![s].todo = @ \ {i}]
            /\ active' = [active EXCEPT ![i] = NoCard]
            /\ \/ messages' = Without(active[i].msg) /\ UNCHANGED events
               \/ Fault("drop") /\ UNCHANGED messages
    BY <1>2 DEF SyncDeletes
  <2>2. [sync[s] EXCEPT !.todo = @ \ {i}] \in SyncRec
    BY <1>0 DEF SyncRec
  <2>3. TaskTypes' /\ MemoryTypes'
    BY <1>0, <1>2, <2>1, <2>2 DEF SyncDeletes, TaskTypes, MemoryTypes
  <2>4. DiscordTypes'
    BY <1>0, <1>2, <2>1 DEF SyncDeletes, Without, DiscordTypes
  <2>5. events' \in 0 .. MaxEvents
    BY <1>0, <2>1, FaultTypes
  <2>6. BoundTypes'
    BY <1>0, <1>2, <2>5 DEF SyncDeletes, BoundTypes
  <2> QED
    BY <1>2, <2>3, <2>4, <2>6, Unmoved DEF SyncDeletes, Types
<1>3. CASE SyncSupplies(s)
  BY <1>0, <1>3, SupplyTypes DEF SyncSupplies, SyncRec
<1> QED
  BY <1>1, <1>2, <1>3 DEF SyncStep

-----------------------------------------------------------------------------
LEMMA LinkBecomesTypes ==
    ASSUME NEW t \in LinkRec, LinkHolds(t), LinkBecomes(t)
    PROVE  LinkTypes'
<1>1. ASSUME NEW pc \in {"drawing", "sync"}
      PROVE  [NoLink EXCEPT !.pc = pc] \in LinkRec /\ LinkHolds([NoLink EXCEPT !.pc = pc])
  BY Blank DEF LinkRec, LinkPcs, LinkHolds
<1>2. CASE t.pc \in {"drawing", "sync"}
  BY <1>1, <1>2 DEF LinkBecomes, LinkTypes
<1>3. CASE t.pc \notin {"drawing", "sync"}
  BY <1>3 DEF LinkBecomes, LinkTypes
<1> QED
  BY <1>2, <1>3

LEMMA LinkGoesTypes ==
    ASSUME LinkTypes, NEW pc \in LinkPcs, LinkGoes(pc),
           pc \in {"idle", "exists", "probe", "upsert", "sync", "drawing"} \/ Numbered(link.sub)
    PROVE  LinkTypes'
<1>1. [link EXCEPT !.pc = pc] \in LinkRec /\ LinkHolds([link EXCEPT !.pc = pc])
  BY DEF LinkTypes, LinkRec, LinkHolds, Numbered
<1> QED
  BY <1>1, LinkBecomesTypes DEF LinkGoes

LEMMA AdoptTypes ==
    ASSUME LinkTypes, MemoryTypes, Numbered(link.sub), NEW old \in Nat, Adopt(old),
           mlock' \in [Rows -> Callers \cup {"none"}]
    PROVE  LinkTypes' /\ MemoryTypes'
<1>1. link \in LinkRec /\ link.note \in Nat
  BY DEF LinkTypes, LinkRec
<1>2. LinkTypes'
  <2>1. [link EXCEPT !.pc = "save", !.old = old] \in LinkRec /\ LinkHolds([link EXCEPT !.pc = "save", !.old = old])
    BY <1>1 DEF LinkRec, LinkPcs, LinkHolds, Numbered
  <2>2. CASE LinkGoes("drop")
    BY <2>2, LinkGoesTypes DEF LinkPcs
  <2> QED
    BY <2>1, <2>2 DEF Adopt, LinkTypes
<1>3. active' \in [Rows -> Card]
  <2>1. [msg |-> old, kind |-> "note"] \in Card /\ [msg |-> link.note, kind |-> "note"] \in Card
    BY <1>1 DEF Card, Kinds
  <2>2. active[link.sub.id] \in Card
    BY DEF MemoryTypes, Numbered
  <2> QED
    BY <2>1, <2>2 DEF Adopt, MemoryTypes
<1> QED
  BY <1>2, <1>3 DEF MemoryTypes

LEMMA FailsTypes ==
    ASSUME DiscordTypes, LinkFails, UNCHANGED lastMsg
    PROVE  LinkTypes' /\ DiscordTypes'
BY Blank DEF LinkFails, LinkTypes, DiscordTypes, Without

LEMMA WithoutTypes ==
    ASSUME DiscordTypes, NEW id, messages' = Without(id) \/ UNCHANGED messages, UNCHANGED lastMsg
    PROVE  DiscordTypes'
BY DEF DiscordTypes, Without

LEMMA LinkStepTypes ==
    ASSUME Types, LinkStep
    PROVE  Types'
<1> USE Blank DEF database, memory, tasks, discord, bounds
<1>0. DataTypes /\ DiscordTypes /\ MemoryTypes /\ CallTypes /\ LinkTypes /\ BoundTypes
  BY DEF Types
<1>1. /\ link \in LinkRec /\ LinkHolds(link) /\ link.sub \in Row /\ link.known \in BOOLEAN
      /\ link.note \in Nat /\ link.old \in Nat /\ link.sub.msg \in Nat /\ link.sub.life \in Lives
      /\ row \in Row /\ row.life \in Lives /\ (row # NoRow => Numbered(row)) /\ bga \in Lives
  BY <1>0, RowNumbered DEF LinkTypes, LinkRec, DataTypes, Row
<1>2. Unadopted \in LinkPcs /\ Adopted \in LinkPcs /\ Unadopted \in {"reset", "sync"} /\ Adopted \in {"redraw", "sync"}
  BY DEF Unadopted, Adopted, LinkPcs
<1>3. CASE LinkLooks
  <2>1. [link EXCEPT !.pc = "probe", !.known = row # NoRow] \in LinkRec
        /\ LinkHolds([link EXCEPT !.pc = "probe", !.known = row # NoRow])
    BY <1>1 DEF LinkRec, LinkPcs, LinkHolds
  <2>2. LinkTypes'
    BY <1>3, <2>1 DEF LinkLooks, LinkTypes
  <2>3. disturbed' \in BOOLEAN
    BY <1>0, <1>3 DEF LinkLooks, BoundTypes
  <2>4. BoundTypes'
    BY <1>0, <1>3, <2>3 DEF LinkLooks, BoundTypes
  <2> QED
    BY <1>3, <2>2, <2>4, Unmoved DEF LinkLooks, Types
<1>4. CASE LinkProbes
  <2>1. events' \in 0 .. MaxEvents
    BY <1>0, <1>4, FaultTypes DEF LinkProbes
  <2>2. LinkTypes' /\ DiscordTypes'
    <3>1. CASE LinkFails
      BY <1>0, <1>4, <3>1, FailsTypes DEF LinkProbes
    <3>2. CASE link' = [link EXCEPT !.pc = "upsert", !.phase = bga] /\ UNCHANGED messages
      <4>1. [link EXCEPT !.pc = "upsert", !.phase = bga] \in LinkRec
            /\ LinkHolds([link EXCEPT !.pc = "upsert", !.phase = bga])
        BY <1>1 DEF LinkRec, LinkPcs, LinkHolds
      <4> QED
        BY <1>4, <3>2, <4>1, Unmoved DEF LinkProbes, LinkTypes
    <3> QED
      BY <1>4, <3>1, <3>2 DEF LinkProbes
  <2>3. BoundTypes'
    BY <1>0, <1>4, <2>1 DEF LinkProbes, BoundTypes
  <2> QED
    BY <1>4, <2>2, <2>3, Unmoved DEF LinkProbes, Types
<1>5. CASE LinkUpserts
  <2>1. DataTypes' /\ Numbered(row') /\ row' \in Row
    BY <1>0, <1>5, UpsertTypes DEF LinkUpserts, DataTypes
  <2>2. [link EXCEPT !.pc = "state", !.sub = row'] \in LinkRec
        /\ LinkHolds([link EXCEPT !.pc = "state", !.sub = row'])
    BY <1>1, <2>1 DEF LinkRec, LinkPcs, LinkHolds
  <2>3. LinkTypes'
    BY <1>5, <2>2 DEF LinkUpserts, LinkTypes
  <2> QED
    BY <1>5, <2>1, <2>3, Unmoved DEF LinkUpserts, Types
<1>6. CASE LinkStates
  <2>1. LinkTypes' /\ DiscordTypes'
    <3>1. CASE LinkFails
      BY <1>0, <1>6, <3>1, FailsTypes DEF LinkStates
    <3>2. CASE LinkGoes("reload") /\ UNCHANGED messages
      BY <1>0, <1>1, <1>6, <3>2, LinkGoesTypes, Unmoved DEF LinkStates, LinkHolds, LinkPcs
    <3> QED
      BY <1>6, <3>1, <3>2 DEF LinkStates
  <2>2. DataTypes'
    <3>1. CASE row' = [row EXCEPT !.life = "recruiting"] /\ ~Gone(link.sub.id)
      <4>1. row' \in Row /\ row'.id = row.id
        BY <1>1, <3>1 DEF Row, Lives
      <4>2. row'.id # 0
        BY <1>1, <1>6, <3>1, <4>1 DEF LinkStates, LinkHolds, Numbered, Gone, Rows
      <4> QED
        BY <1>0, <1>6, <4>1, <4>2 DEF LinkStates, DataTypes
    <3>2. CASE UNCHANGED row
      BY <1>6, <3>2, Unmoved DEF LinkStates
    <3> QED
      BY <1>6, <3>1, <3>2 DEF LinkStates
  <2> QED
    BY <1>6, <2>1, <2>2, Unmoved DEF LinkStates, Types
<1>7. CASE LinkReloads
  <2> DEFINE sub == IF Gone(link.sub.id) THEN link.sub ELSE row
             t == [link EXCEPT !.pc = IF link.note = 0 THEN Unadopted ELSE "lock", !.sub = sub]
  <2>1. Numbered(sub) /\ sub \in Row
    BY <1>1, <1>7 DEF LinkReloads, LinkHolds, Gone, Numbered
  <2> HIDE DEF sub
  <2>2. t \in LinkRec /\ LinkHolds(t)
    BY <1>1, <1>2, <2>1 DEF LinkRec, LinkPcs, LinkHolds
  <2> HIDE DEF t
  <2>3. LinkBecomes(t)
    BY <1>7 DEF LinkReloads, t, sub
  <2>4. LinkTypes'
    BY <2>2, <2>3, LinkBecomesTypes
  <2> QED
    BY <1>7, <2>4, Unmoved DEF LinkReloads, Types
<1>8. CASE LinkLocks
  <2>1. Numbered(link.sub) /\ mlock' \in [Rows -> Callers \cup {"none"}]
        /\ active[link.sub.id] \in Card /\ active[link.sub.id].msg \in Nat
    BY <1>0, <1>1, <1>8 DEF LinkLocks, LinkHolds, MemoryTypes, Numbered, Card
  <2>2. LinkTypes' /\ MemoryTypes'
    <3>1. ASSUME NEW old \in Nat, Adopt(old) PROVE LinkTypes' /\ MemoryTypes'
      BY <1>0, <2>1, <3>1, AdoptTypes
    <3>2. CASE LinkGoes("adopt") /\ UNCHANGED active
      <4>1. LinkTypes'
        BY <1>0, <2>1, <3>2, LinkGoesTypes DEF LinkPcs
      <4> QED
        BY <1>0, <2>1, <3>2, <4>1 DEF MemoryTypes
    <3> QED
      BY <1>8, <2>1, <3>1, <3>2, 0 \in Nat DEF LinkLocks
  <2> QED
    BY <1>8, <2>2, Unmoved DEF LinkLocks, Types
<1>9. CASE LinkAdopts
  <2>1. Numbered(link.sub) /\ mlock' \in [Rows -> Callers \cup {"none"}]
    BY <1>0, <1>1, <1>9 DEF LinkAdopts, LinkHolds, MemoryTypes
  <2>2. LinkTypes' /\ MemoryTypes'
    <3>1. ASSUME NEW old \in Nat, Adopt(old) PROVE LinkTypes' /\ MemoryTypes'
      BY <1>0, <2>1, <3>1, AdoptTypes
    <3> QED
      BY <1>1, <1>9, <3>1, 0 \in Nat DEF LinkAdopts
  <2>3. DataTypes'
    BY <1>0, <1>1, <1>9, <2>1, 0 \in Nat DEF LinkAdopts, DataTypes, Gone, Numbered, Row
  <2>4. events' \in 0 .. MaxEvents
    BY <1>0, <1>9, FaultTypes DEF LinkAdopts
  <2>5. BoundTypes'
    BY <1>0, <1>9, <2>4 DEF LinkAdopts, BoundTypes
  <2> QED
    BY <1>9, <2>2, <2>3, <2>5, Unmoved DEF LinkAdopts, Types
<1>10. CASE LinkSaves
  <2>1. Numbered(link.sub)
    BY <1>1, <1>10 DEF LinkSaves, LinkHolds
  <2>2. DataTypes'
    BY <1>0, <1>1, <1>10, <2>1, TrackTypes DEF LinkSaves, Numbered
  <2>3. LinkTypes'
    BY <1>0, <1>2, <1>10, <2>1, LinkGoesTypes DEF LinkSaves, LinkPcs
  <2>4. MemoryTypes'
    BY <1>0, <1>10, UnlockTypes DEF LinkSaves, MemoryTypes
  <2> QED
    BY <1>10, <2>2, <2>3, <2>4, Unmoved DEF LinkSaves, Types
<1>11. CASE LinkDeletes
  <2>1. Numbered(link.sub)
    BY <1>1, <1>11 DEF LinkDeletes, LinkHolds
  <2> DEFINE t == [link EXCEPT !.pc = IF link.pc = "replace" THEN Adopted ELSE Unadopted, !.old = 0, !.note = 0]
  <2>2. t \in LinkRec /\ LinkHolds(t)
    BY <1>1, <1>2, <2>1 DEF LinkRec, LinkHolds, Numbered
  <2> HIDE DEF t
  <2>3. LinkBecomes(t)
    BY <1>11 DEF LinkDeletes, t
  <2>4. LinkTypes'
    BY <2>2, <2>3, LinkBecomesTypes
  <2>5. MemoryTypes'
    BY <1>0, <1>11, UnlockTypes DEF LinkDeletes, MemoryTypes
  <2>6. DiscordTypes'
    BY <1>0, <1>11, WithoutTypes DEF LinkDeletes
  <2>7. events' \in 0 .. MaxEvents
    BY <1>0, <1>11, FaultTypes DEF LinkDeletes
  <2>8. BoundTypes'
    BY <1>0, <1>11, <2>7 DEF LinkDeletes, BoundTypes
  <2> QED
    BY <1>11, <2>4, <2>5, <2>6, <2>8, Unmoved DEF LinkDeletes, Types
<1>12. CASE LinkRedraws
  <2>1. Numbered(link.sub)
    BY <1>1, <1>12 DEF LinkRedraws, LinkHolds
  <2>2. LinkTypes'
    BY <1>0, <1>12, <2>1, LinkGoesTypes DEF LinkRedraws, LinkPcs
  <2>3. CallTypes'
    <3>1. CASE ~Gone(link.sub.id) /\ Publish("link", row, row.life)
      <4>1. Numbered(row)
        BY <2>1, <3>1 DEF Gone, Numbered
      <4> QED
        BY <1>0, <1>1, <3>1, <4>1, PublishTypes
    <3>2. CASE UNCHANGED call
      BY <3>2, Unmoved
    <3> QED
      BY <1>12, <3>1, <3>2 DEF LinkRedraws
  <2> QED
    BY <1>12, <2>2, <2>3, Unmoved DEF LinkRedraws, Types
<1>13. CASE LinkDrawn
  <2>1. LinkTypes'
    BY <1>0, <1>13, LinkGoesTypes DEF LinkDrawn, LinkPcs
  <2> QED
    BY <1>13, <2>1, Unmoved DEF LinkDrawn, Types
<1>14. CASE LinkResets
  <2>1. Numbered(link.sub)
    BY <1>1, <1>14 DEF LinkResets, LinkHolds
  <2>2. active[link.sub.id] \in Card /\ active[link.sub.id].msg \in Nat /\ active[link.sub.id].kind \in Kinds
    BY <1>0, <2>1 DEF MemoryTypes, Numbered, Card
  <2> DEFINE target == IF active[link.sub.id].msg # 0 THEN active[link.sub.id].msg ELSE link.sub.msg
  <2>3. target \in Nat
    BY <1>1, <2>2
  <2>4. \A k \in Kinds : [msg |-> target, kind |-> k] \in Card
    BY <2>3 DEF Card
  <2>5. "note" \in Kinds
    BY DEF Kinds
  <2>6. MemoryTypes'
    <3> HIDE DEF target
    <3>1. CASE active' = [active EXCEPT ![link.sub.id] = [msg |-> target, kind |-> IF @.msg = 0 THEN "note" ELSE @.kind]]
      BY <1>0, <1>14, <2>2, <2>4, <2>5, <3>1 DEF MemoryTypes, LinkResets
    <3>2. CASE active' = [active EXCEPT ![link.sub.id] = NoCard] \/ UNCHANGED active
      BY <1>0, <1>14, <3>2 DEF MemoryTypes, LinkResets
    <3> QED
      BY <1>14, <3>1, <3>2 DEF LinkResets, target
  <2>7. LinkTypes'
    BY <1>0, <1>14, <2>1, LinkGoesTypes DEF LinkResets, LinkPcs
  <2>8. DiscordTypes'
    BY <1>0, <1>14, WithoutTypes DEF LinkResets
  <2>9. events' \in 0 .. MaxEvents
    BY <1>0, <1>14, FaultTypes DEF LinkResets
  <2>10. BoundTypes'
    BY <1>0, <1>14, <2>9 DEF LinkResets, BoundTypes
  <2> QED
    BY <1>14, <2>6, <2>7, <2>8, <2>10, Unmoved DEF LinkResets, Types
<1>15. CASE LinkUntracks
  <2>1. Numbered(link.sub)
    BY <1>1, <1>15 DEF LinkUntracks, LinkHolds
  <2>2. DataTypes'
    BY <1>0, <1>1, <1>15, <2>1, 0 \in Nat, TrackTypes DEF LinkUntracks, Numbered
  <2>3. LinkTypes'
    BY <1>0, <1>15, LinkGoesTypes DEF LinkUntracks, LinkPcs
  <2> QED
    BY <1>15, <2>2, <2>3, Unmoved DEF LinkUntracks, Types
<1> QED
  BY <1>3, <1>4, <1>5, <1>6, <1>7, <1>8, <1>9, <1>10, <1>11, <1>12, <1>13, <1>14, <1>15 DEF LinkStep

-----------------------------------------------------------------------------
LEMMA PostedTypes ==
    ASSUME Types, LinkPosted
    PROVE  Types'
<1> USE Blank DEF database, memory, tasks, discord, bounds
<1>0. DiscordTypes /\ LinkTypes /\ BoundTypes /\ links' \in 0 .. MaxLinks
  BY WatchAssumption DEF Types, LinkPosted, BoundTypes
<1>1. events' \in 0 .. MaxEvents
  BY <1>0, FaultTypes DEF LinkPosted
<1>2. BoundTypes'
  BY <1>0, <1>1 DEF LinkPosted, BoundTypes
<1>3. LinkTypes' /\ DiscordTypes'
  <2>1. CASE /\ messages' = Showing(lastMsg + 1, "note") /\ lastMsg' = lastMsg + 1
             /\ link' = [NoLink EXCEPT !.pc = "exists", !.note = lastMsg + 1]
    <3>1. lastMsg + 1 \in 1 .. lastMsg + 1 /\ lastMsg \in Nat /\ "note" \in Kinds
      BY <1>0 DEF Kinds, DiscordTypes
    <3>2. /\ Showing(lastMsg + 1, "note") \subseteq Message
          /\ \A m \in Showing(lastMsg + 1, "note") : m.id <= lastMsg \/ m.id = lastMsg + 1
      BY <1>0, <3>1, MessagesTyped
    <3>3. \A m \in Message : m.id \in Nat
      BY DEF Message
    <3>4. DiscordTypes'
      BY <2>1, <3>1, <3>2, <3>3 DEF DiscordTypes
    <3>5. lastMsg + 1 \in Nat /\ link'.pc = "exists"
      BY <2>1, <3>1 DEF LinkRec
    <3>6. link' \in LinkRec /\ LinkHolds(link')
      BY <2>1, <3>5 DEF LinkRec, LinkPcs, LinkHolds
    <3> QED
      BY <3>4, <3>6 DEF LinkTypes
  <2>2. CASE LinkGoes("exists") /\ UNCHANGED <<messages, lastMsg>>
    BY <1>0, <2>2, LinkGoesTypes, Unmoved DEF LinkPcs
  <2> QED
    BY <2>1, <2>2 DEF LinkPosted
<1> QED
  BY <1>2, <1>3, Unmoved DEF LinkPosted, Types

LEMMA WorldTypes ==
    ASSUME Types, Play \/ Stop \/ Moderate
    PROVE  Types'
<1> USE Blank DEF database, memory, tasks, discord, bounds
<1>0. DataTypes /\ DiscordTypes /\ BoundTypes
  BY DEF Types
<1>1. CASE Play
  <2>1. DataTypes'
    BY <1>0, <1>1 DEF Play, DataTypes
  <2> QED
    BY <1>1, <2>1, Unmoved DEF Play, Types
<1>2. CASE Stop
  <2>1. DataTypes' /\ events' \in 0 .. MaxEvents
    BY <1>0, <1>2, RemoveTypes, WatchAssumption DEF Stop, BoundTypes
  <2>2. BoundTypes'
    BY <1>0, <1>2, <2>1 DEF Stop, BoundTypes
  <2> QED
    BY <1>2, <2>1, <2>2, Unmoved DEF Stop, Types
<1>3. CASE Moderate
  <2>1. DiscordTypes' /\ events' \in 0 .. MaxEvents
    BY <1>0, <1>3, FaultTypes DEF Moderate, DiscordTypes
  <2>2. BoundTypes'
    BY <1>0, <1>3, <2>1 DEF Moderate, BoundTypes
  <2> QED
    BY <1>3, <2>1, <2>2, Unmoved DEF Moderate, Types
<1> QED
  BY <1>1, <1>2, <1>3

LEMMA CrashTypes ==
    ASSUME Types, Crash
    PROVE  Types'
<1> USE Blank DEF database, memory, tasks, discord, bounds
<1>0. BoundTypes
  BY DEF Types
<1>1. events' \in 0 .. MaxEvents
  BY <1>0, FaultTypes DEF Crash
<1>2. BoundTypes'
  BY <1>0, <1>1 DEF Crash, BoundTypes
<1>3. MemoryTypes' /\ WorkerTypes' /\ CallTypes' /\ LinkTypes' /\ TaskTypes'
  BY DEF Crash, MemoryTypes, WorkerTypes, CallTypes, LinkTypes, TaskTypes
<1> QED
  BY <1>2, <1>3, Unmoved DEF Crash, Types

LEMMA InitTypes ==
    ASSUME Init
    PROVE  Types
<1> USE Blank
<1>1. DataTypes /\ DiscordTypes
  <2>1. CASE row = NoRow /\ lastRow = 0 /\ messages = {} /\ lastMsg = 0
    BY <2>1 DEF Init, DataTypes, DiscordTypes, Lives
  <2>2. CASE /\ row = [NoRow EXCEPT !.id = 1, !.msg = 1] /\ lastRow = 1
             /\ messages = {[id |-> 1, kind |-> "recruiting"]} /\ lastMsg = 1
    <3>1. row \in Row /\ row.id = 1 /\ 1 \in 0 .. MaxRows
      BY <2>2 DEF Row, Rows
    <3>2. [id |-> 1, kind |-> "recruiting"] \in Message
      BY DEF Message, Kinds, Lives
    <3> QED
      BY <2>2, <3>1, <3>2 DEF Init, DataTypes, DiscordTypes, Lives
  <2> QED
    BY <2>1, <2>2 DEF Init
<1>2. MemoryTypes /\ WorkerTypes /\ CallTypes /\ LinkTypes /\ TaskTypes
  BY DEF Init, MemoryTypes, WorkerTypes, CallTypes, LinkTypes, TaskTypes
<1>3. BoundTypes
  <2>1. MaxLinks \in Nat /\ MaxEvents \in Nat
    BY WatchAssumption
  <2>2. links = 0 /\ events = 0 /\ disturbed \in BOOLEAN
    BY DEF Init
  <2>3. links \in 0 .. MaxLinks /\ events \in 0 .. MaxEvents
    BY <2>1, <2>2
  <2> QED
    BY <2>2, <2>3 DEF BoundTypes
<1> QED
  BY <1>1, <1>2, <1>3 DEF Types

LEMMA TypesStep ==
    ASSUME Types, [Next]_vars
    PROVE  Types'
<1>1. CASE UNCHANGED vars
  BY <1>1, Unmoved DEF vars, database, memory, tasks, discord, bounds, Types
<1> QED
  BY <1>1, CallStepTypes, CallRaisesTypes, WorkerStepTypes, SyncStepTypes, LinkStepTypes, PostedTypes, WorldTypes, CrashTypes DEF Next

\* The watch of a table, its workers, calls and handlers keep their types: a
\* subscription gets its id within the bound, and whoever draws, stores or adopts
\* does so for one that was in the database.
THEOREM TypeCorrect == Safe => []TypeOK
BY InitTypes, TypesStep, TypesImply, PTL DEF Safe

-----------------------------------------------------------------------------
(* Who watches the table, and what is drawn after its end.                 *)

\* A worker that goes by a state of the table from before its end, or by its end.
Before(t) ==
    \/ t.pc \in {"invite", "invited", "turn"}
    \/ t.pc \in {"upsert", "reread", "apply"} /\ t.phase # "finished"
Ended(t) == t.pc \in {"gone", "store", "remove", "forget", "late remove"} \/ t.phase = "finished"

\* What a worker waits for while it has a card drawn.
Drawing(life) == CASE life = "recruiting" -> "invited" [] life = "playing" -> "turn" [] life = "finished" -> "store"

\* Before the end, and as long as it goes by an earlier state, a worker is the
\* registered one and runs alone.
Sole(w) == registered = w /\ \A v \in Workers : Running(v) => v = w

Watching ==
    /\ \A w \in Workers : Ended(worker[w]) => bga = "finished"
    /\ \A w \in Workers : Running(w) /\ (bga # "finished" \/ Before(worker[w])) => Sole(w)

\* A final card is drawn after the end, once no worker goes by an earlier state.
\* The handler of a link draws nothing unless the table was watched.
Finals == \E m \in messages : m.kind = "finished"
Closed ==
    /\ \A w \in Workers : call[w].pc # "idle" => worker[w].pc = Drawing(call[w].life)
    /\ call["link"].pc # "idle" => call["link"].life # "finished"
    /\ Finals => bga = "finished" /\ \A w \in Workers : ~Before(worker[w])
    /\ link.known \/ link.pc \in {"redraw", "drawing"} \/ call["link"].pc # "idle" => disturbed
    /\ \A m, n \in messages : m.id = n.id => m = n

\* A step of a worker: what it goes by next,
Moves(w, t) ==
    /\ worker' = [worker EXCEPT ![w] = t]
    /\ Ended(t) => bga = "finished"
    /\ Before(t) => Before(worker[w]) \/ bga # "finished"
    /\ Running(w) \/ t.pc = "idle"
\* and what it has drawn.
Draws(w, t) == UNCHANGED call \/ \E c \in CallRec : call' = [call EXCEPT ![w] = c] /\ t.pc = Drawing(c.life)

Fresh == {"read", "invited", "stream", "gone"}

LEMMA BecomesIs ==
    ASSUME NEW w \in Workers, NEW task \in WorkerRec, Becomes(w, task)
    PROVE  \E t \in WorkerRec : /\ worker' = [worker EXCEPT ![w] = t]
                                /\ t.pc = task.pc
                                /\ t.phase = task.phase \/ (t.pc \in Fresh /\ t.phase = "recruiting")
<1>1. CASE task.pc \in Fresh
  <2>1. [NoWorker EXCEPT !.pc = task.pc] \in WorkerRec /\ [NoWorker EXCEPT !.pc = task.pc].pc = task.pc
        /\ [NoWorker EXCEPT !.pc = task.pc].phase = "recruiting"
    BY Blank DEF WorkerRec
  <2> QED
    BY <1>1, <2>1 DEF Becomes, Fresh
<1>2. CASE task.pc \notin Fresh
  BY <1>2 DEF Becomes, Fresh
<1> QED
  BY <1>1, <1>2

LEMMA GoesIs ==
    ASSUME WorkerTypes, NEW w \in Workers, NEW pc \in WorkerPcs, WorkerGoes(w, pc)
    PROVE  \E t \in WorkerRec : /\ worker' = [worker EXCEPT ![w] = t]
                                /\ t.pc = pc
                                /\ t.phase = worker[w].phase \/ (pc \in Fresh /\ t.phase = "recruiting")
<1> DEFINE task == [worker[w] EXCEPT !.pc = pc]
<1>1. task \in WorkerRec /\ task.pc = pc /\ task.phase = worker[w].phase
  BY DEF WorkerTypes, WorkerRec
<1> HIDE DEF task
<1>2. Becomes(w, task)
  BY DEF WorkerGoes, task
<1> QED
  BY <1>1, <1>2, BecomesIs

\* A worker that goes on draws nothing, and has seen the end only after it.
LEMMA GoesMoves ==
    ASSUME WorkerTypes, Watching, NEW w \in Workers, Running(w), NEW pc \in WorkerPcs, WorkerGoes(w, pc),
           pc \in {"gone", "remove", "forget"} => bga = "finished",
           pc = "invited" => worker[w].pc = "invite",
           pc = "reread" => worker[w].pc = "upsert",
           pc \in {"read", "invited", "reread", "stream", "gone", "remove", "forget"},
           UNCHANGED call
    PROVE  \E t \in WorkerRec : Moves(w, t) /\ Draws(w, t)
<1>1. PICK t \in WorkerRec : /\ worker' = [worker EXCEPT ![w] = t]
                             /\ t.pc = pc
                             /\ t.phase = worker[w].phase \/ (pc \in Fresh /\ t.phase = "recruiting")
  BY GoesIs
<1>2. Ended(t) => bga = "finished"
  BY <1>1 DEF Ended, Watching
<1>3. Before(t) => Before(worker[w]) \/ bga # "finished"
  BY <1>1 DEF Before, Ended, Watching, Fresh
<1> QED
  BY <1>1, <1>2, <1>3 DEF Moves, Draws

LEMMA EndsMoves ==
    ASSUME NEW w \in Workers, WorkerEnds(w), UNCHANGED call
    PROVE  \E t \in WorkerRec : Moves(w, t) /\ Draws(w, t)
<1>1. Moves(w, NoWorker)
  BY Blank DEF WorkerEnds, Moves, Ended, Before
<1> QED
  BY <1>1, Blank DEF Draws

LEMMA FinaliseMoves ==
    ASSUME Types, NEW w \in Workers, Running(w), NEW sub \in Row, Numbered(sub), NEW from \in Sources,
           Finalise(w, sub, from), bga = "finished"
    PROVE  \E t \in WorkerRec : Moves(w, t) /\ Draws(w, t)
<1> DEFINE task == [NoWorker EXCEPT !.pc = "store", !.sub.id = sub.id, !.from = from]
           c == [pc |-> "lock", sub |-> sub, life |-> "finished", msg |-> 0]
<1>1. NoWorker.sub \in Row /\ [NoWorker.sub EXCEPT !.id = sub.id] \in Row
  BY Blank DEF WorkerRec, Row, Numbered
<1>2. task \in WorkerRec /\ task.pc = "store" /\ task.phase = "recruiting"
  BY <1>1, Blank DEF WorkerRec, WorkerPcs
<1>3. c \in CallRec /\ c.life = "finished"
  BY DEF CallRec, CallPcs, Lives
<1>4. Becomes(w, task) /\ call' = [call EXCEPT ![w] = c]
  BY DEF Finalise, Publish
<1> HIDE DEF task, c
<1>5. PICK t \in WorkerRec : /\ worker' = [worker EXCEPT ![w] = t]
                             /\ t.pc = "store" /\ t.phase = "recruiting"
  BY <1>2, <1>4, BecomesIs
<1>6. Moves(w, t)
  BY <1>5 DEF Moves, Ended, Before
<1>7. Draws(w, t)
  BY <1>3, <1>4, <1>5 DEF Draws, Drawing
<1> QED
  BY <1>6, <1>7

LEMMA FollowMoves ==
    ASSUME Types, Watching, NEW w \in Workers, Running(w), NEW sub \in Row, Numbered(sub), NEW phase, Follow(w, sub, phase),
           phase = "finished" => bga = "finished",
           phase # "finished" => Before(worker[w]) \/ bga # "finished"
    PROVE  \E t \in WorkerRec : Moves(w, t) /\ Draws(w, t)
<1>1. CASE phase = "recruiting" /\ Becomes(w, [NoWorker EXCEPT !.pc = "invite", !.sub = sub]) /\ UNCHANGED call
  <2> DEFINE task == [NoWorker EXCEPT !.pc = "invite", !.sub = sub]
  <2>1. task \in WorkerRec /\ task.pc = "invite" /\ task.phase = "recruiting"
    BY Blank DEF WorkerRec, WorkerPcs
  <2> HIDE DEF task
  <2>2. Becomes(w, task)
    BY <1>1 DEF task
  <2>3. PICK t \in WorkerRec : worker' = [worker EXCEPT ![w] = t] /\ t.pc = "invite" /\ t.phase = "recruiting"
    BY <2>1, <2>2, BecomesIs
  <2> QED
    BY <1>1, <2>3 DEF Moves, Draws, Ended, Before
<1>2. CASE phase = "playing" /\ WorkerGoes(w, "stream") /\ UNCHANGED call
  BY <1>2, GoesMoves DEF Types, WorkerPcs
<1>3. CASE phase = "finished" /\ Finalise(w, sub, "fetch")
  BY <1>3, Blank, FinaliseMoves
<1> QED
  BY <1>1, <1>2, <1>3 DEF Follow

LEMMA StoreMoves ==
    ASSUME Types, Watching, NEW w \in Workers, Running(w), NEW life, NEW next \in {"invited", "stream", "remove"},
           Store(w, life, next), UNCHANGED call,
           next = "remove" => bga = "finished", next = "invited" => worker[w].pc = "invite"
    PROVE  \E t \in WorkerRec : Moves(w, t) /\ Draws(w, t)
<1>1. CASE WorkerGoes(w, "read")
  BY <1>1, GoesMoves DEF Types, WorkerPcs
<1>2. CASE WorkerGoes(w, next)
  BY <1>2, GoesMoves DEF Types, WorkerPcs
<1>3. CASE WorkerEnds(w)
  BY <1>3, EndsMoves
<1> QED
  BY <1>1, <1>2, <1>3 DEF Store, WorkerRaises

LEMMA WorkerMoves ==
    ASSUME Types, Watching, Closed, NEW w \in Workers, WorkerStep(w)
    PROVE  /\ \E t \in WorkerRec : Moves(w, t) /\ Draws(w, t)
           /\ call[w].pc = "idle"
           /\ UNCHANGED <<bga, messages, link, disturbed>>
           /\ UNCHANGED registered \/ (bga = "finished" /\ Running(w) /\ ~Before(worker[w]))
<1> USE DEF database, memory, tasks, discord, bounds
<1>0. /\ WorkerTypes /\ worker[w] \in WorkerRec /\ TaskHolds(worker[w]) /\ worker[w].sub \in Row
      /\ row \in Row /\ (row # NoRow => Numbered(row)) /\ bga \in Lives
      /\ "read" \in WorkerPcs /\ "stream" \in WorkerPcs /\ "gone" \in WorkerPcs /\ "reread" \in WorkerPcs
      /\ "forget" \in WorkerPcs
  BY RowNumbered DEF Types, WorkerTypes, WorkerRec, DataTypes, WorkerPcs
<1>1. UNCHANGED <<bga, messages, link, disturbed>>
  BY DEF WorkerStep, WorkerRuns, WorkerReads, WorkerFetches, WorkerUpserts, WorkerRereads, WorkerInvites, WorkerInvited, WorkerHears,
         WorkerApplies, WorkerTurns, WorkerGivesUp, WorkerStores, WorkerRemoves, WorkerForgets, LateCall
<1>2. call[w].pc = "idle"
  <2>1. call[w].pc # "idle" => worker[w].pc \in {"invited", "turn", "store"}
    BY Blank DEF Closed, Drawing, Types, CallTypes, CallRec, Lives
  <2> QED
    BY <2>1 DEF WorkerStep, WorkerRuns, WorkerReads, WorkerFetches, WorkerUpserts, WorkerRereads, WorkerInvites, WorkerInvited, WorkerHears,
         WorkerApplies, WorkerTurns, WorkerGivesUp, WorkerStores, WorkerRemoves, WorkerForgets, LateCall
<1>3. UNCHANGED registered \/ (bga = "finished" /\ Running(w) /\ ~Before(worker[w]))
  <2>1. CASE WorkerGivesUp(w) \/ WorkerForgets(w)
    BY <2>1 DEF WorkerGivesUp, WorkerForgets, Watching, Ended, Before, Running, Late
  <2> QED
    BY <2>1 DEF WorkerStep, WorkerRuns, WorkerReads, WorkerFetches, WorkerUpserts, WorkerRereads, WorkerInvites, WorkerInvited, WorkerHears,
         WorkerApplies, WorkerTurns, WorkerStores, WorkerRemoves, LateCall
<1>4. worker[w].pc \in {"gone", "store", "remove", "forget"} \/ worker[w].phase = "finished" => bga = "finished"
  BY DEF Watching, Ended
<1>5. ~LateCall(w) => Running(w)
  BY DEF WorkerStep, WorkerRuns, WorkerReads, WorkerFetches, WorkerUpserts, WorkerRereads, WorkerInvites, WorkerInvited, WorkerHears,
         WorkerApplies, WorkerTurns, WorkerGivesUp, WorkerStores, WorkerRemoves, WorkerForgets, Running, Late
<1> SUFFICES \E t \in WorkerRec : Moves(w, t) /\ Draws(w, t)
  BY <1>1, <1>2, <1>3
<1>6. CASE WorkerReads(w)
  <2>1. Running(w)
    BY <1>6 DEF WorkerReads, Running, Late
  <2>2. CASE worker' = [worker EXCEPT ![w].pc = "fetch", ![w].sub = row]
    <3> DEFINE t == [worker[w] EXCEPT !.pc = "fetch", !.sub = row]
    <3>1. t \in WorkerRec /\ t.pc = "fetch" /\ t.phase = worker[w].phase /\ worker' = [worker EXCEPT ![w] = t]
      BY <1>0, <2>2 DEF WorkerRec, WorkerPcs, WorkerTypes
    <3> HIDE DEF t
    <3>2. Moves(w, t) /\ Draws(w, t)
      BY <1>4, <1>6, <2>1, <3>1 DEF WorkerReads, Moves, Draws, Ended, Before
    <3> QED
      BY <3>1, <3>2
  <2> QED
    BY <1>6, <2>2, EndsMoves DEF WorkerReads
<1>7. CASE WorkerFetches(w)
  <2>1. Running(w)
    BY <1>7 DEF WorkerFetches, Running, Late
  <2>2. CASE Follow(w, worker[w].sub, bga)
    BY <1>0, <1>7, <2>1, <2>2, FollowMoves DEF WorkerFetches, TaskHolds
  <2>3. CASE Becomes(w, [NoWorker EXCEPT !.pc = "upsert", !.phase = bga]) /\ UNCHANGED call
    <3> DEFINE task == [NoWorker EXCEPT !.pc = "upsert", !.phase = bga]
    <3>1. task \in WorkerRec /\ task.pc = "upsert" /\ task.phase = bga
      BY <1>0, Blank DEF WorkerRec, WorkerPcs
    <3> HIDE DEF task
    <3>2. Becomes(w, task)
      BY <2>3 DEF task
    <3>3. PICK t \in WorkerRec : worker' = [worker EXCEPT ![w] = t] /\ t.pc = "upsert" /\ t.phase = bga
      BY <3>1, <3>2, BecomesIs DEF Fresh
    <3> QED
      BY <2>1, <2>3, <3>3 DEF Moves, Draws, Ended, Before
  <2>4. CASE WorkerGoes(w, "read") /\ UNCHANGED call
    BY <1>0, <2>1, <2>4, GoesMoves
  <2> QED
    BY <1>7, <2>2, <2>3, <2>4 DEF WorkerFetches
<1>8. CASE WorkerUpserts(w)
  BY <1>0, <1>5, <1>8, GoesMoves DEF WorkerUpserts, LateCall
<1>9. CASE WorkerRereads(w)
  <2>1. Running(w)
    BY <1>9 DEF WorkerRereads, Running, Late
  <2>2. CASE Follow(w, row, worker[w].phase) /\ row # NoRow
    <3>1. worker[w].phase # "finished" => Before(worker[w])
      BY <1>9 DEF WorkerRereads, Before
    <3> QED
      BY <1>0, <1>4, <2>1, <2>2, <3>1, FollowMoves
  <2>3. CASE WorkerGoes(w, "read") /\ UNCHANGED call
    BY <1>0, <2>1, <2>3, GoesMoves
  <2> QED
    BY <1>9, <2>2, <2>3 DEF WorkerRereads
<1>10. CASE WorkerInvites(w)
  <2>1. Running(w) /\ worker[w].pc = "invite"
    BY <1>10 DEF WorkerInvites, Running, Late
  <2>2. CASE WorkerGoes(w, "read") /\ UNCHANGED call
    BY <1>0, <2>1, <2>2, GoesMoves
  <2>3. CASE WorkerGoes(w, "invited") /\ Publish(w, worker[w].sub, "recruiting")
    <3>0. "invited" \in WorkerPcs
      BY DEF WorkerPcs
    <3>1. PICK t \in WorkerRec : worker' = [worker EXCEPT ![w] = t] /\ t.pc = "invited"
                                 /\ (t.phase = worker[w].phase \/ t.phase = "recruiting")
      BY <1>0, <2>3, <3>0, GoesIs
    <3> DEFINE c == [pc |-> "lock", sub |-> worker[w].sub, life |-> "recruiting", msg |-> 0]
    <3>2. c \in CallRec /\ c.life = "recruiting" /\ call' = [call EXCEPT ![w] = c]
      BY <1>0, <2>3 DEF CallRec, CallPcs, Lives, Publish
    <3> HIDE DEF c
    <3>3. Moves(w, t)
      BY <1>4, <2>1, <3>1 DEF Moves, Ended, Before
    <3>4. Draws(w, t)
      BY <3>1, <3>2 DEF Draws, Drawing
    <3> QED
      BY <3>1, <3>3, <3>4
  <2>4. CASE WorkerEnds(w) /\ UNCHANGED call
    BY <2>4, EndsMoves
  <2> QED
    BY <1>10, <2>2, <2>3, <2>4 DEF WorkerInvites, Store, WorkerRaises
<1>11. CASE WorkerInvited(w)
  BY <1>0, <1>11, <1>5, GoesMoves DEF WorkerInvited, LateCall
<1>12. CASE WorkerHears(w)
  <2>1. Running(w)
    BY <1>12 DEF WorkerHears, Running, Late
  <2>2. CASE worker' = [worker EXCEPT ![w].pc = "apply", ![w].phase = bga]
    <3> DEFINE t == [worker[w] EXCEPT !.pc = "apply", !.phase = bga]
    <3>1. t \in WorkerRec /\ t.pc = "apply" /\ t.phase = bga /\ worker' = [worker EXCEPT ![w] = t]
      BY <1>0, <2>2 DEF WorkerRec, WorkerPcs, WorkerTypes
    <3> HIDE DEF t
    <3>2. Moves(w, t) /\ Draws(w, t)
      BY <1>12, <2>1, <3>1 DEF WorkerHears, Moves, Draws, Ended, Before
    <3> QED
      BY <3>1, <3>2
  <2>3. CASE WorkerGoes(w, "read") \/ (WorkerGoes(w, "gone") /\ bga = "finished")
    BY <1>0, <1>12, <2>1, <2>3, GoesMoves DEF WorkerHears
  <2> QED
    BY <1>12, <2>2, <2>3 DEF WorkerHears
<1>13. CASE WorkerApplies(w)
  <2>1. Running(w) /\ worker[w].pc = "apply"
    BY <1>13 DEF WorkerApplies, Running, Late
  <2>2. CASE WorkerGoes(w, "stream") /\ UNCHANGED call
    BY <1>0, <2>1, <2>2, GoesMoves
  <2>3. CASE row # NoRow /\ worker[w].phase = "finished" /\ Finalise(w, row, "state")
    BY <1>0, <1>4, <2>1, <2>3, Blank, FinaliseMoves
  <2>4. CASE row # NoRow /\ worker[w].phase = "playing" /\ worker' = [worker EXCEPT ![w].pc = "turn", ![w].sub = row]
             /\ Publish(w, row, "playing")
    <3> DEFINE t == [worker[w] EXCEPT !.pc = "turn", !.sub = row]
               c == [pc |-> "lock", sub |-> row, life |-> "playing", msg |-> 0]
    <3>1. t \in WorkerRec /\ t.pc = "turn" /\ t.phase = "playing" /\ worker' = [worker EXCEPT ![w] = t]
      BY <1>0, <2>4 DEF WorkerRec, WorkerPcs, WorkerTypes
    <3>2. c \in CallRec /\ c.life = "playing" /\ call' = [call EXCEPT ![w] = c]
      BY <1>0, <2>4 DEF CallRec, CallPcs, Lives, Publish
    <3> HIDE DEF t, c
    <3>3. Moves(w, t)
      BY <2>1, <2>4, <3>1 DEF Moves, Ended, Before
    <3>4. Draws(w, t)
      BY <3>1, <3>2 DEF Draws, Drawing
    <3> QED
      BY <3>1, <3>3, <3>4
  <2> QED
    BY <1>13, <2>2, <2>3, <2>4 DEF WorkerApplies
<1>14. CASE WorkerTurns(w)
  BY <1>5, <1>14, StoreMoves DEF WorkerTurns, LateCall
<1>15. CASE WorkerGivesUp(w)
  <2>1. Running(w) /\ bga = "finished"
    BY <1>4, <1>15 DEF WorkerGivesUp, Running, Late
  <2> QED
    BY <1>0, <1>15, <2>1, Blank, FinaliseMoves, EndsMoves DEF WorkerGivesUp
<1>16. CASE WorkerStores(w)
  BY <1>4, <1>5, <1>16, StoreMoves DEF WorkerStores, LateCall
<1>17. CASE WorkerRemoves(w)
  BY <1>0, <1>4, <1>5, <1>17, GoesMoves DEF WorkerRemoves, LateCall
<1>18. CASE WorkerForgets(w)
  BY <1>0, <1>4, <1>5, <1>18, GoesMoves, EndsMoves DEF WorkerForgets, LateCall
<1>19. CASE LateCall(w)
  BY <1>19, EndsMoves DEF LateCall
<1> QED
  BY <1>6, <1>7, <1>8, <1>9, <1>10, <1>11, <1>12, <1>13, <1>14, <1>15, <1>16, <1>17, <1>18, <1>19 DEF WorkerStep, WorkerRuns

\* Who goes by an earlier state runs.
LEMMA BeforeRuns ==
    ASSUME NEW w, Before(worker[w])
    PROVE  Running(w)
BY DEF Before, Running, Late

\* What is drawn is a note, or the card of a call.
Drawn ==
    \/ messages' \subseteq messages
    \/ \E id, kind : /\ messages' = Showing(id, kind)
                     /\ kind = "note" \/ \E a \in Callers : call[a].pc # "idle" /\ kind = call[a].life

LEMMA FinalsAreLast ==
    ASSUME Types, Watching, Closed, Drawn
    PROVE  /\ Finals' => bga = "finished" /\ \A w \in Workers : ~Before(worker[w])
           /\ \A m, n \in messages' : m.id = n.id => m = n
<1>1. ASSUME Finals PROVE bga = "finished" /\ \A w \in Workers : ~Before(worker[w])
  BY <1>1 DEF Closed
<1>2. ASSUME NEW a \in Callers, call[a].pc # "idle", call[a].life = "finished"
      PROVE  bga = "finished" /\ \A w \in Workers : ~Before(worker[w])
  <2>1. a \in Workers /\ worker[a].pc = "store"
    BY <1>2, Blank DEF Closed, Callers, Drawing
  <2>2. bga = "finished" /\ ~Before(worker[a]) /\ Running(a)
    BY <2>1 DEF Watching, Ended, Before, Running, Late
  <2>3. ASSUME NEW w \in Workers, Before(worker[w]) PROVE FALSE
    BY <2>1, <2>2, <2>3, BeforeRuns DEF Watching, Sole
  <2> QED
    BY <2>2, <2>3
<1>3. ASSUME Finals' PROVE bga = "finished" /\ \A w \in Workers : ~Before(worker[w])
  <2>1. PICK m \in messages' : m.kind = "finished"
    BY <1>3 DEF Finals
  <2>2. CASE m \in messages
    BY <1>1, <2>1, <2>2 DEF Finals
  <2>3. CASE m \notin messages
    <3>1. PICK id, kind : /\ messages' = Showing(id, kind)
                          /\ kind = "note" \/ \E a \in Callers : call[a].pc # "idle" /\ kind = call[a].life
      BY <2>3 DEF Drawn
    <3>2. kind = "finished"
      BY <2>1, <2>3, <3>1 DEF Showing
    <3> QED
      BY <1>2, <3>1, <3>2
  <2> QED
    BY <2>2, <2>3
<1>4. \A m, n \in messages' : m.id = n.id => m = n
  BY DEF Drawn, Closed, Showing
<1> QED
  BY <1>3, <1>4

\* The end of the table stays its end.
LEMMA FinalsStay ==
    ASSUME Types, Watching, Closed, Drawn, bga = "finished" => bga' = "finished",
           \A w \in Workers : Before(worker'[w]) => Before(worker[w]) \/ bga # "finished"
    PROVE  /\ Finals' => bga' = "finished" /\ \A w \in Workers : ~Before(worker'[w])
           /\ \A m, n \in messages' : m.id = n.id => m = n
BY FinalsAreLast

LEMMA WorkerWatching ==
    ASSUME Types, Watching, Closed, NEW w \in Workers, WorkerStep(w)
    PROVE  Watching' /\ Closed'
<1>1. PICK t \in WorkerRec : Moves(w, t) /\ Draws(w, t)
  BY WorkerMoves
<1>2. /\ call[w].pc = "idle"
      /\ UNCHANGED <<bga, messages, link, disturbed>>
      /\ UNCHANGED registered \/ (bga = "finished" /\ Running(w) /\ ~Before(worker[w]))
  BY WorkerMoves
<1>3. worker'[w] = t /\ \A v \in Workers : v # w => worker'[v] = worker[v]
  BY <1>1 DEF Moves, Types, WorkerTypes
<1>4. \A v \in Workers : Running(v)' => Running(v)
  BY <1>1, <1>3 DEF Moves, Running
<1>5. \A v \in Workers : Before(worker'[v]) => Before(worker[v]) \/ bga # "finished"
  BY <1>1, <1>3 DEF Moves
<1>6. \A v \in Workers : Ended(worker'[v]) => bga' = "finished"
  BY <1>1, <1>2, <1>3 DEF Moves, Watching
<1>7. ASSUME NEW v \in Workers, Running(v)', bga' # "finished" \/ Before(worker'[v])
      PROVE  Sole(v)'
  <2>1. Running(v) /\ (bga # "finished" \/ Before(worker[v]))
    BY <1>2, <1>4, <1>5, <1>7
  <2>2. Sole(v)
    BY <2>1 DEF Watching
  <2>3. UNCHANGED registered
    BY <1>2, <2>1, <2>2 DEF Sole
  <2> QED
    BY <1>4, <2>2, <2>3 DEF Sole
<1>8. Watching'
  BY <1>6, <1>7 DEF Watching
<1>9. \A a \in Callers : a # w => call'[a] = call[a]
  BY <1>1 DEF Draws, Types, CallTypes
<1>10. ASSUME NEW v \in Workers, call'[v].pc # "idle" PROVE worker'[v].pc = Drawing(call'[v].life)
  <2>1. CASE v # w
    BY <1>3, <1>9, <1>10, <2>1, Blank DEF Closed
  <2>2. CASE v = w
    BY <1>1, <1>2, <1>3, <1>10, <2>2, Blank DEF Draws, Types, CallTypes
  <2> QED
    BY <2>1, <2>2
<1>11. call'["link"] = call["link"]
  BY <1>9, Blank
<1>12. /\ Finals' => bga' = "finished" /\ \A v \in Workers : ~Before(worker'[v])
       /\ \A m, n \in messages' : m.id = n.id => m = n
  BY <1>2, <1>5, FinalsStay DEF Drawn
<1>13. Closed'
  BY <1>2, <1>10, <1>11, <1>12 DEF Closed
<1> QED
  BY <1>8, <1>13

\* A call draws what it was called for.
LEMMA CallGoesOn ==
    ASSUME Types, NEW a \in Callers, CallStep(a)
    PROVE  /\ \A b \in Callers : b # a => call'[b] = call[b]
           /\ call[a].pc # "idle" /\ (call'[a].pc # "idle" => call'[a].life = call[a].life)
           /\ Drawn
           /\ UNCHANGED <<bga, worker, registered, sync, link, disturbed>>
<1>0. call \in [Callers -> CallRec] /\ call[a] \in CallRec
  BY DEF Types, CallTypes
<1>1. UNCHANGED <<bga, worker, registered, sync, link, disturbed>>
  BY DEF CallStep, CallChecks, CallFetches, CallUntracks, CallEdits, CallSends, CallSaves, tasks, bounds
<1>2. call[a].pc # "idle"
  BY DEF CallStep, CallChecks, CallFetches, CallUntracks, CallEdits, CallSends, CallSaves
<1>3. \E c \in CallRec : call' = [call EXCEPT ![a] = c] /\ (c.pc = "idle" \/ c.life = call[a].life)
  <2>1. CASE CallReturns(a)
    BY <2>1, Blank DEF CallReturns
  <2>2. ASSUME NEW pc \in CallPcs, CallGoes(a, pc)
        PROVE  \E c \in CallRec : call' = [call EXCEPT ![a] = c] /\ (c.pc = "idle" \/ c.life = call[a].life)
    <3>1. [call[a] EXCEPT !.pc = pc] \in CallRec /\ [call[a] EXCEPT !.pc = pc].life = call[a].life
      BY <1>0 DEF CallRec
    <3> QED
      BY <2>2, <3>1 DEF CallGoes
  <2>3. ASSUME NEW pc \in CallPcs, NEW msg \in Nat, call' = [call EXCEPT ![a].pc = pc, ![a].msg = msg]
        PROVE  \E c \in CallRec : call' = [call EXCEPT ![a] = c] /\ (c.pc = "idle" \/ c.life = call[a].life)
    <3> DEFINE c == [call[a] EXCEPT !.pc = pc, !.msg = msg]
    <3>1. c \in CallRec /\ c.life = call[a].life
      BY <1>0, <2>3 DEF CallRec
    <3>2. call' = [call EXCEPT ![a] = c]
      BY <1>0, <2>3
    <3> QED
      BY <3>1, <3>2
  <2>4. CASE CallChecks(a)
    <3>1. active[call[a].sub.id].msg \in Nat
      BY <1>2 DEF Types, CallTypes, MemoryTypes, CallHolds, Numbered, Card
    <3>2. {"edit", "fetch", "send"} \subseteq CallPcs
      BY DEF CallPcs
    <3> QED
      BY <2>1, <2>3, <2>4, <3>1, <3>2 DEF CallChecks
  <2>5. CASE CallFetches(a)
    <3>1. call[a].sub.msg \in Nat /\ {"edit", "untrack", "send"} \subseteq CallPcs
      BY <1>0 DEF CallRec, Row, CallPcs
    <3> QED
      BY <2>2, <2>3, <2>5, <3>1 DEF CallFetches
  <2>6. CASE CallUntracks(a)
    BY <2>2, <2>6 DEF CallUntracks, CallPcs
  <2>7. CASE CallEdits(a)
    BY <2>1, <2>2, <2>7 DEF CallEdits, CallPcs
  <2>8. CASE CallSends(a)
    <3>1. lastMsg + 1 \in Nat /\ "save" \in CallPcs
      BY DEF Types, DiscordTypes, CallPcs
    <3> QED
      BY <2>1, <2>3, <2>8, <3>1 DEF CallSends
  <2>9. CASE CallSaves(a)
    BY <2>1, <2>9 DEF CallSaves
  <2> QED
    BY <2>4, <2>5, <2>6, <2>7, <2>8, <2>9 DEF CallStep
<1>4. Drawn
  <2>1. CASE UNCHANGED messages
    BY <2>1 DEF Drawn
  <2>2. CASE messages' = Showing(call[a].msg, call[a].life)
    BY <1>2, <2>2 DEF Drawn
  <2>3. CASE messages' = Showing(lastMsg + 1, call[a].life)
    BY <1>2, <2>3 DEF Drawn
  <2> QED
    BY <2>1, <2>2, <2>3 DEF CallStep, CallChecks, CallFetches, CallUntracks, CallEdits, CallSends, CallSaves, discord
<1> QED
  BY <1>0, <1>1, <1>2, <1>3, <1>4, Blank

LEMMA CallWatching ==
    ASSUME Types, Watching, Closed, NEW a \in Callers, CallStep(a)
    PROVE  Watching' /\ Closed'
<1>1. /\ \A b \in Callers : b # a => call'[b] = call[b]
      /\ call[a].pc # "idle" /\ (call'[a].pc # "idle" => call'[a].life = call[a].life)
      /\ Drawn
      /\ UNCHANGED <<bga, worker, registered, sync, link, disturbed>>
  BY CallGoesOn
<1>2. Watching'
  BY <1>1 DEF Watching, Sole, Running
<1>3. /\ Finals' => bga' = "finished" /\ \A v \in Workers : ~Before(worker'[v])
      /\ \A m, n \in messages' : m.id = n.id => m = n
  BY <1>1, FinalsStay
<1>4. \A b \in Callers : call'[b].pc # "idle" => call[b].pc # "idle" /\ call'[b].life = call[b].life
  BY <1>1
<1>5. Closed'
  BY <1>1, <1>3, <1>4, Blank DEF Closed
<1> QED
  BY <1>2, <1>5

\* A call that Discord raises in is over, and so is what its caller went by.
LEMMA RaisedGoes ==
    ASSUME Types, NEW a \in Callers, CallRaises(a)
    PROVE  /\ call[a].pc # "idle" /\ call'[a].pc = "idle" /\ \A b \in Callers : b # a => call'[b] = call[b]
           /\ \A w \in Workers : w # a => worker'[w] = worker[w]
           /\ a \in Workers => worker'[a].pc \in {"idle", "read"} /\ worker'[a].phase = "recruiting" /\ UNCHANGED link
           /\ a = "link" => link' = NoLink
           /\ UNCHANGED <<bga, registered, sync, messages, disturbed>>
<1>0. /\ worker \in [Workers -> WorkerRec] /\ call \in [Callers -> CallRec]
  BY DEF Types, WorkerTypes, CallTypes
<1>1. /\ call[a].pc # "idle" /\ call' = [call EXCEPT ![a] = NoCall]
      /\ UNCHANGED <<bga, registered, sync, messages, disturbed>>
  BY DEF CallRaises, CallReturns, discord
<1>2. CASE a \in Workers /\ WorkerRaises(a) /\ UNCHANGED link
  <2>1. \E t \in WorkerRec : worker' = [worker EXCEPT ![a] = t] /\ t.pc \in {"idle", "read"} /\ t.phase = "recruiting"
    <3>1. CASE WorkerEnds(a)
      BY <3>1, Blank DEF WorkerEnds
    <3>2. CASE WorkerGoes(a, "read")
      <4>1. [NoWorker EXCEPT !.pc = "read"] \in WorkerRec /\ [NoWorker EXCEPT !.pc = "read"].pc = "read"
            /\ [NoWorker EXCEPT !.pc = "read"].phase = "recruiting"
        BY Blank DEF WorkerRec, WorkerPcs
      <4>2. [worker[a] EXCEPT !.pc = "read"].pc = "read"
        BY <1>0, <1>2 DEF WorkerRec
      <4>3. worker' = [worker EXCEPT ![a] = [NoWorker EXCEPT !.pc = "read"]]
        BY <3>2, <4>2 DEF WorkerGoes, Becomes
      <4> QED
        BY <4>1, <4>3
    <3> QED
      BY <1>2, <3>1, <3>2 DEF WorkerRaises
  <2> QED
    BY <1>0, <1>1, <1>2, <2>1, Blank
<1>3. CASE a = "link" /\ link' = NoLink /\ UNCHANGED worker
  BY <1>0, <1>1, <1>3, Blank
<1> QED
  BY <1>2, <1>3 DEF CallRaises, CallerRaises

LEMMA RaisedWatching ==
    ASSUME Types, Watching, Closed, NEW a \in Callers, CallRaises(a)
    PROVE  Watching' /\ Closed'
<1>1. /\ call[a].pc # "idle" /\ call'[a].pc = "idle" /\ \A b \in Callers : b # a => call'[b] = call[b]
      /\ \A w \in Workers : w # a => worker'[w] = worker[w]
      /\ a \in Workers => worker'[a].pc \in {"idle", "read"} /\ worker'[a].phase = "recruiting" /\ UNCHANGED link
      /\ a = "link" => link' = NoLink
      /\ UNCHANGED <<bga, registered, sync, messages, disturbed>>
  BY RaisedGoes
<1>2. a \in Workers => worker[a].pc \in {"invited", "turn", "store"}
  BY <1>1, Blank DEF Closed, Drawing, Types, CallTypes, CallRec, Lives
<1>3. \A w \in Workers : Running(w)' => Running(w)
  BY <1>1, <1>2 DEF Running, Late
<1>4. \A w \in Workers : (Before(worker'[w]) => Before(worker[w])) /\ (Ended(worker'[w]) => Ended(worker[w]))
  BY <1>1 DEF Before, Ended
<1>5. Watching'
  BY <1>1, <1>3, <1>4 DEF Watching, Sole
<1>6. /\ Finals' => bga' = "finished" /\ \A w \in Workers : ~Before(worker'[w])
      /\ \A m, n \in messages' : m.id = n.id => m = n
  BY <1>1, <1>4, FinalsStay DEF Drawn
<1>7. \A w \in Workers : call'[w].pc # "idle" => worker'[w].pc = Drawing(call'[w].life)
  BY <1>1, Blank DEF Closed
<1>8. call'["link"].pc # "idle" => call'["link"] = call["link"]
  BY <1>1, Blank
<1>9. link'.known \/ link'.pc \in {"redraw", "drawing"} => link.known \/ link.pc \in {"redraw", "drawing"}
  BY <1>1, Blank DEF Callers
<1>10. Closed'
  BY <1>1, <1>6, <1>7, <1>8, <1>9 DEF Closed
<1> QED
  BY <1>5, <1>10

LEMMA SupplyWatching ==
    ASSUME Types, Watching, Closed, NEW s \in Syncs, NEW watched \in BOOLEAN, Supply(s, watched), UNCHANGED <<bga, disturbed>>
    PROVE  Watching' /\ Closed'
<1>0. /\ worker \in [Workers -> WorkerRec] /\ call \in [Callers -> CallRec] /\ registered \in Workers \cup {"none"}
  BY DEF Types, WorkerTypes, CallTypes, TaskTypes
<1>4. link'.known \/ link'.pc \in {"redraw", "drawing"} => link.known \/ link.pc \in {"redraw", "drawing"}
  BY Blank DEF Supply
<1>1. CASE registered # "none" /\ Cancel(registered) /\ registered' = "none"
  <2>1. PICK r \in Workers : r = registered /\ r \in Callers /\ r # "link"
    BY <1>0, <1>1, Blank
  <2>2. Cancel(r) /\ r = registered
    BY <1>1, <2>1
  <2>3. PICK t \in WorkerRec :
            /\ worker' = [worker EXCEPT ![r] = t]
            /\ t.pc \in {"idle", "late upsert", "late remove"}
            /\ Ended(t) => Ended(worker[r])
    <3>1. CASE WorkerEnds(r)
      BY <3>1, Blank DEF WorkerEnds, Ended
    <3>2. ASSUME NEW pc \in {"upsert", "remove"}, NEW late, late = (IF pc = "upsert" THEN "late upsert" ELSE "late remove"),
                 worker[r].pc = pc, worker' = [worker EXCEPT ![r].pc = late]
          PROVE  \E t \in WorkerRec : /\ worker' = [worker EXCEPT ![r] = t]
                                      /\ t.pc \in {"idle", "late upsert", "late remove"}
                                      /\ Ended(t) => Ended(worker[r])
      <4>1. late \in WorkerPcs /\ late \in {"late upsert", "late remove"}
        BY <3>2 DEF WorkerPcs
      <4>2. [worker[r] EXCEPT !.pc = late] \in WorkerRec /\ [worker[r] EXCEPT !.pc = late].pc = late
            /\ [worker[r] EXCEPT !.pc = late].phase = worker[r].phase
        BY <1>0, <2>1, <4>1 DEF WorkerRec
      <4> QED
        BY <3>2, <4>1, <4>2 DEF Ended
    <3> QED
      BY <2>2, <3>1, <3>2 DEF Cancel
  <2>4. worker'[r] = t /\ \A v \in Workers : v # r => worker'[v] = worker[v]
    BY <1>0, <2>1, <2>3
  <2>5. ~Running(r)' /\ ~Before(worker'[r])
    BY <2>3, <2>4 DEF Running, Late, Before
  <2>6. call'[r].pc = "idle" /\ \A a \in Callers : a # r => call'[a] = call[a]
    BY <1>0, <2>1, <2>2, Blank DEF Cancel, CallReturns
  <2>7. ASSUME NEW v \in Workers, Running(v)', bga # "finished" \/ Before(worker'[v]) PROVE FALSE
    BY <2>2, <2>4, <2>5, <2>7 DEF Watching, Sole, Running
  <2>8. \A v \in Workers : Ended(worker'[v]) => bga = "finished"
    BY <2>1, <2>3, <2>4 DEF Watching
  <2>9. Watching'
    BY <2>7, <2>8 DEF Watching
  <2>10. Drawn
    <3>1. CASE call[r].pc = "send" /\ messages' = Showing(lastMsg + 1, call[r].life)
      BY <2>1, <3>1 DEF Drawn
    <3> QED
      BY <2>2, <3>1 DEF Cancel, discord, Drawn
  <2>11. /\ Finals' => bga' = "finished" /\ \A v \in Workers : ~Before(worker'[v])
         /\ \A m, n \in messages' : m.id = n.id => m = n
    BY <2>4, <2>5, <2>10, FinalsStay
  <2>12. Closed'
    BY <1>4, <2>1, <2>4, <2>6, <2>11, Blank DEF Closed
  <2> QED
    BY <2>9, <2>12
<1>2. CASE NeedsWorker /\ (\E w \in Workers : Start(w)) /\ UNCHANGED <<call, mlock, discord>>
  <2>1. PICK w \in Workers : Start(w)
    BY <1>2
  <2>2. worker[w].pc = "idle" /\ worker'[w].pc = "read" /\ worker'[w].phase = worker[w].phase
        /\ (\A v \in Workers : v # w => worker'[v] = worker[v]) /\ registered' = w
    BY <1>0, <2>1 DEF Start, WorkerRec
  <2>3. \A v \in Workers : Before(worker'[v]) => Before(worker[v]) /\ v # w
    BY <2>2 DEF Before
  <2>4. \A v \in Workers : Ended(worker'[v]) => Ended(worker[v])
    BY <2>2 DEF Ended
  <2>5. \A v \in Workers : Running(v) => bga = "finished" /\ ~Before(worker[v])
    BY <1>2 DEF NeedsWorker, Watching, Sole
  <2>6. ASSUME NEW v \in Workers, Running(v)', bga # "finished" \/ Before(worker'[v])
        PROVE  Sole(v)'
    <3>1. bga # "finished"
      BY <2>3, <2>5, <2>6, BeforeRuns
    <3>2. \A u \in Workers : Running(u)' => u = w
      BY <2>2, <2>5, <3>1 DEF Running
    <3> QED
      BY <2>2, <2>6, <3>2 DEF Sole
  <2>7. Watching'
    BY <2>4, <2>6 DEF Watching
  <2>8. /\ Finals' => bga' = "finished" /\ \A v \in Workers : ~Before(worker'[v])
        /\ \A m, n \in messages' : m.id = n.id => m = n
    BY <1>2, <2>3, FinalsStay DEF Drawn, discord
  <2>9. call[w].pc = "idle"
    BY <1>0, <2>2, Blank DEF Closed, Drawing, CallRec, Lives
  <2>10. Closed'
    BY <1>0, <1>4, <1>2, <2>2, <2>8, <2>9 DEF Closed
  <2> QED
    BY <2>7, <2>10
<1>3. CASE UNCHANGED <<worker, registered, call, mlock, discord>>
  <2>1. Watching'
    BY <1>3 DEF Watching, Sole, Running
  <2>2. Closed'
    BY <1>4, <1>3 DEF Closed, Finals, discord
  <2> QED
    BY <2>1, <2>2
<1> QED
  BY <1>1, <1>2, <1>3 DEF Supply

\* Steps that start no worker and draw nothing.
LEMMA CalmWatching ==
    ASSUME Types, Watching, Closed, UNCHANGED <<worker, registered, call>>, Drawn, bga = "finished" => bga' = "finished",
           disturbed => disturbed',
           link'.known \/ link'.pc \in {"redraw", "drawing"} => disturbed'
    PROVE  Watching' /\ Closed'
<1>1. Watching'
  BY DEF Watching, Sole, Running
<1>2. /\ Finals' => bga' = "finished" /\ \A v \in Workers : ~Before(worker'[v])
      /\ \A m, n \in messages' : m.id = n.id => m = n
  BY FinalsStay
<1> QED
  BY <1>1, <1>2 DEF Closed

LEMMA SyncWatching ==
    ASSUME Types, Watching, Closed, NEW s \in Syncs, SyncStep(s)
    PROVE  Watching' /\ Closed'
<1>1. CASE Supply(s, row # NoRow) /\ UNCHANGED <<bga, disturbed>>
  BY <1>1, SupplyWatching
<1>2. CASE Supply(s, sync[s].watched) /\ UNCHANGED <<bga, disturbed>>
  BY <1>2, SupplyWatching DEF Types, TaskTypes, SyncRec
<1>3. CASE UNCHANGED <<worker, registered, call, link, bga, disturbed>> /\ messages' \subseteq messages
  BY <1>3, CalmWatching DEF Drawn, Closed
<1> QED
  BY <1>1, <1>2, <1>3 DEF SyncStep, SyncLists, SyncDeletes, SyncSupplies, memory, discord, database, Without

LEMMA BecomesKnown ==
    ASSUME NEW t, LinkBecomes(t)
    PROVE  /\ link'.known => t.known
           /\ link'.pc = t.pc \/ (link'.pc = "drawing" /\ t.pc = "drawing")
<1>1. ASSUME NEW pc PROVE [NoLink EXCEPT !.pc = pc].pc = pc /\ [NoLink EXCEPT !.pc = pc].known = FALSE
  BY DEF NoLink
<1>2. CASE t.pc \in {"drawing", "sync"}
  BY <1>1, <1>2 DEF LinkBecomes
<1>3. CASE t.pc \notin {"drawing", "sync"}
  BY <1>3 DEF LinkBecomes
<1> QED
  BY <1>2, <1>3

LEMMA GoesKnown ==
    ASSUME LinkTypes, NEW pc \in LinkPcs, LinkGoes(pc)
    PROVE  link'.pc = pc /\ (link'.known => link.known)
<1> DEFINE t == [link EXCEPT !.pc = pc]
<1>1. t.pc = pc /\ t.known = link.known
  BY DEF LinkTypes, LinkRec
<1> HIDE DEF t
<1>2. LinkBecomes(t)
  BY DEF LinkGoes, t
<1> QED
  BY <1>1, <1>2, BecomesKnown

\* The handler of a link knows only of a table that was watched, and redraws no other.
LEMMA LinkKnows ==
    ASSUME Types, LinkStep
    PROVE  /\ disturbed => disturbed'
           /\ link'.known => link.known \/ disturbed'
           /\ link'.pc \in {"redraw", "drawing"} => link.known \/ link.pc \in {"redraw", "drawing"}
<1> USE DEF bounds
<1>0. link \in LinkRec /\ LinkTypes /\ disturbed \in BOOLEAN
  BY DEF Types, LinkTypes, BoundTypes
<1>1. Unadopted \in {"reset", "sync"} /\ Adopted \in {"redraw", "sync"} /\ (Adopted = "redraw" => link.known)
      /\ {"reset", "sync", "redraw", "reload", "drop", "adopt", "drawing", "untrack", "exists"} \subseteq LinkPcs
  BY DEF Unadopted, Adopted, LinkPcs
<1>2. CASE LinkLooks
  <2>1. [link EXCEPT !.pc = "probe", !.known = row # NoRow].pc = "probe"
        /\ [link EXCEPT !.pc = "probe", !.known = row # NoRow].known = (row # NoRow)
    BY <1>0 DEF LinkRec
  <2> QED
    BY <1>2, <2>1 DEF LinkLooks
<1>3. CASE UNCHANGED disturbed /\ link' = NoLink
  BY <1>3, Blank
<1>4. ASSUME NEW pc \in LinkPcs, LinkGoes(pc), UNCHANGED disturbed,
             pc \in {"redraw", "drawing"} => link.known \/ link.pc \in {"redraw", "drawing"}
      PROVE  /\ disturbed => disturbed'
             /\ link'.known => link.known \/ disturbed'
             /\ link'.pc \in {"redraw", "drawing"} => link.known \/ link.pc \in {"redraw", "drawing"}
  BY <1>0, <1>4, GoesKnown
<1>5. CASE LinkProbes
  <2>1. CASE link' = [link EXCEPT !.pc = "upsert", !.phase = bga]
    <3>1. link'.pc = "upsert" /\ link'.known = link.known
      BY <1>0, <2>1 DEF LinkRec
    <3> QED
      BY <1>5, <3>1 DEF LinkProbes
  <2> QED
    BY <1>3, <1>5, <2>1 DEF LinkProbes, LinkFails
<1>6. CASE LinkUpserts
  <2>1. link'.pc = "state" /\ link'.known = link.known
    BY <1>0, <1>6 DEF LinkUpserts, LinkRec
  <2> QED
    BY <1>6, <2>1 DEF LinkUpserts
<1>7. CASE LinkStates
  BY <1>1, <1>3, <1>4, <1>7 DEF LinkStates, LinkFails
<1>8. CASE LinkReloads
  <2> DEFINE pc == IF link.note = 0 THEN Unadopted ELSE "lock"
             t == [link EXCEPT !.pc = pc, !.sub = IF Gone(link.sub.id) THEN link.sub ELSE row]
  <2>1. t.pc \in {"lock", "reset", "sync"} /\ t.known = link.known
    BY <1>0, <1>1 DEF LinkRec
  <2> HIDE DEF t
  <2>2. LinkBecomes(t)
    BY <1>8 DEF LinkReloads, t
  <2> QED
    BY <1>8, <2>1, <2>2, BecomesKnown DEF LinkReloads
<1>9. ASSUME NEW old, Adopt(old), UNCHANGED disturbed
      PROVE  /\ disturbed => disturbed'
             /\ link'.known => link.known \/ disturbed'
             /\ link'.pc \in {"redraw", "drawing"} => link.known \/ link.pc \in {"redraw", "drawing"}
  <2>1. CASE LinkGoes("drop")
    BY <1>1, <1>4, <1>9, <2>1
  <2>2. CASE link' = [link EXCEPT !.pc = "save", !.old = old]
    <3>1. link'.pc = "save" /\ link'.known = link.known
      BY <1>0, <2>2 DEF LinkRec
    <3> QED
      BY <1>9, <3>1
  <2> QED
    BY <1>9, <2>1, <2>2 DEF Adopt
<1>10. CASE LinkLocks
  BY <1>1, <1>4, <1>9, <1>10 DEF LinkLocks
<1>11. CASE LinkAdopts
  BY <1>9, <1>11 DEF LinkAdopts
<1>12. CASE LinkSaves
  <2>1. CASE LinkGoes("replace")
    BY <1>4, <1>12, <2>1 DEF LinkSaves, LinkPcs
  <2>2. CASE LinkGoes(Adopted)
    BY <1>1, <1>4, <1>12, <2>2 DEF LinkSaves
  <2> QED
    BY <1>12, <2>1, <2>2 DEF LinkSaves
<1>13. CASE LinkDeletes
  <2> DEFINE pc == IF link.pc = "replace" THEN Adopted ELSE Unadopted
             t == [link EXCEPT !.pc = pc, !.old = 0, !.note = 0]
  <2>1. t.pc = pc /\ t.known = link.known
    BY <1>0 DEF LinkRec
  <2>2. pc \in {"reset", "sync", "redraw"} /\ (pc = "redraw" => link.known)
    BY <1>1
  <2> HIDE DEF t, pc
  <2>3. LinkBecomes(t)
    BY <1>13 DEF LinkDeletes, t, pc
  <2> QED
    BY <1>13, <2>1, <2>2, <2>3, BecomesKnown DEF LinkDeletes
<1>14. CASE LinkRedraws
  BY <1>1, <1>4, <1>14 DEF LinkRedraws
<1>15. CASE LinkDrawn
  BY <1>1, <1>4, <1>15 DEF LinkDrawn
<1>16. CASE LinkResets
  BY <1>1, <1>4, <1>16 DEF LinkResets
<1>17. CASE LinkUntracks
  BY <1>1, <1>4, <1>17 DEF LinkUntracks
<1> QED
  BY <1>2, <1>5, <1>6, <1>7, <1>8, <1>10, <1>11, <1>12, <1>13, <1>14, <1>15, <1>16, <1>17 DEF LinkStep

LEMMA LinkWatching ==
    ASSUME Types, Watching, Closed, LinkStep
    PROVE  Watching' /\ Closed'
<1>1. UNCHANGED <<bga, worker, registered>> /\ messages' \subseteq messages
  BY DEF LinkStep, LinkLooks, LinkProbes, LinkUpserts, LinkStates, LinkReloads, LinkLocks, LinkAdopts, LinkSaves,
         LinkDeletes, LinkRedraws, LinkDrawn, LinkResets, LinkUntracks, LinkFails, tasks, discord, Without
<1>2. link'.known \/ link'.pc \in {"redraw", "drawing"} => disturbed'
  BY LinkKnows DEF Closed
<1>3. CASE UNCHANGED call
  BY <1>1, <1>2, <1>3, LinkKnows, CalmWatching DEF Drawn
<1>4. CASE LinkRedraws /\ ~UNCHANGED call
  <2>1. call' = [call EXCEPT !["link"] = [pc |-> "lock", sub |-> row, life |-> row.life, msg |-> 0]] /\ row.life # "finished"
    BY <1>4 DEF LinkRedraws, Publish
  <2>2. call'["link"].life # "finished" /\ \A w \in Workers : call'[w] = call[w]
    BY <2>1, Blank DEF Types, CallTypes
  <2>3. disturbed'
    BY <1>4, LinkKnows DEF LinkRedraws, Closed
  <2>4. Watching'
    BY <1>1 DEF Watching, Sole, Running
  <2>5. /\ Finals' => bga' = "finished" /\ \A v \in Workers : ~Before(worker'[v])
        /\ \A m, n \in messages' : m.id = n.id => m = n
    BY <1>1, FinalsStay DEF Drawn
  <2> QED
    BY <1>1, <2>2, <2>3, <2>4, <2>5 DEF Closed
<1> QED
  BY <1>3, <1>4 DEF LinkStep, LinkLooks, LinkProbes, LinkUpserts, LinkStates, LinkReloads, LinkLocks, LinkAdopts, LinkSaves,
         LinkDeletes, LinkDrawn, LinkResets, LinkUntracks

LEMMA WorldWatching ==
    ASSUME Types, Watching, Closed, LinkPosted \/ Play \/ Stop \/ Moderate
    PROVE  Watching' /\ Closed'
<1> USE DEF tasks, discord, bounds
<1>1. CASE LinkPosted
  <2>1. ~link'.known \/ link.known
    <3>1. CASE link' = [NoLink EXCEPT !.pc = "exists", !.note = lastMsg + 1]
      BY <3>1 DEF NoLink
    <3>2. CASE LinkGoes("exists")
      BY <3>2, GoesKnown DEF Types, LinkPcs
    <3> QED
      BY <1>1, <3>1, <3>2 DEF LinkPosted
  <2>2. link'.pc = "exists"
    <3>1. CASE link' = [NoLink EXCEPT !.pc = "exists", !.note = lastMsg + 1]
      BY <3>1 DEF NoLink
    <3>2. CASE LinkGoes("exists")
      BY <3>2, GoesKnown DEF Types, LinkPcs
    <3> QED
      BY <1>1, <3>1, <3>2 DEF LinkPosted
  <2> QED
    BY <1>1, <2>1, <2>2, CalmWatching DEF LinkPosted, Drawn, Closed
<1>2. CASE Play
  <2>1. bga = "finished" => bga' = "finished"
    BY <1>2 DEF Play, Rank, Lives
  <2> QED
    BY <1>2, <2>1, CalmWatching DEF Play, Drawn, Closed
<1>3. CASE Stop
  BY <1>3, CalmWatching DEF Stop, Drawn, Closed
<1>4. CASE Moderate
  BY <1>4, CalmWatching DEF Moderate, Drawn, Closed
<1> QED
  BY <1>1, <1>2, <1>3, <1>4

LEMMA CrashWatching ==
    ASSUME Types, Watching, Closed, Crash
    PROVE  Watching' /\ Closed'
<1>1. \A w \in Workers : worker'[w].pc = "idle" /\ worker'[w].phase = "recruiting"
  BY Blank DEF Crash
<1>2. \A w \in Workers : ~Before(worker'[w]) /\ ~Ended(worker'[w]) /\ ~Running(w)'
  BY <1>1 DEF Before, Ended, Running
<1>3. (\A a \in Callers : call'[a].pc = "idle") /\ link'.pc = "idle" /\ ~link'.known
  BY Blank DEF Crash
<1>4. /\ Finals' => bga' = "finished" /\ \A v \in Workers : ~Before(worker'[v])
      /\ \A m, n \in messages' : m.id = n.id => m = n
  BY <1>2, FinalsStay DEF Crash, Drawn, discord
<1> QED
  BY <1>2, <1>3, <1>4, Blank DEF Watching, Closed

LEMMA InitWatching ==
    ASSUME Init
    PROVE  Watching /\ Closed
<1>1. \A w \in Workers : worker[w].pc = "idle" /\ worker[w].phase = "recruiting"
  BY Blank DEF Init
<1>2. \A w \in Workers : ~Ended(worker[w]) /\ ~Running(w)
  BY <1>1 DEF Ended, Running
<1>3. (\A a \in Callers : call[a].pc = "idle") /\ link.pc = "idle" /\ ~link.known
  BY Blank DEF Init
<1>4. ~Finals /\ \A m, n \in messages : m = n
  BY DEF Init, Finals
<1> QED
  BY <1>2, <1>3, <1>4, Blank DEF Watching, Closed

LEMMA WatchingStep ==
    ASSUME Types, Watching, Closed, [Next]_vars
    PROVE  Watching' /\ Closed'
<1>1. CASE UNCHANGED vars
  BY <1>1, CalmWatching DEF vars, tasks, discord, bounds, Drawn, Closed
<1> QED
  BY <1>1, WorkerWatching, CallWatching, RaisedWatching, SyncWatching, LinkWatching, WorldWatching, CrashWatching DEF Next

\* While the table is not over, at most one worker polls it and draws its card:
\* runs of the sync by the loop and by handlers of links, each with a list of
\* watches of its own, start no second worker and leave no cancelled one running.
THEOREM OneWatcher == Safe => []OneWorker
<1>1. Types /\ Watching => OneWorker
  <2> SUFFICES ASSUME Watching, bga # "finished"
               PROVE  Cardinality({w \in Workers : Running(w)}) <= 1
    BY DEF OneWorker
  <2> DEFINE S == {w \in Workers : Running(w)}
  <2>1. S \subseteq {registered}
    BY DEF Watching, Sole
  <2>2. IsFiniteSet({registered}) /\ Cardinality({registered}) = 1
    BY FS_Singleton
  <2> QED
    BY <2>1, <2>2, FS_Subset
<1> QED
  BY <1>1, InitTypes, TypesStep, InitWatching, WatchingStep, PTL DEF Safe

LEMMA AllDrawn ==
    ASSUME Types, Next
    PROVE  Drawn
<1>1. CASE UNCHANGED messages \/ messages' \subseteq messages
  BY <1>1 DEF Drawn
<1>2. CASE \E a \in Callers : CallStep(a) \/ CallRaises(a)
  BY <1>2, CallGoesOn, RaisedGoes DEF Drawn
<1>3. CASE LinkPosted
  BY <1>3 DEF LinkPosted, Drawn, discord
<1>4. CASE LinkStep
  BY <1>4, <1>1 DEF LinkStep, LinkLooks, LinkProbes, LinkUpserts, LinkStates, LinkReloads, LinkLocks, LinkAdopts, LinkSaves,
         LinkDeletes, LinkRedraws, LinkDrawn, LinkResets, LinkUntracks, LinkFails, discord, Without
<1>5. ASSUME NEW w \in Workers, WorkerStep(w) PROVE Drawn
  BY <1>1, <1>5 DEF WorkerStep, WorkerRuns, WorkerReads, WorkerFetches, WorkerUpserts, WorkerRereads, WorkerInvites, WorkerInvited,
         WorkerHears, WorkerApplies, WorkerTurns, WorkerGivesUp, WorkerStores, WorkerRemoves, WorkerForgets, LateCall, discord
<1>6. ASSUME NEW s \in Syncs, SyncStep(s) PROVE Drawn
  <2>1. ASSUME NEW watched, Supply(s, watched) PROVE Drawn
    <3>1. CASE registered # "none" /\ Cancel(registered)
      <4>1. PICK r \in Callers : r = registered /\ Cancel(r)
        BY <3>1 DEF Types, TaskTypes, Callers
      <4>2. CASE call[r].pc = "send" /\ messages' = Showing(lastMsg + 1, call[r].life)
        BY <4>2 DEF Drawn
      <4> QED
        BY <1>1, <4>1, <4>2 DEF Cancel, discord
    <3> QED
      BY <1>1, <2>1, <3>1 DEF Supply, discord
  <2> QED
    BY <1>1, <1>6, <2>1 DEF SyncStep, SyncLists, SyncDeletes, SyncSupplies, discord, Without
<1>7. CASE Play \/ Stop \/ Moderate \/ Crash
  BY <1>1, <1>7 DEF Play, Stop, Moderate, Crash, discord
<1> QED
  BY <1>2, <1>3, <1>4, <1>5, <1>6, <1>7 DEF Next

\* A message that shows the final result is not drawn as a running game again:
\* whoever still goes by an earlier state of the table is the only worker, and
\* done with it before the final card is drawn.
THEOREM FinalStays == Safe => FinalCardStays
<1>1. Types /\ Watching /\ Closed /\ [Next]_vars =>
        [~disturbed => \A m \in messages : m.kind = "finished" =>
            ~\E n \in messages' : n.id = m.id /\ n.kind \in {"recruiting", "playing"}]_vars
  <2> SUFFICES ASSUME Types, Watching, Closed, Next, ~disturbed, NEW m \in messages, m.kind = "finished",
                      NEW n \in messages', n.id = m.id, n.kind \in {"recruiting", "playing"}
               PROVE  FALSE
    OBVIOUS
  <2>1. Drawn
    BY AllDrawn
  <2>2. n \notin messages
    BY DEF Closed
  <2>3. PICK id, kind : /\ messages' = Showing(id, kind)
                        /\ kind = "note" \/ \E a \in Callers : call[a].pc # "idle" /\ kind = call[a].life
    BY <2>1, <2>2 DEF Drawn
  <2>4. n.kind = kind
    BY <2>2, <2>3 DEF Showing
  <2>5. PICK a \in Callers : call[a].pc # "idle" /\ kind = call[a].life
    BY <2>3, <2>4
  <2>6. a \in Workers /\ Before(worker[a])
    BY <2>4, <2>5 DEF Closed, Callers, Drawing, Before
  <2> QED
    BY <2>6 DEF Closed, Finals
<1> QED
  BY <1>1, InitTypes, TypesStep, InitWatching, WatchingStep, PTL DEF Safe, FinalCardStays

-----------------------------------------------------------------------------
(* Cards of a running game that nobody will draw again, while the watch is *)
(* undisturbed.                                                            *)
Live == {m \in messages : m.kind \in {"recruiting", "playing"}}
Shown == active[1].msg

\* A card is kept, that is, will be drawn again, if it is the one in memory, or, as
\* long as there is none in memory and no call has failed to find it, the row's.
\* The worker that has drawn the final card draws no more.
Sending == \E w \in Workers : call[w].pc = "send"
Finishing == \E w \in Workers : worker[w].pc = "remove" \/ (worker[w].pc = "store" /\ call[w].pc = "idle")
Keeps(id) ==
    /\ row.id = 1
    /\ ~Finishing
    /\ id = Shown \/ (Shown = 0 /\ id = row.msg /\ ~Sending)

Lost == {m \in Live : ~Keeps(m.id)}
Charged == IsFiniteSet(messages) /\ Cardinality(Lost) <= events

\* Nothing was watched yet.
Unwatched ==
    /\ lastRow = 0 /\ row = NoRow
    /\ Live = {}
    /\ \A i \in Rows : active[i].msg = 0
    /\ \A w \in Workers : worker[w].pc = "idle"
    /\ \A s \in Syncs : sync[s].pc = "idle"
    /\ link.pc \in {"idle", "exists", "probe", "upsert"}
    /\ link.note <= lastMsg

\* A link that is being registered has a note that is older than every card.
Registering == link.pc \in {"state", "reload", "lock", "adopt"}
Later(id) == id <= lastMsg /\ (Registering /\ id # 0 => id > link.note)

\* A copy of the row names the row's card, unless there is a newer one in memory.
Copies(sub) ==
    /\ sub.id = 1
    /\ Later(sub.msg)
    /\ Shown # 0 \/ row.msg = 0 \/ sub.msg = row.msg

WorkerGoing(w) ==
    worker[w].pc # "idle" =>
        /\ registered = w
        /\ worker[w].pc \notin {"forget"} \cup Late
        /\ worker[w].pc \in {"fetch", "invite"} => Copies(worker[w].sub)

CallGoing(w) ==
    call[w].pc # "idle" =>
        /\ Copies(call[w].sub)
        /\ call[w].pc # "lock" => mlock[1] = w
        /\ call[w].pc \in {"fetch", "untrack", "send"} => Shown = 0
        /\ call[w].pc \in {"edit", "lost", "save"} => call[w].msg = Shown /\ Shown # 0
        /\ call[w].pc = "lost" => ~Exists(Shown)
        /\ call[w].pc = "untrack" => ~Exists(call[w].sub.msg)
        /\ call[w].pc = "save" => active[1].kind = call[w].life

LinkGoing ==
    /\ link.pc \in {"idle", "exists", "state", "reload", "lock", "adopt", "save", "drop", "sync"}
    /\ link.note <= lastMsg
    /\ link.pc \in {"lock", "adopt"} => link.note # 0 /\ Copies(link.sub)
    /\ link.pc \in {"state", "reload", "save"} => link.sub.id = 1
    /\ link.pc \in {"adopt", "save", "drop"} => mlock[1] = "link"
    /\ link.pc = "adopt" => Shown = 0
    /\ link.pc = "save" => link.note = Shown /\ Shown # 0 /\ link.old = 0

MemoryGoing ==
    /\ Later(Shown) /\ Later(row.msg)
    /\ \A i \in Rows : i # 1 => active[i].msg = 0
    /\ active[1].kind # "note" => \A m \in messages : m.id = Shown => m.kind = active[1].kind

Going ==
    /\ lastRow = 1 /\ row.id = 1
    /\ \A s \in Syncs : sync[s].pc = "idle"
    /\ \A w \in Workers : WorkerGoing(w) /\ CallGoing(w)
    /\ LinkGoing
    /\ MemoryGoing

\* The table has ended, and the row is gone for good.
Over ==
    /\ lastRow = 1 /\ row = NoRow /\ bga = "finished"
    /\ \A w \in Workers : worker[w].pc \in {"idle", "read", "stream", "apply", "gone", "forget", "late remove"}
    /\ link.pc # "upsert"

Counted == ~disturbed => (Unwatched \/ Going \/ Over) /\ Charged

\* Each step keeps what is not lost, or loses one card to an event.
Pays ==
    \/ Lost' \subseteq Lost /\ events' >= events
    \/ events' = events + 1 /\ \E k : \A m \in Lost' : m \in Lost \/ m.id = k

LEMMA LostTypes ==
    ASSUME Types
    PROVE  events \in Nat /\ Lost \subseteq messages /\ Lost = {m \in Live : ~Keeps(m.id)} /\ Live \subseteq messages
BY DEF Types, BoundTypes, Lost, Live

LEMMA StaysFinite ==
    ASSUME IsFiniteSet(messages), Drawn
    PROVE  IsFiniteSet(messages')
<1>1. CASE messages' \subseteq messages
  BY <1>1, FS_Subset
<1>2. ASSUME NEW id, NEW kind, messages' = Showing(id, kind) PROVE IsFiniteSet(messages')
  <2>1. IsFiniteSet(messages \cup {[id |-> id, kind |-> kind]})
    BY FS_AddElement
  <2>2. messages' \subseteq messages \cup {[id |-> id, kind |-> kind]}
    BY <1>2 DEF Showing
  <2> QED
    BY <2>1, <2>2, FS_Subset
<1> QED
  BY <1>1, <1>2 DEF Drawn

LEMMA PaysCharged ==
    ASSUME Types, Types', Closed', Charged, Drawn, Pays
    PROVE  Charged'
<1>1. IsFiniteSet(messages') /\ IsFiniteSet(messages)
  BY StaysFinite DEF Charged
<1>2. Lost \subseteq messages /\ Lost' \subseteq messages' /\ events \in Nat /\ events' \in Nat
  BY DEF Lost, Live, Types, BoundTypes
<1>3. IsFiniteSet(Lost) /\ IsFiniteSet(Lost') /\ Cardinality(Lost) \in Nat /\ Cardinality(Lost') \in Nat
  BY <1>1, <1>2, FS_Subset, FS_CardinalityType
<1>4. CASE Lost' \subseteq Lost /\ events' >= events
  <2>1. Cardinality(Lost') <= Cardinality(Lost)
    BY <1>3, <1>4, FS_Subset
  <2> QED
    BY <1>1, <1>2, <1>3, <1>4, <2>1 DEF Charged
<1>5. ASSUME NEW k, events' = events + 1, \A m \in Lost' : m \in Lost \/ m.id = k PROVE Charged'
  <2>1. CASE Lost' \subseteq Lost
    BY <1>2, <1>4, <1>5, <2>1
  <2>2. ASSUME NEW m \in Lost', m \notin Lost PROVE Charged'
    <3>1. \A n \in Lost' : n \notin Lost => n = m
      BY <1>2, <1>5, <2>2 DEF Closed
    <3>2. Lost' \subseteq Lost \cup {m}
      BY <3>1
    <3>3. IsFiniteSet(Lost \cup {m}) /\ Cardinality(Lost \cup {m}) = Cardinality(Lost) + 1
      BY <1>3, <2>2, FS_AddElement
    <3>4. Cardinality(Lost') <= Cardinality(Lost) + 1
      BY <3>2, <3>3, FS_Subset
    <3> QED
      BY <1>1, <1>2, <1>3, <1>5, <3>4 DEF Charged
  <2> QED
    BY <2>1, <2>2
<1> QED
  BY <1>4, <1>5 DEF Pays

\* A step that makes no card live loses only what it does not keep.
LEMMA KeepingPays ==
    ASSUME Types, events' >= events, Live' \subseteq Live, \A m \in Live : Keeps(m.id) => Keeps(m.id)'
    PROVE  Pays
<1>1. \A m \in Lost' : m \in Live /\ ~Keeps(m.id)
  BY DEF Lost
<1> QED
  BY <1>1 DEF Lost, Pays

LEMMA NoneDrawn ==
    ASSUME Closed, Drawn, ~disturbed, \A w \in Workers : worker[w].pc \notin {"invited", "turn", "store"}, Types
    PROVE  Live' \subseteq Live /\ \A a \in Callers : call[a].pc = "idle"
<1>1. ASSUME NEW a \in Callers, call[a].pc # "idle" PROVE FALSE
  BY <1>1, Blank DEF Closed, Drawing, Types, CallTypes, CallRec, Lives, Callers
<1>2. Live' \subseteq Live
  BY <1>1 DEF Drawn, Live, Showing
<1> QED
  BY <1>1, <1>2

LEMMA EventsGrow ==
    ASSUME Types, Next
    PROVE  events' >= events
<1>0. events \in Nat
  BY DEF Types, BoundTypes
<1>1. ASSUME events' = events \/ events' = events + 1 PROVE events' >= events
  BY <1>0, <1>1
<1>2. ASSUME NEW w \in Workers, WorkerStep(w) PROVE events' = events \/ events' = events + 1
  BY <1>2 DEF Fault, bounds, WorkerStep, WorkerRuns, WorkerReads, WorkerFetches, WorkerUpserts, WorkerRereads, WorkerInvites,
       WorkerInvited, WorkerHears, WorkerApplies, WorkerTurns, WorkerGivesUp, WorkerStores, WorkerRemoves,
       WorkerForgets, LateCall
<1>3. ASSUME NEW a \in Callers, CallStep(a) PROVE events' = events \/ events' = events + 1
  BY <1>3 DEF Fault, bounds, CallStep, CallChecks, CallFetches, CallUntracks, CallEdits, CallSends, CallSaves
<1>7. ASSUME NEW a \in Callers, CallRaises(a) PROVE events' = events \/ events' = events + 1
  BY <1>7 DEF Fault, CallRaises
<1>4. ASSUME NEW s \in Syncs, SyncStep(s) PROVE events' = events \/ events' = events + 1
  BY <1>4 DEF Fault, SyncStep, SyncLists, SyncDeletes, SyncSupplies, Supply
<1>5. CASE LinkStep
  BY <1>1, <1>5 DEF Fault, bounds, LinkStep, LinkLooks, LinkProbes, LinkUpserts, LinkStates, LinkReloads, LinkLocks,
       LinkAdopts, LinkSaves, LinkDeletes, LinkRedraws, LinkDrawn, LinkResets, LinkUntracks
<1>6. CASE Play \/ LinkPosted \/ Stop \/ Moderate \/ Crash
  BY <1>1, <1>6 DEF Fault, bounds, Play, LinkPosted, Stop, Moderate, Crash
<1> QED
  BY <1>1, <1>2, <1>3, <1>4, <1>5, <1>6, <1>7 DEF Next

\* The steps of the handler of a link, in their order.
LEMMA LinkPcsMove ==
    ASSUME Types, LinkStep
    PROVE  /\ link'.pc = "probe" => LinkLooks
           /\ link'.pc = "upsert" => LinkProbes /\ bga # "finished"
           /\ link'.pc = "state" => LinkUpserts
           /\ link'.pc = "reload" => LinkStates
           /\ link'.pc = "lock" => LinkReloads
           /\ link'.pc = "adopt" => LinkLocks
           /\ link'.pc \in {"save", "drop"} => LinkLocks \/ LinkAdopts
           /\ link'.pc = "replace" => LinkSaves
           /\ link'.pc = "untrack" => LinkResets
           /\ link'.pc # "exists"
<1>0. link \in LinkRec /\ LinkTypes /\ NoLink.pc = "idle"
      /\ {"reset", "sync", "redraw", "reload", "drop", "adopt", "drawing", "untrack", "exists", "replace"} \subseteq LinkPcs
      /\ Unadopted \in {"reset", "sync"} /\ Adopted \in {"redraw", "sync"}
  BY DEF Types, LinkTypes, LinkPcs, NoLink, Unadopted, Adopted
<1>1. ASSUME NEW pc \in LinkPcs, LinkGoes(pc) PROVE link'.pc = pc
  BY <1>0, <1>1, GoesKnown
<1>2. CASE LinkLooks
  BY <1>0, <1>2 DEF LinkLooks, LinkRec
<1>3. CASE LinkProbes
  BY <1>0, <1>3 DEF LinkProbes, LinkFails, LinkRec
<1>4. CASE LinkUpserts
  BY <1>0, <1>4 DEF LinkUpserts, LinkRec
<1>5. CASE LinkStates
  BY <1>0, <1>1, <1>5 DEF LinkStates, LinkFails
<1>6. CASE LinkReloads
  <2> DEFINE pc == IF link.note = 0 THEN Unadopted ELSE "lock"
             t == [link EXCEPT !.pc = pc, !.sub = IF Gone(link.sub.id) THEN link.sub ELSE row]
  <2>1. t.pc \in {"lock", "reset", "sync"}
    BY <1>0 DEF LinkRec
  <2> HIDE DEF t
  <2>2. LinkBecomes(t)
    BY <1>6 DEF LinkReloads, t
  <2>3. link'.pc = t.pc
    BY <2>1, <2>2, BecomesKnown
  <2> QED
    BY <1>6, <2>1, <2>3
<1>7. ASSUME NEW old, Adopt(old) PROVE link'.pc \in {"save", "drop"}
  BY <1>0, <1>1, <1>7 DEF Adopt, LinkRec
<1>8. CASE LinkLocks
  BY <1>0, <1>1, <1>7, <1>8 DEF LinkLocks
<1>9. CASE LinkAdopts
  BY <1>7, <1>9 DEF LinkAdopts
<1>10. CASE LinkSaves
  BY <1>0, <1>1, <1>10 DEF LinkSaves
<1>11. CASE LinkDeletes
  <2> DEFINE pc == IF link.pc = "replace" THEN Adopted ELSE Unadopted
             t == [link EXCEPT !.pc = pc, !.old = 0, !.note = 0]
  <2>1. t.pc \in {"reset", "sync", "redraw"}
    BY <1>0 DEF LinkRec
  <2> HIDE DEF t, pc
  <2>3. LinkBecomes(t)
    BY <1>11 DEF LinkDeletes, t, pc
  <2>4. link'.pc = t.pc
    BY <2>1, <2>3, BecomesKnown
  <2> QED
    BY <2>1, <2>4
<1>12. CASE LinkRedraws \/ LinkDrawn \/ LinkResets \/ LinkUntracks
  BY <1>0, <1>1, <1>12 DEF LinkRedraws, LinkDrawn, LinkResets, LinkUntracks
<1> QED
  BY <1>2, <1>3, <1>4, <1>5, <1>6, <1>8, <1>9, <1>10, <1>11, <1>12 DEF LinkStep

LEMMA PostedGoes ==
    ASSUME Types, LinkPosted
    PROVE  link'.pc = "exists" /\ (link.note <= lastMsg => link'.note <= lastMsg')
<1>1. CASE link' = [NoLink EXCEPT !.pc = "exists", !.note = lastMsg + 1] /\ lastMsg' = lastMsg + 1
  <2>1. link'.pc = "exists" /\ link'.note = lastMsg + 1
    BY <1>1 DEF NoLink
  <2> QED
    BY <1>1, <2>1 DEF Types, DiscordTypes
<1>2. CASE LinkGoes("exists") /\ UNCHANGED lastMsg
  <2>1. link'.pc = "exists"
    BY <1>2, GoesKnown DEF Types, LinkPcs
  <2>2. link'.note = link.note
    BY <1>2 DEF LinkGoes, LinkBecomes, Types, LinkTypes, LinkRec
  <2> QED
    BY <1>2, <2>1, <2>2
<1> QED
  BY <1>1, <1>2 DEF LinkPosted, discord

\* The end stays the end: nothing brings the row back, and nothing is drawn.
LEMMA OverStays ==
    ASSUME Types, Watching, Closed, Over, Next, ~disturbed
    PROVE  Over' /\ Pays
<1> USE DEF database, memory, tasks, discord, bounds
<1>0. /\ worker \in [Workers -> WorkerRec] /\ registered \in Workers \cup {"none"}
      /\ row.id = 0 /\ row = NoRow /\ bga = "finished"
      /\ Live' \subseteq Live /\ \A a \in Callers : call[a].pc = "idle"
  BY NoneDrawn, AllDrawn, Blank DEF Over, Types, WorkerTypes, TaskTypes
<1>1. Pays
  BY <1>0, EventsGrow, KeepingPays DEF Keeps
<1> SUFFICES Over'
  BY <1>1
<1>2. link.pc \notin {"redraw", "drawing"} /\ link.pc # "upsert"
  BY DEF Closed, Over
<1> DEFINE Pcs == {"idle", "read", "stream", "apply", "gone", "forget", "late remove"}
<1>3. ASSUME NEW w \in Workers, WorkerStep(w) PROVE Over'
  <2>1. worker[w].pc \in Pcs
    BY DEF Over
  <2>2. UNCHANGED <<bga, row, lastRow, link>>
    BY <1>0, <1>3, <2>1 DEF WorkerStep, WorkerRuns, WorkerReads, WorkerFetches, WorkerUpserts, WorkerRereads, WorkerInvites,
         WorkerInvited, WorkerHears, WorkerApplies, WorkerTurns, WorkerGivesUp, WorkerStores, WorkerRemoves,
         WorkerForgets, LateCall, Remove
  <2>3. ASSUME NEW pc \in {"read", "stream", "gone"}, WorkerGoes(w, pc)
        PROVE  worker'[w].pc \in Pcs /\ \A v \in Workers : v # w => worker'[v] = worker[v]
    <3>0. WorkerTypes /\ pc \in WorkerPcs
      BY DEF Types, WorkerPcs
    <3>1. PICK t \in WorkerRec : worker' = [worker EXCEPT ![w] = t] /\ t.pc = pc
      BY <2>3, <3>0, GoesIs
    <3> QED
      BY <1>0, <3>1
  <2>4. WorkerEnds(w) => worker'[w].pc \in Pcs /\ \A v \in Workers : v # w => worker'[v] = worker[v]
    BY <1>0, Blank DEF WorkerEnds
  <2>5. worker' = [worker EXCEPT ![w].pc = "apply", ![w].phase = bga]
          => worker'[w].pc \in Pcs /\ \A v \in Workers : v # w => worker'[v] = worker[v]
    BY <1>0 DEF WorkerRec
  <2>6. worker'[w].pc \in Pcs /\ \A v \in Workers : v # w => worker'[v] = worker[v]
    BY <1>0, <1>3, <2>1, <2>3, <2>4, <2>5 DEF WorkerStep, WorkerRuns, WorkerReads, WorkerFetches, WorkerUpserts, WorkerRereads,
         WorkerInvites, WorkerInvited, WorkerHears, WorkerApplies, WorkerTurns, WorkerGivesUp, WorkerStores,
         WorkerRemoves, WorkerForgets, LateCall
  <2> QED
    BY <2>2, <2>6 DEF Over
<1>4. ASSUME NEW s \in Syncs, SyncStep(s) PROVE Over'
  <2>1. UNCHANGED <<bga, row, lastRow>> /\ link'.pc # "upsert"
    BY <1>2, <1>4, Blank DEF SyncStep, SyncLists, SyncDeletes, SyncSupplies, Supply
  <2>2. ASSUME NEW watched, Supply(s, watched) PROVE \A w \in Workers : worker'[w].pc \in Pcs
    <3>1. CASE registered # "none" /\ Cancel(registered)
      <4>1. PICK r \in Workers : r = registered
        BY <1>0, <3>1
      <4>2. worker[r].pc \notin {"upsert", "remove"}
        BY DEF Over
      <4>3. WorkerEnds(r)
        BY <3>1, <4>1, <4>2 DEF Cancel
      <4> QED
        BY <1>0, <4>3, Blank DEF WorkerEnds, Over
    <3>2. ASSUME NEW w \in Workers, Start(w) PROVE \A v \in Workers : worker'[v].pc \in Pcs
      BY <1>0, <3>2 DEF Start, Over, WorkerRec
    <3>3. CASE UNCHANGED worker
      BY <3>3 DEF Over
    <3> QED
      BY <2>2, <3>1, <3>2, <3>3 DEF Supply
  <2>3. \A w \in Workers : worker'[w].pc \in Pcs
    BY <1>4, <2>2 DEF SyncStep, SyncLists, SyncDeletes, SyncSupplies, Over
  <2> QED
    BY <2>1, <2>3 DEF Over
<1>5. CASE LinkStep
  <2>1. UNCHANGED <<bga, worker, lastRow>>
    BY <1>2, <1>5 DEF LinkStep, LinkLooks, LinkProbes, LinkUpserts, LinkStates, LinkReloads, LinkLocks,
       LinkAdopts, LinkSaves, LinkDeletes, LinkRedraws, LinkDrawn, LinkResets, LinkUntracks, Track
  <2>2. UNCHANGED row
    <3>1. link.pc \in {"state", "adopt", "save", "untrack"} => link.sub.id # 0
      BY DEF Types, LinkTypes, LinkHolds, Numbered, Rows
    <3> QED
      BY <1>0, <1>2, <1>5, <3>1 DEF LinkStep, LinkLooks, LinkProbes, LinkUpserts, LinkStates, LinkReloads, LinkLocks,
       LinkAdopts, LinkSaves, LinkDeletes, LinkRedraws, LinkDrawn, LinkResets, LinkUntracks, Track, Gone
  <2>3. link'.pc # "upsert"
    BY <1>0, <1>5, LinkPcsMove
  <2> QED
    BY <2>1, <2>2, <2>3 DEF Over
<1>6. CASE Play
  <2>1. bga' = "finished"
    BY <1>0, <1>6 DEF Play, Rank, Lives
  <2> QED
    BY <1>6, <2>1 DEF Play, Over
<1>7. CASE LinkPosted
  <2>1. link'.pc = "exists"
    BY <1>7, PostedGoes
  <2> QED
    BY <1>7, <2>1 DEF LinkPosted, Over
<1>8. CASE Stop
  BY <1>0, <1>8 DEF Stop
<1>9. CASE Moderate
  BY <1>9 DEF Moderate, Over
<1>10. CASE Crash
  BY <1>0, <1>10, Blank DEF Crash, Over
<1> QED
  BY <1>0, <1>1, <1>3, <1>4, <1>5, <1>6, <1>7, <1>8, <1>9, <1>10 DEF Next, CallStep, CallChecks, CallFetches, CallUntracks, CallEdits, CallSends, CallSaves, CallRaises

\* A card is none, or has an id that is not 0.
LEMMA LiveNumbered ==
    ASSUME Types
    PROVE  /\ \A m \in messages : m.id \in Nat /\ m.id # 0 /\ m.id <= lastMsg /\ Exists(m.id)
           /\ 1 \in Rows /\ Shown \in Nat /\ row.msg \in Nat /\ lastMsg \in Nat /\ link.note \in Nat
<1>1. \A m \in messages : m.id \in Nat /\ m.id # 0 /\ m.id <= lastMsg /\ Exists(m.id)
  BY DEF Types, DiscordTypes, Message, Exists
<1>2. 1 \in Rows
  BY WatchAssumption DEF Rows
<1>3. Shown \in Nat
  BY <1>2 DEF Types, MemoryTypes, Card, Shown
<1>4. row.msg \in Nat /\ lastMsg \in Nat /\ link.note \in Nat
  BY DEF Types, DataTypes, DiscordTypes, LinkTypes, Row, LinkRec
<1> QED
  BY <1>1, <1>2, <1>3, <1>4

\* At most one card is kept, so that any fault pays for what it loses.
LEMMA FaultPays ==
    ASSUME Types, events' = events + 1, Live' \subseteq Live
    PROVE  Pays
<1>1. \A m \in Lost' : m \in Live
  BY DEF Lost
<1>2. \A m \in Live : m \in Lost \/ (Shown # 0 /\ m.id = Shown) \/ (Shown = 0 /\ m.id = row.msg)
  BY LiveNumbered DEF Lost, Keeps, Live
<1>3. \E k : \A m \in Lost' : m \in Lost \/ m.id = k
  BY <1>1, <1>2
<1> QED
  BY <1>3 DEF Pays

\* While nothing is watched, no card is drawn; what is registered is watched.
LEMMA UnwatchedSteps ==
    ASSUME Types, Watching, Closed, Unwatched, Next, ~disturbed
    PROVE  (Unwatched' \/ Going') /\ Pays
<1> USE DEF database, memory, tasks, discord, bounds
<1>0. /\ worker \in [Workers -> WorkerRec] /\ registered \in Workers \cup {"none"}
      /\ row.id = 0 /\ row = NoRow /\ lastRow = 0
      /\ Live' \subseteq Live /\ \A a \in Callers : call[a].pc = "idle"
  BY NoneDrawn, AllDrawn, Blank DEF Unwatched, Types, WorkerTypes, TaskTypes
<1>1. Live' = {} /\ Pays
  BY <1>0, EventsGrow, KeepingPays DEF Keeps, Unwatched
<1> SUFFICES Unwatched' \/ Going'
  BY <1>1
<1>3. ASSUME NEW w \in Workers, WorkerStep(w) PROVE FALSE
  BY <1>3 DEF WorkerStep, WorkerRuns, WorkerReads, WorkerFetches, WorkerUpserts, WorkerRereads, WorkerInvites,
     WorkerInvited, WorkerHears, WorkerApplies, WorkerTurns, WorkerGivesUp, WorkerStores, WorkerRemoves,
     WorkerForgets, LateCall, Unwatched
<1>4. ASSUME NEW s \in Syncs, SyncStep(s) PROVE Unwatched'
  <2>1. Orphans = {} /\ sync[s].pc = "idle"
    BY DEF Orphans, Unwatched
  <2>2. Supply(s, FALSE) /\ UNCHANGED <<bga, row, lastRow, active>>
    BY <1>0, <1>4, <2>1 DEF SyncStep, SyncLists, SyncDeletes, SyncSupplies, Supply
  <2>3. \A w \in Workers : worker'[w].pc = "idle"
    <3>1. CASE registered # "none" /\ Cancel(registered)
      <4>1. PICK r \in Workers : r = registered
        BY <1>0, <3>1
      <4>2. WorkerEnds(r)
        BY <3>1, <4>1 DEF Cancel, Unwatched
      <4> QED
        BY <1>0, <4>2, Blank DEF WorkerEnds, Unwatched
    <3> QED
      BY <2>2, <3>1 DEF Supply, Unwatched
  <2>4. \A t \in Syncs : sync'[t].pc = "idle"
    <3>1. sync \in [Syncs -> SyncRec] /\ sync' = [sync EXCEPT ![s] = NoSync] /\ NoSync.pc = "idle"
      BY <2>2 DEF Supply, Types, TaskTypes, NoSync
    <3> QED
      BY <3>1 DEF Unwatched
  <2>5. link'.pc \in {"idle", "exists", "probe", "upsert"}
    BY <2>2, Blank DEF Supply, Unwatched
  <2>6. link'.note <= lastMsg'
    <3>1. CASE registered # "none" /\ Cancel(registered)
      <4>1. PICK r \in Workers : r = registered
        BY <1>0, <3>1
      <4>2. call[r].pc = "idle"
        BY <1>0, Blank
      <4>3. UNCHANGED lastMsg
        BY <3>1, <4>1, <4>2 DEF Cancel
      <4> QED
        BY <2>2, <4>3, LiveNumbered DEF Supply, Unwatched, NoLink
    <3> QED
      BY <2>2, <3>1, LiveNumbered DEF Supply, Unwatched, NoLink
  <2> QED
    BY <1>1, <2>2, <2>3, <2>4, <2>5, <2>6 DEF Unwatched
<1>5. CASE LinkStep
  <2>1. CASE LinkUpserts
    <3>1. /\ lastRow' = 1 /\ row' = [NoRow EXCEPT !.id = lastRow + 1, !.page = Page(link.phase)]
          /\ link' = [link EXCEPT !.pc = "state", !.sub = row']
          /\ UNCHANGED <<active, mlock, worker, registered, call, sync, messages, lastMsg>>
      BY <1>0, <2>1 DEF LinkUpserts, Upsert
    <3>2. row'.id = 1 /\ row'.msg = 0
      BY <1>0, <3>1 DEF NoRow
    <3>3. link'.pc = "state" /\ link'.sub.id = 1 /\ link'.note = link.note
      BY <3>1, <3>2 DEF Types, LinkTypes, LinkRec
    <3>4. Shown' = 0 /\ \A i \in Rows : active'[i].msg = 0
      BY <3>1, LiveNumbered DEF Unwatched, Shown
    <3>5. MemoryGoing'
      <4>1. \A m \in messages' : m.id # Shown'
        BY <3>1, <3>4, LiveNumbered
      <4>2. Later(Shown)' /\ Later(row.msg)'
        BY <3>1, <3>2, <3>4, LiveNumbered DEF Later
      <4> QED
        BY <3>4, <4>1, <4>2 DEF MemoryGoing
    <3>6. LinkGoing'
      BY <3>1, <3>3 DEF LinkGoing, Unwatched
    <3>7. \A w \in Workers : WorkerGoing(w)' /\ CallGoing(w)'
      BY <1>0, <3>1 DEF Unwatched, WorkerGoing, CallGoing, Callers
    <3> QED
      BY <3>1, <3>2, <3>5, <3>6, <3>7 DEF Going, Unwatched
  <2>2. CASE ~LinkUpserts
    <3>1. link'.pc \in {"idle", "exists", "probe", "upsert"}
      <4>1. link.pc \in {"exists", "probe"} /\ (LinkLooks \/ LinkProbes)
        BY <1>5, <2>2 DEF Unwatched, LinkStep, LinkLooks, LinkProbes, LinkUpserts, LinkStates, LinkReloads, LinkLocks,
           LinkAdopts, LinkSaves, LinkDeletes, LinkRedraws, LinkDrawn, LinkResets, LinkUntracks
      <4>2. link \in LinkRec
        BY DEF Types, LinkTypes
      <4>3. LinkLooks => link'.pc = "probe"
        BY <4>2 DEF LinkLooks, LinkRec
      <4>4. LinkProbes => link'.pc \in {"idle", "upsert"}
        BY <4>2, Blank DEF LinkProbes, LinkFails, LinkRec
      <4> QED
        BY <4>1, <4>3, <4>4
    <3>3. link'.note <= lastMsg'
      <4>1. link \in LinkRec /\ NoLink.note = 0
        BY DEF Types, LinkTypes, NoLink
      <4>2. link.pc \in {"exists", "probe"} /\ (LinkLooks \/ LinkProbes)
        BY <1>5, <2>2 DEF Unwatched, LinkStep, LinkLooks, LinkProbes, LinkUpserts, LinkStates, LinkReloads, LinkLocks,
           LinkAdopts, LinkSaves, LinkDeletes, LinkRedraws, LinkDrawn, LinkResets, LinkUntracks
      <4>3. link'.note \in {link.note, 0} /\ lastMsg' = lastMsg
        BY <4>1, <4>2 DEF LinkLooks, LinkProbes, LinkFails, LinkRec
      <4> QED
        BY <4>3, LiveNumbered DEF Unwatched
    <3>2. UNCHANGED <<row, lastRow, active, worker, sync>>
      BY <1>5, <2>2 DEF Unwatched, LinkStep, LinkLooks, LinkProbes, LinkStates, LinkReloads, LinkLocks,
         LinkAdopts, LinkSaves, LinkDeletes, LinkRedraws, LinkDrawn, LinkResets, LinkUntracks
    <3> QED
      BY <1>1, <3>1, <3>2, <3>3 DEF Unwatched
  <2> QED
    BY <2>1, <2>2
<1>6. CASE Play
  BY <1>1, <1>6 DEF Play, Unwatched
<1>7. CASE LinkPosted
  <2>1. link'.pc = "exists" /\ link'.note <= lastMsg'
    BY <1>7, PostedGoes DEF Unwatched
  <2> QED
    BY <1>1, <1>7, <2>1 DEF LinkPosted, Unwatched
<1>8. CASE Stop
  BY <1>0, <1>8 DEF Stop
<1>9. CASE Moderate
  BY <1>1, <1>9 DEF Moderate, Unwatched
<1>10. CASE Crash
  <2>1. (\A w \in Workers : worker'[w].pc = "idle") /\ link'.pc = "idle" /\ link'.note <= lastMsg'
    BY <1>10, Blank, LiveNumbered DEF Crash, NoLink
  <2>2. \A i \in Rows : active'[i].msg = 0
    BY <1>10 DEF Crash, NoCard
  <2>3. \A s \in Syncs : sync'[s].pc = "idle"
    BY <1>10 DEF Crash, NoSync
  <2> QED
    BY <1>0, <1>1, <1>10, <2>1, <2>2, <2>3 DEF Crash, Unwatched
<1> QED
  BY <1>0, <1>3, <1>4, <1>5, <1>6, <1>7, <1>8, <1>9, <1>10 DEF Next, CallStep, CallChecks, CallFetches, CallUntracks, CallEdits, CallSends, CallSaves, CallRaises

\* A copy stays good while the row's card changes only to the one in memory, or
\* to none, and the note of a link that is being registered stays what it is.
Steady ==
    /\ lastMsg' >= lastMsg
    /\ Registering' => Registering /\ link'.note = link.note
    /\ Shown' # 0 \/ row'.msg = 0 \/ (Shown = 0 /\ row'.msg = row.msg)

LEMMA SteadyCopies ==
    ASSUME Types, Types', Steady
    PROVE  /\ \A id \in Nat : Later(id) => Later(id)'
           /\ \A sub \in Row : Copies(sub) => Copies(sub)'
<1>1. \A id \in Nat : Later(id) => Later(id)'
  BY LiveNumbered DEF Steady, Later, Types, DiscordTypes
<1>2. ASSUME NEW sub \in Row, Copies(sub) PROVE Copies(sub)'
  <2>1. Later(sub.msg)'
    BY <1>1, <1>2 DEF Copies, Row
  <2> QED
    BY <1>2, <2>1 DEF Copies, Steady
<1> QED
  BY <1>1, <1>2

\* In a watched table one worker, the registered one, draws.
LEMMA OneGoing ==
    ASSUME Types, Closed, Going, NEW w \in Workers, worker[w].pc # "idle" \/ call[w].pc # "idle"
    PROVE  /\ registered = w /\ worker[w].pc \notin {"idle", "forget"} \cup Late
           /\ \A v \in Workers : v # w => worker[v].pc = "idle" /\ call[v].pc = "idle"
<1>1. ASSUME NEW v \in Workers, call[v].pc # "idle" PROVE worker[v].pc \in {"invited", "turn", "store"}
  BY <1>1, Blank DEF Closed, Drawing, Types, CallTypes, CallRec, Lives
<1>2. worker[w].pc # "idle"
  BY <1>1
<1> QED
  BY <1>1, <1>2 DEF Going, WorkerGoing

\* A step of the worker's call, but for what it does to the cards.
LEMMA CallFrame ==
    ASSUME Types, Types', Closed, Going, NEW w \in Workers, call[w].pc # "idle",
           UNCHANGED <<lastRow, worker, registered, sync, link>>,
           row'.id = 1, Steady, CallGoing(w)', MemoryGoing',
           \A v \in Workers : v # w => call'[v] = call[v],
           mlock[1] \in {w, "none"}
    PROVE  Going'
<1>1. \A sub \in Row : Copies(sub) => Copies(sub)'
  BY SteadyCopies
<1>2. \A v \in Workers : WorkerGoing(v)'
  <2>1. SUFFICES ASSUME NEW v \in Workers, worker[v].pc # "idle" PROVE WorkerGoing(v)'
    BY DEF WorkerGoing
  <2>2. worker[v].sub \in Row
    BY DEF Types, WorkerTypes, WorkerRec
  <2> QED
    BY <1>1, <2>1, <2>2 DEF Going, WorkerGoing
<1>3. \A v \in Workers : CallGoing(v)'
  <2>1. \A v \in Workers : v # w => call'[v].pc = "idle"
    BY OneGoing
  <2> QED
    BY <2>1 DEF CallGoing
<1>4. LinkGoing'
  <2>1. link.sub \in Row /\ link.pc \notin {"adopt", "save", "drop"}
    BY Blank DEF Types, LinkTypes, LinkRec, Going, LinkGoing
  <2>2. link.note <= lastMsg'
    BY LiveNumbered DEF Types, DiscordTypes, Steady, Going, LinkGoing
  <2> QED
    BY <1>1, <2>1, <2>2 DEF Going, LinkGoing
<1> QED
  BY <1>2, <1>3, <1>4 DEF Going

LEMMA CallHeld ==
    ASSUME Types, Closed, Going, NEW w \in Workers, CallStep(w)
    PROVE  /\ call[w] \in CallRec /\ call[w].pc # "idle" /\ call[w].sub.id = 1 /\ call[w].sub \in Row
           /\ call \in [Callers -> CallRec] /\ w \in Callers
           /\ Copies(call[w].sub) /\ CallGoing(w)
           /\ active \in [Rows -> Card] /\ mlock \in [Rows -> Callers \cup {"none"}]
           /\ mlock[1] \in {w, "none"}
           /\ ~Finishing
           /\ Sending <=> call[w].pc = "send"
           /\ UNCHANGED <<bga, lastRow, worker, registered, sync, link, disturbed>>
<1>1. call[w] \in CallRec /\ w \in Callers /\ call \in [Callers -> CallRec] /\ call[w].sub \in Row
  BY Blank DEF Types, CallTypes, CallRec
<1>2. call[w].pc # "idle" /\ UNCHANGED <<bga, worker, registered, sync, link, disturbed>>
  BY <1>1, CallGoesOn
<1>3. UNCHANGED lastRow
  BY DEF CallStep, CallChecks, CallFetches, CallUntracks, CallEdits, CallSends, CallSaves, Track, database
<1>4. CallGoing(w) /\ Copies(call[w].sub) /\ call[w].sub.id = 1
  BY <1>2 DEF Going, CallGoing, Copies
<1>5. mlock[1] \in {w, "none"}
  <2>1. CASE call[w].pc = "lock"
    BY <1>4, <2>1 DEF CallStep, CallChecks, CallFetches, CallUntracks, CallEdits, CallSends, CallSaves, MayDraw
  <2> QED
    BY <1>2, <1>4, <2>1 DEF CallGoing
<1>6. /\ \A v \in Workers : v # w => worker[v].pc = "idle" /\ call[v].pc = "idle"
      /\ worker[w].pc \in {"invited", "turn", "store"}
  <2>1. worker[w].pc \in {"invited", "turn", "store"}
    BY <1>1, <1>2 DEF Closed, Drawing, CallRec, Lives
  <2> QED
    BY <1>2, <2>1, OneGoing
<1>7. ~Finishing /\ (Sending <=> call[w].pc = "send")
  BY <1>2, <1>6 DEF Finishing, Sending
<1> QED
  BY <1>1, <1>2, <1>3, <1>4, <1>5, <1>7 DEF Types, MemoryTypes

\* A call returns: the card is shown as it was to be, or to an event.
LEMMA CallReturnsGoing ==
    ASSUME Types, Types', Closed, Going, NEW w \in Workers, CallStep(w), CallReturns(w),
           UNCHANGED <<active, messages>>,
           lastMsg' = lastMsg,
           \/ events' = events + 1 /\ UNCHANGED row
           \/ /\ events' = events /\ Shown # 0 /\ active[1].kind = call[w].life
              /\ row'.id = 1 /\ row'.msg \in {row.msg, Shown}
    PROVE  Going' /\ Pays
<1>0. /\ call[w] \in CallRec /\ call[w].pc # "idle" /\ call[w].sub.id = 1 /\ call[w].sub \in Row
      /\ call \in [Callers -> CallRec] /\ w \in Callers
      /\ mlock[1] \in {w, "none"}
      /\ UNCHANGED <<bga, lastRow, worker, registered, sync, link, disturbed>>
  BY CallHeld
<1>1. Steady /\ UNCHANGED Shown /\ row'.id = 1 /\ Later(row'.msg)
  BY <1>0, LiveNumbered DEF Steady, Registering, Shown, Going, MemoryGoing
<1>2. MemoryGoing'
  <2>1. Later(Shown)' /\ Later(row.msg)'
    BY <1>0, <1>1 DEF Going, MemoryGoing, Later, Registering
  <2> QED
    BY <1>1, <2>1 DEF Going, MemoryGoing
<1>3. call'[w].pc = "idle" /\ \A v \in Workers : v # w => call'[v] = call[v]
  BY <1>0, Blank DEF CallReturns
<1>4. Going'
  BY <1>0, <1>1, <1>2, <1>3, CallFrame DEF CallGoing
<1>5. UNCHANGED Live
  BY DEF Live
<1>6. CASE events' = events + 1
  BY <1>4, <1>5, <1>6, FaultPays
<1>7. CASE events' = events /\ Shown # 0 /\ active[1].kind = call[w].life
  <2>1. events' >= events
    BY <1>7 DEF Types, BoundTypes
  <2>2. CASE call[w].life = "finished"
    <3>1. \A m \in Live : ~Keeps(m.id)
      BY <1>7, <2>2 DEF Live, Keeps, Going, MemoryGoing
    <3> QED
      BY <1>4, <1>5, <2>1, <3>1, KeepingPays
  <2>3. CASE call[w].life # "finished"
    <3>1. worker[w].pc \notin {"store", "remove"} /\ \A v \in Workers : v # w => worker[v].pc = "idle"
      BY <1>0, <2>3, OneGoing DEF Closed, Drawing, CallRec, Lives
    <3>2. ~Finishing'
      BY <1>0, <3>1 DEF Finishing
    <3>3. \A m \in Live : Keeps(m.id) => Keeps(m.id)'
      BY <1>1, <1>7, <3>2 DEF Keeps
    <3> QED
      BY <1>4, <1>5, <2>1, <3>3, KeepingPays
  <2> QED
    BY <2>2, <2>3
<1> QED
  BY <1>6, <1>7

\* A call goes on, for a card that stays kept.
LEMMA CallGoesGoing ==
    ASSUME Types, Types', Closed, Going, NEW w \in Workers, CallStep(w),
           call'[w].pc # "idle", call'[w].sub = call[w].sub, call'[w].life = call[w].life,
           row'.id = 1, Steady, MemoryGoing', CallGoing(w)',
           events' >= events,
           \A m \in Live' : m \in Live \/ m.id = Shown',
           \A m \in Live : Keeps(m.id) => m.id = Shown' \/ (Shown' = 0 /\ m.id = row'.msg /\ call'[w].pc # "send")
    PROVE  Going' /\ Pays
<1>0. /\ call[w] \in CallRec /\ call[w].pc # "idle" /\ w \in Callers
      /\ mlock[1] \in {w, "none"}
      /\ UNCHANGED <<bga, lastRow, worker, registered, sync, link, disturbed>>
  BY CallHeld
<1>1. \A v \in Callers : v # w => call'[v] = call[v]
  BY <1>0, CallGoesOn
<1>2. Going'
  BY <1>0, <1>1, CallFrame, Blank
<1>3. ~Finishing' /\ (Sending' <=> call'[w].pc = "send")
  <2>1. /\ \A v \in Workers : v # w => worker[v].pc = "idle" /\ call[v].pc = "idle"
        /\ worker[w].pc \in {"invited", "turn", "store"}
    BY <1>0, OneGoing DEF Closed, Drawing, CallRec, Lives
  <2> QED
    BY <1>0, <1>1, <2>1, Blank DEF Finishing, Sending
<1>4. \A m \in Lost' : m \in Lost
  <2>1. SUFFICES ASSUME NEW m \in Live', ~Keeps(m.id)' PROVE m \in Lost
    BY DEF Lost
  <2>2. m.id # Shown' /\ ~(Shown' = 0 /\ m.id = row'.msg /\ call'[w].pc # "send")
    BY <1>3, <2>1 DEF Keeps
  <2>3. m \in Live
    BY <2>2
  <2> QED
    BY <2>2, <2>3 DEF Lost
<1> QED
  BY <1>2, <1>4 DEF Pays

LEMMA CallChecksGoing ==
    ASSUME Types, Types', Closed, Going, NEW w \in Workers, CallChecks(w)
    PROVE  Going' /\ Pays
<1>0. /\ call[w] \in CallRec /\ call[w].pc # "idle" /\ call[w].sub.id = 1 /\ call[w].sub \in Row
      /\ call \in [Callers -> CallRec] /\ w \in Callers
      /\ Copies(call[w].sub) /\ CallStep(w) /\ mlock \in [Rows -> Callers \cup {"none"}]
      /\ ~Finishing /\ (Sending <=> call[w].pc = "send") /\ 1 \in Rows
  BY CallHeld, Blank DEF CallStep
<1>1. UNCHANGED <<bga, row, lastRow, active, worker, registered, sync, link, messages, lastMsg, links, disturbed>>
  BY DEF CallChecks, database, tasks, discord
<1>2. CASE /\ CallReturns(w)
           /\ events' = events + 1 \/ (events' = events /\ Shown # 0 /\ active[1].kind = call[w].life)
  BY <1>0, <1>1, <1>2, CallReturnsGoing DEF Going
<1>3. ASSUME mlock' = [mlock EXCEPT ![1] = w], events' = events,
             call' = [call EXCEPT ![w].pc = IF Shown # 0 THEN "edit" ELSE IF call[w].sub.msg # 0 THEN "fetch" ELSE "send",
                                  ![w].msg = Shown]
      PROVE  Going' /\ Pays
  <2>1. /\ call'[w].pc = (IF Shown # 0 THEN "edit" ELSE IF call[w].sub.msg # 0 THEN "fetch" ELSE "send")
        /\ call'[w].msg = Shown /\ call'[w].sub = call[w].sub /\ call'[w].life = call[w].life
    BY <1>0, <1>3 DEF CallRec
  <2>2. Steady /\ UNCHANGED Shown /\ UNCHANGED Live
    BY <1>1, LiveNumbered DEF Steady, Shown, Live, Registering
  <2>3. MemoryGoing'
    BY <1>1, <2>2 DEF Going, MemoryGoing, Later, Registering
  <2>4. Copies(call[w].sub)'
    BY <1>0, <2>1, <2>2, SteadyCopies
  <2>5. CallGoing(w)'
    BY <1>0, <1>3, <2>1, <2>2, <2>4 DEF CallGoing
  <2>6. events' >= events
    BY <1>3 DEF Types, BoundTypes
  <2>7. \A m \in Live : Keeps(m.id) => m.id = Shown \/ (Shown = 0 /\ m.id = row.msg /\ call'[w].pc # "send")
    BY <1>0, <2>1, LiveNumbered DEF Keeps, Copies, Live
  <2> QED
    BY <1>0, <1>1, <2>1, <2>2, <2>3, <2>5, <2>6, <2>7, CallGoesGoing DEF Going
<1> QED
  BY <1>0, <1>2, <1>3 DEF CallChecks, Shown, Fault

LEMMA CallFetchesGoing ==
    ASSUME Types, Types', Closed, Going, NEW w \in Workers, CallFetches(w)
    PROVE  Going' /\ Pays
<1>0. /\ call[w] \in CallRec /\ call[w].pc = "fetch" /\ call[w].sub.id = 1 /\ call[w].sub \in Row
      /\ call \in [Callers -> CallRec] /\ w \in Callers
      /\ Copies(call[w].sub) /\ CallGoing(w) /\ CallStep(w)
      /\ active \in [Rows -> Card] /\ 1 \in Rows /\ Shown = 0 /\ mlock[1] = w
      /\ row.id = 1
  BY CallHeld, Blank DEF CallStep, CallFetches, CallGoing, Going
<1>1. UNCHANGED <<bga, row, lastRow, mlock, worker, registered, sync, link, messages, lastMsg, links, disturbed>>
  BY DEF CallFetches, database, tasks, discord
<1>2. UNCHANGED Live /\ UNCHANGED Registering
  BY <1>1 DEF Live, Registering
<1>3. ASSUME NEW pc \in {"untrack", "send"}, CallGoes(w, pc), UNCHANGED active,
             pc = "untrack" => ~Exists(call[w].sub.msg) /\ events' = events,
             pc = "send" => events' = events + 1
      PROVE  Going' /\ Pays
  <2>1. call'[w].pc = pc /\ call'[w].msg = call[w].msg /\ call'[w].sub = call[w].sub /\ call'[w].life = call[w].life
    BY <1>0, <1>3 DEF CallRec, CallGoes
  <2>2. Steady /\ UNCHANGED Shown
    BY <1>1, <1>2, <1>3, LiveNumbered DEF Steady, Shown
  <2>3. MemoryGoing'
    BY <1>1, <1>3, <2>2 DEF Going, MemoryGoing, Later, Registering
  <2>4. Copies(call[w].sub)'
    BY <1>0, <2>1, <2>2, SteadyCopies
  <2>5. CallGoing(w)'
    BY <1>0, <1>1, <1>3, <2>1, <2>2, <2>4 DEF CallGoing, Exists
  <2>6. CASE pc = "send"
    <3>1. Going'
      <4>1. \A v \in Workers : v # w => call'[v] = call[v]
        BY <1>0, CallGoesOn, Blank
      <4> QED
        BY <1>0, <1>1, <2>2, <2>3, <2>5, <4>1, CallFrame
    <3> QED
      BY <1>2, <1>3, <2>6, <3>1, FaultPays
  <2>7. CASE pc = "untrack"
    <3>1. events' >= events
      BY <1>3, <2>7 DEF Types, BoundTypes
    <3>2. \A m \in Live : Keeps(m.id) => m.id = Shown' \/ (Shown' = 0 /\ m.id = row'.msg /\ call'[w].pc # "send")
      BY <1>0, <1>1, <2>1, <2>2, <2>7 DEF Keeps
    <3> QED
      BY <1>0, <1>1, <1>2, <2>1, <2>2, <2>3, <2>5, <2>7, <3>1, <3>2, CallGoesGoing
  <2> QED
    BY <2>6, <2>7
<1>4. ASSUME Exists(call[w].sub.msg), events' = events,
             active' = [active EXCEPT ![1] = [msg |-> call[w].sub.msg, kind |-> "note"]],
             call' = [call EXCEPT ![w].pc = "edit", ![w].msg = call[w].sub.msg]
      PROVE  Going' /\ Pays
  <2>1. /\ call'[w].pc = "edit" /\ call'[w].msg = call[w].sub.msg
        /\ call'[w].sub = call[w].sub /\ call'[w].life = call[w].life
    BY <1>0, <1>4 DEF CallRec
  <2>2. Shown' = call[w].sub.msg /\ active'[1].kind = "note" /\ \A i \in Rows : i # 1 => active'[i] = active[i]
    BY <1>0, <1>4 DEF Shown
  <2>3. Shown' # 0
    BY <1>4, <2>2, LiveNumbered DEF Exists
  <2>4. Steady
    BY <1>1, <1>2, <2>3, LiveNumbered DEF Steady
  <2>5. MemoryGoing'
    BY <1>0, <1>1, <1>2, <2>2 DEF Going, MemoryGoing, Later, Registering, Copies
  <2>6. CallGoing(w)'
    <3>1. Copies(call[w].sub)'
      BY <1>0, <2>1, <2>4, SteadyCopies
    <3> QED
      BY <1>0, <1>1, <2>1, <2>2, <2>3, <3>1 DEF CallGoing
  <2>7. events' >= events
    BY <1>4 DEF Types, BoundTypes
  <2>8. \A m \in Live : Keeps(m.id) => m.id = Shown'
    BY <1>0, <2>2, LiveNumbered DEF Keeps, Copies, Live
  <2> QED
    BY <1>0, <1>1, <1>2, <2>1, <2>4, <2>5, <2>6, <2>7, <2>8, CallGoesGoing
<1> QED
  BY <1>0, <1>3, <1>4 DEF CallFetches, Fault

LEMMA CallUntracksGoing ==
    ASSUME Types, Types', Closed, Going, NEW w \in Workers, CallUntracks(w)
    PROVE  Going' /\ Pays
<1>0. /\ call[w] \in CallRec /\ call[w].pc \in {"untrack", "lost"} /\ call[w].sub.id = 1 /\ call[w].sub \in Row
      /\ call \in [Callers -> CallRec] /\ w \in Callers
      /\ Copies(call[w].sub) /\ CallGoing(w) /\ CallStep(w)
      /\ active \in [Rows -> Card] /\ 1 \in Rows /\ mlock[1] = w
      /\ row.id = 1 /\ row \in Row
  BY CallHeld, Blank DEF CallStep, CallUntracks, CallGoing, Going, Types, DataTypes
<1>1. UNCHANGED <<bga, lastRow, mlock, worker, registered, sync, link, messages, lastMsg, links, events, disturbed>>
  BY DEF CallUntracks, tasks, discord, bounds, Track
<1>2. UNCHANGED Live /\ UNCHANGED Registering
  BY <1>1 DEF Live, Registering
<1>3. row' = [row EXCEPT !.life = call[w].sub.life, !.msg = 0]
  BY <1>0 DEF CallUntracks, Track
<1>4. row'.id = 1 /\ row'.msg = 0
  BY <1>0, <1>3 DEF Row
<1>5. Steady
  BY <1>1, <1>2, <1>4, LiveNumbered DEF Steady
<1>6. \A sub \in Row : Copies(sub) => Copies(sub)'
  BY <1>5, SteadyCopies
<1>7. events' >= events
  BY <1>1 DEF Types, BoundTypes
<1>8. CASE call[w].pc = "untrack"
  <2>1. CallGoes(w, "send") /\ UNCHANGED active
    BY <1>8 DEF CallUntracks
  <2>2. call'[w].pc = "send" /\ call'[w].sub = call[w].sub /\ call'[w].life = call[w].life
    BY <1>0, <2>1 DEF CallRec, CallGoes
  <2>3. UNCHANGED Shown
    BY <2>1 DEF Shown
  <2>4. MemoryGoing'
    BY <1>1, <1>2, <1>4, <2>1, <2>3, LiveNumbered DEF Going, MemoryGoing, Later, Registering
  <2>5. CallGoing(w)'
    BY <1>0, <1>1, <1>6, <1>8, <2>2, <2>3 DEF CallGoing
  <2>6. \A m \in Live : ~Keeps(m.id)
    BY <1>0, <1>8, LiveNumbered DEF Keeps, Copies, Live, CallGoing
  <2> QED
    BY <1>0, <1>1, <1>2, <1>4, <1>5, <1>7, <2>2, <2>4, <2>5, <2>6, CallGoesGoing
<1>9. CASE call[w].pc = "lost"
  <2>1. CallGoes(w, "check") /\ active' = [active EXCEPT ![1] = NoCard]
    BY <1>0, <1>9 DEF CallUntracks
  <2>2. call'[w].pc = "check" /\ call'[w].sub = call[w].sub /\ call'[w].life = call[w].life
    BY <1>0, <2>1 DEF CallRec, CallGoes
  <2>3. Shown' = 0 /\ active'[1].kind = "note" /\ \A i \in Rows : i # 1 => active'[i] = active[i]
    BY <1>0, <2>1 DEF Shown, NoCard
  <2>4. MemoryGoing'
    BY <1>1, <1>2, <1>4, <2>3, LiveNumbered DEF Going, MemoryGoing, Later, Registering
  <2>5. CallGoing(w)'
    BY <1>0, <1>1, <1>6, <1>9, <2>2 DEF CallGoing
  <2>6. \A m \in Live : ~Keeps(m.id)
    BY <1>0, <1>9, LiveNumbered DEF Keeps, Live, CallGoing
  <2> QED
    BY <1>0, <1>1, <1>2, <1>4, <1>5, <1>7, <2>2, <2>4, <2>5, <2>6, CallGoesGoing
<1> QED
  BY <1>0, <1>8, <1>9

LEMMA CallEditsGoing ==
    ASSUME Types, Types', Closed, Going, NEW w \in Workers, CallEdits(w)
    PROVE  Going' /\ Pays
<1>0. /\ call[w] \in CallRec /\ call[w].pc = "edit" /\ call[w].sub.id = 1 /\ call[w].sub \in Row
      /\ call \in [Callers -> CallRec] /\ w \in Callers
      /\ Copies(call[w].sub) /\ CallGoing(w) /\ CallStep(w)
      /\ active \in [Rows -> Card] /\ 1 \in Rows /\ mlock[1] = w
      /\ row.id = 1 /\ call[w].msg = Shown /\ Shown # 0
  BY CallHeld, Blank DEF CallStep, CallEdits, CallGoing, Going
<1>1. UNCHANGED <<bga, row, lastRow, worker, registered, sync, link, lastMsg, links, disturbed>>
  BY DEF CallEdits, database, tasks
<1>2. UNCHANGED Registering
  BY <1>1 DEF Registering
<1>3. CASE CallReturns(w) /\ events' = events + 1 /\ UNCHANGED <<messages, active>>
  BY <1>0, <1>1, <1>3, CallReturnsGoing
<1>4. ASSUME NEW pc \in {"lost", "save"}, CallGoes(w, pc), events' = events, UNCHANGED mlock,
             Shown' = Shown, \A i \in Rows : i # 1 => active'[i] = active[i],
             pc = "lost" => ~Exists(Shown) /\ UNCHANGED <<messages, active>>,
             pc = "save" => messages' = Showing(Shown, call[w].life) /\ active'[1].kind = call[w].life
      PROVE  Going' /\ Pays
  <2>1. call'[w].pc = pc /\ call'[w].msg = call[w].msg /\ call'[w].sub = call[w].sub /\ call'[w].life = call[w].life
    BY <1>0, <1>4 DEF CallRec, CallGoes
  <2>2. Steady
    BY <1>0, <1>1, <1>2, <1>4, LiveNumbered DEF Steady
  <2>3. MemoryGoing'
    <3>1. active'[1].kind # "note" => \A m \in messages' : m.id = Shown' => m.kind = active'[1].kind
      BY <1>4 DEF Going, MemoryGoing, Showing
    <3> QED
      BY <1>1, <1>2, <1>4, <3>1 DEF Going, MemoryGoing, Later, Registering
  <2>4. CallGoing(w)'
    <3>1. Copies(call[w].sub)'
      BY <1>0, <2>1, <2>2, SteadyCopies
    <3> QED
      BY <1>0, <1>4, <2>1, <3>1 DEF CallGoing, Exists
  <2>5. events' >= events
    BY <1>4 DEF Types, BoundTypes
  <2>6. \A m \in Live' : m \in Live \/ m.id = Shown'
    BY <1>4 DEF Live, Showing
  <2>7. \A m \in Live : Keeps(m.id) => m.id = Shown'
    BY <1>0, <1>4 DEF Keeps
  <2> QED
    BY <1>0, <1>1, <2>1, <2>2, <2>3, <2>4, <2>5, <2>6, <2>7, CallGoesGoing
<1>5. CASE /\ messages' = Showing(call[w].msg, call[w].life) /\ CallGoes(w, "save")
           /\ active' = [active EXCEPT ![1] = [msg |-> call[w].msg, kind |-> call[w].life]]
           /\ UNCHANGED <<mlock, events>>
  <2>1. Shown' = Shown /\ active'[1].kind = call[w].life /\ \A i \in Rows : i # 1 => active'[i] = active[i]
    BY <1>0, <1>5 DEF Shown
  <2> QED
    BY <1>0, <1>4, <1>5, <2>1
<1>6. CASE ~Exists(call[w].msg) /\ CallGoes(w, "lost") /\ UNCHANGED <<messages, active, mlock, events>>
  <2>1. Shown' = Shown
    BY <1>6 DEF Shown
  <2> QED
    BY <1>0, <1>4, <1>6, <2>1
<1> QED
  BY <1>0, <1>3, <1>5, <1>6 DEF CallEdits, Fault

LEMMA CallSendsGoing ==
    ASSUME Types, Types', Closed, Going, NEW w \in Workers, CallSends(w)
    PROVE  Going' /\ Pays
<1>0. /\ call[w] \in CallRec /\ call[w].pc = "send" /\ call[w].sub.id = 1 /\ call[w].sub \in Row
      /\ call \in [Callers -> CallRec] /\ w \in Callers
      /\ Copies(call[w].sub) /\ CallGoing(w) /\ CallStep(w)
      /\ active \in [Rows -> Card] /\ 1 \in Rows /\ mlock[1] = w
      /\ row.id = 1 /\ Shown = 0 /\ Sending
  BY CallHeld, Blank DEF CallStep, CallSends, CallGoing, Going
<1>1. UNCHANGED <<bga, row, lastRow, worker, registered, sync, link, links, disturbed>>
  BY DEF CallSends, database, tasks
<1>2. UNCHANGED Registering
  BY <1>1 DEF Registering
<1>3. CASE CallReturns(w) /\ events' = events + 1 /\ UNCHANGED <<messages, lastMsg, active>>
  BY <1>0, <1>1, <1>3, CallReturnsGoing
<1>4. CASE /\ messages' = Showing(lastMsg + 1, call[w].life) /\ lastMsg' = lastMsg + 1
           /\ active' = [active EXCEPT ![1] = [msg |-> lastMsg + 1, kind |-> call[w].life]]
           /\ call' = [call EXCEPT ![w].pc = "save", ![w].msg = lastMsg + 1]
           /\ UNCHANGED <<mlock, events>>
  <2>1. /\ call'[w].pc = "save" /\ call'[w].msg = lastMsg + 1
        /\ call'[w].sub = call[w].sub /\ call'[w].life = call[w].life
    BY <1>0, <1>4 DEF CallRec
  <2>2. Shown' = lastMsg + 1 /\ active'[1].kind = call[w].life /\ \A i \in Rows : i # 1 => active'[i] = active[i]
    BY <1>0, <1>4 DEF Shown
  <2>3. Steady /\ Shown' # 0
    BY <1>1, <1>2, <1>4, <2>2, LiveNumbered DEF Steady
  <2>4. MemoryGoing'
    <3>1. active'[1].kind # "note" => \A m \in messages' : m.id = Shown' => m.kind = active'[1].kind
      BY <1>4, <2>2 DEF Showing
    <3>2. Later(Shown)'
      <4>1. link.note <= lastMsg
        BY DEF Going, LinkGoing
      <4> QED
        BY <1>1, <1>4, <2>2, <4>1, LiveNumbered DEF Later
    <3>3. Later(row.msg)'
      BY <1>1, <1>2, <1>4, LiveNumbered DEF Going, MemoryGoing, Later
    <3> QED
      BY <2>2, <3>1, <3>2, <3>3 DEF Going, MemoryGoing
  <2>5. CallGoing(w)'
    <3>1. Copies(call[w].sub)'
      BY <1>0, <2>1, <2>3, SteadyCopies
    <3> QED
      BY <1>0, <1>4, <2>1, <2>2, <2>3, <3>1 DEF CallGoing
  <2>6. events' >= events
    BY <1>4 DEF Types, BoundTypes
  <2>7. \A m \in Live' : m \in Live \/ m.id = Shown'
    BY <1>4, <2>2 DEF Live, Showing
  <2>8. \A m \in Live : ~Keeps(m.id)
    BY <1>0, LiveNumbered DEF Keeps, Live
  <2> QED
    BY <1>0, <1>1, <2>1, <2>3, <2>4, <2>5, <2>6, <2>7, <2>8, CallGoesGoing
<1> QED
  BY <1>0, <1>3, <1>4 DEF CallSends, Fault

LEMMA CallSavesGoing ==
    ASSUME Types, Types', Closed, Going, NEW w \in Workers, CallSaves(w)
    PROVE  Going' /\ Pays
<1>0. /\ call[w] \in CallRec /\ call[w].pc = "save" /\ call[w].sub.id = 1
      /\ CallGoing(w) /\ CallStep(w) /\ CallReturns(w)
      /\ row.id = 1 /\ row \in Row /\ call[w].msg = Shown /\ Shown # 0 /\ active[1].kind = call[w].life
  BY CallHeld, Blank DEF CallStep, CallSaves, CallGoing, Going, Types, DataTypes
<1>1. UNCHANGED <<active, messages, lastMsg, events>>
  BY DEF CallSaves, discord, bounds
<1>2. row' = [row EXCEPT !.life = call[w].life, !.msg = Shown]
  BY <1>0 DEF CallSaves, Track
<1>3. row'.id = 1 /\ row'.msg = Shown
  BY <1>0, <1>2 DEF Row
<1> QED
  BY <1>0, <1>1, <1>3, CallReturnsGoing

LEMMA CallStepGoing ==
    ASSUME Types, Types', Closed, Going, NEW w \in Workers, CallStep(w)
    PROVE  Going' /\ Pays
BY CallChecksGoing, CallFetchesGoing, CallUntracksGoing, CallEditsGoing, CallSendsGoing, CallSavesGoing DEF CallStep

\* A call that Discord raises in leaves the cards as they were, at the cost of an event.
LEMMA RaisedGoing ==
    ASSUME Types, Types', Closed, Going, NEW w \in Workers, CallRaises(w)
    PROVE  Going' /\ Pays
<1>1. /\ call[w].pc # "idle" /\ call'[w].pc = "idle" /\ w \in Callers /\ UNCHANGED link
      /\ worker'[w].pc \in {"idle", "read"} /\ \A v \in Workers : v # w => worker'[v] = worker[v]
      /\ \A v \in Workers : v # w => call'[v] = call[v]
  BY RaisedGoes, Blank
<1>2. /\ UNCHANGED <<row, lastRow, active, registered, sync, messages, lastMsg>> /\ events' = events + 1
      /\ mlock' = Unlocked(w)
  BY DEF CallRaises, CallReturns, Fault, database, discord
<1>3. registered = w /\ \A v \in Workers : v # w => worker[v].pc = "idle" /\ call[v].pc = "idle"
  BY <1>1, OneGoing
<1>4. UNCHANGED <<Shown, Live, Registering>> /\ Steady
  BY <1>1, <1>2, LiveNumbered DEF Shown, Live, Registering, Steady
<1>5. \A v \in Workers : WorkerGoing(v)' /\ CallGoing(v)'
  BY <1>1, <1>2, <1>3 DEF WorkerGoing, CallGoing, Late
<1>6. LinkGoing'
  <2>1. link.sub \in Row
    BY DEF Types, LinkTypes, LinkRec
  <2>2. ASSUME Copies(link.sub) PROVE Copies(link.sub)'
    <3>1. PICK sub \in Row : sub = link.sub
      BY <2>1
    <3>2. Copies(sub)'
      BY <1>4, <2>2, <3>1, SteadyCopies
    <3> QED
      BY <1>1, <3>1, <3>2 DEF Copies, Later, Shown
  <2>3. mlock[1] = "link" => mlock'[1] = "link"
    BY <1>2, Blank DEF Unlocked
  <2> QED
    BY <1>1, <1>2, <1>4, <2>2, <2>3 DEF Going, LinkGoing
<1>7. MemoryGoing'
  BY <1>1, <1>2, <1>4 DEF Going, MemoryGoing, Later, Registering
<1>8. Going'
  BY <1>2, <1>5, <1>6, <1>7 DEF Going
<1> QED
  BY <1>2, <1>4, <1>8, FaultPays

\* A step of the worker between two cards: a copy of the row that it takes on,
\* or has drawn, is a good one.
LEMMA WorkerFrame ==
    ASSUME Types, Types', Closed, Going, NEW w \in Workers, NEW t \in WorkerRec,
           worker' = [worker EXCEPT ![w] = t],
           worker[w].pc # "idle", call[w].pc = "idle",
           t.pc \notin {"forget"} \cup Late,
           t.pc \in {"fetch", "invite"} => Copies(t.sub),
           t.pc = "remove" => Finishing,
           call' = call \/ \E c \in CallRec : /\ call' = [call EXCEPT ![w] = c]
                                              /\ c.pc = "lock" /\ Copies(c.sub),
           t.pc = "store" => call'[w].pc # "idle",
           row'.id = 1, row'.msg = row.msg, events' >= events,
           UNCHANGED <<lastRow, active, mlock, registered, sync, link, messages, lastMsg>>
    PROVE  Going' /\ Pays
<1>0. /\ worker \in [Workers -> WorkerRec] /\ call \in [Callers -> CallRec] /\ w \in Callers
      /\ registered = w /\ \A v \in Workers : v # w => worker[v].pc = "idle" /\ call[v].pc = "idle"
      /\ row.id = 1
  BY OneGoing, Blank DEF Types, WorkerTypes, CallTypes, Going
<1>1. UNCHANGED <<Shown, Live, Registering>> /\ Steady
  BY LiveNumbered DEF Shown, Live, Registering, Steady
<1>2. \A sub \in Row : Copies(sub) => Copies(sub)'
  BY <1>1, SteadyCopies
<1>3. worker'[w] = t /\ \A v \in Workers : v # w => worker'[v] = worker[v]
  BY <1>0
<1>4. \A v \in Workers : WorkerGoing(v)'
  <2>1. t.sub \in Row
    BY DEF WorkerRec
  <2>2. ASSUME NEW v \in Workers, worker'[v].pc # "idle"
        PROVE  v = w
    BY <1>0, <1>3, <2>2
  <2>3. WorkerGoing(w)'
    BY <1>0, <1>2, <1>3, <2>1 DEF WorkerGoing
  <2> QED
    BY <2>2, <2>3 DEF WorkerGoing
<1>5. \A v \in Workers : v # w => call'[v].pc = "idle"
  BY <1>0, Blank
<1>6. CallGoing(w)'
  <2>1. CASE call' = call
    BY <2>1 DEF CallGoing
  <2>2. ASSUME NEW c \in CallRec, call' = [call EXCEPT ![w] = c], c.pc = "lock", Copies(c.sub) PROVE CallGoing(w)'
    <3>1. call'[w] = c /\ c.sub \in Row
      BY <1>0, <2>2 DEF CallRec
    <3>2. Copies(call[w].sub)'
      BY <1>2, <2>2, <3>1
    <3> QED
      BY <2>2, <3>1, <3>2 DEF CallGoing
  <2> QED
    BY <2>1, <2>2
<1>7. \A v \in Workers : CallGoing(v)'
  BY <1>5, <1>6 DEF CallGoing
<1>8. LinkGoing'
  <2>1. link.sub \in Row
    BY DEF Types, LinkTypes, LinkRec
  <2>2. link.pc \in {"lock", "adopt"} => Copies(link.sub)'
    BY <1>2, <2>1 DEF Going, LinkGoing
  <2> QED
    BY <1>1, <2>2 DEF Going, LinkGoing
<1>9. MemoryGoing'
  BY <1>1 DEF Going, MemoryGoing, Later, Registering
<1>10. Going'
  BY <1>4, <1>7, <1>8, <1>9 DEF Going
<1>11. Finishing' => Finishing
  BY <1>0, <1>3, <1>5 DEF Finishing
<1>12. Sending' => Sending
  <2>1. call'[w].pc # "send"
    BY <1>0
  <2> QED
    BY <1>5, <2>1 DEF Sending
<1>13. \A m \in Live : Keeps(m.id) => Keeps(m.id)'
  BY <1>1, <1>11, <1>12 DEF Keeps
<1> QED
  BY <1>1, <1>10, <1>13, KeepingPays

\* Moving on without a card, or asking for one.
LEMMA GoesFrame ==
    ASSUME Types, Types', Closed, Going, NEW w \in Workers, NEW pc \in WorkerPcs, WorkerGoes(w, pc),
           worker[w].pc # "idle", call[w].pc = "idle",
           pc \notin {"forget", "fetch", "invite", "store"} \cup Late,
           pc = "remove" => Finishing,
           call' = call \/ \E c \in CallRec : /\ call' = [call EXCEPT ![w] = c]
                                              /\ c.pc = "lock" /\ Copies(c.sub),
           row'.id = 1, row'.msg = row.msg, events' >= events,
           UNCHANGED <<lastRow, active, mlock, registered, sync, link, messages, lastMsg>>
    PROVE  Going' /\ Pays
<1>1. PICK t \in WorkerRec : worker' = [worker EXCEPT ![w] = t] /\ t.pc = pc
  BY GoesIs DEF Types
<1> QED
  BY <1>1, WorkerFrame

\* The row is its own copy.
LEMMA RowCopies ==
    ASSUME Types, Going
    PROVE  Copies(row) /\ row \in Row /\ row # NoRow /\ row.id = 1 /\ Numbered(row)
BY Blank DEF Going, MemoryGoing, Copies, Types, DataTypes, Numbered

LEMMA FinaliseGoing ==
    ASSUME Types, Types', Closed, Going, NEW w \in Workers, NEW sub \in Row, Copies(sub), NEW from \in Sources,
           Finalise(w, sub, from),
           worker[w].pc # "idle", call[w].pc = "idle",
           events' >= events,
           UNCHANGED <<row, lastRow, active, mlock, registered, sync, link, messages, lastMsg>>
    PROVE  Going' /\ Pays
<1> DEFINE task == [NoWorker EXCEPT !.pc = "store", !.sub.id = sub.id, !.from = from]
           c == [pc |-> "lock", sub |-> sub, life |-> "finished", msg |-> 0]
<1>1. NoWorker.sub \in Row /\ [NoWorker.sub EXCEPT !.id = sub.id] \in Row
  BY Blank DEF WorkerRec, Row, Copies
<1>2. task \in WorkerRec /\ task.pc = "store"
  BY <1>1, Blank DEF WorkerRec, WorkerPcs
<1>3. c \in CallRec /\ c.pc = "lock" /\ Copies(c.sub)
  BY DEF CallRec, CallPcs, Lives
<1>4. Becomes(w, task) /\ call' = [call EXCEPT ![w] = c]
  BY DEF Finalise, Publish
<1> HIDE DEF task, c
<1>5. PICK t \in WorkerRec : worker' = [worker EXCEPT ![w] = t] /\ t.pc = "store"
  BY <1>2, <1>4, BecomesIs
<1>6. call'[w].pc # "idle" /\ row'.id = 1 /\ row'.msg = row.msg
  BY <1>3, <1>4, RowCopies, Blank DEF Types, CallTypes
<1>7. \E d \in CallRec : call' = [call EXCEPT ![w] = d] /\ d.pc = "lock" /\ Copies(d.sub)
  BY <1>3, <1>4
<1> QED
  BY <1>5, <1>6, <1>7, WorkerFrame DEF Late

LEMMA FollowGoing ==
    ASSUME Types, Types', Closed, Going, NEW w \in Workers, NEW sub \in Row, Copies(sub), NEW phase,
           Follow(w, sub, phase),
           worker[w].pc # "idle", call[w].pc = "idle",
           events' >= events,
           UNCHANGED <<row, lastRow, active, mlock, registered, sync, link, messages, lastMsg>>
    PROVE  Going' /\ Pays
<1>0. row'.id = 1 /\ row'.msg = row.msg
  BY RowCopies
<1>1. CASE phase = "recruiting" /\ Becomes(w, [NoWorker EXCEPT !.pc = "invite", !.sub = sub]) /\ UNCHANGED call
  <2> DEFINE task == [NoWorker EXCEPT !.pc = "invite", !.sub = sub]
  <2>1. task \in WorkerRec /\ task.pc = "invite" /\ task.sub = sub
    BY Blank DEF WorkerRec, WorkerPcs
  <2> HIDE DEF task
  <2>2. worker' = [worker EXCEPT ![w] = task]
    BY <1>1, <2>1 DEF task, Becomes
  <2>3. task.pc \notin {"forget"} \cup Late /\ Copies(task.sub)
    BY <2>1 DEF Late
  <2> QED
    BY <1>0, <1>1, <2>1, <2>2, <2>3, WorkerFrame
<1>2. CASE phase = "playing" /\ WorkerGoes(w, "stream") /\ UNCHANGED call
  BY <1>0, <1>2, GoesFrame DEF WorkerPcs, Late
<1>3. CASE phase = "finished" /\ Finalise(w, sub, "fetch")
  BY <1>3, Blank, FinaliseGoing
<1> QED
  BY <1>1, <1>2, <1>3 DEF Follow

\* What a worker does keeps its card, until it removes the row with the final card drawn.
LEMMA WorkerStepGoing ==
    ASSUME Types, Types', Watching, Closed, Going, NEW w \in Workers, WorkerStep(w)
    PROVE  (Going' \/ Over') /\ Pays
<1> USE DEF database, memory, discord, bounds
<1>0. /\ worker[w] \in WorkerRec /\ worker[w].sub \in Row /\ worker[w].pc # "idle" /\ call[w].pc = "idle"
      /\ worker[w].pc \notin {"forget"} \cup Late
      /\ worker \in [Workers -> WorkerRec] /\ call \in [Callers -> CallRec] /\ w \in Callers
      /\ worker[w].pc \in {"fetch", "invite"} => Copies(worker[w].sub)
  <2>1. worker[w].pc # "idle"
    BY DEF WorkerStep, WorkerRuns, WorkerReads, WorkerFetches, WorkerUpserts, WorkerRereads, WorkerInvites, WorkerInvited, WorkerHears,
         WorkerApplies, WorkerTurns, WorkerGivesUp, WorkerStores, WorkerRemoves, WorkerForgets, LateCall
  <2> QED
    BY <2>1, WorkerMoves, Blank DEF Going, WorkerGoing, Types, WorkerTypes, WorkerRec, CallTypes
<1>1. /\ UNCHANGED <<messages, lastMsg, link, sync, active, mlock>> /\ events' >= events
      /\ Copies(row) /\ row \in Row /\ row # NoRow /\ row.id = 1
      /\ {"read", "upsert", "reread", "invited", "stream", "apply", "gone", "turn", "remove"} \subseteq WorkerPcs
  <2>1. UNCHANGED <<messages, lastMsg, link, sync, active, mlock>>
    BY <1>0 DEF WorkerStep, WorkerRuns, WorkerReads, WorkerFetches, WorkerUpserts, WorkerRereads, WorkerInvites, WorkerInvited, WorkerHears,
         WorkerApplies, WorkerTurns, WorkerGivesUp, WorkerStores, WorkerRemoves, WorkerForgets, LateCall, tasks
  <2>2. events' >= events
    BY EventsGrow DEF Next
  <2> QED
    BY <2>1, <2>2, RowCopies DEF WorkerPcs
<1>2. CASE WorkerReads(w)
  <2> DEFINE t == [worker[w] EXCEPT !.pc = "fetch", !.sub = row]
  <2>1. t \in WorkerRec /\ t.pc = "fetch" /\ t.sub = row /\ worker' = [worker EXCEPT ![w] = t]
    BY <1>0, <1>1, <1>2 DEF WorkerReads, WorkerRec, WorkerPcs
  <2> HIDE DEF t
  <2> QED
    BY <1>0, <1>1, <1>2, <2>1, WorkerFrame DEF WorkerReads, Late
<1>3. CASE WorkerFetches(w)
  <2>1. UNCHANGED <<row, lastRow, registered>> /\ worker[w].pc = "fetch"
    BY <1>3 DEF WorkerFetches
  <2>2. CASE Follow(w, worker[w].sub, bga)
    BY <1>0, <1>1, <2>1, <2>2, FollowGoing
  <2>3. CASE Becomes(w, [NoWorker EXCEPT !.pc = "upsert", !.phase = bga]) /\ UNCHANGED call
    <3> DEFINE task == [NoWorker EXCEPT !.pc = "upsert", !.phase = bga]
    <3>1. task \in WorkerRec /\ task.pc = "upsert"
      BY Blank DEF WorkerRec, WorkerPcs, Types, DataTypes
    <3>2. Becomes(w, task)
      BY <2>3 DEF task
    <3> HIDE DEF task
    <3>3. PICK t \in WorkerRec : worker' = [worker EXCEPT ![w] = t] /\ t.pc = "upsert"
      BY <1>0, <3>1, <3>2, BecomesIs DEF Types
    <3> QED
      BY <1>0, <1>1, <2>1, <2>3, <3>3, WorkerFrame DEF Late
  <2>4. CASE WorkerGoes(w, "read") /\ UNCHANGED call
    BY <1>0, <1>1, <2>1, <2>4, GoesFrame DEF Late
  <2> QED
    BY <1>3, <2>2, <2>3, <2>4 DEF WorkerFetches
<1>4. CASE WorkerUpserts(w)
  <2>1. row' = [row EXCEPT !.page = Page(worker[w].phase)] /\ UNCHANGED <<lastRow, registered, call>>
    BY <1>1, <1>4 DEF WorkerUpserts, Upsert
  <2>2. row'.id = 1 /\ row'.msg = row.msg
    BY <1>1, <2>1 DEF Row
  <2> QED
    BY <1>0, <1>1, <1>4, <2>1, <2>2, GoesFrame DEF WorkerUpserts, Late
<1>5. CASE WorkerRereads(w)
  BY <1>0, <1>1, <1>5, FollowGoing DEF WorkerRereads
<1>6. ASSUME NEW life \in Lives, NEW next \in {"invited", "stream", "remove"}, Store(w, life, next),
             UNCHANGED registered,
             next = "remove" => Finishing,
             call' = call \/ \E c \in CallRec : /\ call' = [call EXCEPT ![w] = c]
                                                /\ c.pc = "lock" /\ Copies(c.sub)
      PROVE  Going' /\ Pays
  <2>1. next \in WorkerPcs /\ next \notin {"forget", "fetch", "invite", "store"} \cup Late
    BY DEF WorkerPcs, Late
  <2>2. CASE WorkerGoes(w, "read") /\ UNCHANGED database
    BY <1>0, <1>1, <1>6, <2>2, GoesFrame DEF Late
  <2>3. CASE row' = [row EXCEPT !.life = life] /\ WorkerGoes(w, next) /\ UNCHANGED lastRow
    <3>1. row'.id = 1 /\ row'.msg = row.msg
      BY <1>1, <2>3 DEF Row
    <3> QED
      BY <1>0, <1>1, <1>6, <2>1, <2>3, <3>1, GoesFrame
  <2>4. CASE WorkerEnds(w) /\ UNCHANGED database
    <3>1. NoWorker \in WorkerRec /\ NoWorker.pc = "idle" /\ worker' = [worker EXCEPT ![w] = NoWorker]
      BY <2>4, Blank DEF WorkerEnds
    <3> QED
      BY <1>0, <1>1, <1>6, <2>4, <3>1, WorkerFrame DEF Late
  <2> QED
    BY <1>6, <2>2, <2>3, <2>4 DEF Store, WorkerRaises
<1>7. ASSUME NEW sub \in Row, Copies(sub), NEW life \in Lives, Publish(w, sub, life)
      PROVE  \E c \in CallRec : /\ call' = [call EXCEPT ![w] = c]
                                /\ c.pc = "lock" /\ Copies(c.sub)
  <2> DEFINE c == [pc |-> "lock", sub |-> sub, life |-> life, msg |-> 0]
  <2>1. c \in CallRec /\ c.pc = "lock" /\ Copies(c.sub)
    BY <1>7 DEF CallRec, CallPcs
  <2> HIDE DEF c
  <2>2. call' = [call EXCEPT ![w] = c]
    BY <1>7 DEF Publish, c
  <2> QED
    BY <2>1, <2>2
<1>8. CASE WorkerInvites(w)
  <2>0. "recruiting" \in Lives /\ UNCHANGED registered
    BY <1>8 DEF Lives, WorkerInvites
  <2>1. CASE Store(w, "recruiting", "invited") /\ (UNCHANGED call \/ Publish(w, worker[w].sub, "recruiting"))
    <3>1. call' = call \/ \E c \in CallRec : call' = [call EXCEPT ![w] = c] /\ c.pc = "lock" /\ Copies(c.sub)
      BY <1>0, <1>7, <1>8, <2>0, <2>1 DEF WorkerInvites
    <3> QED
      BY <1>6, <2>0, <2>1, <3>1
  <2>2. CASE WorkerGoes(w, "read") /\ UNCHANGED <<database, call>>
    BY <1>0, <1>1, <2>0, <2>2, GoesFrame DEF Late
  <2> QED
    BY <1>8, <2>1, <2>2 DEF WorkerInvites
<1>9. CASE WorkerInvited(w)
  BY <1>0, <1>1, <1>9, GoesFrame DEF WorkerInvited, Late
<1>10. CASE WorkerHears(w)
  <2>1. UNCHANGED <<row, lastRow, registered, call>>
    BY <1>10 DEF WorkerHears
  <2>2. CASE worker' = [worker EXCEPT ![w].pc = "apply", ![w].phase = bga]
    <3> DEFINE t == [worker[w] EXCEPT !.pc = "apply", !.phase = bga]
    <3>1. t \in WorkerRec /\ t.pc = "apply" /\ worker' = [worker EXCEPT ![w] = t]
      BY <1>0, <1>1, <2>2 DEF WorkerRec, WorkerPcs, Types, DataTypes
    <3> HIDE DEF t
    <3> QED
      BY <1>0, <1>1, <2>1, <3>1, WorkerFrame DEF Late
  <2>3. ASSUME NEW pc \in {"read", "gone"}, WorkerGoes(w, pc) PROVE Going' /\ Pays
    BY <1>0, <1>1, <2>1, <2>3, GoesFrame DEF Late
  <2> QED
    BY <1>10, <2>2, <2>3 DEF WorkerHears
<1>11. CASE WorkerApplies(w)
  <2>1. UNCHANGED <<row, lastRow, registered>>
    BY <1>11 DEF WorkerApplies
  <2>2. CASE Finalise(w, row, "state")
    BY <1>0, <1>1, <2>1, <2>2, Blank, FinaliseGoing
  <2>3. CASE WorkerGoes(w, "stream") /\ UNCHANGED call
    BY <1>0, <1>1, <2>1, <2>3, GoesFrame DEF Late
  <2>4. CASE worker' = [worker EXCEPT ![w].pc = "turn", ![w].sub = row] /\ Publish(w, row, "playing")
    <3> DEFINE t == [worker[w] EXCEPT !.pc = "turn", !.sub = row]
    <3>1. t \in WorkerRec /\ t.pc = "turn" /\ worker' = [worker EXCEPT ![w] = t]
      BY <1>0, <1>1, <2>4 DEF WorkerRec, WorkerPcs
    <3>2. \E c \in CallRec : call' = [call EXCEPT ![w] = c] /\ c.pc = "lock" /\ Copies(c.sub)
      BY <1>1, <1>7, <2>4 DEF Lives
    <3> HIDE DEF t
    <3> QED
      BY <1>0, <1>1, <2>1, <3>1, <3>2, WorkerFrame DEF Late
  <2> QED
    BY <1>1, <1>11, <2>2, <2>3, <2>4 DEF WorkerApplies
<1>12. CASE WorkerTurns(w)
  <2>1. UNCHANGED <<registered, call>> /\ Store(w, "playing", "stream") /\ "playing" \in Lives
    BY <1>12 DEF WorkerTurns, Lives
  <2> QED
    BY <1>6, <2>1
<1>13. CASE WorkerGivesUp(w)
  <2>1. Finalise(w, row, "gone") /\ UNCHANGED <<row, lastRow, registered>>
    BY <1>1, <1>13 DEF WorkerGivesUp
  <2> QED
    BY <1>0, <1>1, <2>1, Blank, FinaliseGoing
<1>14. CASE WorkerStores(w)
  <2>1. UNCHANGED <<registered, call>> /\ Store(w, "finished", "remove") /\ "finished" \in Lives /\ Finishing
    BY <1>14 DEF WorkerStores, Lives, Finishing
  <2> QED
    BY <1>6, <2>1
<1>15. CASE WorkerRemoves(w)
  <2>1. row' = NoRow /\ UNCHANGED <<bga, lastRow>> /\ lastRow = 1 /\ link'.pc # "upsert"
    BY <1>1, <1>15 DEF WorkerRemoves, Remove, Going, LinkGoing
  <2>2. bga = "finished" /\ Finishing
    BY <1>15 DEF WorkerRemoves, Watching, Ended, Finishing
  <2>3. WorkerTypes /\ "forget" \in WorkerPcs /\ WorkerGoes(w, "forget")
    BY <1>15 DEF Types, WorkerPcs, WorkerRemoves
  <2>4. PICK t \in WorkerRec : worker' = [worker EXCEPT ![w] = t] /\ t.pc = "forget"
    BY <2>3, GoesIs
  <2>5. \A v \in Workers : worker'[v].pc \in {"idle", "forget"}
    BY <1>0, <2>4, OneGoing
  <2>6. Over'
    BY <2>1, <2>2, <2>5 DEF Over
  <2>7. UNCHANGED Live /\ \A m \in Live : ~Keeps(m.id)
    BY <1>1, <2>2 DEF Live, Keeps
  <2> QED
    BY <1>1, <2>6, <2>7, KeepingPays
<1> QED
  BY <1>0, <1>2, <1>3, <1>4, <1>5, <1>8, <1>9, <1>10, <1>11, <1>12, <1>13, <1>14, <1>15
  DEF WorkerStep, WorkerRuns, WorkerForgets, LateCall, Late

\* A step that leaves the workers and their calls alone.
LEMMA OthersFrame ==
    ASSUME Types, Types', Going,
           UNCHANGED <<lastRow, worker, registered, sync>>, \A w \in Workers : call'[w] = call[w],
           row'.id = 1, events' >= events, Steady, MemoryGoing', LinkGoing',
           \A id \in Nat : id <= lastMsg /\ Exists(id)' => Exists(id),
           \A w \in Workers : mlock[1] = w => mlock'[1] = w /\ active'[1] = active[1],
           Live' \subseteq Live,
           \/ \A m \in Live : Keeps(m.id) => m.id = Shown' \/ (Shown = 0 /\ Shown' = 0 /\ m.id = row'.msg)
           \/ events' = events + 1
    PROVE  Going' /\ Pays
<1>1. \A sub \in Row : Copies(sub) => Copies(sub)'
  BY SteadyCopies
<1>2. ASSUME NEW w \in Workers, worker[w].pc # "idle" PROVE WorkerGoing(w)'
  <2>1. worker[w].sub \in Row
    BY DEF Types, WorkerTypes, WorkerRec
  <2> QED
    BY <1>1, <1>2, <2>1 DEF Going, WorkerGoing
<1>3. ASSUME NEW w \in Workers, call[w].pc # "idle" PROVE CallGoing(w)'
  <2>0. call[w].sub \in Row /\ call[w].sub.msg \in Nat /\ call'[w].sub = call[w].sub
    BY Blank DEF Types, CallTypes, CallRec, Row
  <2>1. Copies(call[w].sub) /\ CallGoing(w) /\ Later(Shown)
    BY <1>3 DEF Going, CallGoing, MemoryGoing
  <2>2. Copies(call[w].sub)'
    BY <1>1, <2>0, <2>1
  <2>3. CASE call[w].pc = "lock"
    BY <2>2, <2>3 DEF CallGoing
  <2>4. CASE call[w].pc # "lock"
    <3>1. mlock'[1] = w /\ active'[1] = active[1] /\ Shown' = Shown
      BY <1>3, <2>1, <2>4 DEF CallGoing, Shown
    <3>2. call[w].pc = "lost" => ~\E m \in messages' : m.id = Shown
      BY <1>3, <2>1, LiveNumbered DEF CallGoing, Later, Exists
    <3>3. call[w].pc = "untrack" => ~Exists(call[w].sub.msg)'
      BY <1>3, <2>0, <2>1 DEF CallGoing, Later, Copies
    <3> QED
      BY <1>3, <2>1, <2>2, <2>4, <3>1, <3>2, <3>3 DEF CallGoing, Exists
  <2> QED
    BY <2>3, <2>4
<1>4. Going'
  <2>1. \A w \in Workers : WorkerGoing(w)' /\ CallGoing(w)'
    BY <1>2, <1>3 DEF WorkerGoing, CallGoing
  <2> QED
    BY <2>1 DEF Going
<1>5. CASE events' = events + 1
  BY <1>4, <1>5, FaultPays
<1>6. CASE \A m \in Live : Keeps(m.id) => m.id = Shown' \/ (Shown = 0 /\ Shown' = 0 /\ m.id = row'.msg)
  <2>1. (Finishing' <=> Finishing) /\ (Sending' <=> Sending)
    BY DEF Finishing, Sending
  <2>2. ASSUME NEW m \in Live, Keeps(m.id) PROVE Keeps(m.id)'
    <3>1. ~Finishing
      BY <2>2 DEF Keeps
    <3>2. Shown = 0 => ~Sending
      BY <2>2, LiveNumbered DEF Keeps, Live
    <3> QED
      BY <1>6, <2>1, <2>2, <3>1, <3>2 DEF Keeps
  <2> QED
    BY <1>4, <2>2, KeepingPays
<1> QED
  BY <1>5, <1>6

\* A link that moves on without touching the cards.
LEMMA LinkMoves ==
    ASSUME Types, Types', Going, LinkGoing',
           row'.id = row.id, row'.msg = row.msg,
           UNCHANGED <<lastRow, active, worker, registered, sync, call, lastMsg>>,
           messages' \subseteq messages, events' >= events,
           \A w \in Workers : mlock[1] = w => mlock'[1] = w,
           Registering' => Registering /\ link'.note = link.note
    PROVE  Going' /\ Pays
<1>1. UNCHANGED Shown /\ Live' \subseteq Live /\ row.id = 1 /\ row'.id = 1 /\ Steady
  BY LiveNumbered DEF Shown, Live, Steady, Going
<1>2. MemoryGoing'
  <2>1. Later(Shown)' /\ Later(row.msg)'
    BY <1>1, LiveNumbered DEF Going, MemoryGoing, Later
  <2> QED
    BY <1>1, <2>1 DEF Going, MemoryGoing
<1>3. \A id \in Nat : Exists(id)' => Exists(id)
  BY DEF Exists
<1>4. \A m \in Live : Keeps(m.id) => m.id = Shown' \/ (Shown = 0 /\ Shown' = 0 /\ m.id = row'.msg)
  BY <1>1 DEF Keeps
<1> QED
  BY <1>1, <1>2, <1>3, <1>4, OthersFrame

\* A note becomes the card, or makes way for the one there is.
LEMMA AdoptGoing ==
    ASSUME Types, Types', Going, NEW old \in Nat, Adopt(old),
           link.pc \in {"lock", "adopt"}, mlock[1] \in {"none", "link"}, mlock' = [mlock EXCEPT ![1] = "link"],
           old # 0 => old > link.note /\ old <= lastMsg /\ (Shown # 0 => old = Shown),
           Shown # 0 => old = Shown,
           UNCHANGED <<lastRow, worker, registered, sync, call, lastMsg, messages>>,
           row'.id = 1, row'.msg \in {row.msg, 0},
           events' >= events,
           events' = events + 1 \/ (Shown = 0 => \A m \in Live : m.id = row.msg => m.id = old)
    PROVE  Going' /\ Pays
<1>0. /\ link \in LinkRec /\ link.sub.id = 1 /\ link.note # 0 /\ link.note <= lastMsg /\ link.note \in Nat
      /\ active \in [Rows -> Card] /\ 1 \in Rows /\ mlock'[1] = "link" /\ Shown \in Nat /\ lastMsg \in Nat
  BY LiveNumbered DEF Types, LinkTypes, Going, LinkGoing, Copies, MemoryTypes
<1>1. CASE old > link.note /\ LinkGoes("drop")
           /\ active' = [active EXCEPT ![1] = IF Shown = 0 THEN [msg |-> old, kind |-> "note"] ELSE active[1]]
  <2>1. old # 0
    BY <1>0, <1>1
  <2>2. link'.pc = "drop" /\ link'.note = link.note /\ Shown' = old /\ \A i \in Rows : i # 1 => active'[i] = active[i]
    <3>1. link' = [link EXCEPT !.pc = "drop"]
      <4>1. [link EXCEPT !.pc = "drop"].pc = "drop"
        BY <1>0 DEF LinkRec
      <4> QED
        BY <1>1, <4>1 DEF LinkGoes, LinkBecomes
    <3> QED
      BY <1>0, <1>1, <3>1, <2>1 DEF LinkRec, Shown
  <2>3. Steady
    BY <1>0, <2>1, <2>2 DEF Steady, Registering
  <2>4. LinkGoing'
    BY <1>0, <2>2 DEF LinkGoing
  <2>5. MemoryGoing'
    <3>1. Later(Shown)' /\ Later(row.msg)'
      BY <1>0, <2>1, <2>2 DEF Later, Registering, Going, MemoryGoing
    <3>2. active'[1].kind # "note" => active'[1] = active[1] /\ Shown' = Shown
      BY <1>0, <1>1, <2>1, <2>2 DEF Shown
    <3> QED
      BY <2>2, <3>1, <3>2 DEF Going, MemoryGoing
  <2>6. UNCHANGED Live /\ \A id \in Nat : Exists(id)' => Exists(id)
    BY DEF Live, Exists
  <2>7. events' = events + 1 \/ \A m \in Live : Keeps(m.id) => m.id = Shown'
    BY <2>1, <2>2, LiveNumbered DEF Keeps, Live
  <2>8. \A w \in Workers : mlock[1] # w
    BY Blank
  <2> QED
    BY <2>3, <2>4, <2>5, <2>6, <2>7, <2>8, OthersFrame
<1>2. CASE old < link.note /\ link' = [link EXCEPT !.pc = "save", !.old = old]
           /\ active' = [active EXCEPT ![1] = [msg |-> link.note, kind |-> "note"]]
  <2>1. old = 0 /\ Shown = 0
    BY <1>0, <1>2
  <2>2. /\ link'.pc = "save" /\ link'.note = link.note /\ link'.old = 0 /\ link'.sub = link.sub
        /\ Shown' = link.note /\ active'[1].kind = "note" /\ \A i \in Rows : i # 1 => active'[i] = active[i]
    BY <1>0, <1>2, <2>1 DEF LinkRec, Shown
  <2>3. Steady
    BY <1>0, <2>1, <2>2 DEF Steady, Registering
  <2>4. LinkGoing'
    BY <1>0, <2>2 DEF LinkGoing
  <2>5. MemoryGoing'
    <3>1. Later(Shown)' /\ Later(row.msg)'
      BY <1>0, <2>1, <2>2 DEF Later, Registering, Going, MemoryGoing
    <3> QED
      BY <2>2, <3>1 DEF Going, MemoryGoing
  <2>6. UNCHANGED Live /\ \A id \in Nat : Exists(id)' => Exists(id)
    BY DEF Live, Exists
  <2>7. events' = events + 1 \/ \A m \in Live : Keeps(m.id) => m.id = Shown'
    BY <2>1, <2>2, LiveNumbered DEF Keeps, Live
  <2>8. \A w \in Workers : mlock[1] # w
    BY Blank
  <2> QED
    BY <2>3, <2>4, <2>5, <2>6, <2>7, <2>8, OthersFrame
<1> QED
  BY <1>0, <1>1, <1>2 DEF Adopt, Shown

\* The handler of a link keeps the card: it registers what is watched already only
\* in a disturbed watch.
LEMMA LinkStepGoing ==
    ASSUME Types, Types', Closed, Going, LinkStep, ~disturbed'
    PROVE  Going' /\ Pays
<1> USE DEF database, memory, tasks, discord, bounds
<1>0. /\ link \in LinkRec /\ LinkTypes /\ ~link.known /\ Unadopted = "sync" /\ Adopted = "sync" /\ ~disturbed
      /\ row.id = 1 /\ row # NoRow /\ row \in Row /\ link.pc \in LinkPcs /\ link.note <= lastMsg
      /\ {"sync", "reload", "drop", "adopt"} \subseteq LinkPcs
      /\ mlock \in [Rows -> Callers \cup {"none"}] /\ 1 \in Rows
  BY LinkKnows, RowCopies, Blank DEF Closed, Types, LinkTypes, Unadopted, Adopted, MemoryTypes, LinkRec, LinkPcs, Going, LinkGoing
<1>1. events' >= events /\ \A w \in Workers : Unlocked("link")[1] = w <=> mlock[1] = w
  BY <1>0, EventsGrow, Blank DEF Next, Unlocked
<1>2. ASSUME NEW t, LinkBecomes(t), t.pc = "sync" PROVE LinkGoing' /\ ~Registering'
  <2>1. link' = [NoLink EXCEPT !.pc = "sync"]
    BY <1>2 DEF LinkBecomes
  <2>2. link'.pc = "sync" /\ link'.note = 0
    BY <2>1 DEF NoLink
  <2> QED
    BY <1>0, <2>2, LiveNumbered DEF LinkGoing, Registering, Types, DiscordTypes
<1>3. CASE LinkLooks
  BY <1>0, <1>3 DEF LinkLooks
<1>4. CASE LinkStates
  <2>1. link.sub.id = 1
    BY <1>4 DEF LinkStates, Going, LinkGoing
  <2>2. link' = [link EXCEPT !.pc = "reload"]
    <3>1. [link EXCEPT !.pc = "reload"].pc = "reload"
      BY <1>0 DEF LinkRec
    <3> QED
      BY <1>0, <1>4, <2>1, <3>1 DEF LinkStates, Gone, LinkGoes, LinkBecomes
  <2>3. link'.pc = "reload" /\ link'.note = link.note /\ link'.sub = link.sub
    BY <1>0, <2>2 DEF LinkRec
  <2>4. UNCHANGED <<lastRow, active, mlock, worker, registered, sync, call, lastMsg, messages>> /\ link.pc = "state"
        /\ row' = [row EXCEPT !.life = "recruiting"]
    BY <1>0, <1>4, <2>1 DEF LinkStates, Gone
  <2>6. row'.id = row.id /\ row'.msg = row.msg
    BY <1>0, <2>4 DEF Row
  <2>5. LinkGoing'
    BY <1>0, <2>1, <2>3, <2>4 DEF LinkGoing
  <2> QED
    BY <1>1, <2>3, <2>4, <2>5, <2>6, LinkMoves DEF Registering
<1>5. CASE LinkReloads
  <2>1. link.sub.id = 1 /\ link.pc = "reload"
    BY <1>5 DEF LinkReloads, Going, LinkGoing
  <2>2. UNCHANGED <<row, lastRow, active, mlock, worker, registered, sync, call, lastMsg, messages>>
    BY <1>5 DEF LinkReloads
  <2>3. CASE link.note = 0
    <3> DEFINE t == [link EXCEPT !.pc = IF link.note = 0 THEN Unadopted ELSE "lock",
                                 !.sub = IF Gone(link.sub.id) THEN link.sub ELSE row]
    <3>1. t.pc = "sync"
      BY <1>0, <2>3 DEF LinkRec
    <3>2. LinkBecomes(t)
      BY <1>5 DEF LinkReloads
    <3> HIDE DEF t
    <3> QED
      BY <1>1, <1>2, <2>2, <3>1, <3>2, LinkMoves
  <2>4. CASE link.note # 0
    <3> DEFINE t == [link EXCEPT !.pc = "lock", !.sub = row]
    <3>1. LinkBecomes(t)
      BY <1>0, <1>5, <2>1, <2>4 DEF LinkReloads, Gone
    <3>2. t.pc = "lock" /\ t.note = link.note /\ t.sub = row
      BY <1>0 DEF LinkRec
    <3>3. link'.pc = "lock" /\ link'.note = link.note /\ link'.sub = row
      BY <3>1, <3>2 DEF LinkBecomes
    <3>4. Steady /\ UNCHANGED Shown
      BY <2>1, <2>2, <3>3, LiveNumbered DEF Steady, Registering, Shown
    <3>5. Copies(row)'
      BY <3>4, <2>1, <2>2, <3>3, RowCopies, SteadyCopies
    <3>6. LinkGoing'
      BY <1>0, <2>2, <2>4, <3>3, <3>5 DEF LinkGoing
    <3> QED
      BY <1>1, <2>1, <2>2, <3>3, <3>6, LinkMoves DEF Registering
  <2> QED
    BY <2>3, <2>4
<1>6. CASE LinkLocks
  <2>1. link.sub.id = 1 /\ link.note # 0 /\ Copies(link.sub) /\ link.pc = "lock" /\ Registering
    BY <1>6 DEF LinkLocks, Going, LinkGoing, Copies, Registering
  <2>2. /\ mlock[1] = "none" /\ mlock' = [mlock EXCEPT ![1] = "link"]
        /\ UNCHANGED <<row, lastRow, worker, registered, sync, call, lastMsg, messages>>
        /\ \/ Shown # 0 /\ Adopt(Shown)
           \/ Shown = 0 /\ link.sub.msg = 0 /\ Adopt(0)
           \/ Shown = 0 /\ link.sub.msg # 0 /\ LinkGoes("adopt") /\ UNCHANGED active
    BY <1>6, <2>1 DEF LinkLocks, Shown
  <2>3. CASE Shown # 0 /\ Adopt(Shown)
    <3>1. Shown > link.note /\ Shown <= lastMsg /\ Shown \in Nat
      BY <2>1, <2>3, LiveNumbered DEF Going, MemoryGoing, Later
    <3> QED
      BY <1>0, <1>1, <2>1, <2>2, <2>3, <3>1, AdoptGoing
  <2>4. CASE Shown = 0 /\ link.sub.msg = 0 /\ Adopt(0)
    <3>1. row.msg = 0 /\ 0 \in Nat
      BY <2>1, <2>4 DEF Copies
    <3>2. \A m \in Live : m.id # row.msg
      BY <3>1, LiveNumbered DEF Live
    <3> QED
      BY <1>0, <1>1, <2>1, <2>2, <2>4, <3>1, <3>2, AdoptGoing
  <2>5. CASE Shown = 0 /\ link.sub.msg # 0 /\ LinkGoes("adopt") /\ UNCHANGED active
    <3>1. link' = [link EXCEPT !.pc = "adopt"]
      <4>1. [link EXCEPT !.pc = "adopt"].pc = "adopt"
        BY <1>0 DEF LinkRec
      <4> QED
        BY <2>5, <4>1 DEF LinkGoes, LinkBecomes
    <3>2. link'.pc = "adopt" /\ link'.note = link.note /\ link'.sub = link.sub /\ link.sub \in Row
      BY <1>0, <3>1 DEF LinkRec
    <3>3. Steady /\ UNCHANGED Shown
      BY <2>1, <2>2, <2>5, <3>2, LiveNumbered DEF Steady, Registering, Shown
    <3>4. Copies(link.sub)'
      BY <2>1, <3>2, <3>3, SteadyCopies
    <3>5. LinkGoing' /\ \A w \in Workers : mlock[1] # w
      BY <1>0, <2>1, <2>2, <2>5, <3>2, <3>3, <3>4, Blank DEF LinkGoing
    <3> QED
      BY <1>1, <2>1, <2>2, <2>5, <3>2, <3>5, LinkMoves
  <2> QED
    BY <2>2, <2>3, <2>4, <2>5
<1>7. CASE LinkAdopts
  <2>1. /\ link.sub.id = 1 /\ link.note # 0 /\ Copies(link.sub) /\ link.pc = "adopt" /\ Registering /\ Shown = 0
        /\ mlock[1] = "link" /\ link.sub \in Row /\ link.sub.msg \in Nat
    BY <1>0, <1>7 DEF LinkAdopts, Going, LinkGoing, Copies, Registering, LinkRec, Row
  <2>2. /\ UNCHANGED <<lastRow, mlock, worker, registered, sync, call, lastMsg, messages>>
        /\ mlock' = [mlock EXCEPT ![1] = "link"]
    BY <1>0, <1>7, <2>1 DEF LinkAdopts
  <2>3. CASE Exists(link.sub.msg) /\ Adopt(link.sub.msg) /\ UNCHANGED row
    <3>1. link.sub.msg > link.note /\ link.sub.msg <= lastMsg
      BY <2>1, <2>3, LiveNumbered DEF Exists, Copies, Later
    <3>2. \A m \in Live : m.id = row.msg => m.id = link.sub.msg
      BY <2>1, LiveNumbered DEF Copies, Live
    <3> QED
      BY <1>0, <1>1, <2>1, <2>2, <2>3, <3>1, <3>2, AdoptGoing
  <2>4. CASE ~Exists(link.sub.msg) /\ Adopt(0)
             /\ row' = IF Gone(link.sub.id) THEN row ELSE [row EXCEPT !.life = link.sub.life, !.msg = 0]
    <3>1. row'.id = 1 /\ row'.msg \in {row.msg, 0}
      BY <1>0, <2>4 DEF Row
    <3>2. \A m \in Live : m.id # row.msg
      BY <2>1, <2>4, LiveNumbered DEF Copies, Live
    <3> QED
      BY <1>1, <2>1, <2>2, <2>4, <3>1, <3>2, AdoptGoing
  <2>5. CASE events' = events + 1 /\ Adopt(0) /\ UNCHANGED row
    BY <1>0, <1>1, <2>1, <2>2, <2>5, AdoptGoing
  <2> QED
    BY <1>7, <2>3, <2>4, <2>5 DEF LinkAdopts, Fault
<1>8. CASE LinkSaves
  <2>1. link.sub.id = 1 /\ link.note = Shown /\ Shown # 0 /\ link.old = 0
    BY <1>8 DEF LinkSaves, Going, LinkGoing
  <2>2. /\ row' = [row EXCEPT !.life = link.sub.life, !.msg = link.note]
        /\ LinkGoes("sync") /\ mlock' = Unlocked("link")
        /\ UNCHANGED <<lastRow, active, worker, registered, sync, call, lastMsg, messages>>
    BY <1>0, <1>8, <2>1 DEF LinkSaves, Track
  <2>3. row'.id = 1 /\ row'.msg = Shown /\ UNCHANGED Shown
    BY <1>0, <2>1, <2>2 DEF Row, Shown
  <2>4. LinkGoing' /\ ~Registering'
    <3> DEFINE t == [link EXCEPT !.pc = "sync"]
    <3>1. t.pc = "sync" /\ LinkBecomes(t)
      BY <1>0, <2>2 DEF LinkRec, LinkGoes
    <3> HIDE DEF t
    <3> QED
      BY <1>2, <3>1
  <2>5. Steady
    BY <2>1, <2>2, <2>3, <2>4, LiveNumbered DEF Steady
  <2>6. MemoryGoing'
    <3>1. Later(Shown)' /\ Later(row.msg)'
      BY <2>2, <2>3, <2>4 DEF Going, MemoryGoing, Later
    <3> QED
      BY <2>2, <2>3, <3>1 DEF Going, MemoryGoing
  <2>7. UNCHANGED Live /\ \A id \in Nat : Exists(id)' => Exists(id)
    BY <2>2 DEF Live, Exists
  <2>8. \A m \in Live : Keeps(m.id) => m.id = Shown'
    BY <2>1, <2>3 DEF Keeps
  <2>9. \A w \in Workers : mlock[1] = w => mlock'[1] = w
    BY <1>1, <2>2
  <2> QED
    BY <1>1, <2>2, <2>3, <2>4, <2>5, <2>6, <2>7, <2>8, <2>9, OthersFrame
<1>9. CASE LinkDeletes
  <2>1. link.pc = "drop"
    BY <1>9 DEF LinkDeletes, Going, LinkGoing
  <2>2. /\ messages' \subseteq messages /\ mlock' = Unlocked("link")
        /\ UNCHANGED <<row, lastRow, active, worker, registered, sync, call, lastMsg>>
    BY <1>9 DEF LinkDeletes, Without
  <2>3. LinkGoing' /\ ~Registering'
    <3> DEFINE t == [link EXCEPT !.pc = "sync", !.old = 0, !.note = 0]
    <3>1. t.pc = "sync" /\ LinkBecomes(t)
      BY <1>0, <1>9, <2>1 DEF LinkRec, LinkDeletes
    <3> HIDE DEF t
    <3> QED
      BY <1>2, <3>1
  <2> QED
    BY <1>1, <2>2, <2>3, LinkMoves
<1> QED
  BY <1>0, <1>3, <1>4, <1>5, <1>6, <1>7, <1>8, <1>9
  DEF LinkStep, LinkProbes, LinkUpserts, LinkRedraws, LinkDrawn, LinkResets, LinkUntracks, Going, LinkGoing

\* A run of the sync finds nobody's card, and at most gives the table its worker.
LEMMA SyncStepGoing ==
    ASSUME Types, Types', Going, NEW s \in Syncs, SyncStep(s)
    PROVE  Going' /\ Pays
<1> USE DEF database
<1>0. /\ Orphans = {} /\ sync[s].pc = "idle" /\ row # NoRow /\ row.id = 1 /\ row \in Row
      /\ worker \in [Workers -> WorkerRec] /\ sync \in [Syncs -> SyncRec]
  <2>1. Orphans = {}
    BY DEF Orphans, Going, MemoryGoing
  <2> QED
    BY <2>1, RowCopies DEF Going, Types, WorkerTypes, TaskTypes
<1>1. /\ Supply(s, TRUE) /\ UNCHANGED <<bga, row, lastRow, active, events>>
      /\ sync' = [sync EXCEPT ![s] = NoSync] /\ link' \in {NoLink, link}
      /\ UNCHANGED <<call, mlock, messages, lastMsg>>
  BY <1>0 DEF SyncStep, SyncLists, SyncDeletes, SyncSupplies, Supply, discord
<1>2. UNCHANGED <<Shown, Live>>
  BY <1>1 DEF Shown, Live
<1>3. NoLink.pc = "idle" /\ NoLink.note = 0
  BY DEF NoLink
<1>4. Steady /\ (Registering' => Registering /\ link'.note = link.note)
  BY <1>1, <1>2, <1>3, LiveNumbered DEF Steady, Registering
<1>5. \A sub \in Row : Copies(sub) => Copies(sub)'
  BY <1>4, SteadyCopies
<1>6. \A t \in Syncs : sync'[t].pc = "idle"
  BY <1>0, <1>1 DEF Going, NoSync
<1>7. LinkGoing'
  <2>1. CASE link' = NoLink
    BY <1>3, <2>1, LiveNumbered, <1>1 DEF LinkGoing
  <2>2. CASE link' = link
    <3>1. link.pc \in {"lock", "adopt"} => Copies(link.sub)'
      <4>1. link.sub \in Row
        BY DEF Types, LinkTypes, LinkRec
      <4> QED
        BY <1>5, <2>2, <4>1 DEF Going, LinkGoing
    <3> QED
      BY <1>1, <1>2, <2>2, <3>1 DEF Going, LinkGoing
  <2> QED
    BY <1>1, <2>1, <2>2
<1>8. MemoryGoing'
  <2>1. Later(Shown)' /\ Later(row.msg)'
    BY <1>1, <1>2, <1>4 DEF Going, MemoryGoing, Later
  <2> QED
    BY <1>1, <1>2, <2>1 DEF Going, MemoryGoing
<1>9. \A w \in Workers : CallGoing(w)'
  <2>1. SUFFICES ASSUME NEW w \in Workers, call[w].pc # "idle" PROVE CallGoing(w)'
    BY <1>1 DEF CallGoing
  <2>2. call[w].sub \in Row /\ call'[w].sub = call[w].sub
    BY <1>1, Blank DEF Types, CallTypes, CallRec
  <2>3. Copies(call[w].sub)'
    BY <1>5, <2>1, <2>2 DEF Going, CallGoing
  <2>4. CallGoing(w) /\ active'[1] = active[1]
    BY <1>1 DEF Going
  <2> QED
    BY <1>1, <1>2, <2>1, <2>3, <2>4 DEF CallGoing, Exists
<1>10. (\A w \in Workers : WorkerGoing(w)') /\ (Finishing' => Finishing)
  <2>1. CASE UNCHANGED <<worker, registered>>
    <3>1. ASSUME NEW w \in Workers, worker[w].pc # "idle" PROVE WorkerGoing(w)'
      <4>1. worker[w].sub \in Row
        BY <1>0 DEF WorkerRec
      <4> QED
        BY <1>5, <2>1, <3>1, <4>1 DEF Going, WorkerGoing
    <3> QED
      BY <1>1, <2>1, <3>1 DEF WorkerGoing, Finishing
  <2>2. ASSUME NeedsWorker, NEW w \in Workers, Start(w)
        PROVE  (\A v \in Workers : WorkerGoing(v)') /\ (Finishing' => Finishing)
    <3>1. \A v \in Workers : worker[v].pc = "idle"
      BY <2>2 DEF NeedsWorker, Running, Going, WorkerGoing
    <3>2. worker'[w].pc = "read" /\ registered' = w /\ \A v \in Workers : v # w => worker'[v].pc = "idle"
      BY <1>0, <2>2, <3>1 DEF Start, WorkerRec
    <3> QED
      BY <3>2 DEF WorkerGoing, Finishing, Late
  <2> QED
    BY <1>1, <2>1, <2>2 DEF Supply
<1>11. Going'
  BY <1>1, <1>6, <1>7, <1>8, <1>9, <1>10 DEF Going
<1>12. \A m \in Live : Keeps(m.id) => Keeps(m.id)'
  BY <1>1, <1>2, <1>10 DEF Keeps, Sending
<1>13. events' >= events
  BY <1>1 DEF Types, BoundTypes
<1> QED
  BY <1>2, <1>11, <1>12, <1>13, KeepingPays

\* The world: the table goes on, a link is posted, a message is deleted, the bot restarts.
LEMMA WorldGoing ==
    ASSUME Types, Types', Going, Play \/ LinkPosted \/ Moderate \/ Crash
    PROVE  Going' /\ Pays
<1> USE DEF database, memory, tasks, discord, bounds
<1>0. events \in Nat /\ events' >= events /\ row.id = 1 /\ 1 \in Rows
  BY EventsGrow, Blank DEF Next, Types, BoundTypes, Going
<1>1. CASE Play
  BY <1>0, <1>1, LinkMoves DEF Play, Going, LinkGoing, Registering, Copies, Later, Shown
<1>2. CASE Moderate
  BY <1>0, <1>2, LinkMoves DEF Moderate, Going, LinkGoing, Registering, Copies, Later, Shown
<1>3. CASE LinkPosted
  <2>1. /\ link'.pc = "exists" /\ link'.note <= lastMsg'
        /\ UNCHANGED <<row, lastRow, active, mlock, worker, registered, sync, call>>
    BY <1>3, PostedGoes DEF LinkPosted, Going, LinkGoing
  <2>2. /\ lastMsg' >= lastMsg
        /\ \A m \in messages' : m \in messages \/ (m.kind = "note" /\ m.id = lastMsg + 1)
    BY <1>3, LiveNumbered DEF LinkPosted, Showing
  <2>3. UNCHANGED Shown /\ Live' \subseteq Live /\ Steady
    BY <2>1, <2>2, LiveNumbered DEF Shown, Live, Steady, Registering
  <2>4. \A id \in Nat : id <= lastMsg /\ Exists(id)' => Exists(id)
    BY <2>2, LiveNumbered DEF Exists
  <2>5. MemoryGoing'
    <3>1. Later(Shown)' /\ Later(row.msg)'
      BY <2>1, <2>2, <2>3, LiveNumbered DEF Going, MemoryGoing, Later, Registering, Types, DiscordTypes
    <3>2. \A m \in messages' : m.id = Shown' => m \in messages
      BY <2>2, <2>3, LiveNumbered DEF Going, MemoryGoing, Later
    <3> QED
      BY <2>1, <2>3, <3>1, <3>2 DEF Going, MemoryGoing
  <2>6. LinkGoing'
    BY <2>1 DEF LinkGoing
  <2>7. \A m \in Live : Keeps(m.id) => m.id = Shown' \/ (Shown = 0 /\ Shown' = 0 /\ m.id = row'.msg)
    BY <2>1, <2>3 DEF Keeps
  <2> QED
    BY <1>0, <2>1, <2>3, <2>4, <2>5, <2>6, <2>7, OthersFrame
<1>4. CASE Crash
  <2>1. /\ events' = events + 1 /\ UNCHANGED <<row, lastRow, messages, lastMsg>>
        /\ \A i \in Rows : active'[i] = NoCard
        /\ \A w \in Workers : worker'[w] = NoWorker /\ call'[w] = NoCall
        /\ link' = NoLink /\ \A s \in Syncs : sync'[s] = NoSync
    BY <1>4, Blank DEF Crash, Fault
  <2>2. NoLink.pc = "idle" /\ NoLink.note = 0 /\ NoCard.msg = 0 /\ NoCard.kind = "note" /\ NoSync.pc = "idle"
    BY DEF NoLink, NoCard, NoSync
  <2>3. \A w \in Workers : worker'[w].pc = "idle" /\ call'[w].pc = "idle"
    BY <2>1, Blank
  <2>4. LinkGoing'
    BY <2>1, <2>2, LiveNumbered DEF LinkGoing
  <2>5. MemoryGoing'
    BY <1>0, <2>1, <2>2, LiveNumbered DEF Going, MemoryGoing, Later, Registering, Shown
  <2>6. Going'
    BY <1>0, <2>1, <2>2, <2>3, <2>4, <2>5 DEF Going, WorkerGoing, CallGoing
  <2>7. UNCHANGED Live
    BY <2>1 DEF Live
  <2> QED
    BY <2>1, <2>6, <2>7, FaultPays
<1> QED
  BY <1>1, <1>2, <1>3, <1>4

LEMMA GoingSteps ==
    ASSUME Types, Types', Watching, Closed, Going, Next, ~disturbed'
    PROVE  (Going' \/ Over') /\ Pays
<1>0. ~disturbed
  <2>1. CASE LinkStep
    BY <2>1, LinkKnows
  <2> QED
    BY <2>1 DEF Next, Play, LinkPosted, Stop, Moderate, Crash, bounds, WorkerStep, WorkerRuns, WorkerReads, WorkerFetches,
       WorkerUpserts, WorkerRereads, WorkerInvites, WorkerInvited, WorkerHears, WorkerApplies, WorkerTurns,
       WorkerGivesUp, WorkerStores, WorkerRemoves, WorkerForgets, LateCall, CallStep, CallChecks, CallFetches,
       CallUntracks, CallEdits, CallSends, CallSaves, CallRaises, SyncStep, SyncLists, SyncDeletes, SyncSupplies
<1>1. ASSUME NEW a \in Callers, CallStep(a) \/ CallRaises(a) PROVE a \in Workers
  <2>1. a = "link" => call["link"].pc = "idle"
    BY <1>0 DEF Closed
  <2> QED
    BY <1>1, <2>1 DEF Callers, CallStep, CallChecks, CallFetches, CallUntracks, CallEdits, CallSends, CallSaves, CallRaises
<1>2. ~Stop
  BY DEF Stop
<1> QED
  BY <1>1, <1>2, LinkStepGoing, WorkerStepGoing, CallStepGoing, RaisedGoing, SyncStepGoing, WorldGoing DEF Next

LEMMA InitCounted ==
    ASSUME Init
    PROVE  Counted
<1>0. \A w \in Workers : worker[w].pc = "idle" /\ call[w].pc = "idle"
  BY Blank DEF Init
<1>1. /\ link.pc = "idle" /\ link.note = 0
      /\ \A i \in Rows : active[i].msg = 0 /\ active[i].kind = "note"
      /\ \A s \in Syncs : sync[s].pc = "idle"
      /\ events = 0 /\ 1 \in Rows
  BY Blank DEF Init, NoLink, NoCard, NoSync
<1>2. ASSUME Lost = {}, IsFiniteSet(messages) PROVE Charged
  BY <1>1, <1>2, FS_EmptySet DEF Charged
<1>3. CASE row = NoRow /\ lastRow = 0 /\ messages = {} /\ lastMsg = 0
  <2>1. Live = {} /\ Lost = {}
    BY <1>3 DEF Live, Lost
  <2>2. Charged
    BY <1>2, <1>3, <2>1, FS_EmptySet
  <2> QED
    BY <1>0, <1>1, <1>3, <2>1, <2>2 DEF Counted, Unwatched
<1>4. CASE /\ row = [NoRow EXCEPT !.id = 1, !.msg = 1] /\ lastRow = 1
           /\ messages = {[id |-> 1, kind |-> "recruiting"]} /\ lastMsg = 1
  <2>1. row.id = 1 /\ row.msg = 1
    BY <1>4 DEF NoRow
  <2>2. ~Finishing /\ ~Sending /\ Shown = 0
    BY <1>0, <1>1 DEF Finishing, Sending, Shown
  <2>3. Lost = {}
    BY <1>4, <2>1, <2>2 DEF Lost, Live, Keeps
  <2>4. Charged
    BY <1>2, <1>4, <2>3, FS_Singleton
  <2>5. MemoryGoing /\ LinkGoing
    BY <1>1, <1>4, <2>1, <2>2 DEF MemoryGoing, LinkGoing, Later, Registering
  <2> QED
    BY <1>0, <1>1, <1>4, <2>1, <2>4, <2>5 DEF Counted, Going, WorkerGoing, CallGoing
<1> QED
  BY <1>3, <1>4 DEF Init

LEMMA CountedStep ==
    ASSUME Types, Types', Watching, Closed, Closed', Counted, [Next]_vars
    PROVE  Counted'
<1>1. CASE UNCHANGED vars
  <2> USE <1>1 DEF vars, database, memory, tasks, discord, bounds
  <2>1. UNCHANGED <<Live, Shown, Finishing, Sending, Registering>>
    BY DEF Live, Shown, Finishing, Sending, Registering
  <2>2. Unwatched => Unwatched'
    BY <2>1 DEF Unwatched
  <2>3. Going => Going'
    BY <2>1 DEF Going, WorkerGoing, CallGoing, LinkGoing, MemoryGoing, Copies, Later, Exists
  <2>4. Over => Over'
    BY DEF Over
  <2>5. Charged => Charged'
    <3>1. Lost' = Lost
      BY <2>1 DEF Lost, Keeps
    <3> QED
      BY <3>1 DEF Charged
  <2> QED
    BY <2>2, <2>3, <2>4, <2>5 DEF Counted
<1>2. CASE Next
  <2>1. SUFFICES ASSUME ~disturbed' PROVE (Unwatched' \/ Going' \/ Over') /\ Charged'
    BY DEF Counted
  <2>2. ~disturbed
    <3>1. CASE LinkStep
      BY <2>1, <3>1, LinkKnows
    <3> QED
      BY <1>2, <2>1, <3>1 DEF Next, Play, LinkPosted, Stop, Moderate, Crash, bounds, WorkerStep, WorkerRuns, WorkerReads, WorkerFetches,
       WorkerUpserts, WorkerRereads, WorkerInvites, WorkerInvited, WorkerHears, WorkerApplies, WorkerTurns,
       WorkerGivesUp, WorkerStores, WorkerRemoves, WorkerForgets, LateCall, CallStep, CallChecks, CallFetches,
       CallUntracks, CallEdits, CallSends, CallSaves, CallRaises, SyncStep, SyncLists, SyncDeletes, SyncSupplies
  <2>3. (Unwatched' \/ Going' \/ Over') /\ Pays
    BY <1>2, <2>1, <2>2, UnwatchedSteps, GoingSteps, OverStays DEF Counted
  <2>4. Charged'
    BY <1>2, <2>2, <2>3, AllDrawn, PaysCharged DEF Counted
  <2> QED
    BY <2>3, <2>4
<1> QED
  BY <1>1, <1>2

\* In an undisturbed watch, a card that shows a running game and that nobody knows
\* is the work of a fault, one for each: through the lock, the adoption of a note, a
\* lookup that fails and a restart, the card in memory, or the row's if there is none,
\* is drawn again.
THEOREM CardsTakeEvents == Safe => []StraysTakeEvents
<1>1. Types /\ Counted => StraysTakeEvents
  <2> SUFFICES ASSUME Types, Counted, ~disturbed
               PROVE  Cardinality(Strays) <= events
    BY DEF StraysTakeEvents
  <2>1. Strays \subseteq Lost
    BY Blank DEF Strays, Lost, Live, Keeps, Known, Shown
  <2>2. IsFiniteSet(Lost) /\ Cardinality(Lost) <= events
    <3>1. Lost \subseteq messages
      BY LostTypes
    <3> QED
      BY <3>1, FS_Subset DEF Counted, Charged
  <2>3. Cardinality(Strays) <= Cardinality(Lost) /\ IsFiniteSet(Strays)
    BY <2>1, <2>2, FS_Subset
  <2>4. Cardinality(Strays) \in Nat /\ Cardinality(Lost) \in Nat /\ events \in Nat
    BY <2>2, <2>3, FS_CardinalityType, LostTypes
  <2> QED
    BY <2>2, <2>3, <2>4
<1> QED
  BY <1>1, InitTypes, TypesStep, InitWatching, WatchingStep, InitCounted, CountedStep, PTL DEF Safe

=============================================================================

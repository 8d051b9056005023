-------------------------- MODULE RoomClientsProofs --------------------------
(***************************************************************************)
(* Theorems about RoomClients, for any number of channels, calls and       *)
(* clients.                                                                *)
(***************************************************************************)
EXTENDS RoomClients, FiniteSetTheorems, TLAPS

-----------------------------------------------------------------------------
(* Types, in the parts that steps touch together.                          *)
Lives == {"none", "running", "ending", "lock", "list", "closing", "over"}
Reasons == {"none", "stopped", "unsupported", "failed"}
Client == [life : Lives, reason : Reasons, todo : SUBSET Watches]
UpdatePcs == {"none", "waiting", "lock", "tournament", "stopping", "list", "closing", "draw"}
UpdateRec == [pc : UpdatePcs, client : 0 .. MaxCalls, todo : SUBSET Watches]
CallRec == [pc : {"none", "add", "check", "create", "remove", "list", "pop", "stop"},
            channel : Channels \cup {"none"}, ids : SUBSET Watches, client : 0 .. MaxCalls]

WatchTypes ==
    /\ watches \in [Channels -> 0 .. MaxCalls]
    /\ added \in 0 .. MaxCalls

ClientTypes ==
    /\ reg \in 0 .. MaxCalls
    /\ clients \in [Clients -> Client]

TaskTypes ==
    /\ lock \in 0 .. Update
    /\ update \in UpdateRec
    /\ old \in 0 .. MaxCalls

\* A call that adds a watch has a channel to add it for.
CallTypes ==
    /\ calls \in [Calls -> CallRec]
    /\ \A k \in Calls : calls[k].pc = "add" => calls[k].channel \in Channels

FlagTypes ==
    /\ made \in 0 .. MaxCalls /\ fails \in 0 .. MaxNoteFails
    /\ hasView \in BOOLEAN /\ idle \in BOOLEAN /\ mixed \in BOOLEAN /\ failed \in BOOLEAN

\* Each watch and each client comes from a call or a restart of its own, so that
\* there is one left for every call that may still make one.
Adders == {k \in Calls : calls[k].pc = "add"}
Makers == {k \in Calls : calls[k].pc \in {"add", "check", "create"}}
UsedUpTo(n) == \A c \in Clients : clients[c].life = "none" <=> n < c

Counted ==
    /\ IsFiniteSet(Adders) /\ IsFiniteSet(Makers)
    /\ added + Cardinality(Adders) <= made
    /\ \E n \in 0 .. MaxCalls : UsedUpTo(n) /\ n + Cardinality(Makers) <= made

Types ==
    /\ WatchTypes
    /\ ClientTypes
    /\ TaskTypes
    /\ CallTypes
    /\ FlagTypes
    /\ Counted

LEMMA TypesImply == Types => TypeOK
BY DEF Types, WatchTypes, ClientTypes, TaskTypes, CallTypes, FlagTypes, TypeOK,
       Client, Lives, Reasons, UpdateRec, UpdatePcs, CallRec

-----------------------------------------------------------------------------
(* Facts about the operators.                                              *)
LEMMA Numbers ==
    /\ MaxCalls \in Nat /\ MaxNoteFails \in Nat
    /\ Update = MaxCalls + 1 /\ Update \in 0 .. Update /\ 0 \in 0 .. Update
    /\ Clients \subseteq 0 .. Update /\ Clients \subseteq 0 .. MaxCalls /\ 0 \notin Clients
    /\ Watches = Clients
BY ClientsAssumption DEF Update, Clients, Watches

LEMMA Blank ==
    /\ NoClient \in Client /\ NoClient.life = "none"
    /\ OverClient \in Client /\ OverClient.life = "over" /\ OverClient.reason = "none"
    /\ NoUpdate \in UpdateRec /\ NoUpdate.pc = "none"
    /\ Waiting \in UpdateRec /\ Waiting.pc = "waiting"
    /\ NoCall \in CallRec /\ NoCall.pc = "none"
BY Numbers DEF NoClient, OverClient, NoUpdate, Waiting, NoCall, Client, Lives, Reasons, UpdateRec, UpdatePcs, CallRec

LEMMA WithoutTypes ==
    ASSUME WatchTypes, NEW ids
    PROVE  /\ Without(ids) \in [Channels -> 0 .. MaxCalls]
           /\ \A ch \in Channels : Without(ids)[ch] = IF watches[ch] \in ids THEN 0 ELSE watches[ch]
BY Numbers DEF WatchTypes, Without

LEMMA WatchedTypes ==
    ASSUME WatchTypes
    PROVE  Watched \subseteq Watches
BY Numbers DEF WatchTypes, Watched, Watches, Clients

\* Which clients were never made stays.
NoneKept(cs) == \A c \in Clients : cs[c].life = "none" <=> clients[c].life = "none"

LEMMA StoppedIs ==
    ASSUME ClientTypes, NEW c \in 0 .. MaxCalls
    PROVE  /\ Stopped(c) \in [Clients -> Client]
           /\ NoneKept(Stopped(c))
           /\ \A d \in Clients : Stopped(c)[d] # clients[d] =>
                d = c /\ Stopped(c)[d].life = "ending" /\ Stopped(c)[d].reason = "stopped"
           /\ \A d \in Clients : d = c => Stopped(c)[d].life # "running"
<1>1. CASE ~Running(c)
  BY <1>1 DEF Stopped, NoneKept, Running, ClientTypes, Clients
<1>2. CASE Running(c)
  <2>1. c \in Clients /\ clients[c] \in Client /\ clients[c].life = "running"
    BY <1>2 DEF Running, ClientTypes, Clients
  <2>2. Stopped(c) = [clients EXCEPT ![c] = [clients[c] EXCEPT !.life = "ending", !.reason = "stopped"]]
    BY <1>2, <2>1 DEF Stopped, ClientTypes
  <2>3. [clients[c] EXCEPT !.life = "ending", !.reason = "stopped"] \in Client
    BY <2>1 DEF Client, Lives, Reasons
  <2>4. /\ [clients[c] EXCEPT !.life = "ending", !.reason = "stopped"].life = "ending"
        /\ [clients[c] EXCEPT !.life = "ending", !.reason = "stopped"].reason = "stopped"
    BY <2>1 DEF Client
  <2> QED
    BY <2>1, <2>2, <2>3, <2>4 DEF NoneKept, ClientTypes
<1> QED
  BY <1>1, <1>2

LEMMA CancelTypes ==
    ASSUME ClientTypes, TaskTypes, NEW cs \in [Clients -> Client], CancelUpdate(cs)
    PROVE  /\ lock' \in 0 .. Update /\ old' \in 0 .. MaxCalls
           /\ clients' \in [Clients -> Client]
           /\ \A c \in Clients : clients'[c].life = "none" <=> cs[c].life = "none"
<1>1. lock' \in 0 .. Update /\ old' \in 0 .. MaxCalls
  BY Numbers DEF CancelUpdate, TaskTypes, UpdateRec
<1>2. clients' = cs \/ (cs[update.client].life = "lock" /\ clients' = [cs EXCEPT ![update.client] = OverClient])
  BY DEF CancelUpdate
<1> QED
  BY <1>1, <1>2, Blank

LEMMA RefreshTypes ==
    ASSUME ClientTypes, TaskTypes, NEW cs \in [Clients -> Client], Refresh(cs)
    PROVE  /\ lock' \in 0 .. Update /\ old' \in 0 .. MaxCalls
           /\ update' \in UpdateRec
           /\ clients' \in [Clients -> Client]
           /\ \A c \in Clients : clients'[c].life = "none" <=> cs[c].life = "none"
BY CancelTypes, Blank DEF Refresh, ScheduleNow, TaskTypes

-----------------------------------------------------------------------------
(* Counting.                                                               *)
LEMMA OneMore ==
    ASSUME NEW S, IsFiniteSet(S), NEW x, NEW T, T \subseteq S \cup {x}
    PROVE  IsFiniteSet(T) /\ Cardinality(T) <= Cardinality(S) + 1
<1>1. IsFiniteSet(S \cup {x}) /\ Cardinality(S) \in Nat
      /\ Cardinality(S \cup {x}) = IF x \in S THEN Cardinality(S) ELSE Cardinality(S) + 1
  BY FS_AddElement, FS_CardinalityType
<1>2. IsFiniteSet(T) /\ Cardinality(T) <= Cardinality(S \cup {x}) /\ Cardinality(T) \in Nat
  BY <1>1, FS_Subset, FS_CardinalityType
<1> QED
  BY <1>1, <1>2

LEMMA OneLess ==
    ASSUME NEW S, IsFiniteSet(S), NEW x \in S, NEW T, T \subseteq S \ {x}
    PROVE  IsFiniteSet(T) /\ Cardinality(T) + 1 <= Cardinality(S)
<1>1. IsFiniteSet(S \ {x}) /\ Cardinality(S \ {x}) = Cardinality(S) - 1 /\ Cardinality(S) \in Nat
  BY FS_RemoveElement, FS_CardinalityType
<1>2. IsFiniteSet(T) /\ Cardinality(T) <= Cardinality(S \ {x}) /\ Cardinality(T) \in Nat
      /\ Cardinality(S \ {x}) \in Nat
  BY <1>1, FS_Subset, FS_CardinalityType
<1> QED
  BY <1>1, <1>2

LEMMA NoMore ==
    ASSUME NEW S, IsFiniteSet(S), NEW T, T \subseteq S
    PROVE  IsFiniteSet(T) /\ Cardinality(T) <= Cardinality(S) /\ Cardinality(T) \in Nat /\ Cardinality(S) \in Nat
BY FS_Subset, FS_CardinalityType

\* Most steps start no call and make neither a watch nor a client.
LEMMA CountKept ==
    ASSUME Types, WatchTypes', FlagTypes', NoneKept(clients'), UNCHANGED added, made' >= made,
           Adders' \subseteq Adders, Makers' \subseteq Makers
    PROVE  Counted'
<1>1. made \in Nat /\ made' \in Nat /\ added \in Nat
  BY DEF Types, WatchTypes, FlagTypes
<1>2. IsFiniteSet(Adders') /\ IsFiniteSet(Makers') /\ Cardinality(Adders') <= Cardinality(Adders)
      /\ Cardinality(Makers') <= Cardinality(Makers)
      /\ Cardinality(Adders') \in Nat /\ Cardinality(Adders) \in Nat
      /\ Cardinality(Makers') \in Nat /\ Cardinality(Makers) \in Nat
  BY NoMore DEF Types, Counted
<1>3. PICK n \in 0 .. MaxCalls : UsedUpTo(n) /\ n + Cardinality(Makers) <= made
  BY DEF Types, Counted
<1>4. UsedUpTo(n)'
  BY <1>3 DEF UsedUpTo, NoneKept
<1>5. n + Cardinality(Makers') <= made'
  BY <1>1, <1>2, <1>3
<1>6. added' + Cardinality(Adders') <= made'
  BY <1>1, <1>2 DEF Types, Counted
<1> QED
  BY <1>2, <1>4, <1>5, <1>6 DEF Counted

\* A call or a restart that may make both.
LEMMA CountMore ==
    ASSUME Types, WatchTypes', FlagTypes', NoneKept(clients'), UNCHANGED added, made' = made + 1,
           NEW k, Adders' \subseteq Adders \cup {k}, Makers' \subseteq Makers \cup {k}
    PROVE  Counted'
<1>1. made \in Nat /\ added \in Nat
  BY DEF Types, WatchTypes, FlagTypes
<1>2. IsFiniteSet(Adders') /\ IsFiniteSet(Makers') /\ Cardinality(Adders') <= Cardinality(Adders) + 1
      /\ Cardinality(Makers') <= Cardinality(Makers) + 1
  BY OneMore DEF Types, Counted
<1>3. Cardinality(Adders') \in Nat /\ Cardinality(Adders) \in Nat
      /\ Cardinality(Makers') \in Nat /\ Cardinality(Makers) \in Nat
  BY <1>2, FS_CardinalityType DEF Types, Counted
<1>4. PICK n \in 0 .. MaxCalls : UsedUpTo(n) /\ n + Cardinality(Makers) <= made
  BY DEF Types, Counted
<1>5. UsedUpTo(n)'
  BY <1>4 DEF UsedUpTo, NoneKept
<1>6. n + Cardinality(Makers') <= made'
  BY <1>1, <1>2, <1>3, <1>4
<1>7. added' + Cardinality(Adders') <= made'
  BY <1>1, <1>2, <1>3 DEF Types, Counted
<1> QED
  BY <1>2, <1>5, <1>6, <1>7 DEF Counted

\* There is an id left for a call that adds a watch,
LEMMA WatchLeft ==
    ASSUME Types, NEW k \in Calls, calls[k].pc = "add"
    PROVE  added + 1 \in 0 .. MaxCalls
<1>1. k \in Adders
  BY DEF Adders
<1>2. Cardinality({}) = 0 /\ Cardinality(Adders) \in Nat /\ 0 + 1 <= Cardinality(Adders)
  BY <1>1, OneLess, FS_EmptySet, FS_CardinalityType DEF Types, Counted
<1> QED
  BY <1>2, Numbers DEF Types, Counted, WatchTypes, FlagTypes

\* and a client for one that makes a client: the next.
LEMMA ClientLeft ==
    ASSUME Types, NEW k \in Calls, calls[k].pc = "create",
           NEW n \in 0 .. MaxCalls, UsedUpTo(n), n + Cardinality(Makers) <= made
    PROVE  /\ n + 1 \in Clients
           /\ (CHOOSE c \in Clients : clients[c].life = "none" /\ \A d \in Clients : d < c => clients[d].life # "none") = n + 1
<1>1. k \in Makers
  BY DEF Makers
<1>2. Cardinality({}) = 0 /\ Cardinality(Makers) \in Nat /\ 0 + 1 <= Cardinality(Makers)
  BY <1>1, OneLess, FS_EmptySet, FS_CardinalityType DEF Types, Counted
<1>3. n + 1 \in Clients /\ Clients \subseteq Nat /\ n \in Nat
  BY <1>2, Numbers DEF Types, FlagTypes, Clients
<1>4. clients[n + 1].life = "none" /\ \A d \in Clients : d < n + 1 => clients[d].life # "none"
  <2>1. n < n + 1 /\ \A d \in Clients : d < n + 1 => ~(n < d)
    BY <1>3
  <2> QED
    BY <1>3, <2>1 DEF UsedUpTo
<1>5. ASSUME NEW c \in Clients, clients[c].life = "none", \A d \in Clients : d < c => clients[d].life # "none"
      PROVE  c = n + 1
  <2>1. n < c /\ ~(n + 1 < c)
    BY <1>3, <1>4, <1>5 DEF UsedUpTo
  <2> QED
    BY <1>3, <2>1
<1> QED
  BY <1>3, <1>4, <1>5

-----------------------------------------------------------------------------
(* Every step keeps the types.                                             *)
LEMMA CallTypesKept ==
    ASSUME CallTypes, NEW k \in Calls, NEW call \in CallRec, call.pc = "add" => call.channel \in Channels,
           calls' = [calls EXCEPT ![k] = call]
    PROVE  CallTypes'
BY DEF CallTypes

\* A call that goes on is one that makes something only if it was.
LEMMA MakersStay ==
    ASSUME CallTypes, NEW k \in Calls, NEW call \in CallRec, calls' = [calls EXCEPT ![k] = call]
    PROVE  /\ Adders' \subseteq Adders \cup {k}
           /\ Makers' \subseteq Makers \cup {k}
           /\ call.pc # "add" => Adders' \subseteq Adders \ {k}
           /\ call.pc \in {"check", "create"} /\ k \in Makers => Makers' \subseteq Makers
           /\ call.pc \notin {"add", "check", "create"} => Makers' \subseteq Makers \ {k}
BY DEF CallTypes, Adders, Makers

LEMMA Begun ==
    ASSUME FlagTypes, Begins
    PROVE  mixed' \in BOOLEAN
BY DEF FlagTypes, Begins, Busy

LEMMA CallStepTypes ==
    ASSUME Types, NEW k \in Calls, Watch(k) \/ Unwatch(k) \/ CallSteps(k)
    PROVE  Types'
<1> USE Numbers, Blank DEF bounds, history
<1>0. WatchTypes /\ ClientTypes /\ TaskTypes /\ CallTypes /\ FlagTypes /\ Counted
  BY DEF Types
<1>1. calls[k] \in CallRec
  BY <1>0 DEF CallTypes
<1>2. CASE Watch(k)
  <2>1. PICK ch \in Channels : Call(k, [NoCall EXCEPT !.pc = "add", !.channel = ch])
    BY <1>2 DEF Watch
  <2> DEFINE call == [NoCall EXCEPT !.pc = "add", !.channel = ch]
  <2>2. call \in CallRec /\ call.channel \in Channels
    BY DEF CallRec, NoCall
  <2> HIDE DEF call
  <2>3. calls' = [calls EXCEPT ![k] = call] /\ made' = made + 1 /\ made < MaxCalls /\ mixed' \in BOOLEAN
    BY <1>0, <2>1, Begun DEF Call, call
  <2>4. WatchTypes' /\ ClientTypes' /\ TaskTypes' /\ FlagTypes'
    <3>1. made' \in 0 .. MaxCalls
      BY <1>0, <2>3 DEF FlagTypes
    <3> QED
      BY <1>0, <1>2, <2>3, <3>1 DEF Watch, WatchTypes, ClientTypes, TaskTypes, FlagTypes
  <2>5. CallTypes'
    BY <1>0, <2>2, <2>3, CallTypesKept
  <2>6. Counted'
    BY <1>0, <1>2, <2>2, <2>3, <2>4, MakersStay, CountMore DEF Watch, NoneKept
  <2> QED
    BY <2>4, <2>5, <2>6 DEF Types
<1>3. CASE Unwatch(k)
  <2>1. PICK ids \in {{w} : w \in Watched} \cup {Watched} : Call(k, [NoCall EXCEPT !.pc = "remove", !.ids = ids])
    BY <1>3 DEF Unwatch
  <2> DEFINE call == [NoCall EXCEPT !.pc = "remove", !.ids = ids]
  <2>2. call \in CallRec /\ call.pc = "remove"
    BY <1>0, <2>1, WatchedTypes DEF CallRec, NoCall
  <2> HIDE DEF call
  <2>3. calls' = [calls EXCEPT ![k] = call] /\ made' = made + 1 /\ made < MaxCalls /\ mixed' \in BOOLEAN
    BY <1>0, <2>1, Begun DEF Call, call
  <2>4. WatchTypes' /\ ClientTypes' /\ TaskTypes' /\ FlagTypes'
    <3>1. made' \in 0 .. MaxCalls
      BY <1>0, <2>3 DEF FlagTypes
    <3> QED
      BY <1>0, <1>3, <2>3, <3>1 DEF Unwatch, WatchTypes, ClientTypes, TaskTypes, FlagTypes
  <2>5. CallTypes'
    BY <1>0, <2>2, <2>3, CallTypesKept
  <2>6. Counted'
    BY <1>0, <1>3, <2>2, <2>3, <2>4, MakersStay, CountMore DEF Unwatch, NoneKept
  <2> QED
    BY <2>4, <2>5, <2>6 DEF Types
<1>4. CASE Adds(k)
  <2> DEFINE call == [NoCall EXCEPT !.pc = "check"]
  <2>1. call \in CallRec /\ call.pc = "check" /\ calls' = [calls EXCEPT ![k] = call] /\ calls[k].pc = "add"
        /\ calls[k].channel \in Channels
    BY <1>0, <1>4 DEF CallRec, NoCall, Adds, CallTypes
  <2>2. added' \in {added, added + 1} /\ added + 1 \in 0 .. MaxCalls
    BY <1>4, <2>1, WatchLeft DEF Adds
  <2>3. added' \in 0 .. MaxCalls /\ watches' \in [Channels -> 0 .. MaxCalls]
    BY <1>0, <1>4, <2>1, <2>2 DEF Adds, WatchTypes
  <2>4. WatchTypes' /\ ClientTypes' /\ TaskTypes' /\ FlagTypes'
    BY <1>0, <1>4, <2>3 DEF Adds, WatchTypes, ClientTypes, TaskTypes, FlagTypes
  <2>5. CallTypes'
    BY <1>0, <2>1, CallTypesKept
  <2>6. k \in Adders /\ k \in Makers
    BY <2>1 DEF Adders, Makers
  <2> HIDE DEF call
  <2>7. Adders' \subseteq Adders \ {k} /\ Makers' \subseteq Makers
    BY <1>0, <2>1, <2>6, MakersStay
  <2>8. /\ IsFiniteSet(Adders') /\ Cardinality(Adders') + 1 <= Cardinality(Adders)
        /\ IsFiniteSet(Makers') /\ Cardinality(Makers') <= Cardinality(Makers)
        /\ Cardinality(Adders') \in Nat /\ Cardinality(Adders) \in Nat
        /\ Cardinality(Makers') \in Nat /\ Cardinality(Makers) \in Nat
    BY <1>0, <2>6, <2>7, OneLess, NoMore, FS_CardinalityType DEF Counted
  <2>9. added' + Cardinality(Adders') <= made'
    BY <1>0, <1>4, <2>2, <2>8 DEF Counted, Adds, WatchTypes, FlagTypes
  <2>10. PICK n \in 0 .. MaxCalls : UsedUpTo(n) /\ n + Cardinality(Makers) <= made
    BY <1>0 DEF Counted
  <2>11. UsedUpTo(n)' /\ n + Cardinality(Makers') <= made'
    BY <1>0, <1>4, <2>8, <2>10 DEF Adds, UsedUpTo, FlagTypes
  <2> QED
    BY <2>4, <2>5, <2>8, <2>9, <2>11 DEF Types, Counted
<1>5. CASE Checks(k)
  <2>1. PICK call \in CallRec : calls' = [calls EXCEPT ![k] = call] /\ call.pc \in {"none", "create"} /\ calls[k].pc = "check"
    <3>1. [calls[k] EXCEPT !.pc = "create"] \in CallRec /\ [calls[k] EXCEPT !.pc = "create"].pc = "create"
      BY <1>1 DEF CallRec
    <3>2. CASE calls' = [calls EXCEPT ![k] = NoCall]
      BY <1>5, <3>2 DEF Checks
    <3>3. CASE calls' = [calls EXCEPT ![k].pc = "create"]
      <4>1. calls' = [calls EXCEPT ![k] = [calls[k] EXCEPT !.pc = "create"]]
        BY <1>0, <3>3 DEF CallTypes
      <4> QED
        BY <1>5, <3>1, <4>1 DEF Checks
    <3> QED
      BY <1>5, <3>2, <3>3 DEF Checks
  <2>2. ClientTypes' /\ TaskTypes' /\ NoneKept(clients')
    <3>1. UNCHANGED reg /\ clients \in [Clients -> Client]
      BY <1>0, <1>5 DEF Checks, ClientTypes
    <3>2. CASE Refresh(clients)
      BY <1>0, <3>1, <3>2, RefreshTypes DEF ClientTypes, TaskTypes, NoneKept
    <3>3. CASE UNCHANGED <<clients, lock, update, old>>
      BY <1>0, <3>1, <3>3 DEF ClientTypes, TaskTypes, NoneKept
    <3> QED
      BY <1>5, <3>2, <3>3 DEF Checks
  <2>3. WatchTypes' /\ FlagTypes'
    BY <1>0, <1>5 DEF Checks, WatchTypes, FlagTypes
  <2>4. CallTypes' /\ Adders' \subseteq Adders /\ Makers' \subseteq Makers
    <3>1. k \in Makers
      BY <2>1 DEF Makers
    <3> QED
      BY <1>0, <2>1, <3>1, CallTypesKept, MakersStay
  <2>5. Counted'
    BY <1>0, <1>5, <2>2, <2>3, <2>4, CountKept DEF Checks, FlagTypes
  <2> QED
    BY <2>2, <2>3, <2>4, <2>5 DEF Types
<1>6. CASE Creates(k)
  <2>1. PICK n \in 0 .. MaxCalls : UsedUpTo(n) /\ n + Cardinality(Makers) <= made
    BY <1>0 DEF Counted
  <2> DEFINE c == n + 1
             cs == [clients EXCEPT ![c].life = "running"]
  <2>2. calls[k].pc = "create" /\ calls' = [calls EXCEPT ![k] = NoCall]
    BY <1>6 DEF Creates
  <2>3. c \in Clients /\ reg' = c /\ Refresh(cs)
    BY <1>6, <2>1, <2>2, ClientLeft DEF Creates
  <2>4. /\ cs \in [Clients -> Client]
        /\ \A d \in Clients : cs[d].life = "none" <=> d # c /\ clients[d].life = "none"
    <3>1. clients[c] \in Client
      BY <1>0, <2>3 DEF ClientTypes
    <3>2. [clients[c] EXCEPT !.life = "running"] \in Client /\ [clients[c] EXCEPT !.life = "running"].life = "running"
      BY <3>1 DEF Client, Lives
    <3>3. cs = [clients EXCEPT ![c] = [clients[c] EXCEPT !.life = "running"]] /\ clients \in [Clients -> Client]
      BY <1>0, <2>3 DEF ClientTypes
    <3> HIDE DEF c, cs
    <3> QED
      BY <2>3, <3>2, <3>3
  <2>5. /\ lock' \in 0 .. Update /\ old' \in 0 .. MaxCalls /\ update' \in UpdateRec
        /\ clients' \in [Clients -> Client]
        /\ \A d \in Clients : clients'[d].life = "none" <=> cs[d].life = "none"
    <3> HIDE DEF cs
    <3> QED
      BY <1>0, <2>3, <2>4, RefreshTypes
  <2>6. UsedUpTo(c)'
    <3>1. \A d \in Clients : d # c /\ n < d <=> c < d
      BY <2>3 DEF Clients
    <3> HIDE DEF c, cs
    <3> QED
      BY <2>1, <2>4, <2>5, <3>1 DEF UsedUpTo
  <2>7. WatchTypes' /\ ClientTypes' /\ TaskTypes' /\ FlagTypes'
    BY <1>0, <1>6, <2>3, <2>5 DEF Creates, WatchTypes, ClientTypes, TaskTypes, FlagTypes
  <2>8. CallTypes' /\ Adders' \subseteq Adders \ {k} /\ Makers' \subseteq Makers \ {k} /\ k \in Makers
    BY <1>0, <2>2, CallTypesKept, MakersStay DEF Makers
  <2>9. /\ IsFiniteSet(Makers') /\ Cardinality(Makers') + 1 <= Cardinality(Makers)
        /\ IsFiniteSet(Adders') /\ Cardinality(Adders') <= Cardinality(Adders)
        /\ Cardinality(Adders') \in Nat /\ Cardinality(Adders) \in Nat
        /\ Cardinality(Makers') \in Nat /\ Cardinality(Makers) \in Nat
    BY <1>0, <2>8, OneLess, NoMore, FS_CardinalityType DEF Counted
  <2>10. added' + Cardinality(Adders') <= made' /\ c \in 0 .. MaxCalls /\ c + Cardinality(Makers') <= made'
    BY <1>0, <1>6, <2>1, <2>3, <2>9 DEF Counted, Creates, WatchTypes, FlagTypes
  <2> QED
    BY <2>6, <2>7, <2>8, <2>9, <2>10 DEF Types, Counted
<1>7. CASE Removes(k) \/ Lists(k) \/ Pops(k) \/ StopReturns(k)
  <2>1. PICK call \in CallRec : calls' = [calls EXCEPT ![k] = call] /\ call.pc \notin {"add", "check", "create"}
    <3>1. [NoCall EXCEPT !.pc = "list"] \in CallRec /\ [NoCall EXCEPT !.pc = "list"].pc = "list"
      BY DEF NoCall, CallRec
    <3>2. ASSUME NEW pc \in {"pop", "none"}
          PROVE  [calls[k] EXCEPT !.pc = pc] \in CallRec /\ [calls[k] EXCEPT !.pc = pc].pc = pc
      BY <1>1 DEF CallRec
    <3>3. [NoCall EXCEPT !.pc = "stop", !.client = reg] \in CallRec
          /\ [NoCall EXCEPT !.pc = "stop", !.client = reg].pc = "stop"
      BY <1>0 DEF NoCall, CallRec, ClientTypes
    <3>4. CASE Lists(k)
      <4>1. PICK pc \in {"pop", "none"} : calls' = [calls EXCEPT ![k].pc = pc]
        BY <3>4 DEF Lists
      <4>2. calls' = [calls EXCEPT ![k] = [calls[k] EXCEPT !.pc = pc]]
        BY <1>0, <4>1 DEF CallTypes
      <4> QED
        BY <3>2, <4>2
    <3> QED
      BY <1>7, <3>1, <3>3, <3>4 DEF Removes, Pops, StopReturns
  <2>2. CallTypes' /\ Adders' \subseteq Adders /\ Makers' \subseteq Makers
    BY <1>0, <2>1, CallTypesKept, MakersStay
  <2>3. WatchTypes' /\ FlagTypes'
    <3>1. Without(calls[k].ids) \in [Channels -> 0 .. MaxCalls]
      BY <1>0, WithoutTypes
    <3>2. WatchTypes'
      BY <1>0, <1>7, <3>1 DEF Removes, Lists, Pops, StopReturns, WatchTypes
    <3>3. FlagTypes'
      BY <1>0, <1>7 DEF Removes, Lists, Pops, StopReturns, FlagTypes
    <3> QED
      BY <3>2, <3>3
  <2>4. ClientTypes' /\ TaskTypes' /\ NoneKept(clients')
    <3>1. CASE Pops(k)
      <4>1. Stopped(reg) \in [Clients -> Client] /\ NoneKept(Stopped(reg)) /\ CancelUpdate(Stopped(reg))
            /\ reg' = 0 /\ update' = NoUpdate
        BY <1>0, <3>1, StoppedIs DEF Pops, ClientTypes
      <4> QED
        BY <1>0, <4>1, CancelTypes DEF ClientTypes, TaskTypes, NoneKept
    <3>2. CASE Removes(k) \/ Lists(k) \/ StopReturns(k)
      BY <1>0, <3>2 DEF Removes, Lists, StopReturns, ClientTypes, TaskTypes, NoneKept
    <3> QED
      BY <1>7, <3>1, <3>2
  <2>5. UNCHANGED <<added, made>> /\ made' >= made
    BY <1>0, <1>7 DEF Removes, Lists, Pops, StopReturns, FlagTypes
  <2> QED
    BY <2>2, <2>3, <2>4, <2>5, CountKept DEF Types
<1> QED
  BY <1>2, <1>3, <1>4, <1>5, <1>6, <1>7 DEF CallSteps

\* A client that goes on to its next step, or is over.
LEMMA ClientMoves ==
    ASSUME ClientTypes, NEW c \in Clients, NEW cl \in Client, cl.life # "none", clients[c].life # "none",
           clients' = [clients EXCEPT ![c] = cl]
    PROVE  clients' \in [Clients -> Client] /\ NoneKept(clients')
BY DEF ClientTypes, NoneKept

LEMMA ClientStepTypes ==
    ASSUME Types, NEW c \in Clients, OnView(c) \/ Ends(c) \/ ClientSteps(c)
    PROVE  Types'
<1> USE Numbers, Blank DEF bounds, history
<1>0. WatchTypes /\ ClientTypes /\ TaskTypes /\ CallTypes /\ FlagTypes /\ Counted
  BY DEF Types
<1>1. clients[c] \in Client /\ clients \in [Clients -> Client] /\ c \in 0 .. Update
  BY <1>0 DEF ClientTypes
<1>2. UNCHANGED <<added, made, calls, old, idle>> \/ (UNCHANGED <<added, made, calls, old>> /\ idle' = FALSE)
  BY DEF OnView, Ends, ClientSteps, Reports, Locks, ClientCloses
<1>3. ASSUME NEW l \in Lives \ {"none"}, NEW why \in Reasons, NEW todo \in SUBSET Watches
      PROVE  /\ [clients[c] EXCEPT !.life = l] \in Client
             /\ [clients[c] EXCEPT !.life = l].life # "none"
             /\ [clients[c] EXCEPT !.life = l, !.reason = why] \in Client
             /\ [clients[c] EXCEPT !.life = l, !.reason = why].life # "none"
             /\ [clients[c] EXCEPT !.life = l, !.todo = todo] \in Client
             /\ [clients[c] EXCEPT !.life = l, !.todo = todo].life # "none"
             /\ [clients[c] EXCEPT !.todo = todo] \in Client
             /\ [clients[c] EXCEPT !.todo = todo].life = clients[c].life
  BY <1>1, <1>3 DEF Client
<1>4. UNCHANGED clients \/ \E cl \in Client : /\ cl.life # "none"
                                             /\ clients[c].life # "none"
                                             /\ clients' = [clients EXCEPT ![c] = cl]
  <2>1. CASE OnView(c)
    BY <2>1 DEF OnView
  <2>2. CASE Ends(c)
    <3>1. PICK why \in {"unsupported", "failed"} : clients' = [clients EXCEPT ![c].life = "ending", ![c].reason = why]
      BY <2>2 DEF Ends
    <3>2. clients' = [clients EXCEPT ![c] = [clients[c] EXCEPT !.life = "ending", !.reason = why]]
      BY <1>1, <3>1
    <3>3. "ending" \in Lives \ {"none"} /\ why \in Reasons /\ {} \in SUBSET Watches /\ clients[c].life # "none"
      BY <2>2 DEF Lives, Reasons, Ends, Running
    <3> QED
      BY <1>3, <3>2, <3>3
  <2>3. CASE Reports(c)
    <3>1. clients[c].life = "ending" /\ "lock" \in Lives \ {"none"} /\ "none" \in Reasons /\ {} \in SUBSET Watches
      BY <2>3 DEF Reports, Lives, Reasons
    <3>2. \/ clients' = [clients EXCEPT ![c] = OverClient]
          \/ clients' = [clients EXCEPT ![c] = [clients[c] EXCEPT !.life = "lock"]]
      BY <1>1, <2>3 DEF Reports
    <3> QED
      BY <1>3, <3>1, <3>2
  <2>4. CASE Locks(c)
    <3>1. clients[c].life = "lock" /\ "list" \in Lives \ {"none"} /\ "none" \in Reasons /\ {} \in SUBSET Watches
      BY <2>4 DEF Locks, Lives, Reasons
    <3>2. clients' = [clients EXCEPT ![c] = [clients[c] EXCEPT !.life = "list"]]
      BY <1>1, <2>4 DEF Locks
    <3> QED
      BY <1>3, <3>1, <3>2
  <2>5. CASE ClientCloses(c)
    <3>1. clients[c].life \in {"list", "closing"} /\ "closing" \in Lives \ {"none"} /\ "none" \in Reasons
          /\ Watched \subseteq Watches /\ clients[c].todo \subseteq Watches
      BY <1>0, <1>1, <2>5, WatchedTypes DEF ClientCloses, Lives, Reasons, Client
    <3>2. \/ clients' = [clients EXCEPT ![c] = OverClient]
          \/ clients' = [clients EXCEPT ![c] = [clients[c] EXCEPT !.life = "closing", !.todo = Watched]]
          \/ \E w : clients' = [clients EXCEPT ![c] = [clients[c] EXCEPT !.todo = clients[c].todo \ {w}]]
      BY <1>1, <2>5 DEF ClientCloses
    <3>3. \A w : clients[c].todo \ {w} \in SUBSET Watches
      BY <3>1
    <3> QED
      BY <1>3, <3>1, <3>2, <3>3
  <2> QED
    BY <2>1, <2>2, <2>3, <2>4, <2>5 DEF ClientSteps
<1>5. ClientTypes' /\ NoneKept(clients')
  <2>1. reg' \in 0 .. MaxCalls
    BY <1>0 DEF OnView, Ends, ClientSteps, Reports, Locks, ClientCloses, Forgets, ClientTypes
  <2>2. clients' \in [Clients -> Client] /\ NoneKept(clients')
    BY <1>0, <1>1, <1>4, ClientMoves DEF NoneKept
  <2> QED
    BY <2>1, <2>2 DEF ClientTypes
<1>6. WatchTypes'
  <2>1. UNCHANGED watches \/ \E ids : watches' = Without(ids)
    BY DEF OnView, Ends, ClientSteps, Reports, Locks, ClientCloses
  <2> QED
    BY <1>0, <1>2, <2>1, WithoutTypes DEF WatchTypes
<1>7. TaskTypes'
  <2>1. update' \in UpdateRec
    BY <1>0 DEF TaskTypes, OnView, ScheduleLater, Ends, ClientSteps, Reports, Locks, ClientCloses
  <2>2. lock' \in {lock, c, 0}
    BY DEF OnView, Ends, ClientSteps, Reports, Locks, ClientCloses
  <2> QED
    BY <1>0, <1>1, <1>2, <2>1, <2>2 DEF TaskTypes
<1>8. FlagTypes'
  <2>1. fails' \in 0 .. MaxNoteFails
    <3>1. fails' = fails \/ (fails < MaxNoteFails /\ fails' = fails + 1)
      BY DEF OnView, Ends, ClientSteps, Reports, Locks, ClientCloses
    <3> QED
      BY <1>0, <3>1 DEF FlagTypes
  <2>2. mixed' \in BOOLEAN
    BY <1>0, Begun DEF OnView, Ends, ClientSteps, Reports, Locks, ClientCloses, FlagTypes
  <2>3. failed' \in BOOLEAN
    BY <1>0 DEF OnView, Ends, ClientSteps, Reports, Locks, ClientCloses, FlagTypes
  <2>4. hasView' \in BOOLEAN
    BY <1>0 DEF OnView, Ends, ClientSteps, Reports, Locks, ClientCloses, Forgets, FlagTypes
  <2> QED
    BY <1>0, <1>2, <2>1, <2>2, <2>3, <2>4 DEF FlagTypes
<1>9. CallTypes' /\ Adders' \subseteq Adders /\ Makers' \subseteq Makers /\ made' >= made
  BY <1>0, <1>2 DEF CallTypes, Adders, Makers, FlagTypes
<1> QED
  BY <1>2, <1>5, <1>6, <1>7, <1>8, <1>9, CountKept DEF Types

LEMMA UpdateStepTypes ==
    ASSUME Types, UpdateSteps \/ Redraw \/ DaysPass \/ Restart
    PROVE  Types'
<1> USE Numbers, Blank DEF bounds, history
<1>0. WatchTypes /\ ClientTypes /\ TaskTypes /\ CallTypes /\ FlagTypes /\ Counted
  BY DEF Types
<1>1. update \in UpdateRec /\ update.todo \subseteq Watches /\ clients \in [Clients -> Client] /\ reg \in 0 .. MaxCalls
  BY <1>0 DEF TaskTypes, ClientTypes, UpdateRec
<1>2. CASE UpdateSteps
  <2>1. UNCHANGED <<added, made, calls, idle>>
    BY <1>2 DEF UpdateSteps, Wakes, UpdateLocks, ReadsTournament, ClientStopped, UpdateCloses, Draws
  <2>2. ASSUME NEW pc \in UpdatePcs, NEW d \in 0 .. MaxCalls, NEW todo \in SUBSET Watches
        PROVE  /\ [update EXCEPT !.pc = pc] \in UpdateRec
               /\ [NoUpdate EXCEPT !.pc = pc] \in UpdateRec
               /\ [update EXCEPT !.pc = pc, !.client = d] \in UpdateRec
               /\ [update EXCEPT !.pc = pc, !.todo = todo] \in UpdateRec
               /\ [update EXCEPT !.todo = todo] \in UpdateRec
    BY <1>1, <2>2 DEF UpdateRec, NoUpdate
  <2>3. /\ {"lock", "tournament", "draw", "list", "stopping", "closing"} \subseteq UpdatePcs
        /\ Watched \in SUBSET Watches /\ \A w : update.todo \ {w} \in SUBSET Watches
    BY <1>0, <1>1, WatchedTypes DEF UpdatePcs
  <2>4. update' \in UpdateRec
    <3>1. CASE Wakes \/ UpdateLocks \/ ReadsTournament
      <4>1. PICK pc \in {"lock", "tournament", "draw", "list", "stopping"} :
              \/ update' = NoUpdate
              \/ update' = [update EXCEPT !.pc = pc]
              \/ update' = [update EXCEPT !.pc = pc, !.client = reg]
        BY <3>1 DEF Wakes, UpdateLocks, ReadsTournament
      <4>2. pc \in UpdatePcs /\ {} \in SUBSET Watches
        BY DEF UpdatePcs
      <4>3. [update EXCEPT !.pc = pc] \in UpdateRec /\ [update EXCEPT !.pc = pc, !.client = reg] \in UpdateRec
        BY <1>1, <2>2, <4>2
      <4> QED
        BY <4>1, <4>3
    <3>2. CASE ClientStopped
      <4>1. {} \in SUBSET Watches /\ 0 \in 0 .. MaxCalls
        OBVIOUS
      <4> QED
        BY <1>1, <2>2, <2>3, <3>2, <4>1 DEF ClientStopped
    <3>3. CASE UpdateCloses
      <4>1. \/ update' = NoUpdate
            \/ update' = [update EXCEPT !.pc = "closing", !.todo = Watched]
            \/ \E w : update' = [update EXCEPT !.todo = update.todo \ {w}]
        BY <3>3 DEF UpdateCloses
      <4>2. "closing" \in UpdatePcs /\ 0 \in 0 .. MaxCalls
        BY DEF UpdatePcs
      <4>3. [update EXCEPT !.pc = "closing", !.todo = Watched] \in UpdateRec
        BY <2>2, <2>3, <4>2
      <4>4. \A w : [update EXCEPT !.todo = update.todo \ {w}] \in UpdateRec
        BY <2>2, <2>3, <4>2
      <4> QED
        BY <4>1, <4>3, <4>4
    <3>4. CASE Draws
      BY <3>4 DEF Draws
    <3> QED
      BY <1>2, <3>1, <3>2, <3>3, <3>4 DEF UpdateSteps
  <2>5. lock' \in {lock, Update, 0} /\ old' \in {old, 0}
    BY <1>2 DEF UpdateSteps, Wakes, UpdateLocks, ReadsTournament, ClientStopped, UpdateCloses, Draws
  <2>6. TaskTypes'
    BY <1>0, <2>4, <2>5 DEF TaskTypes
  <2>7. ClientTypes' /\ NoneKept(clients')
    <3>1. UNCHANGED clients \/ clients' = Stopped(reg)
      BY <1>2 DEF UpdateSteps, Wakes, UpdateLocks, ReadsTournament, ClientStopped, UpdateCloses, Draws
    <3>2. reg' \in {reg, 0}
      BY <1>2 DEF UpdateSteps, Wakes, UpdateLocks, ReadsTournament, ClientStopped, UpdateCloses, Draws, Forgets
    <3> QED
      BY <1>0, <1>1, <3>1, <3>2, StoppedIs DEF ClientTypes, NoneKept
  <2>8. WatchTypes'
    <3>1. UNCHANGED watches \/ \E ids : watches' = Without(ids)
      BY <1>2 DEF UpdateSteps, Wakes, UpdateLocks, ReadsTournament, ClientStopped, UpdateCloses, Draws
    <3> QED
      BY <1>0, <2>1, <3>1, WithoutTypes DEF WatchTypes
  <2>9. FlagTypes'
    <3>1. fails' = fails \/ (fails < MaxNoteFails /\ fails' = fails + 1)
      BY <1>2 DEF UpdateSteps, Wakes, UpdateLocks, ReadsTournament, ClientStopped, UpdateCloses, Draws
    <3>2. fails' \in 0 .. MaxNoteFails
      BY <1>0, <3>1 DEF FlagTypes
    <3>3. mixed' \in BOOLEAN
      BY <1>0, <1>2, Begun
         DEF UpdateSteps, Wakes, UpdateLocks, ReadsTournament, ClientStopped, UpdateCloses, Draws, FlagTypes
    <3>4. failed' \in BOOLEAN
      BY <1>0, <1>2
         DEF UpdateSteps, Wakes, UpdateLocks, ReadsTournament, ClientStopped, UpdateCloses, Draws, FlagTypes
    <3>5. hasView' \in BOOLEAN
      BY <1>0, <1>2
         DEF UpdateSteps, Wakes, UpdateLocks, ReadsTournament, ClientStopped, UpdateCloses, Draws, Forgets, FlagTypes
    <3> QED
      BY <1>0, <2>1, <3>2, <3>3, <3>4, <3>5 DEF FlagTypes
  <2>10. CallTypes' /\ Adders' \subseteq Adders /\ Makers' \subseteq Makers /\ made' >= made
    BY <1>0, <2>1 DEF CallTypes, Adders, Makers, FlagTypes
  <2> QED
    BY <2>1, <2>6, <2>7, <2>8, <2>9, <2>10, CountKept DEF Types
<1>3. CASE Redraw
  <2>1. Refresh(clients) /\ UNCHANGED <<watches, added, reg, hasView, idle, calls, fails, failed>>
        /\ made' = made + 1 /\ made < MaxCalls /\ mixed' \in BOOLEAN
    BY <1>0, <1>3, Begun DEF Redraw
  <2>2. ClientTypes' /\ TaskTypes' /\ NoneKept(clients')
    BY <1>0, <1>1, <2>1, RefreshTypes DEF ClientTypes, TaskTypes, NoneKept
  <2>3. made' \in 0 .. MaxCalls /\ made' >= made
    BY <1>0, <2>1 DEF FlagTypes
  <2>4. WatchTypes' /\ FlagTypes' /\ CallTypes' /\ Adders' \subseteq Adders /\ Makers' \subseteq Makers
    BY <1>0, <2>1, <2>3 DEF WatchTypes, FlagTypes, CallTypes, Adders, Makers
  <2> QED
    BY <2>1, <2>2, <2>3, <2>4, CountKept DEF Types
<1>4. CASE DaysPass
  <2>1. WatchTypes' /\ ClientTypes' /\ TaskTypes' /\ CallTypes' /\ FlagTypes' /\ UNCHANGED <<added, made, clients, calls>>
    BY <1>0, <1>4 DEF DaysPass, WatchTypes, ClientTypes, TaskTypes, CallTypes, FlagTypes
  <2>2. Adders' \subseteq Adders /\ Makers' \subseteq Makers /\ made' >= made /\ NoneKept(clients')
    BY <1>0, <2>1 DEF Adders, Makers, NoneKept, FlagTypes
  <2> QED
    BY <2>1, <2>2, CountKept DEF Types
<1>5. CASE Restart
  <2>1. made' = made + 1 /\ made < MaxCalls /\ UNCHANGED <<watches, added, fails>>
    BY <1>5 DEF Restart
  <2>2. made' \in 0 .. MaxCalls
    BY <1>0, <2>1 DEF FlagTypes
  <2>3. WatchTypes' /\ TaskTypes' /\ FlagTypes'
    <3>1. hasView' \in BOOLEAN /\ idle' \in BOOLEAN /\ mixed' \in BOOLEAN /\ failed' \in BOOLEAN
      BY <1>5 DEF Restart
    <3>2. WatchTypes' /\ TaskTypes'
      BY <1>0, <1>5 DEF Restart, WatchTypes, TaskTypes
    <3> QED
      BY <1>0, <2>1, <2>2, <3>1, <3>2 DEF FlagTypes
  <2>4. ClientTypes' /\ NoneKept(clients')
    BY <1>0, <1>5 DEF Restart, ClientTypes, NoneKept
  <2>5. [NoCall EXCEPT !.pc = "check"] \in CallRec /\ [NoCall EXCEPT !.pc = "check"].pc = "check"
    BY DEF NoCall, CallRec
  <2>6. CallTypes' /\ Adders' \subseteq Adders \cup {1} /\ Makers' \subseteq Makers \cup {1}
    BY <1>0, <1>5, <2>5 DEF Restart, CallTypes, Adders, Makers
  <2> QED
    BY <2>1, <2>3, <2>4, <2>6, CountMore DEF Types
<1> QED
  BY <1>2, <1>3, <1>4, <1>5

LEMMA TypesStart == Init => Types
<1> SUFFICES ASSUME Init PROVE Types
  OBVIOUS
<1> USE Numbers, Blank
<1>1. WatchTypes /\ ClientTypes /\ TaskTypes /\ CallTypes
  BY ClientsAssumption DEF Init, WatchTypes, ClientTypes, TaskTypes, CallTypes
<1>2. FlagTypes
  <2>1. made \in 0 .. MaxCalls /\ fails \in 0 .. MaxNoteFails
    BY DEF Init
  <2>2. hasView \in BOOLEAN /\ idle \in BOOLEAN /\ mixed \in BOOLEAN /\ failed \in BOOLEAN
    BY DEF Init
  <2> QED
    BY <2>1, <2>2 DEF FlagTypes
<1>3. Adders = {} /\ Makers = {} /\ IsFiniteSet({}) /\ Cardinality({}) = 0
  BY FS_EmptySet DEF Init, Adders, Makers
<1>4. UsedUpTo(0) /\ 0 \in 0 .. MaxCalls
  BY DEF Init, UsedUpTo, Clients
<1>5. Counted
  BY <1>3, <1>4 DEF Init, Counted
<1> QED
  BY <1>1, <1>2, <1>5 DEF Types

LEMMA TypesStep ==
    ASSUME Types, [Next]_vars
    PROVE  Types'
<1>1. CASE UNCHANGED vars
  BY <1>1 DEF Types, WatchTypes, ClientTypes, TaskTypes, CallTypes, FlagTypes, Counted, Adders, Makers, UsedUpTo,
     vars, bounds, history
<1> QED
  BY <1>1, CallStepTypes, ClientStepTypes, UpdateStepTypes DEF Next

\* The rooms' watches, clients and tasks keep their types: there is an id for
\* every watch that is added and for every client that is made.
THEOREM TypeCorrect == Spec => []TypeOK
BY TypesStart, TypesStep, TypesImply, PTL DEF Spec

-----------------------------------------------------------------------------
(* What is followed, while one thing goes on at a time and no close has    *)
(* broken off.                                                             *)
Calling(k) == calls[k].pc # "none"
Closing(c) == clients[c].life \in {"ending", "lock", "list", "closing"} /\ clients[c].reason # "stopped"
Idling == update.pc \in {"tournament", "stopping", "list", "closing"}
Quiet == (\A k \in Calls : ~Calling(k)) /\ (\A c \in Clients : ~Closing(c)) /\ ~Idling

\* At most one call, client that ends on its own, or close of an idle room.
Alone ==
    /\ \A j, k \in Calls : Calling(j) /\ Calling(k) => j = k
    /\ \A c, d \in Clients : Closing(c) /\ Closing(d) => c = d
    /\ \A k \in Calls : Calling(k) => ~Idling /\ \A c \in Clients : ~Closing(c)
    /\ Idling => \A c \in Clients : ~Closing(c)
    /\ old = 0
    /\ \A c \in Clients : clients[c].life \in {"lock", "list", "closing"} => clients[c].reason # "stopped"

OneReg == \A c \in Clients : Running(c) => c = reg
RegRuns == reg # 0 => Running(reg)
Follow == RegRuns /\ (Watched # {} <=> reg # 0)
NoneRuns == \A c \in Clients : ~Running(c)

\* How far it is.
CallPhase(k) ==
    /\ calls[k].pc \in {"add", "remove"} => Follow
    /\ calls[k].pc = "check" => RegRuns /\ Watched # {}
    /\ calls[k].pc = "create" => reg = 0 /\ Watched # {}
    /\ calls[k].pc = "list" => RegRuns /\ (Watched # {} => reg # 0)
    /\ calls[k].pc = "pop" => RegRuns /\ Watched = {}
    /\ calls[k].pc = "stop" => reg = 0 /\ Watched = {}

ClientPhase(c) ==
    Closing(c) =>
        /\ NoneRuns
        /\ clients[c].life = "closing" => Watched \subseteq clients[c].todo

UpdatePhase ==
    /\ update.pc = "tournament" => Follow
    /\ update.pc \in {"stopping", "list", "closing"} => NoneRuns
    /\ update.pc = "closing" => Watched \subseteq update.todo

Phases ==
    /\ OneReg
    /\ Quiet => Follow
    /\ \A k \in Calls : CallPhase(k)
    /\ \A c \in Clients : ClientPhase(c)
    /\ UpdatePhase

Follows == ~mixed /\ ~failed => Alone /\ Phases

LEMMA NotBusy ==
    ASSUME ~Busy
    PROVE  Quiet /\ \A c \in Clients : clients[c].life \notin {"ending", "lock", "list", "closing"}
BY DEF Busy, Quiet, Calling, Closing, Idling

\* What is followed stays while watches, clients and their register do.
LEMMA FollowStays ==
    ASSUME UNCHANGED <<watches, reg, clients>>
    PROVE  /\ Watched' = Watched
           /\ OneReg' = OneReg /\ RegRuns' = RegRuns /\ Follow' = Follow /\ NoneRuns' = NoneRuns
           /\ \A c \in Clients : Closing(c)' = Closing(c) /\ ClientPhase(c)' = ClientPhase(c)
<1>1. Watched' = Watched
  BY DEF Watched
<1>2. \A c : Running(c)' = Running(c)
  BY DEF Running
<1>3. \A c \in Clients : Closing(c)' = Closing(c)
  BY DEF Closing
<1>4. OneReg' = OneReg /\ RegRuns' = RegRuns /\ Follow' = Follow /\ NoneRuns' = NoneRuns
  BY <1>1, <1>2 DEF OneReg, RegRuns, Follow, NoneRuns
<1> QED
  BY <1>1, <1>3, <1>4 DEF ClientPhase

\* A refresh while no idle room is being closed only schedules an update.
LEMMA RefreshIs ==
    ASSUME ~Idling, NEW cs, Refresh(cs)
    PROVE  clients' = cs /\ old' = old /\ ~Idling' /\ UpdatePhase'
BY Blank DEF Idling, Refresh, ScheduleNow, CancelUpdate, UpdatePhase

LEMMA StartsFollow ==
    ASSUME Types, Alone, Phases, NEW k \in Calls, Watch(k) \/ Unwatch(k), ~mixed'
    PROVE  Alone' /\ Phases'
<1>1. ~Busy /\ UNCHANGED <<watches, reg, clients, update, old>>
  BY DEF Watch, Unwatch, Call, Begins
<1>2. Quiet /\ Follow
  BY <1>1, NotBusy DEF Phases
<1>3. PICK call : calls' = [calls EXCEPT ![k] = call] /\ call.pc \in {"add", "remove"}
  <2>1. \A ch : [NoCall EXCEPT !.pc = "add", !.channel = ch].pc = "add"
    BY DEF NoCall
  <2>2. \A ids : [NoCall EXCEPT !.pc = "remove", !.ids = ids].pc = "remove"
    BY DEF NoCall
  <2>3. CASE Watch(k)
    BY <2>1, <2>3 DEF Watch, Call
  <2>4. CASE Unwatch(k)
    BY <2>2, <2>4 DEF Unwatch, Call
  <2> QED
    BY <2>3, <2>4
<1>4. \A j \in Calls : calls'[j] = IF j = k THEN call ELSE calls[j]
  BY <1>3 DEF Types, CallTypes
<1>5. Calling(k)' /\ \A j \in Calls : j # k => ~Calling(j)'
  BY <1>2, <1>3, <1>4 DEF Quiet, Calling
<1>6. Idling' = Idling
  BY <1>1 DEF Idling
<1>7. Alone'
  BY <1>1, <1>2, <1>5, <1>6, FollowStays DEF Alone, Quiet
<1>8. \A j \in Calls : CallPhase(j)'
  BY <1>1, <1>2, <1>3, <1>4, <1>5, FollowStays DEF CallPhase, Calling
<1>9. UpdatePhase'
  BY <1>1, FollowStays DEF Phases, UpdatePhase
<1> QED
  BY <1>1, <1>5, <1>7, <1>8, <1>9, FollowStays DEF Phases, Quiet

\* A call that goes on: nothing else is under way.
LEMMA Goes ==
    ASSUME Types, Alone, NEW k \in Calls, Calling(k)
    PROVE  /\ \A j \in Calls : j # k => ~Calling(j)
           /\ ~Idling /\ \A c \in Clients : ~Closing(c)
BY DEF Alone

\* A call's step keeps the others' phases if it keeps the clients' and its own.
LEMMA GoesOn ==
    ASSUME Types, Alone, NEW k \in Calls, Calling(k), NEW call, calls' = [calls EXCEPT ![k] = call],
           ~Idling', UpdatePhase', old' = 0, OneReg',
           \A c \in Clients : ~Closing(c)' /\ clients'[c].life \notin {"lock", "list", "closing"},
           CallPhase(k)', call.pc = "none" => Follow'
    PROVE  Alone' /\ Phases'
<1>1. \A j \in Calls : calls'[j] = IF j = k THEN call ELSE calls[j]
  BY DEF Types, CallTypes
<1>2. \A j \in Calls : j # k => ~Calling(j)'
  BY <1>1, Goes DEF Calling
<1>3. Alone'
  BY <1>2 DEF Alone
<1>4. \A j \in Calls : CallPhase(j)'
  BY <1>2 DEF CallPhase, Calling
<1>5. Quiet' => Follow'
  BY <1>1 DEF Quiet, Calling
<1> QED
  BY <1>3, <1>4, <1>5 DEF Phases, ClientPhase

LEMMA CallFollows ==
    ASSUME Types, Alone, Phases, NEW k \in Calls, CallSteps(k)
    PROVE  Alone' /\ Phases'
<1>1. Calling(k) /\ clients \in [Clients -> Client] /\ calls[k] \in CallRec /\ calls \in [Calls -> CallRec]
      /\ reg \in 0 .. MaxCalls
  BY DEF CallSteps, Adds, Checks, Creates, Removes, Lists, Pops, StopReturns, Calling, Types, ClientTypes, CallTypes
<1>2. /\ ~Idling /\ old = 0 /\ CallPhase(k) /\ UpdatePhase /\ OneReg
      /\ \A c \in Clients : ~Closing(c) /\ clients[c].life \notin {"lock", "list", "closing"}
  <2>1. ~Idling /\ \A c \in Clients : ~Closing(c)
    BY <1>1, Goes
  <2> QED
    BY <2>1 DEF Alone, Phases, Closing
<1>4. ASSUME UNCHANGED clients
      PROVE  /\ \A c \in Clients : ~Closing(c)' /\ clients'[c].life \notin {"lock", "list", "closing"}
             /\ \A c : Running(c)' = Running(c)
  BY <1>2, <1>4 DEF Closing, Running
<1>5. ASSUME UNCHANGED update PROVE ~Idling' /\ UpdatePhase'
  BY <1>2, <1>5 DEF Idling, UpdatePhase
<1>6. CASE Adds(k)
  <2> DEFINE call == [NoCall EXCEPT !.pc = "check"]
  <2>1. call.pc = "check"
    BY DEF NoCall
  <2>2. calls' = [calls EXCEPT ![k] = call] /\ calls[k].pc = "add" /\ UNCHANGED <<reg, clients, update, old>>
    BY <1>6 DEF Adds
  <2> HIDE DEF call
  <2>3. calls'[k].pc = "check"
    BY <1>1, <2>1, <2>2
  <2>4. Follow
    BY <1>2, <2>2 DEF CallPhase
  <2>5. Watched' # {}
    <3>1. watches \in [Channels -> 0 .. MaxCalls] /\ calls[k].channel \in Channels /\ added \in Nat
      BY <2>2 DEF Types, WatchTypes, CallTypes
    <3>2. watches'[calls[k].channel] # 0
      BY <1>6, <3>1 DEF Adds
    <3> QED
      BY <3>1, <3>2 DEF Watched
  <2>6. RegRuns' /\ OneReg'
    BY <1>2, <1>4, <2>2, <2>4 DEF Follow, RegRuns, OneReg
  <2>7. CallPhase(k)'
    BY <2>3, <2>5, <2>6 DEF CallPhase
  <2> QED
    BY <1>1, <1>2, <1>4, <1>5, <2>1, <2>2, <2>6, <2>7, GoesOn
<1>7. CASE Checks(k)
  <2>1. calls[k].pc = "check" /\ UNCHANGED <<watches, reg>> /\ RegRuns /\ Watched # {}
    BY <1>2, <1>7 DEF Checks, CallPhase
  <2>2. CASE reg # 0 /\ calls' = [calls EXCEPT ![k] = NoCall] /\ Refresh(clients)
    <3>1. UNCHANGED <<clients, old>> /\ ~Idling' /\ UpdatePhase'
      BY <1>2, <2>2, RefreshIs
    <3>2. Follow' /\ OneReg'
      BY <1>2, <2>1, <2>2, <3>1, FollowStays DEF Follow
    <3>3. CallPhase(k)'
      BY <1>1, <2>2, Blank DEF CallPhase
    <3> QED
      BY <1>1, <1>2, <1>4, <2>2, <3>1, <3>2, <3>3, GoesOn
  <2>3. CASE reg = 0 /\ calls' = [calls EXCEPT ![k].pc = "create"] /\ UNCHANGED <<clients, update, old>>
    <3> DEFINE call == [calls[k] EXCEPT !.pc = "create"]
    <3>1. calls' = [calls EXCEPT ![k] = call] /\ call.pc = "create"
      BY <1>1, <2>3 DEF CallRec
    <3> HIDE DEF call
    <3>2. Watched' # {} /\ reg' = 0 /\ OneReg'
      BY <1>2, <2>1, <2>3, FollowStays
    <3>3. CallPhase(k)'
      BY <1>1, <3>1, <3>2 DEF CallPhase
    <3> QED
      BY <1>1, <1>2, <1>4, <1>5, <2>3, <3>1, <3>2, <3>3, GoesOn
  <2> QED
    BY <1>7, <2>2, <2>3 DEF Checks
<1>8. CASE Creates(k)
  <2>1. PICK n \in 0 .. MaxCalls : UsedUpTo(n) /\ n + Cardinality(Makers) <= made
    BY DEF Types, Counted
  <2> DEFINE c == n + 1
             cs == [clients EXCEPT ![c].life = "running"]
  <2>2. calls[k].pc = "create" /\ calls' = [calls EXCEPT ![k] = NoCall] /\ UNCHANGED watches /\ reg = 0 /\ Watched # {}
    BY <1>2, <1>8 DEF Creates, CallPhase
  <2>3. c \in Clients /\ reg' = c /\ Refresh(cs)
    BY <1>8, <2>1, <2>2, ClientLeft DEF Creates
  <2>4. \A d \in Clients : d # c => cs[d] = clients[d]
    BY <1>1
  <2>5. cs[c].life = "running"
    BY <1>1, <2>3 DEF Client
  <2>6. clients' = cs /\ old' = 0 /\ ~Idling' /\ UpdatePhase'
    <3> HIDE DEF cs
    <3> QED
      BY <1>2, <2>3, RefreshIs
  <2> HIDE DEF c, cs
  <2>7. \A d \in Clients : ~Closing(d)' /\ clients'[d].life \notin {"lock", "list", "closing"}
    BY <1>2, <2>4, <2>5, <2>6 DEF Closing
  <2>8. \A d \in Clients : ~Running(d)
    BY <1>2, <2>2, Numbers DEF OneReg
  <2>9. OneReg' /\ RegRuns'
    BY <2>3, <2>4, <2>5, <2>6, <2>8, Numbers DEF OneReg, RegRuns, Running
  <2>10. Follow'
    BY <2>2, <2>3, <2>9, Numbers DEF Follow, Watched
  <2>11. CallPhase(k)'
    BY <1>1, <2>2, Blank DEF CallPhase
  <2> QED
    BY <1>1, <2>2, <2>6, <2>7, <2>9, <2>10, <2>11, GoesOn
<1>9. CASE Removes(k)
  <2> DEFINE call == [NoCall EXCEPT !.pc = "list"]
  <2>1. call.pc = "list"
    BY DEF NoCall
  <2>2. calls' = [calls EXCEPT ![k] = call] /\ calls[k].pc = "remove" /\ UNCHANGED <<reg, clients, update, old>>
        /\ watches' = Without(calls[k].ids)
    BY <1>9 DEF Removes
  <2> HIDE DEF call
  <2>3. Follow
    BY <1>2, <2>2 DEF CallPhase
  <2>4. Watched' \subseteq Watched
    BY <2>2, WithoutTypes DEF Watched, Types
  <2>5. RegRuns' /\ OneReg' /\ (Watched' # {} => reg' # 0)
    BY <1>2, <1>4, <2>2, <2>3, <2>4 DEF Follow, RegRuns, OneReg
  <2>6. CallPhase(k)'
    BY <1>1, <2>1, <2>2, <2>5 DEF CallPhase
  <2> QED
    BY <1>1, <1>2, <1>4, <1>5, <2>1, <2>2, <2>5, <2>6, GoesOn
<1>10. CASE Lists(k)
  <2>1. PICK pc : calls' = [calls EXCEPT ![k].pc = pc] /\ pc = IF Watched = {} THEN "pop" ELSE "none"
    BY <1>10 DEF Lists
  <2> DEFINE call == [calls[k] EXCEPT !.pc = pc]
  <2>2. calls' = [calls EXCEPT ![k] = call] /\ call.pc = pc
    BY <1>1, <2>1 DEF CallRec
  <2> HIDE DEF call
  <2>3. calls[k].pc = "list" /\ UNCHANGED <<watches, reg, clients, update, old>>
    BY <1>10 DEF Lists
  <2>4. RegRuns' /\ OneReg' /\ (Watched' # {} => reg' # 0) /\ Watched' = Watched
    BY <1>2, <2>3, FollowStays DEF CallPhase
  <2>5. CallPhase(k)'
    BY <1>1, <2>1, <2>2, <2>4 DEF CallPhase
  <2>6. call.pc = "none" => Follow'
    BY <2>1, <2>2, <2>4 DEF Follow, Watched
  <2> QED
    BY <1>1, <1>2, <1>4, <1>5, <2>2, <2>3, <2>4, <2>5, <2>6, GoesOn
<1>11. CASE Pops(k)
  <2> DEFINE call == [NoCall EXCEPT !.pc = "stop", !.client = reg]
             cs == Stopped(reg)
  <2>1. call.pc = "stop"
    BY DEF NoCall
  <2>2. calls' = [calls EXCEPT ![k] = call] /\ calls[k].pc = "pop" /\ reg' = 0 /\ UNCHANGED watches
        /\ CancelUpdate(cs) /\ update' = NoUpdate
    BY <1>11 DEF Pops
  <2>3. Watched' = {}
    BY <1>2, <2>2 DEF CallPhase, Watched
  <2>4. clients' = cs /\ old' = 0
    BY <1>2, <2>2 DEF CancelUpdate, Idling
  <2>5. \A d \in Clients : cs[d] = clients[d] \/ (cs[d].life = "ending" /\ cs[d].reason = "stopped")
    BY <1>1, StoppedIs DEF Types
  <2>6. \A d \in Clients : d = reg => cs[d].life # "running"
    BY <1>1, StoppedIs DEF Types
  <2> HIDE DEF call, cs
  <2>7. \A d \in Clients : ~Closing(d)' /\ clients'[d].life \notin {"lock", "list", "closing"}
    BY <1>2, <2>4, <2>5 DEF Closing
  <2>8. \A d \in Clients : clients'[d].life # "running"
    <3>1. \A d \in Clients : clients[d].life = "running" => d = reg
      BY <1>2, Numbers DEF OneReg, Running
    <3> QED
      BY <2>4, <2>5, <2>6, <3>1
  <2>9. OneReg'
    BY <2>8 DEF OneReg, Running
  <2>10. ~Idling' /\ UpdatePhase'
    BY <2>2, Blank DEF Idling, UpdatePhase
  <2>11. CallPhase(k)'
    BY <1>1, <2>1, <2>2, <2>3 DEF CallPhase
  <2> QED
    BY <1>1, <2>1, <2>2, <2>4, <2>7, <2>9, <2>10, <2>11, GoesOn
<1>12. CASE StopReturns(k)
  <2>1. calls' = [calls EXCEPT ![k] = NoCall] /\ calls[k].pc = "stop" /\ UNCHANGED <<watches, reg, clients, update, old>>
    BY <1>12 DEF StopReturns
  <2>2. Follow' /\ OneReg'
    BY <1>2, <2>1, FollowStays DEF CallPhase, Follow, RegRuns
  <2>3. CallPhase(k)'
    BY <1>1, <2>1, Blank DEF CallPhase
  <2> QED
    BY <1>1, <1>2, <1>4, <1>5, <2>1, <2>2, <2>3, GoesOn
<1> QED
  BY <1>6, <1>7, <1>8, <1>9, <1>10, <1>11, <1>12 DEF CallSteps

-----------------------------------------------------------------------------
\* Steps that leave watches, clients and calls alone, and start or end no close.
LEMMA CalmStep ==
    ASSUME Alone, Phases, UNCHANGED <<watches, reg, clients, calls, old>>,
           UNCHANGED update \/ (~Idling /\ ~Idling')
    PROVE  Alone' /\ Phases'
<1>1. Idling' = Idling /\ UpdatePhase'
  <2>1. CASE UNCHANGED update
    BY <2>1, FollowStays DEF Idling, Phases, UpdatePhase
  <2>2. CASE ~Idling /\ ~Idling'
    BY <2>2 DEF Idling, UpdatePhase
  <2> QED
    BY <2>1, <2>2
<1>2. \A k \in Calls : Calling(k)' = Calling(k) /\ CallPhase(k)' = CallPhase(k)
  BY FollowStays DEF Calling, CallPhase
<1>3. Alone'
  BY <1>1, <1>2, FollowStays DEF Alone
<1>4. Quiet' = Quiet
  BY <1>1, <1>2, FollowStays DEF Quiet
<1> QED
  BY <1>1, <1>2, <1>3, <1>4, FollowStays DEF Phases

\* A close of an idle room that goes on: nothing else is under way.
LEMMA IdleGoesOn ==
    ASSUME Alone, Idling, UNCHANGED calls, old' = 0, OneReg', UpdatePhase',
           \A c \in Clients : ~Closing(c)' /\ clients'[c].life \notin {"lock", "list", "closing"},
           ~Idling' => Follow'
    PROVE  Alone' /\ Phases'
<1>1. \A k \in Calls : ~Calling(k)'
  BY DEF Alone, Calling
<1>2. Alone'
  BY <1>1 DEF Alone
<1>3. \A k \in Calls : CallPhase(k)'
  BY <1>1 DEF CallPhase, Calling
<1> QED
  BY <1>2, <1>3 DEF Phases, Quiet, ClientPhase

\* No client runs, or closes, while an idle room is being closed.
LEMMA IdleIs ==
    ASSUME Alone, Idling
    PROVE  \A c \in Clients : ~Closing(c) /\ clients[c].life \notin {"lock", "list", "closing"}
BY DEF Alone, Closing

LEMMA WatchedLess ==
    ASSUME WatchTypes, NEW w, watches' = Without({w})
    PROVE  Watched' \subseteq Watched \ {w}
BY WithoutTypes DEF Watched

LEMMA UpdateFollows ==
    ASSUME Types, Alone, Phases, UpdateSteps, ~mixed', ~failed'
    PROVE  Alone' /\ Phases'
<1> USE Blank
<1>0. WatchTypes /\ clients \in [Clients -> Client] /\ update \in UpdateRec /\ reg \in 0 .. MaxCalls /\ ClientTypes
  BY DEF Types, ClientTypes, TaskTypes
<1>1. CASE Wakes
  <2>1. ~Idling /\ ~Idling'
    BY <1>0, <1>1 DEF Wakes, Idling, UpdateRec
  <2> QED
    BY <1>1, <2>1, CalmStep DEF Wakes
<1>2. CASE UpdateLocks
  <2>1. update.pc = "lock" /\ UNCHANGED <<watches, reg, clients, calls, old>>
    BY <1>2 DEF UpdateLocks
  <2>2. CASE update' = [update EXCEPT !.pc = "draw"]
    <3>1. ~Idling /\ ~Idling'
      BY <1>0, <2>1, <2>2 DEF Idling, UpdateRec
    <3> QED
      BY <2>1, <3>1, CalmStep
  <2>3. CASE update' = [update EXCEPT !.pc = "tournament"] /\ Begins
    <3>1. update'.pc = "tournament" /\ ~Busy
      BY <1>0, <2>3 DEF UpdateRec, Begins
    <3>2. Quiet /\ Follow
      BY <3>1, NotBusy DEF Phases
    <3>3. Follow' /\ OneReg'
      BY <2>1, <3>2, FollowStays DEF Phases
    <3>4. \A k \in Calls : ~Calling(k)'
      BY <2>1, <3>2 DEF Quiet, Calling
    <3>5. \A c \in Clients : ~Closing(c)'
      BY <2>1, <3>2, FollowStays DEF Quiet
    <3>6. Alone'
      BY <2>1, <3>4, <3>5 DEF Alone
    <3>7. UpdatePhase'
      BY <3>1, <3>3 DEF UpdatePhase
    <3>8. \A k \in Calls : CallPhase(k)'
      BY <3>4 DEF CallPhase, Calling
    <3> QED
      BY <3>3, <3>5, <3>6, <3>7, <3>8 DEF Phases, ClientPhase
  <2> QED
    BY <1>2, <2>2, <2>3 DEF UpdateLocks
<1>3. CASE ReadsTournament
  <2>1. update.pc = "tournament" /\ UNCHANGED <<watches, reg, calls, old>>
    BY <1>3 DEF ReadsTournament
  <2>2. Idling /\ Follow /\ OneReg /\ old' = 0
    BY <2>1 DEF Idling, Phases, UpdatePhase, Alone
  <2>3. CASE update' = [update EXCEPT !.pc = "draw"] /\ UNCHANGED clients
    <3>1. update'.pc = "draw"
      BY <1>0, <2>3 DEF UpdateRec
    <3>2. Follow' /\ OneReg' /\ UpdatePhase'
      BY <2>1, <2>2, <2>3, <3>1, FollowStays DEF UpdatePhase
    <3>3. \A c \in Clients : ~Closing(c)' /\ clients'[c].life \notin {"lock", "list", "closing"}
      BY <2>1, <2>2, <2>3, IdleIs, FollowStays
    <3> QED
      BY <2>1, <2>2, <3>2, <3>3, IdleGoesOn
  <2>4. CASE /\ update' = [update EXCEPT !.pc = IF reg = 0 THEN "list" ELSE "stopping", !.client = reg]
             /\ clients' = Stopped(reg)
    <3>1. update'.pc \in {"list", "stopping"}
      BY <1>0, <2>4 DEF UpdateRec
    <3>2. \A d \in Clients : clients'[d] = clients[d] \/ (clients'[d].life = "ending" /\ clients'[d].reason = "stopped")
      BY <1>0, <2>4, StoppedIs
    <3>3. \A d \in Clients : d = reg => clients'[d].life # "running"
      BY <1>0, <2>4, StoppedIs
    <3>4. \A c \in Clients : ~Closing(c)' /\ clients'[c].life \notin {"lock", "list", "closing"}
      BY <2>2, <3>2, IdleIs DEF Closing
    <3>5. NoneRuns'
      <4>1. \A d \in Clients : clients[d].life = "running" => d = reg
        BY <2>2, Numbers DEF OneReg, Running
      <4> QED
        BY <3>2, <3>3, <4>1 DEF NoneRuns, Running
    <3>6. OneReg' /\ UpdatePhase' /\ Idling'
      BY <3>1, <3>5 DEF OneReg, NoneRuns, UpdatePhase, Idling
    <3> QED
      BY <2>1, <2>2, <3>4, <3>6, IdleGoesOn
  <2> QED
    BY <1>3, <2>3, <2>4 DEF ReadsTournament
<1>4. CASE ClientStopped
  <2>1. update.pc = "stopping" /\ update' = [NoUpdate EXCEPT !.pc = "list"] /\ UNCHANGED <<watches, reg, clients, calls, old>>
    BY <1>4 DEF ClientStopped, Alone
  <2>2. update'.pc = "list"
    BY <2>1 DEF NoUpdate
  <2>3. Idling /\ NoneRuns /\ old' = 0
    BY <2>1 DEF Idling, Phases, UpdatePhase, Alone
  <2>4. OneReg' /\ UpdatePhase' /\ Idling'
    BY <2>1, <2>2, <2>3, FollowStays DEF UpdatePhase, Idling, Phases
  <2>5. \A c \in Clients : ~Closing(c)' /\ clients'[c].life \notin {"lock", "list", "closing"}
    BY <2>1, <2>3, IdleIs, FollowStays
  <2> QED
    BY <2>1, <2>3, <2>4, <2>5, IdleGoesOn
<1>5. CASE UpdateCloses
  <2>1. Idling /\ NoneRuns /\ UNCHANGED <<clients, calls, old>>
    BY <1>5 DEF UpdateCloses, Idling, Phases, UpdatePhase
  <2>2. /\ old' = 0 /\ NoneRuns' /\ OneReg'
        /\ \A c \in Clients : ~Closing(c)' /\ clients'[c].life \notin {"lock", "list", "closing"}
    <3>1. \A c \in Clients : ~Closing(c) /\ clients[c].life \notin {"lock", "list", "closing"}
      BY <2>1, IdleIs
    <3> QED
      BY <2>1, <3>1 DEF Alone, NoneRuns, OneReg, Running, Closing
  <2>3. CASE update.pc = "list" /\ update' = [update EXCEPT !.pc = "closing", !.todo = Watched] /\ UNCHANGED watches
    <3>1. update'.pc = "closing" /\ update'.todo = Watched
      BY <1>0, <2>3 DEF UpdateRec
    <3>2. UpdatePhase' /\ Idling'
      BY <2>2, <2>3, <3>1 DEF UpdatePhase, Idling, Watched
    <3> QED
      BY <2>1, <2>2, <3>2, IdleGoesOn
  <2>4. ASSUME update.pc = "closing", NEW w \in update.todo, update' = [update EXCEPT !.todo = @ \ {w}], watches' = Without({w})
        PROVE  Alone' /\ Phases'
    <3>1. update'.pc = "closing" /\ update'.todo = update.todo \ {w}
      BY <1>0, <2>4 DEF UpdateRec
    <3>2. Watched' \subseteq update'.todo
      BY <1>0, <2>4, <3>1, WatchedLess DEF Phases, UpdatePhase
    <3>3. UpdatePhase' /\ Idling'
      BY <2>2, <3>1, <3>2 DEF UpdatePhase, Idling
    <3> QED
      BY <2>1, <2>2, <3>3, IdleGoesOn
  <2>5. CASE update.pc = "closing" /\ update.todo = {} /\ Forgets /\ update' = NoUpdate /\ UNCHANGED watches
    <3>1. Watched' = {}
      BY <2>5 DEF Phases, UpdatePhase, Watched
    <3>2. Follow'
      BY <2>5, <3>1 DEF Forgets, Follow, RegRuns
    <3>3. UpdatePhase'
      BY <2>5 DEF UpdatePhase
    <3> QED
      BY <2>1, <2>2, <3>2, <3>3, IdleGoesOn
  <2> QED
    BY <1>5, <2>3, <2>4, <2>5 DEF UpdateCloses
<1>6. CASE Draws
  <2>1. ~Idling /\ ~Idling'
    BY <1>6 DEF Draws, Idling
  <2> QED
    BY <1>6, <2>1, CalmStep DEF Draws
<1> QED
  BY <1>1, <1>2, <1>3, <1>4, <1>5, <1>6 DEF UpdateSteps

-----------------------------------------------------------------------------
\* A client that closes the room: nothing else is under way.
LEMMA ClientGoesOn ==
    ASSUME NEW c \in Clients, \A k \in Calls : ~Calling(k), ~Idling, UNCHANGED <<calls, update>>, old' = 0,
           \A d \in Clients : d # c => ~Closing(d)' /\ clients'[d].life \notin {"lock", "list", "closing"},
           clients'[c].life \in {"lock", "list", "closing"} => clients'[c].reason # "stopped",
           OneReg', ClientPhase(c)', ~Closing(c)' => Follow'
    PROVE  Alone' /\ Phases'
<1>1. \A k \in Calls : ~Calling(k)'
  BY DEF Calling
<1>2. ~Idling' /\ UpdatePhase'
  BY DEF Idling, UpdatePhase
<1>3. Alone'
  BY <1>1, <1>2 DEF Alone
<1>4. \A k \in Calls : CallPhase(k)'
  BY <1>1 DEF CallPhase, Calling
<1> QED
  BY <1>2, <1>3, <1>4 DEF Phases, Quiet, ClientPhase

LEMMA ClosingIs ==
    ASSUME Alone, Phases, NEW c \in Clients, Closing(c)
    PROVE  /\ \A k \in Calls : ~Calling(k)
           /\ ~Idling /\ old = 0
           /\ \A d \in Clients : d # c => ~Closing(d) /\ clients[d].life \notin {"lock", "list", "closing"}
           /\ \A d \in Clients : clients[d].life # "running"
           /\ clients[c].life = "closing" => Watched \subseteq clients[c].todo
<1>1. \A d \in Clients : clients[d].life # "running"
  BY Numbers DEF Phases, ClientPhase, NoneRuns, Running
<1> QED
  BY <1>1 DEF Alone, Phases, ClientPhase, Closing

\* A stopped client ends: no more than that.
LEMMA StoppedEnds ==
    ASSUME Types, Alone, Phases, NEW c \in Clients, clients[c].life = "ending", clients[c].reason = "stopped",
           clients' = [clients EXCEPT ![c] = OverClient], UNCHANGED <<watches, reg, calls, update, old>>
    PROVE  Alone' /\ Phases'
<1>1. \A d \in Clients : d # c => clients'[d] = clients[d]
  BY DEF Types, ClientTypes
<1>2. clients'[c].life = "over"
  BY Blank DEF Types, ClientTypes
<1>3. /\ \A d \in Clients : Closing(d)' = Closing(d) /\ Running(d)' = Running(d)
      /\ \A d \in Clients : Closing(d) => clients'[d] = clients[d]
      /\ \A d \in Clients : clients'[d].life \in {"lock", "list", "closing"} => clients'[d] = clients[d]
  BY <1>1, <1>2 DEF Closing, Running
<1>4. Watched' = Watched /\ Idling' = Idling /\ \A k \in Calls : Calling(k)' = Calling(k)
  BY DEF Watched, Idling, Calling
<1>5. OneReg' = OneReg /\ RegRuns' = RegRuns /\ NoneRuns' = NoneRuns /\ Follow' = Follow
  <2>1. RegRuns' = RegRuns
    BY <1>3, Numbers DEF RegRuns, Types, ClientTypes, Clients
  <2> QED
    BY <1>3, <1>4, <2>1 DEF OneReg, NoneRuns, Follow
<1>6. Alone'
  BY <1>3, <1>4 DEF Alone
<1>7. (\A k \in Calls : CallPhase(k)') /\ UpdatePhase'
  BY <1>4, <1>5 DEF Phases, CallPhase, UpdatePhase
<1>8. \A d \in Clients : ClientPhase(d)'
  BY <1>3, <1>4, <1>5 DEF Phases, ClientPhase
<1>9. Quiet' = Quiet
  BY <1>3, <1>4 DEF Quiet
<1> QED
  BY <1>5, <1>6, <1>7, <1>8, <1>9 DEF Phases

LEMMA ClientFollows ==
    ASSUME Types, Alone, Phases, NEW c \in Clients, OnView(c) \/ Ends(c) \/ ClientSteps(c), ~mixed', ~failed'
    PROVE  Alone' /\ Phases'
<1> USE Blank
<1>0. WatchTypes /\ clients \in [Clients -> Client] /\ clients[c] \in Client
  BY DEF Types, ClientTypes
<1>1. CASE OnView(c)
  <2>1. UNCHANGED update \/ (~Idling /\ ~Idling')
    BY <1>1 DEF OnView, ScheduleLater, Idling
  <2> QED
    BY <1>1, <2>1, CalmStep DEF OnView
<1>2. CASE Ends(c)
  <2>1. ~Busy /\ Running(c) /\ UNCHANGED <<watches, reg, calls, update, old>>
    BY <1>2 DEF Ends, Begins
  <2>2. Quiet /\ \A d \in Clients : clients[d].life \notin {"ending", "lock", "list", "closing"}
    BY <2>1, NotBusy
  <2>3. PICK why \in {"unsupported", "failed"} : clients' = [clients EXCEPT ![c].life = "ending", ![c].reason = why]
    BY <1>2 DEF Ends
  <2>4. clients'[c].life = "ending" /\ clients'[c].reason = why /\ \A d \in Clients : d # c => clients'[d] = clients[d]
    BY <1>0, <2>3 DEF Client
  <2>5. \A d \in Clients : d # c => clients[d].life # "running"
    BY <2>1, Numbers DEF Phases, OneReg, Running
  <2>6. NoneRuns' /\ OneReg'
    BY <2>4, <2>5 DEF NoneRuns, OneReg, Running
  <2>7. ClientPhase(c)'
    BY <2>4, <2>6 DEF ClientPhase
  <2>8. \A d \in Clients : d # c => ~Closing(d)' /\ clients'[d].life \notin {"lock", "list", "closing"}
    BY <2>2, <2>4 DEF Closing
  <2>9. old' = 0 /\ Closing(c)'
    BY <2>1, <2>4 DEF Alone, Closing
  <2> QED
    BY <2>1, <2>2, <2>4, <2>6, <2>7, <2>8, <2>9, ClientGoesOn DEF Quiet
<1>3. CASE Reports(c)
  <2>1. clients[c].life = "ending" /\ UNCHANGED <<watches, reg, calls, update, old>>
        /\ clients' = [clients EXCEPT ![c] = IF @.reason = "stopped" THEN OverClient ELSE [@ EXCEPT !.life = "lock"]]
    BY <1>3 DEF Reports
  <2>2. CASE clients[c].reason = "stopped"
    BY <2>1, <2>2, StoppedEnds
  <2>3. CASE clients[c].reason # "stopped"
    <3>1. Closing(c)
      BY <2>1, <2>3 DEF Closing
    <3>2. clients'[c].life = "lock" /\ clients'[c].reason = clients[c].reason /\ \A d \in Clients : d # c => clients'[d] = clients[d]
      BY <1>0, <2>1, <2>3 DEF Client
    <3>3. NoneRuns' /\ OneReg'
      BY <3>1, <3>2, ClosingIs DEF NoneRuns, OneReg, Running
    <3>4. ClientPhase(c)' /\ Closing(c)'
      BY <2>3, <3>2, <3>3 DEF ClientPhase, Closing
    <3>5. \A d \in Clients : d # c => ~Closing(d)' /\ clients'[d].life \notin {"lock", "list", "closing"}
      BY <3>1, <3>2, ClosingIs DEF Closing
    <3> QED
      BY <2>1, <2>3, <3>1, <3>2, <3>3, <3>4, <3>5, ClosingIs, ClientGoesOn
  <2> QED
    BY <2>2, <2>3
<1>4. CASE Locks(c)
  <2>1. clients[c].life = "lock" /\ UNCHANGED <<watches, reg, calls, update, old>>
        /\ clients' = [clients EXCEPT ![c].life = "list"]
    BY <1>4 DEF Locks
  <2>2. Closing(c)
    BY <2>1 DEF Closing, Alone
  <2>3. clients'[c].life = "list" /\ clients'[c].reason = clients[c].reason /\ \A d \in Clients : d # c => clients'[d] = clients[d]
    BY <1>0, <2>1 DEF Client
  <2>4. NoneRuns' /\ OneReg'
    BY <2>2, <2>3, ClosingIs DEF NoneRuns, OneReg, Running
  <2>5. ClientPhase(c)' /\ Closing(c)'
    BY <2>2, <2>3, <2>4 DEF ClientPhase, Closing
  <2>6. \A d \in Clients : d # c => ~Closing(d)' /\ clients'[d].life \notin {"lock", "list", "closing"}
    BY <2>2, <2>3, ClosingIs DEF Closing
  <2> QED
    BY <2>1, <2>2, <2>3, <2>4, <2>5, <2>6, ClosingIs, ClientGoesOn DEF Closing
<1>5. CASE ClientCloses(c)
  <2>1. clients[c].life \in {"list", "closing"} /\ UNCHANGED <<calls, update, old>>
    BY <1>5 DEF ClientCloses
  <2>2. Closing(c) /\ clients[c].reason # "stopped"
    BY <2>1 DEF Closing, Alone
  <2>3. ASSUME NEW cl, clients' = [clients EXCEPT ![c] = cl], cl.life # "running",
               cl.life = "over" \/ (cl.life = "closing" /\ cl.reason = clients[c].reason /\ Watched' \subseteq cl.todo),
               cl.life = "over" => Follow'
        PROVE  Alone' /\ Phases'
    <3>1. clients'[c] = cl /\ \A d \in Clients : d # c => clients'[d] = clients[d]
      BY <1>0, <2>3
    <3>2. NoneRuns' /\ OneReg'
      BY <2>2, <2>3, <3>1, ClosingIs DEF NoneRuns, OneReg, Running
    <3>3. ClientPhase(c)' /\ (cl.life = "closing" => Closing(c)')
      BY <2>2, <2>3, <3>1, <3>2 DEF ClientPhase, Closing
    <3>4. \A d \in Clients : d # c => ~Closing(d)' /\ clients'[d].life \notin {"lock", "list", "closing"}
      BY <2>2, <3>1, ClosingIs DEF Closing
    <3> QED
      BY <2>1, <2>2, <2>3, <3>1, <3>2, <3>3, <3>4, ClosingIs, ClientGoesOn
  <2>4. CASE clients' = [clients EXCEPT ![c].life = "closing", ![c].todo = Watched] /\ UNCHANGED watches
    <3> DEFINE cl == [clients[c] EXCEPT !.life = "closing", !.todo = Watched]
    <3>1. clients' = [clients EXCEPT ![c] = cl]
      BY <1>0, <2>4
    <3>2. cl.life = "closing" /\ cl.todo = Watched /\ cl.reason = clients[c].reason
      BY <1>0 DEF Client
    <3>3. Watched' = Watched
      BY <2>4 DEF Watched
    <3> HIDE DEF cl
    <3> QED
      BY <2>3, <3>1, <3>2, <3>3
  <2>5. ASSUME clients[c].life = "closing", NEW w \in clients[c].todo,
               clients' = [clients EXCEPT ![c].todo = @ \ {w}], watches' = Without({w})
        PROVE  Alone' /\ Phases'
    <3> DEFINE cl == [clients[c] EXCEPT !.todo = @ \ {w}]
    <3>1. clients' = [clients EXCEPT ![c] = cl]
      BY <1>0, <2>5
    <3>2. cl.life = "closing" /\ cl.todo = clients[c].todo \ {w} /\ cl.reason = clients[c].reason
      BY <1>0, <2>5 DEF Client
    <3>3. Watched' \subseteq cl.todo
      BY <1>0, <2>2, <2>5, <3>2, ClosingIs, WatchedLess
    <3> HIDE DEF cl
    <3> QED
      BY <2>3, <3>1, <3>2, <3>3
  <2>6. CASE clients[c].life = "closing" /\ clients[c].todo = {} /\ Forgets
             /\ clients' = [clients EXCEPT ![c] = OverClient] /\ UNCHANGED watches
    <3>1. Watched' = {}
      BY <2>2, <2>6, ClosingIs DEF Watched
    <3>2. Follow'
      BY <2>6, <3>1 DEF Forgets, Follow, RegRuns
    <3> QED
      BY <2>3, <2>6, <3>2
  <2> QED
    BY <1>5, <2>4, <2>5, <2>6 DEF ClientCloses
<1> QED
  BY <1>1, <1>2, <1>3, <1>4, <1>5 DEF ClientSteps

LEMMA RedrawFollows ==
    ASSUME Alone, Phases, Redraw, ~mixed'
    PROVE  Alone' /\ Phases'
<1>1. ~Idling
  BY NotBusy DEF Redraw, Begins, Quiet
<1>2. UNCHANGED <<watches, reg, clients, calls, old>> /\ ~Idling'
  BY <1>1, RefreshIs DEF Redraw
<1> QED
  BY <1>1, <1>2, CalmStep

\* Once up again, the bot has one call that checks for a client, if there are watches.
LEMMA RestartFollows ==
    ASSUME Types, Restart
    PROVE  Alone' /\ Phases'
<1> USE Blank
<1>1. \A c \in Clients : clients'[c].life \in {"none", "over"}
  BY DEF Restart
<1>2. (\A c \in Clients : ~Closing(c)' /\ ~Running(c)') /\ NoneRuns' /\ OneReg'
  BY <1>1 DEF Closing, Running, NoneRuns, OneReg
<1>3. reg' = 0 /\ old' = 0 /\ update'.pc = "none" /\ Watched' = Watched
  BY DEF Restart, Watched
<1>4. \A k \in Calls : calls'[k].pc \in {"none", "check"} /\ (calls'[k].pc = "check" <=> k = 1 /\ Watched # {})
  <2>1. [NoCall EXCEPT !.pc = "check"].pc = "check"
    BY DEF NoCall
  <2> QED
    BY <2>1 DEF Restart
<1>5. ~Idling' /\ UpdatePhase'
  BY <1>3 DEF Idling, UpdatePhase
<1>6. Alone'
  BY <1>1, <1>2, <1>3, <1>4, <1>5 DEF Alone, Calling
<1>7. \A k \in Calls : CallPhase(k)'
  BY <1>3, <1>4 DEF CallPhase, RegRuns
<1>8. Quiet' => Follow'
  BY <1>3, <1>4, ClientsAssumption DEF Quiet, Calling, Follow, RegRuns
<1> QED
  BY <1>2, <1>5, <1>6, <1>7, <1>8 DEF Phases, ClientPhase

LEMMA InitFollows ==
    ASSUME Init
    PROVE  Follows
<1>1. \A c \in Clients : clients[c].life = "none"
  BY Blank DEF Init
<1>2. (\A c \in Clients : ~Closing(c) /\ ~Running(c)) /\ NoneRuns /\ OneReg
  BY <1>1 DEF Closing, Running, NoneRuns, OneReg
<1>3. (\A k \in Calls : calls[k].pc = "none") /\ update.pc = "none" /\ reg = 0 /\ old = 0 /\ Watched = {}
  BY Blank DEF Init, Watched
<1> QED
  BY <1>1, <1>2, <1>3 DEF Follows, Alone, Phases, Calling, Idling, CallPhase, ClientPhase, UpdatePhase, Follow, RegRuns

\* What is mixed or broken off stays so until a restart.
LEMMA HistoryStays ==
    ASSUME Next, ~Restart, ~mixed', ~failed', mixed \in BOOLEAN, failed \in BOOLEAN
    PROVE  ~mixed /\ ~failed
<1>1. (UNCHANGED mixed \/ Begins) /\ (UNCHANGED failed \/ failed' = TRUE)
  <2>1. ASSUME NEW k \in Calls, Watch(k) \/ Unwatch(k) PROVE Begins /\ UNCHANGED failed
    BY <2>1 DEF Watch, Unwatch, Call
  <2>2. ASSUME NEW k \in Calls, CallSteps(k) PROVE UNCHANGED <<mixed, failed>>
    BY <2>2 DEF CallSteps, Adds, Checks, Creates, Removes, Lists, Pops, StopReturns, history
  <2>3. ASSUME NEW c \in Clients, OnView(c) \/ Reports(c) \/ Locks(c) PROVE UNCHANGED <<mixed, failed>>
    BY <2>3 DEF OnView, Reports, Locks, history
  <2>4. ASSUME NEW c \in Clients, Ends(c) PROVE Begins /\ UNCHANGED failed
    BY <2>4 DEF Ends
  <2>5. ASSUME NEW c \in Clients, ClientCloses(c) PROVE UNCHANGED mixed /\ (UNCHANGED failed \/ failed' = TRUE)
    BY <2>5 DEF ClientCloses
  <2>6. CASE UpdateSteps
    <3>1. CASE UpdateLocks
      BY <3>1 DEF UpdateLocks
    <3>2. CASE UpdateCloses
      BY <3>2 DEF UpdateCloses
    <3>3. CASE Wakes \/ ReadsTournament \/ ClientStopped \/ Draws
      BY <3>3 DEF Wakes, ReadsTournament, ClientStopped, Draws, history
    <3> QED
      BY <2>6, <3>1, <3>2, <3>3 DEF UpdateSteps
  <2>7. CASE Redraw
    BY <2>7 DEF Redraw
  <2>8. CASE DaysPass
    BY <2>8 DEF DaysPass, history
  <2> QED
    BY <2>1, <2>2, <2>3, <2>4, <2>5, <2>6, <2>7, <2>8 DEF Next, ClientSteps
<1> QED
  BY <1>1 DEF Begins

LEMMA FollowsStep ==
    ASSUME Types, Follows, [Next]_vars
    PROVE  Follows'
<1> SUFFICES ASSUME ~mixed', ~failed'
             PROVE  Alone' /\ Phases'
  BY DEF Follows
<1>1. CASE UNCHANGED vars
  BY <1>1, CalmStep DEF vars, history, Follows
<1>2. CASE Restart
  BY <1>2, RestartFollows
<1>3. CASE Next /\ ~Restart
  <2>1. Alone /\ Phases
    BY <1>3, HistoryStays DEF Follows, Types, FlagTypes
  <2>2. ASSUME NEW k \in Calls, Watch(k) \/ Unwatch(k) \/ CallSteps(k)
        PROVE  Alone' /\ Phases'
    BY <2>1, <2>2, StartsFollow, CallFollows
  <2>3. ASSUME NEW c \in Clients, OnView(c) \/ Ends(c) \/ ClientSteps(c)
        PROVE  Alone' /\ Phases'
    BY <2>1, <2>3, ClientFollows
  <2>4. CASE UpdateSteps
    BY <2>1, <2>4, UpdateFollows
  <2>5. CASE Redraw
    BY <2>1, <2>5, RedrawFollows
  <2>6. CASE DaysPass
    BY <2>1, <2>6, CalmStep DEF DaysPass
  <2> QED
    BY <1>3, <2>2, <2>3, <2>4, <2>5, <2>6 DEF Next
<1> QED
  BY <1>1, <1>2, <1>3

\* As long as nothing on the room begins while something else is under way and no
\* close breaks off, a room at rest is followed by the registered client alone, if
\* it is watched, and by no client if it is not: whatever the calls of watch_room,
\* unwatch and remove_guild, the ends of clients, idle closes and restarts were.
THEOREM FollowsTheWatched == Spec => []FollowsWhatIsWatched
<1>1. Types /\ Follows => FollowsWhatIsWatched
  <2> SUFFICES ASSUME Types, Follows, AtRest, ~mixed, ~failed
               PROVE  {c \in Clients : Running(c)} = IF Watched = {} THEN {} ELSE {reg}
    BY DEF FollowsWhatIsWatched
  <2>1. Follow /\ OneReg
    BY NotBusy DEF AtRest, Follows, Phases
  <2>2. reg # 0 => reg \in Clients
    BY Numbers DEF Types, ClientTypes, Clients
  <2> QED
    BY <2>1, <2>2, Numbers DEF Follow, RegRuns, OneReg
<1>2. Init => Follows
  BY InitFollows
<1>3. Types /\ Follows /\ [Next]_vars => Follows'
  BY FollowsStep
<1> QED
  BY <1>1, <1>2, <1>3, TypesStart, TypesStep, PTL DEF Spec
=============================================================================

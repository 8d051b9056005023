--------------------------- MODULE RoomClientProofs ---------------------------
(* What a room's client shows, for any number of servers, matches, moves and *)
(* faults of every kind.                                                   *)
EXTENDS RoomClient, SequenceTheorems, TLAPS

USE ClientAssumption

(***************************************************************************)
(* Types.  A count of failures is below its limit until the client ends.   *)
(***************************************************************************)
SiteTypes == home \in GameServers /\ played \in [Matches -> 0 .. MaxMove] /\ current \in Matches
WireTypes == asks \in Seq(0 .. MaxMatch) /\ inbox \in Seq(Event)
FlagTypes == {up, entered, joined, gotIn, ended, timedOut, late} \subseteq BOOLEAN
RunTypes ==
    /\ pc \in {"check", "connect", "join", "stay", "disconnect", "pause", "report", "over"}
    /\ url \in Servers
    /\ moveTo \in Servers \cup {"none"}
    /\ reason \in {"none", "stopped", "unsupported", "failed"}
CountTypes ==
    /\ failures \in 0 .. MaxFailures /\ faults \in 0 .. MaxFaults /\ outages \in 0 .. faults
    /\ reason = "none" => failures < MaxFailures
TrackTypes == tracker \in Track /\ shown \in Track

Types == SiteTypes /\ WireTypes /\ FlagTypes /\ RunTypes /\ CountTypes /\ TrackTypes

LEMMA TypesInit == Init => Types
<1> SUFFICES ASSUME Init PROVE Types
  OBVIOUS
<1>1. NoTrack \in Track
  BY DEF NoTrack, Track
<1>2. FlagTypes
  BY DEF Init, FlagTypes
<1>3. SiteTypes /\ WireTypes /\ RunTypes /\ CountTypes /\ TrackTypes
  BY <1>1 DEF Init, SiteTypes, WireTypes, RunTypes, CountTypes, TrackTypes, Servers, Matches
<1> QED
  BY <1>2, <1>3 DEF Types

LEMMA Zeros == 0 \in 0 .. MaxMatch /\ 0 \in 0 .. MaxMove /\ Matches \subseteq 0 .. MaxMatch
BY DEF Matches

LEMMA TrackerTypes ==
    ASSUME NEW t \in Track
    PROVE  /\ \A id \in 0 .. MaxMove : ApplySync(t, id) \in Track
           /\ \A e \in Event : Follows(t, e) => ApplyPatch(t, e) \in Track
           /\ \A m \in 0 .. MaxMatch : [NoTrack EXCEPT !.match = m] \in Track
<1>1. ASSUME NEW id \in 0 .. MaxMove PROVE ApplySync(t, id) \in Track
  <2>1. UpTo(id) \subseteq Moves
    BY <1>1 DEF UpTo, Moves
  <2> QED
    BY <1>1, <2>1 DEF ApplySync, Track
<1>2. ASSUME NEW e \in Event, Follows(t, e) PROVE ApplyPatch(t, e) \in Track
  <2>1. e.id \in 0 .. MaxMove /\ t.id = e.id - 1 /\ t.id \in 0 .. MaxMove
    BY <1>2 DEF Follows, Event, Track
  <2>2. e.id \in Moves
    BY <2>1 DEF Moves
  <2> QED
    BY <2>1, <2>2 DEF ApplyPatch, Track
<1>3. ASSUME NEW m \in 0 .. MaxMatch PROVE [NoTrack EXCEPT !.match = m] \in Track
  <2>1. NoTrack \in Track
    BY DEF NoTrack, Track
  <2> QED
    BY <1>3, <2>1 DEF Track
<1> QED
  BY <1>1, <1>2, <1>3

Says(e, kind, m, id) == e \in Event /\ e.kind = kind /\ e.match = m /\ e.id = id

LEMMA EvType ==
    ASSUME NEW kind \in {"updateServerURL", "createdMatch", "sync", "patch", "update", "matchData",
                         "playNextMatch", "room-timeout", "wrongNamespace", "sync-error"},
           NEW m \in 0 .. MaxMatch, NEW id \in 0 .. MaxMove
    PROVE  /\ Says(Ev(kind, m, id), kind, m, id)
           /\ Says([Ev(kind, m, id) EXCEPT !.fits = FALSE], kind, m, id)
           /\ \A u \in Servers : Says([Ev(kind, m, id) EXCEPT !.url = u], kind, m, id)
           /\ \A u \in Servers : Says([Ev(kind, m, id) EXCEPT !.url = u, !.fits = FALSE], kind, m, id)
BY DEF Ev, Event, Says

LEMMA EvEvent ==
    ASSUME NEW kind \in {"updateServerURL", "createdMatch", "sync", "patch", "update", "matchData",
                         "playNextMatch", "room-timeout", "wrongNamespace", "sync-error"},
           NEW m \in 0 .. MaxMatch, NEW id \in 0 .. MaxMove
    PROVE  /\ Ev(kind, m, id) \in Event
           /\ [Ev(kind, m, id) EXCEPT !.fits = FALSE] \in Event
           /\ \A u \in Servers : [Ev(kind, m, id) EXCEPT !.url = u] \in Event
           /\ \A u \in Servers : [Ev(kind, m, id) EXCEPT !.url = u, !.fits = FALSE] \in Event
BY DEF Ev, Event

LEMMA SendType ==
    ASSUME WireTypes, NEW e \in Event, Tell(e) \/ Send(e)
    PROVE  inbox' \in Seq(Event)
<1>1. Append(inbox, e) \in Seq(Event)
  BY AppendProperties DEF WireTypes
<1> QED
  BY <1>1 DEF WireTypes, Tell, Send

\* What is left of a queue, and what is added to it.
LEMMA TailIs ==
    ASSUME NEW S, NEW s \in Seq(S), s # <<>>
    PROVE  /\ 1 \in 1 .. Len(s) /\ Head(s) = s[1] /\ Tail(s) \in Seq(S)
           /\ \A i \in 1 .. Len(Tail(s)) : i + 1 \in 1 .. Len(s) /\ Tail(s)[i] = s[i + 1]
           /\ \A i \in 1 .. Len(s) : i # 1 => i - 1 \in 1 .. Len(Tail(s)) /\ Tail(s)[i - 1] = s[i]
<1>1. /\ Len(s) \in Nat /\ Len(s) # 0
      /\ Head(s) = s[1] /\ Tail(s) \in Seq(S) /\ Len(Tail(s)) = Len(s) - 1
  BY LenProperties, EmptySeq, HeadTailProperties
<1>2. \A i \in 1 .. Len(Tail(s)) : Tail(s)[i] = s[i + 1]
  BY HeadTailProperties
<1>3. \A i \in 1 .. Len(s) : i # 1 => i - 1 \in 1 .. Len(Tail(s)) /\ (i - 1) + 1 = i
  BY <1>1
<1> QED
  BY <1>1, <1>2, <1>3

LEMMA AppendIs ==
    ASSUME NEW S, NEW s \in Seq(S), NEW e \in S
    PROVE  /\ Append(s, e) \in Seq(S)
           /\ Len(s) + 1 \in 1 .. Len(Append(s, e)) /\ Append(s, e)[Len(s) + 1] = e
           /\ \A i \in 1 .. Len(s) : i \in 1 .. Len(Append(s, e)) /\ Append(s, e)[i] = s[i]
           /\ \A i \in 1 .. Len(Append(s, e)) : i = Len(s) + 1 \/ i \in 1 .. Len(s)
<1>1. Len(s) \in Nat /\ Append(s, e) \in Seq(S) /\ Len(Append(s, e)) = Len(s) + 1
  BY LenProperties, AppendProperties
<1>2. Append(s, e)[Len(s) + 1] = e /\ \A i \in 1 .. Len(s) : Append(s, e)[i] = s[i]
  BY AppendProperties
<1> QED
  BY <1>1, <1>2

LEMMA ReceivedType ==
    ASSUME WireTypes, NEW kind, Receives(kind)
    PROVE  Head(inbox) \in Event /\ inbox' \in Seq(Event)
BY DEF WireTypes, Receives

LEMMA AskType ==
    ASSUME WireTypes, NEW m \in 0 .. MaxMatch, Ask(m)
    PROVE  asks' \in Seq(0 .. MaxMatch)
BY AppendProperties DEF WireTypes, Ask

LEMMA FaultType ==
    ASSUME CountTypes, NEW kind, UNCHANGED <<failures, reason>>, Fault(kind) \/ UNCHANGED trouble
    PROVE  CountTypes'
BY DEF CountTypes, Fault, trouble

LEMMA TypesStep ==
    ASSUME Types, [Next]_vars
    PROVE  Types'
<1> USE Zeros DEF site, connection, control, trouble, quiet, Servers, Matches
<1>1. CASE Play
  <2> DEFINE n == played[current] + 1
  <2>1. current \in 0 .. MaxMatch /\ n \in 0 .. MaxMove
    BY <1>1 DEF Play, Types, SiteTypes
  <2>2. PICK e \in Event : Tell(e)
    BY <1>1, <2>1, EvEvent DEF Play
  <2>3. WireTypes'
    BY <1>1, <2>2, SendType DEF Play, Types, WireTypes
  <2>4. FlagTypes'
    BY <1>1 DEF Play, Types, FlagTypes
  <2>5. SiteTypes'
    BY <1>1, <2>1 DEF Play, Types, SiteTypes
  <2>6. CountTypes'
    BY <1>1, FaultType DEF Play, Types
  <2> QED
    BY <1>1, <2>3, <2>4, <2>5, <2>6 DEF Play, Types, RunTypes, TrackTypes
<1>2. CASE PlayNext
  <2>1. WireTypes'
    BY <1>2, EvEvent, SendType DEF PlayNext, Types, WireTypes
  <2>2. FlagTypes'
    BY <1>2 DEF PlayNext, Types, FlagTypes
  <2> QED
    BY <1>2, <2>1, <2>2 DEF PlayNext, Types, SiteTypes, RunTypes, CountTypes, TrackTypes
<1>3. CASE Visit
  <2>1. FlagTypes'
    BY <1>3 DEF Types, FlagTypes, Visit, Send, Ev
  <2> QED
    BY <1>3, <2>1 DEF Types, SiteTypes, WireTypes, RunTypes, CountTypes, TrackTypes, Event, Track, Visit, Send, Ev
<1>4. CASE SiteFails
  <2>1. inbox' \in Seq(Event)
    <3>1. \A u \in Servers : [Ev("updateServerURL", 0, 0) EXCEPT !.url = u] \in Event
      BY EvEvent
    <3>2. Ev("room-timeout", current, 0) \in Event
      BY EvEvent DEF Types, SiteTypes
    <3>3. CASE Fault("move") /\ home' \in GameServers /\ Tell([Ev("updateServerURL", 0, 0) EXCEPT !.url = home'])
      <4>1. [Ev("updateServerURL", 0, 0) EXCEPT !.url = home'] \in Event
        BY <3>1, <3>3
      <4> QED
        BY <3>3, <4>1, SendType DEF Types
    <3>4. CASE Send(Ev("room-timeout", current, 0))
      BY <3>2, <3>4, SendType DEF Types
    <3>5. CASE inbox' = <<>>
      BY <3>5
    <3> QED
      BY <1>4, <3>3, <3>4, <3>5 DEF SiteFails
  <2>2. WireTypes'
    BY <1>4, <2>1 DEF SiteFails, Types, WireTypes
  <2>3. FlagTypes'
    BY <1>4 DEF SiteFails, Types, FlagTypes
  <2>4. CountTypes'
    BY <1>4, FaultType DEF SiteFails, Types
  <2> QED
    BY <1>4, <2>2, <2>3, <2>4 DEF SiteFails, Types, SiteTypes, RunTypes, TrackTypes
<1>5. CASE Stop
  <2>1. FlagTypes'
    BY <1>5 DEF Types, FlagTypes, Stop, Close
  <2> QED
    BY <1>5, <2>1 DEF Types, SiteTypes, WireTypes, RunTypes, CountTypes, TrackTypes, Event, Track, Stop, Close
<1>6. CASE AnswerDefault
  <2>1. /\ Ev("wrongNamespace", 0, 0) \in Event /\ Ev("sync-error", 0, 0) \in Event
        /\ [Ev("updateServerURL", 0, 0) EXCEPT !.url = home] \in Event
        /\ [Ev("createdMatch", current, 0) EXCEPT !.url = home] \in Event
    BY EvEvent DEF Types, SiteTypes
  <2>2. WireTypes'
    <3>1. PICK e \in Event : Send(e)
      BY <1>6, <2>1 DEF AnswerDefault
    <3> QED
      BY <1>6, <3>1, SendType DEF AnswerDefault, Types, WireTypes
  <2>3. FlagTypes'
    BY <1>6 DEF AnswerDefault, Types, FlagTypes
  <2>4. CountTypes'
    BY <1>6, FaultType DEF AnswerDefault, Types
  <2> QED
    BY <1>6, <2>2, <2>3, <2>4 DEF AnswerDefault, Types, SiteTypes, RunTypes, TrackTypes
<1>7. CASE AnswerSync
  <2>1. PICK e \in Event : Send(e)
    <3>1. Head(asks) \in Matches /\ Head(asks) \in 0 .. MaxMatch
      BY <1>7 DEF AnswerSync, Types, WireTypes
    <3>2. played[Head(asks)] \in 0 .. MaxMove
      BY <3>1 DEF Types, SiteTypes
    <3>3. played[Head(asks)] > 0 => played[Head(asks)] - 1 \in 0 .. MaxMove
      BY <3>2
    <3> QED
      BY <1>7, <3>1, <3>2, <3>3, EvEvent DEF AnswerSync, Types, SiteTypes
  <2>2. WireTypes'
    BY <1>7, <2>1, SendType DEF AnswerSync, Types, WireTypes
  <2>3. FlagTypes'
    BY <1>7 DEF AnswerSync, Types, FlagTypes
  <2>4. CountTypes'
    BY <1>7, FaultType DEF AnswerSync, Types
  <2> QED
    BY <1>7, <2>2, <2>3, <2>4 DEF AnswerSync, Types, SiteTypes, RunTypes, TrackTypes
<1>8. CASE OnUpdateServerURL
  <2>1. Head(inbox) \in Event /\ inbox' \in Seq(Event)
    BY <1>8, ReceivedType DEF OnUpdateServerURL, Types
  <2>2. asks' \in Seq(0 .. MaxMatch)
    BY <1>8 DEF OnUpdateServerURL, Types, WireTypes
  <2>3. WireTypes'
    BY <2>1, <2>2 DEF WireTypes
  <2>4. FlagTypes'
    BY <1>8 DEF OnUpdateServerURL, Types, FlagTypes, Redirect
  <2>5. moveTo' \in Servers \cup {"none"}
    BY <1>8, <2>1 DEF OnUpdateServerURL, Types, RunTypes, Redirect, Event
  <2> QED
    BY <1>8, <2>3, <2>4, <2>5 DEF OnUpdateServerURL, Types, SiteTypes, RunTypes, CountTypes, TrackTypes
<1>9. CASE OnCreatedMatch
  <2>1. Head(inbox) \in Event /\ inbox' \in Seq(Event)
    BY <1>9, ReceivedType DEF OnCreatedMatch, Types
  <2>2. asks' \in Seq(0 .. MaxMatch)
    <3>1. Head(inbox).match \in 0 .. MaxMatch
      BY <2>1 DEF Types, TrackTypes, Track, Event
    <3> QED
      BY <1>9, <3>1, AskType DEF OnCreatedMatch, Types, WireTypes
  <2>3. WireTypes'
    BY <2>1, <2>2 DEF WireTypes
  <2>4. FlagTypes'
    BY <1>9 DEF OnCreatedMatch, Types, FlagTypes, Redirect
  <2>5. moveTo' \in Servers \cup {"none"}
    BY <1>9, <2>1 DEF OnCreatedMatch, Types, RunTypes, Redirect, Event
  <2>6. TrackTypes'
    <3>1. [NoTrack EXCEPT !.match = Head(inbox).match] \in Track
      BY <2>1, TrackerTypes DEF Types, TrackTypes, Event
    <3> QED
      BY <1>9, <3>1 DEF OnCreatedMatch, Types, TrackTypes
  <2> QED
    BY <1>9, <2>3, <2>4, <2>5, <2>6 DEF OnCreatedMatch, Types, SiteTypes, RunTypes, CountTypes
<1>10. CASE OnSync
  <2>1. Head(inbox) \in Event /\ inbox' \in Seq(Event)
    BY <1>10, ReceivedType DEF OnSync, Types
  <2>2. asks' \in Seq(0 .. MaxMatch)
    BY <1>10 DEF OnSync, Types, WireTypes
  <2>3. WireTypes'
    BY <2>1, <2>2 DEF WireTypes
  <2>4. FlagTypes'
    BY <1>10 DEF OnSync, Types, FlagTypes, Redirect
  <2>5. moveTo' \in Servers \cup {"none"}
    BY <1>10, <2>1 DEF OnSync, Types, RunTypes, Redirect, Event
  <2>6. TrackTypes'
    <3>1. ApplySync(tracker, Head(inbox).id) \in Track
      BY <2>1, TrackerTypes DEF Types, TrackTypes, Event
    <3> QED
      BY <1>10, <3>1 DEF OnSync, Types, TrackTypes
  <2> QED
    BY <1>10, <2>3, <2>4, <2>5, <2>6 DEF OnSync, Types, SiteTypes, RunTypes, CountTypes
<1>11. CASE OnPatch
  <2>1. Head(inbox) \in Event /\ inbox' \in Seq(Event)
    BY <1>11, ReceivedType DEF OnPatch, Types
  <2>2. asks' \in Seq(0 .. MaxMatch)
    <3>1. tracker.match \in 0 .. MaxMatch
      BY <2>1 DEF Types, TrackTypes, Track, Event
    <3> QED
      BY <1>11, <3>1, AskType DEF OnPatch, Types, WireTypes
  <2>3. WireTypes'
    BY <2>1, <2>2 DEF WireTypes
  <2>4. FlagTypes'
    BY <1>11 DEF OnPatch, Types, FlagTypes
  <2>5. TrackTypes'
    <3>1. Follows(tracker, Head(inbox)) => ApplyPatch(tracker, Head(inbox)) \in Track
      BY <2>1, TrackerTypes DEF Types, TrackTypes
    <3> QED
      BY <1>11, <3>1 DEF OnPatch, Types, TrackTypes
  <2> QED
    BY <1>11, <2>3, <2>4, <2>5 DEF OnPatch, Types, SiteTypes, RunTypes, CountTypes
<1>12. CASE OnUpdate
  <2>1. Head(inbox) \in Event /\ inbox' \in Seq(Event)
    BY <1>12, ReceivedType DEF OnUpdate, Types
  <2>2. asks' \in Seq(0 .. MaxMatch)
    <3>1. tracker.match \in 0 .. MaxMatch
      BY <2>1 DEF Types, TrackTypes, Track, Event
    <3> QED
      BY <1>12, <3>1, AskType DEF OnUpdate, Types, WireTypes
  <2>3. WireTypes'
    BY <2>1, <2>2 DEF WireTypes
  <2>4. FlagTypes'
    BY <1>12 DEF OnUpdate, Types, FlagTypes
  <2> QED
    BY <1>12, <2>3, <2>4 DEF OnUpdate, Types, SiteTypes, RunTypes, CountTypes, TrackTypes
<1>13. CASE OnMatchData
  <2>1. WireTypes'
    BY <1>13, ReceivedType DEF OnMatchData, Types, WireTypes
  <2>2. FlagTypes'
    BY <1>13 DEF OnMatchData, Types, FlagTypes
  <2> QED
    BY <1>13, <2>1, <2>2 DEF OnMatchData, Types, SiteTypes, RunTypes, CountTypes, TrackTypes
<1>14. CASE OnPlayNextMatch
  <2>1. Head(inbox) \in Event /\ inbox' \in Seq(Event)
    BY <1>14, ReceivedType DEF OnPlayNextMatch, Types
  <2>2. asks' \in Seq(0 .. MaxMatch)
    <3>1. 0 \in 0 .. MaxMatch
      BY <2>1 DEF Types, TrackTypes, Track, Event
    <3> QED
      BY <1>14, <3>1, AskType DEF OnPlayNextMatch, Types, WireTypes
  <2>3. WireTypes'
    BY <2>1, <2>2 DEF WireTypes
  <2>4. FlagTypes'
    BY <1>14 DEF OnPlayNextMatch, Types, FlagTypes
  <2> QED
    BY <1>14, <2>3, <2>4 DEF OnPlayNextMatch, Types, SiteTypes, RunTypes, CountTypes, TrackTypes
<1>15. CASE OnRoomTimeout
  <2>1. WireTypes'
    BY <1>15, ReceivedType DEF OnRoomTimeout, Types, WireTypes
  <2>2. FlagTypes'
    BY <1>15 DEF OnRoomTimeout, Types, FlagTypes
  <2> QED
    BY <1>15, <2>1, <2>2 DEF OnRoomTimeout, Types, SiteTypes, RunTypes, CountTypes, TrackTypes
<1>16. CASE OnWrongNamespace
  <2>1. WireTypes'
    BY <1>16, ReceivedType DEF OnWrongNamespace, Types, WireTypes
  <2>2. FlagTypes'
    BY <1>16 DEF OnWrongNamespace, Types, FlagTypes, Close
  <2> QED
    BY <1>16, <2>1, <2>2 DEF OnWrongNamespace, Types, SiteTypes, RunTypes, CountTypes, TrackTypes, Close
<1>17. CASE OnSyncError
  <2>1. WireTypes'
    BY <1>17, ReceivedType DEF OnSyncError, Types, WireTypes
  <2>2. FlagTypes'
    BY <1>17 DEF OnSyncError, Types, FlagTypes
  <2> QED
    BY <1>17, <2>1, <2>2 DEF OnSyncError, Types, SiteTypes, RunTypes, CountTypes, TrackTypes
<1>18. CASE Checks
  <2>1. FlagTypes'
    BY <1>18 DEF Types, FlagTypes, Checks
  <2> QED
    BY <1>18, <2>1 DEF Types, SiteTypes, WireTypes, RunTypes, CountTypes, TrackTypes, Event, Track, Checks
<1>19. CASE Connects
  <2>1. WireTypes'
    <3>1. <<0>> \in Seq(0 .. MaxMatch)
      OBVIOUS
    <3> QED
      BY <1>19, <3>1 DEF Connects, Types, WireTypes
  <2>2. FlagTypes'
    BY <1>19 DEF Connects, Types, FlagTypes
  <2>3. CountTypes'
    BY <1>19, FaultType DEF Connects, Types
  <2> QED
    BY <1>19, <2>1, <2>2, <2>3 DEF Connects, Types, SiteTypes, RunTypes, TrackTypes
<1>20. CASE Joins
  <2>1. FlagTypes'
    BY <1>20 DEF Types, FlagTypes, Joins
  <2> QED
    BY <1>20, <2>1 DEF Types, SiteTypes, WireTypes, RunTypes, CountTypes, TrackTypes, Event, Track, Joins
<1>21. CASE JoinTimesOut
  <2>1. FlagTypes'
    BY <1>21 DEF JoinTimesOut, Types, FlagTypes
  <2>2. CountTypes'
    BY <1>21, FaultType DEF JoinTimesOut, Types
  <2> QED
    BY <1>21, <2>1, <2>2 DEF JoinTimesOut, Types, SiteTypes, WireTypes, RunTypes, TrackTypes
<1>22. CASE Leaves
  <2>1. FlagTypes'
    BY <1>22 DEF Types, FlagTypes, Leaves
  <2> QED
    BY <1>22, <2>1 DEF Types, SiteTypes, WireTypes, RunTypes, CountTypes, TrackTypes, Event, Track, Leaves
<1>23. CASE Disconnects
  <2>1. FlagTypes'
    BY <1>23 DEF Disconnects, Types, FlagTypes
  <2>2. CountTypes'
    BY <1>23 DEF Disconnects, Tries, Types, FlagTypes, CountTypes
  <2>3. RunTypes'
    BY <1>23 DEF Disconnects, Types, RunTypes
  <2> QED
    BY <1>23, <2>1, <2>2, <2>3 DEF Disconnects, Types, SiteTypes, WireTypes, TrackTypes
<1>24. CASE Resumes
  <2>1. FlagTypes'
    BY <1>24 DEF Types, FlagTypes, Resumes
  <2> QED
    BY <1>24, <2>1 DEF Types, SiteTypes, WireTypes, RunTypes, CountTypes, TrackTypes, Event, Track, Resumes
<1>25. CASE Finishes
  <2>1. FlagTypes'
    BY <1>25 DEF Types, FlagTypes, Finishes
  <2> QED
    BY <1>25, <2>1 DEF Types, SiteTypes, WireTypes, RunTypes, CountTypes, TrackTypes, Event, Track, Finishes
<1>26. CASE UNCHANGED vars
  BY <1>26 DEF vars, Types, SiteTypes, WireTypes, FlagTypes, RunTypes, CountTypes, TrackTypes
<1> QED
  BY <1>1, <1>2, <1>3, <1>4, <1>5, <1>6, <1>7, <1>8, <1>9, <1>10, <1>11, <1>12, <1>13, <1>14, <1>15, <1>16, <1>17, <1>18, <1>19, <1>20, <1>21, <1>22, <1>23, <1>24, <1>25, <1>26 DEF Next, Answers, Handles, Runs

\* What the client, its connection and the site hold has the types it should have.
THEOREM TypeCorrect == Safe => []TypeOK
<1>1. Types => TypeOK
  BY DEF Types, SiteTypes, WireTypes, FlagTypes, RunTypes, CountTypes, TrackTypes, TypeOK
<1>2. Types /\ [Next]_vars => Types'
  BY TypesStep
<1> QED
  BY <1>1, <1>2, TypesInit, PTL DEF Safe

-----------------------------------------------------------------------------
(***************************************************************************)
(* What is shown is true.  So is what the tracker holds, whether it has a  *)
(* state yet or not, and what is on its way: the site only ever sends      *)
(* states that the match has been in, and the client asks for no match     *)
(* that the room has not had.                                              *)
(***************************************************************************)
TrackTrue(t) ==
    /\ t.moves = UpTo(t.id) /\ t.log = UpTo(t.id)
    /\ t.match <= current
    /\ t.synced => t.match \in Matches /\ t.id <= played[t.match]

EventTrue(e) ==
    /\ e.match <= current
    /\ e.kind \in {"sync", "patch"} => e.match \in Matches /\ e.id <= played[e.match]

InboxTrue == \A i \in 1 .. Len(inbox) : EventTrue(inbox[i])
AsksTrue == \A i \in 1 .. Len(asks) : asks[i] <= current

IInv == TrackTrue(tracker) /\ TrackTrue(shown) /\ InboxTrue /\ AsksTrue

\* Matches are not taken back, and what was true of one stays true.
Grows == current <= current' /\ \A m \in Matches : played[m] <= played'[m]

LEMMA SiteGrows ==
    ASSUME Types, [Next]_vars
    PROVE  Grows
<1>1. CASE Play
  BY <1>1 DEF Play, Types, SiteTypes, Grows, Matches
<1>2. CASE PlayNext
  BY <1>2 DEF PlayNext, Types, SiteTypes, Grows, Matches
<1>3. CASE UNCHANGED <<played, current>>
  BY <1>3 DEF Types, SiteTypes, Grows, Matches
<1>4. Visit \/ SiteFails \/ Stop \/ Answers \/ UNCHANGED vars => UNCHANGED <<played, current>>
  BY DEF Visit, SiteFails, Stop, Answers, AnswerDefault, AnswerSync, vars, site, quiet
<1>5. Handles => UNCHANGED <<played, current>>
  BY DEF Handles, OnUpdateServerURL, OnCreatedMatch, OnSync, OnPatch, OnUpdate, OnMatchData, OnPlayNextMatch,
         OnRoomTimeout, OnWrongNamespace, OnSyncError, site
<1>6. Runs => UNCHANGED <<played, current>>
  BY DEF Runs, Checks, Connects, Joins, JoinTimesOut, Leaves, Disconnects, Resumes, Finishes, quiet, site
<1> QED
  BY <1>1, <1>2, <1>3, <1>4, <1>5, <1>6 DEF Next

LEMMA TrueStays ==
    ASSUME Types, Types', Grows
    PROVE  /\ \A t \in Track : TrackTrue(t) => TrackTrue(t)'
           /\ \A e \in Event : EventTrue(e) => EventTrue(e)'
<1>1. /\ current \in Nat /\ current' \in Nat
      /\ \A m \in Matches : played[m] \in Nat /\ played'[m] \in Nat
  BY DEF Types, SiteTypes, Matches
<1>2. ASSUME NEW t \in Track, TrackTrue(t) PROVE TrackTrue(t)'
  BY <1>1, <1>2 DEF TrackTrue, Track, Grows
<1>3. ASSUME NEW e \in Event, EventTrue(e) PROVE EventTrue(e)'
  BY <1>1, <1>3 DEF EventTrue, Event, Grows
<1> QED
  BY <1>2, <1>3

\* The event that is handled, and those left, are true.
LEMMA HeadTrue ==
    ASSUME Types, InboxTrue, inbox # <<>>
    PROVE  /\ Head(inbox) \in Event /\ EventTrue(Head(inbox))
           /\ \A i \in 1 .. Len(Tail(inbox)) : EventTrue(Tail(inbox)[i])
<1>1. inbox \in Seq(Event)
  BY DEF Types, WireTypes
<1> QED
  BY <1>1, HeadTailProperties DEF InboxTrue

\* An event that brings no state only has to name a match that the room has had.
LEMMA PlainTrue ==
    ASSUME Types', Grows, current \in Matches,
           NEW e \in Event, e.kind \notin {"sync", "patch"}, e.match \in {0, current}
    PROVE  EventTrue(e)'
BY DEF EventTrue, Grows, Types, SiteTypes, Matches

\* How a step changes what is on its way: it takes the first event, loses all,
\* or adds one that is true, and as new as can be if it names a match to follow
\* or answers with a state that fits.
Fresh(e) ==
    /\ e.kind = "createdMatch" => e.match = current
    /\ e.kind = "sync" /\ e.fits => e.id = played[e.match]

LEMMA InboxSteps ==
    ASSUME Types, Types', IInv, [Next]_vars
    PROVE  \/ inbox' = inbox
           \/ inbox # <<>> /\ inbox' = Tail(inbox)
           \/ inbox' = <<>>
           \/ \E e \in Event : EventTrue(e)' /\ Fresh(e)' /\ inbox' = Append(inbox, e)
<1> USE Zeros DEF site, connection, quiet, Servers
<1>1. current \in Matches /\ current \in 0 .. MaxMatch /\ Grows
  BY SiteGrows DEF Types, SiteTypes
<1>2. CASE Play
  <2> DEFINE n == played[current] + 1
  <2>1. n \in 0 .. MaxMove
    BY <1>1, <1>2 DEF Play, Types, SiteTypes
  <2>2. current' = current /\ played'[current] = n
    BY <1>1, <1>2 DEF Play, Types, SiteTypes
  <2>3. PICK e \in Event : e.kind \in {"patch", "update"} /\ e.match = current /\ e.id = n /\ Tell(e)
    <3>1. /\ Says(Ev("patch", current, n), "patch", current, n)
          /\ Says([Ev("patch", current, n) EXCEPT !.fits = FALSE], "patch", current, n)
          /\ Says(Ev("update", current, n), "update", current, n)
      BY <1>1, <2>1, EvType
    <3> QED
      BY <1>2, <3>1 DEF Play, Says
  <2>4. EventTrue(e)'
    BY <1>1, <2>1, <2>2, <2>3 DEF EventTrue, Matches
  <2> QED
    BY <2>3, <2>4 DEF Tell, Send, Fresh
<1>3. CASE PlayNext
  <2>1. Says(Ev("playNextMatch", 0, 0), "playNextMatch", 0, 0)
    BY EvType
  <2> QED
    BY <1>1, <1>3, <2>1, PlainTrue DEF PlayNext, Tell, Send, Says, Fresh
<1>4. CASE Visit
  <2>1. Says(Ev("matchData", current, 0), "matchData", current, 0)
    BY <1>1, EvType
  <2> QED
    BY <1>1, <1>4, <2>1, PlainTrue DEF Visit, Send, Says, Fresh
<1>5. CASE SiteFails
  <2>1. ASSUME NEW u \in Servers PROVE
          Says([Ev("updateServerURL", 0, 0) EXCEPT !.url = u], "updateServerURL", 0, 0)
    BY EvType
  <2>2. Says(Ev("room-timeout", current, 0), "room-timeout", current, 0)
    BY <1>1, EvType
  <2>3. CASE home' \in GameServers /\ Tell([Ev("updateServerURL", 0, 0) EXCEPT !.url = home'])
    BY <1>1, <2>1, <2>3, PlainTrue DEF Tell, Send, Says, Fresh
  <2>4. CASE Send(Ev("room-timeout", current, 0))
    BY <1>1, <2>2, <2>4, PlainTrue DEF Send, Says, Fresh
  <2> QED
    BY <1>5, <2>3, <2>4 DEF SiteFails
<1>6. CASE AnswerDefault
  <2>1. home \in Servers
    BY DEF Types, SiteTypes
  <2>2. /\ Says(Ev("wrongNamespace", 0, 0), "wrongNamespace", 0, 0)
        /\ Says(Ev("sync-error", 0, 0), "sync-error", 0, 0)
        /\ Says([Ev("updateServerURL", 0, 0) EXCEPT !.url = home], "updateServerURL", 0, 0)
        /\ Says([Ev("createdMatch", current, 0) EXCEPT !.url = home], "createdMatch", current, 0)
    BY <1>1, <2>1, EvType
  <2>3. PICK e \in Event :
            /\ e.kind \notin {"sync", "patch"}
            /\ e.match \in {0, current}
            /\ Send(e)
            /\ (e.kind = "createdMatch") => (e.match = current)
    BY <1>6, <2>2 DEF AnswerDefault, Says
  <2>4. current' = current
    BY <1>6 DEF AnswerDefault
  <2>5. EventTrue(e)'
    BY <1>1, <2>3, PlainTrue
  <2>6. Fresh(e)'
    BY <2>3, <2>4 DEF Fresh
  <2> QED
    BY <2>3, <2>5, <2>6 DEF Send
<1>7. CASE AnswerSync
  <2> DEFINE m == Head(asks)
  <2>1. m \in Matches /\ m \in 0 .. MaxMatch /\ m <= current
    <3>1. asks \in Seq(0 .. MaxMatch) /\ asks # <<>> /\ m # 0
      BY <1>7 DEF AnswerSync, Types, WireTypes
    <3> QED
      BY <3>1 DEF IInv, AsksTrue, Matches
  <2>2. played[m] \in 0 .. MaxMove /\ UNCHANGED <<played, current>> /\ home \in Servers
    BY <1>7, <2>1 DEF AnswerSync, Types, SiteTypes
  <2>3. PICK id \in 0 .. MaxMove : /\ id <= played[m]
                                   /\ \/ id = played[m] /\ Send([Ev("sync", m, id) EXCEPT !.url = home])
                                      \/ Send([Ev("sync", m, id) EXCEPT !.url = home, !.fits = FALSE])
    <3>1. played[m] > 0 => played[m] - 1 \in 0 .. MaxMove /\ played[m] - 1 <= played[m]
      BY <2>2
    <3>2. played[m] <= played[m]
      BY <2>2
    <3> QED
      BY <1>7, <2>2, <3>1, <3>2 DEF AnswerSync
  <2>4. /\ Says([Ev("sync", m, id) EXCEPT !.url = home], "sync", m, id)
        /\ Says([Ev("sync", m, id) EXCEPT !.url = home, !.fits = FALSE], "sync", m, id)
        /\ ~[Ev("sync", m, id) EXCEPT !.url = home, !.fits = FALSE].fits
    BY <2>1, <2>2, EvType DEF Ev
  <2>5. PICK e \in Event : e.match = m /\ e.id = id /\ e.kind = "sync" /\ Send(e) /\ (e.fits => e.id = played[m])
    BY <2>3, <2>4 DEF Says
  <2> QED
    BY <2>1, <2>2, <2>3, <2>5 DEF EventTrue, Send, Fresh
<1>8. CASE Stop \/ UNCHANGED vars
  BY <1>8 DEF Stop, vars
<1>9. CASE Handles
  BY <1>9 DEF Handles, OnUpdateServerURL, OnCreatedMatch, OnSync, OnPatch, OnUpdate, OnMatchData, OnPlayNextMatch,
         OnRoomTimeout, OnWrongNamespace, OnSyncError, Receives
<1>10. CASE Runs
  BY <1>10 DEF Runs, Checks, Connects, Joins, JoinTimesOut, Leaves, Disconnects, Resumes, Finishes
<1> QED
  BY <1>2, <1>3, <1>4, <1>5, <1>6, <1>7, <1>8, <1>9, <1>10 DEF Next, Answers

LEMMA InboxStaysTrue ==
    ASSUME Types, Types', IInv, [Next]_vars
    PROVE  InboxTrue'
<1>1. inbox \in Seq(Event) /\ \A e \in Event : EventTrue(e) => EventTrue(e)'
  BY SiteGrows, TrueStays DEF Types, WireTypes
<1>2. CASE inbox' = inbox
  BY <1>1, <1>2 DEF IInv, InboxTrue
<1>3. CASE inbox # <<>> /\ inbox' = Tail(inbox)
  <2>1. \A i \in 1 .. Len(inbox') : inbox'[i] \in Event /\ EventTrue(inbox'[i])
    BY <1>1, <1>3, HeadTrue, HeadTailProperties DEF IInv
  <2> QED
    BY <1>1, <2>1 DEF InboxTrue
<1>4. CASE inbox' = <<>>
  BY <1>4 DEF InboxTrue
<1>5. ASSUME NEW e \in Event, EventTrue(e)', inbox' = Append(inbox, e) PROVE InboxTrue'
  <2>1. Len(inbox') = Len(inbox) + 1 /\ inbox'[Len(inbox) + 1] = e /\ \A i \in 1 .. Len(inbox) : inbox'[i] = inbox[i]
    BY <1>1, <1>5, AppendProperties
  <2>2. ASSUME NEW i \in 1 .. Len(inbox'), NEW x, x = inbox'[i] PROVE EventTrue(x)'
    <3>1. CASE i = Len(inbox) + 1
      BY <1>5, <2>1, <2>2, <3>1
    <3>2. CASE i \in 1 .. Len(inbox)
      <4>1. x \in Event /\ EventTrue(x)
        BY <1>1, <2>1, <2>2, <3>2 DEF IInv, InboxTrue
      <4> QED
        BY <1>1, <4>1
    <3> QED
      BY <1>1, <2>1, <2>2, <3>1, <3>2
  <2> QED
    BY <2>2 DEF InboxTrue
<1> QED
  BY <1>2, <1>3, <1>4, <1>5, InboxSteps

LEMMA AsksStayTrue ==
    ASSUME Types, Types', IInv, [Next]_vars
    PROVE  AsksTrue'
<1> USE Zeros DEF site, connection, quiet
<1>1. /\ asks \in Seq(0 .. MaxMatch) /\ \A i \in 1 .. Len(asks) : asks[i] <= current
      /\ current \in Nat /\ current' \in Nat /\ current <= current'
      /\ tracker.match \in 0 .. MaxMatch /\ tracker.match <= current
  <2>1. current \in Nat /\ current' \in Nat /\ current <= current'
    BY SiteGrows DEF Types, SiteTypes, Grows, Matches
  <2>2. tracker.match \in 0 .. MaxMatch /\ tracker.match <= current
    BY DEF Types, TrackTypes, Track, IInv, TrackTrue
  <2> QED
    BY <2>1, <2>2 DEF Types, WireTypes, IInv, AsksTrue
<1>2. CASE asks' = asks
  BY <1>1, <1>2 DEF AsksTrue
<1>3. CASE asks # <<>> /\ asks' = Tail(asks)
  <2>1. \A i \in 1 .. Len(asks') : i + 1 \in 1 .. Len(asks) /\ asks'[i] = asks[i + 1]
    BY <1>1, <1>3, TailIs
  <2>2. \A j \in 1 .. Len(asks) : asks[j] \in Nat /\ asks[j] <= current
    BY <1>1
  <2>3. \A i \in 1 .. Len(asks') : asks'[i] \in Nat /\ asks'[i] <= current
    BY <2>1, <2>2
  <2> QED
    BY <1>1, <2>3 DEF AsksTrue
<1>4. CASE asks' \in {<<>>, <<0>>}
  BY <1>1, <1>4 DEF AsksTrue
<1>5. ASSUME NEW m \in 0 .. MaxMatch, m <= current, Ask(m) PROVE AsksTrue'
  <2>1. Len(Append(asks, m)) = Len(asks) + 1 /\ Append(asks, m)[Len(asks) + 1] = m
        /\ \A i \in 1 .. Len(asks) : Append(asks, m)[i] = asks[i]
    BY <1>1, AppendProperties
  <2>2. CASE asks' = Append(asks, m)
    <3>1. \A i \in 1 .. Len(asks') : i = Len(asks) + 1 \/ i \in 1 .. Len(asks)
      BY <1>1, <2>1, <2>2
    <3>2. \A i \in 1 .. Len(asks') : asks'[i] \in Nat /\ asks'[i] <= current
      BY <1>1, <1>5, <2>1, <2>2, <3>1
    <3> QED
      BY <1>1, <3>2 DEF AsksTrue
  <2> QED
    BY <1>2, <1>5, <2>2 DEF Ask
<1>6. CASE Play \/ PlayNext \/ Visit \/ SiteFails \/ Stop \/ UNCHANGED vars
  BY <1>2, <1>4, <1>6 DEF Play, PlayNext, Visit, SiteFails, Stop, vars
<1>7. CASE Answers
  BY <1>3, <1>7 DEF Answers, AnswerDefault, AnswerSync
<1>8. CASE OnCreatedMatch
  <2>1. Head(inbox).match \in 0 .. MaxMatch /\ Head(inbox).match <= current
    BY <1>8, HeadTrue DEF OnCreatedMatch, Receives, IInv, EventTrue, Event
  <2> QED
    BY <1>2, <1>5, <1>8, <2>1 DEF OnCreatedMatch
<1>9. CASE OnPatch \/ OnUpdate
  BY <1>1, <1>2, <1>5, <1>9 DEF OnPatch, OnUpdate
<1>10. CASE OnPlayNextMatch
  BY <1>1, <1>5, <1>10 DEF OnPlayNextMatch
<1>11. CASE OnUpdateServerURL \/ OnSync \/ OnMatchData \/ OnRoomTimeout \/ OnWrongNamespace \/ OnSyncError
  BY <1>2, <1>11 DEF OnUpdateServerURL, OnSync, OnMatchData, OnRoomTimeout, OnWrongNamespace, OnSyncError
<1>12. CASE Runs
  BY <1>2, <1>4, <1>12 DEF Runs, Checks, Connects, Joins, JoinTimesOut, Leaves, Disconnects, Resumes, Finishes
<1> QED
  BY <1>6, <1>7, <1>8, <1>9, <1>10, <1>11, <1>12 DEF Next, Handles

\* What the tracker makes of a true event is true.
LEMMA TrackerTrue ==
    ASSUME Types, NEW t \in Track, TrackTrue(t), NEW e \in Event, EventTrue(e)
    PROVE  /\ e.kind = "sync" /\ t.match = e.match => TrackTrue(ApplySync(t, e.id))
           /\ e.kind = "patch" /\ t.match = e.match /\ Follows(t, e) => TrackTrue(ApplyPatch(t, e))
           /\ TrackTrue([NoTrack EXCEPT !.match = e.match])
<1>1. e.kind = "sync" /\ t.match = e.match => TrackTrue(ApplySync(t, e.id))
  BY DEF TrackTrue, EventTrue, ApplySync, Track
<1>2. ASSUME e.kind = "patch", t.match = e.match, Follows(t, e) PROVE TrackTrue(ApplyPatch(t, e))
  <2>1. t.id \in Nat /\ e.id \in Nat /\ t.id = e.id - 1 /\ t.synced
    BY <1>2 DEF Follows, Track, Event
  <2>2. UpTo(t.id) \cup {e.id} = UpTo(e.id)
    BY <2>1 DEF UpTo
  <2>3. t.moves \cup {e.id} = UpTo(e.id) /\ t.log \cup {e.id} = UpTo(e.id)
    BY <2>2 DEF TrackTrue
  <2>4. /\ ApplyPatch(t, e).id = e.id /\ ApplyPatch(t, e).match = e.match
        /\ ApplyPatch(t, e).moves = t.moves \cup {e.id} /\ ApplyPatch(t, e).log = t.log \cup {e.id}
    BY <1>2 DEF ApplyPatch, Track
  <2> QED
    BY <1>2, <2>3, <2>4 DEF TrackTrue, EventTrue
<1>3. TrackTrue([NoTrack EXCEPT !.match = e.match])
  <2> DEFINE n == [NoTrack EXCEPT !.match = e.match]
  <2>1. NoTrack \in Track /\ ~NoTrack.synced /\ NoTrack.id = 0 /\ NoTrack.moves = {} /\ NoTrack.log = {}
    BY DEF NoTrack, Track
  <2>2. n.match = e.match /\ ~n.synced /\ n.id = 0 /\ n.moves = {} /\ n.log = {}
    BY <2>1 DEF Track
  <2>3. UpTo(0) = {}
    BY DEF UpTo
  <2> HIDE DEF n
  <2> QED
    BY <2>2, <2>3 DEF TrackTrue, EventTrue, n
<1> QED
  BY <1>1, <1>2, <1>3

LEMMA TrackersStayTrue ==
    ASSUME Types, Types', IInv, [Next]_vars
    PROVE  TrackTrue(tracker)' /\ TrackTrue(shown)'
<1> USE DEF site, connection, control, quiet
<1>1. tracker \in Track /\ TrackTrue(tracker) /\ shown \in Track /\ TrackTrue(shown)
  BY DEF Types, TrackTypes, IInv
<1>2. ASSUME NEW t \in Track, TrackTrue(t), tracker' = t, shown' \in {shown, tracker, t}
      PROVE  TrackTrue(tracker)' /\ TrackTrue(shown)'
  <2>1. TrackTrue(t)' /\ \A u \in {shown, tracker, t} : u \in Track /\ TrackTrue(u)
    BY <1>1, <1>2, SiteGrows, TrueStays
  <2>2. TrackTrue(tracker)'
    BY <1>2, <2>1
  <2>3. \E u \in Track : TrackTrue(u) /\ shown' = u
    BY <1>2, <2>1
  <2>4. PICK u \in Track : TrackTrue(u) /\ shown' = u
    BY <2>3
  <2>5. TrackTrue(u)'
    BY <2>4, SiteGrows, TrueStays
  <2> QED
    BY <2>2, <2>4, <2>5
<1>3. ASSUME UNCHANGED tracker, shown' \in {shown, tracker} PROVE TrackTrue(tracker)' /\ TrackTrue(shown)'
  BY <1>1, <1>2, <1>3
<1>4. CASE OnCreatedMatch
  <2>1. [NoTrack EXCEPT !.match = Head(inbox).match] \in Track /\ TrackTrue([NoTrack EXCEPT !.match = Head(inbox).match])
    BY <1>1, <1>4, HeadTrue, TrackerTrue, TrackerTypes DEF OnCreatedMatch, Receives, IInv, Event
  <2> QED
    BY <1>2, <1>3, <1>4, <2>1 DEF OnCreatedMatch
<1>5. CASE OnSync
  <2> DEFINE t == ApplySync(tracker, Head(inbox).id)
  <2>1. tracker.match = Head(inbox).match => t \in Track /\ TrackTrue(t)
    BY <1>1, <1>5, HeadTrue, TrackerTrue, TrackerTypes DEF OnSync, Receives, IInv, Event
  <2> QED
    BY <1>2, <1>3, <1>5, <2>1 DEF OnSync
<1>6. CASE OnPatch
  <2> DEFINE t == ApplyPatch(tracker, Head(inbox))
  <2>1. tracker.match = Head(inbox).match /\ Follows(tracker, Head(inbox)) => t \in Track /\ TrackTrue(t)
    BY <1>1, <1>6, HeadTrue, TrackerTrue, TrackerTypes DEF OnPatch, Receives, IInv
  <2> QED
    BY <1>2, <1>3, <1>6, <2>1 DEF OnPatch
<1>7. CASE OnUpdateServerURL \/ OnUpdate \/ OnMatchData \/ OnPlayNextMatch \/ OnRoomTimeout \/ OnWrongNamespace \/ OnSyncError
  BY <1>3, <1>7 DEF OnUpdateServerURL, OnUpdate, OnMatchData, OnPlayNextMatch, OnRoomTimeout, OnWrongNamespace, OnSyncError
<1>8. CASE Play \/ PlayNext \/ Visit \/ SiteFails \/ Stop \/ Answers \/ UNCHANGED vars
  BY <1>3, <1>8 DEF Play, PlayNext, Visit, SiteFails, Stop, Answers, AnswerDefault, AnswerSync, vars
<1>9. CASE Runs
  BY <1>3, <1>9 DEF Runs, Checks, Connects, Joins, JoinTimesOut, Leaves, Disconnects, Resumes, Finishes
<1> QED
  BY <1>4, <1>5, <1>6, <1>7, <1>8, <1>9 DEF Next, Handles

LEMMA IInvInit == Init => IInv
<1> SUFFICES ASSUME Init PROVE IInv
  OBVIOUS
<1>1. TrackTrue(NoTrack)
  BY DEF Init, TrackTrue, NoTrack, UpTo, Matches
<1> QED
  BY <1>1 DEF Init, IInv, InboxTrue, AsksTrue

LEMMA Inductive == Safe => [](Types /\ IInv)
<1>1. Types /\ IInv /\ [Next]_vars => Types' /\ IInv'
  <2> SUFFICES ASSUME Types, IInv, [Next]_vars PROVE Types' /\ IInv'
    OBVIOUS
  <2>1. Types'
    BY TypesStep
  <2> QED
    BY <2>1, InboxStaysTrue, AsksStayTrue, TrackersStayTrue DEF IInv
<1> QED
  BY <1>1, TypesInit, IInvInit, PTL DEF Safe

\* A view never mixes states of a match, misses a move or invents one, whatever is
\* lost, late, redirected or out of step.
THEOREM ShowsTruth == Safe => []ShownIsTrue
<1>1. Types /\ IInv => ShownIsTrue
  BY DEF Types, TrackTypes, Track, IInv, TrackTrue, ShownIsTrue
<1> QED
  BY <1>1, Inductive, PTL

-----------------------------------------------------------------------------
(***************************************************************************)
(* The client is one that the monitor can rely on, as far as safety goes.  *)
(***************************************************************************)
LEMMA ContractStep ==
    ASSUME Types, [Next]_vars
    PROVE  [Contract!Next]_(Contract!contract)
<1> USE DEF control, quiet
<1>1. CASE UNCHANGED <<pc, reason>>
  BY <1>1 DEF Contract!contract
<1>2. CASE Stop \/ OnWrongNamespace
  BY <1>2 DEF Stop, OnWrongNamespace, Receives, Close, Types, RunTypes,
              Contract!contract, Contract!Next, Contract!Ends, Contract!Reasons
<1>3. CASE Checks
  BY <1>3 DEF Checks, Types, RunTypes, Contract!contract, Contract!Next, Contract!Reports
<1>4. CASE Disconnects
  BY <1>4 DEF Disconnects, Types, RunTypes, Contract!contract, Contract!Next, Contract!Ends, Contract!Reports, Contract!Reasons
<1>5. CASE Finishes
  BY <1>5 DEF Finishes, Types, RunTypes, Contract!contract, Contract!Next, Contract!Finishes
<1>6. CASE Connects \/ Joins \/ JoinTimesOut \/ Leaves \/ Resumes
  BY <1>6 DEF Connects, Joins, JoinTimesOut, Leaves, Resumes, Types, RunTypes, Contract!contract
<1>7. CASE Play \/ PlayNext \/ Visit \/ SiteFails \/ Answers \/ UNCHANGED vars
  BY <1>1, <1>7 DEF Play, PlayNext, Visit, SiteFails, Answers, AnswerDefault, AnswerSync, vars
<1>8. CASE OnUpdateServerURL \/ OnCreatedMatch \/ OnSync \/ OnPatch \/ OnUpdate \/ OnMatchData \/ OnPlayNextMatch
           \/ OnRoomTimeout \/ OnSyncError
  BY <1>1, <1>8 DEF OnUpdateServerURL, OnCreatedMatch, OnSync, OnPatch, OnUpdate, OnMatchData, OnPlayNextMatch,
         OnRoomTimeout, OnSyncError
<1> QED
  BY <1>2, <1>3, <1>4, <1>5, <1>6, <1>7, <1>8 DEF Next, Handles, Runs

\* A client ends once, for one reason that it keeps, reports it once, and never runs again.
THEOREM ContractSafely == Safe => Contract!Safe
<1>1. Init => Contract!Init
  BY DEF Init, Contract!Init
<1>2. Types /\ [Next]_vars => [Contract!Next]_(Contract!contract)
  BY ContractStep
<1> QED
  BY <1>1, <1>2, Inductive, PTL DEF Safe, Contract!Safe
-----------------------------------------------------------------------------
(***************************************************************************)
(* Giving up.  Every failure that is counted stands for an outage of its   *)
(* own: as long as a connection waits to be let into the room, something   *)
(* is on its way that will let it in, end it or send it elsewhere, or an   *)
(* outage has used that up.                                                *)
(***************************************************************************)
Asked(m) == m = 0 \/ m = tracker.match
Promises(e) ==
    \/ e.kind \in {"wrongNamespace", "createdMatch"}
    \/ e.kind = "updateServerURL" /\ Elsewhere(e)
    \/ e.kind = "sync" /\ e.match = tracker.match
StateComes == (\E i \in 1 .. Len(asks) : Asked(asks[i])) \/ (\E i \in 1 .. Len(inbox) : Promises(inbox[i]))

Waits == pc = "join" /\ reason = "none" /\ ~joined /\ ~timedOut

Counted ==
    /\ outages >= failures
    /\ pc = "stay" => joined
    /\ pc = "disconnect" /\ reason = "none" /\ ~gotIn /\ ~timedOut => outages > failures
    /\ Waits /\ ~StateComes => outages > failures
    /\ reason = "failed" => outages >= MaxFailures

\* What is on its way stays so while the queues only grow.
LEMMA ComesGrow ==
    ASSUME Types, Types', StateComes, UNCHANGED url, tracker'.match = tracker.match,
           asks' = asks \/ \E m \in 0 .. MaxMatch : asks' = Append(asks, m),
           inbox' = inbox \/ \E e \in Event : inbox' = Append(inbox, e)
    PROVE  StateComes'
<1>1. asks \in Seq(0 .. MaxMatch) /\ inbox \in Seq(Event)
  BY DEF Types, WireTypes
<1>2. CASE \E i \in 1 .. Len(asks) : Asked(asks[i])
  <2>1. ASSUME NEW i \in 1 .. Len(asks) PROVE i \in 1 .. Len(asks') /\ asks'[i] = asks[i]
    <3>1. CASE asks' = asks
      BY <3>1
    <3>2. ASSUME NEW m \in 0 .. MaxMatch, asks' = Append(asks, m) PROVE i \in 1 .. Len(asks') /\ asks'[i] = asks[i]
      BY <1>1, <3>2, AppendIs
    <3> QED
      BY <3>1, <3>2
  <2> QED
    BY <1>2, <2>1 DEF StateComes, Asked
<1>3. CASE \E i \in 1 .. Len(inbox) : Promises(inbox[i])
  <2>1. \A i \in 1 .. Len(inbox) : i \in 1 .. Len(inbox') /\ inbox'[i] = inbox[i]
    BY <1>1, AppendIs
  <2> QED
    BY <1>3, <2>1 DEF StateComes, Promises, Elsewhere
<1> QED
  BY <1>2, <1>3 DEF StateComes

\* So does what comes behind an event that is handled, unless that was it.
LEMMA ComesShift ==
    ASSUME Types, Types', StateComes, UNCHANGED url, tracker'.match = tracker.match,
           asks' = asks \/ \E m \in 0 .. MaxMatch : asks' = Append(asks, m),
           inbox # <<>>, inbox' = Tail(inbox), ~Promises(Head(inbox))
    PROVE  StateComes'
<1>1. asks \in Seq(0 .. MaxMatch) /\ inbox \in Seq(Event)
  BY DEF Types, WireTypes
<1>2. CASE \E i \in 1 .. Len(asks) : Asked(asks[i])
  <2>1. ASSUME NEW i \in 1 .. Len(asks) PROVE i \in 1 .. Len(asks') /\ asks'[i] = asks[i]
    <3>1. CASE asks' = asks
      BY <3>1
    <3>2. ASSUME NEW m \in 0 .. MaxMatch, asks' = Append(asks, m) PROVE i \in 1 .. Len(asks') /\ asks'[i] = asks[i]
      BY <1>1, <3>2, AppendIs
    <3> QED
      BY <3>1, <3>2
  <2> QED
    BY <1>2, <2>1 DEF StateComes, Asked
<1>3. ASSUME NEW i \in 1 .. Len(inbox), Promises(inbox[i]) PROVE StateComes'
  <2>1. i # 1
    BY <1>1, <1>3, TailIs
  <2>2. i - 1 \in 1 .. Len(inbox') /\ inbox'[i - 1] = inbox[i]
    BY <1>1, <2>1, TailIs
  <2> QED
    BY <1>3, <2>2 DEF StateComes, Promises, Elsewhere
<1> QED
  BY <1>2, <1>3 DEF StateComes

\* An event that is sent and promises something is on its way.
LEMMA ComesNow ==
    ASSUME Types, NEW e \in Event, Send(e), Promises(e)'
    PROVE  StateComes'
<1>1. inbox \in Seq(Event)
  BY DEF Types, WireTypes
<1>2. Len(inbox) + 1 \in 1 .. Len(inbox') /\ inbox'[Len(inbox) + 1] = e
  BY <1>1, AppendIs DEF Send
<1> QED
  BY <1>2 DEF StateComes

\* The site's answer brings on what the client waits for, or is an error.
LEMMA AnswersPromise ==
    ASSUME Types, Types', StateComes, Answers
    PROVE  StateComes' \/ outages' > outages
<1> USE Zeros DEF site, control, trouble
<1>1. /\ asks \in Seq(0 .. MaxMatch) /\ inbox \in Seq(Event) /\ home \in GameServers /\ home \in Servers
      /\ current \in 0 .. MaxMatch /\ outages \in Nat
  BY DEF Types, SiteTypes, WireTypes, CountTypes, Servers, Matches
<1>2. CASE AnswerDefault
  <2>1. /\ Says(Ev("wrongNamespace", 0, 0), "wrongNamespace", 0, 0)
        /\ Says([Ev("updateServerURL", 0, 0) EXCEPT !.url = home], "updateServerURL", 0, 0)
        /\ Says([Ev("createdMatch", current, 0) EXCEPT !.url = home], "createdMatch", current, 0)
        /\ [Ev("updateServerURL", 0, 0) EXCEPT !.url = home].url = home
    BY <1>1, EvType DEF Ev
  <2>2. CASE Send(Ev("wrongNamespace", 0, 0))
    BY <2>1, <2>2, ComesNow DEF Says, Promises
  <2>3. CASE Fault("error")
    BY <1>1, <2>3 DEF Fault
  <2>4. CASE url = "lobby" /\ Send([Ev("updateServerURL", 0, 0) EXCEPT !.url = home])
    <3>1. home # "lobby" /\ home # "none" /\ url' = url
      BY <1>1, <1>2 DEF AnswerDefault
    <3> QED
      BY <2>1, <2>4, <3>1, ComesNow DEF Says, Promises, Elsewhere
  <2>5. CASE Send([Ev("createdMatch", current, 0) EXCEPT !.url = home])
    BY <2>1, <2>5, ComesNow DEF Says, Promises
  <2> QED
    BY <1>2, <2>2, <2>3, <2>4, <2>5 DEF AnswerDefault
<1>3. CASE AnswerSync
  <2> DEFINE m == Head(asks)
  <2>1. /\ m \in Matches /\ m \in 0 .. MaxMatch /\ m # 0 /\ asks # <<>> /\ m = asks[1]
        /\ asks' = Tail(asks) /\ UNCHANGED <<url, tracker>>
    BY <1>1, <1>3, TailIs DEF AnswerSync, Matches
  <2>2. played[m] \in 0 .. MaxMove /\ (played[m] > 0 => played[m] - 1 \in 0 .. MaxMove)
    <3>1. played[m] \in 0 .. MaxMove
      BY <2>1 DEF Types, SiteTypes
    <3> QED
      BY <3>1
  <2>3. PICK e \in Event : e.kind = "sync" /\ e.match = m /\ Send(e)
    <3>1. Says([Ev("sync", m, played[m]) EXCEPT !.url = home], "sync", m, played[m])
      BY <1>1, <2>1, <2>2, EvType
    <3>2. played[m] > 0 => Says([Ev("sync", m, played[m] - 1) EXCEPT !.url = home, !.fits = FALSE], "sync", m, played[m] - 1)
      BY <1>1, <2>1, <2>2, EvType
    <3> HIDE DEF m
    <3>3. \/ Send([Ev("sync", m, played[m]) EXCEPT !.url = home])
          \/ played[m] > 0 /\ Send([Ev("sync", m, played[m] - 1) EXCEPT !.url = home, !.fits = FALSE])
      BY <1>3 DEF AnswerSync, m
    <3> QED
      BY <3>1, <3>2, <3>3 DEF Says
  <2>4. ASSUME NEW i \in 1 .. Len(asks), Asked(asks[i]) PROVE StateComes'
    <3>1. CASE i = 1
      BY <2>1, <2>3, <2>4, <3>1, ComesNow DEF Asked, Promises
    <3>2. CASE i # 1
      <4>1. i - 1 \in 1 .. Len(asks') /\ asks'[i - 1] = asks[i]
        BY <1>1, <2>1, <3>2, TailIs
      <4> QED
        BY <2>1, <2>4, <4>1 DEF StateComes, Asked
    <3> QED
      BY <3>1, <3>2
  <2>5. ASSUME NEW i \in 1 .. Len(inbox), Promises(inbox[i]) PROVE StateComes'
    <3>1. i \in 1 .. Len(inbox') /\ inbox'[i] = inbox[i]
      BY <1>1, <2>3, AppendIs DEF Send
    <3> QED
      BY <2>1, <2>5, <3>1 DEF StateComes, Promises, Elsewhere
  <2> QED
    BY <2>4, <2>5 DEF StateComes
<1> QED
  BY <1>2, <1>3 DEF Answers

\* A client that goes on waiting has not handled what it waits for.
LEMMA HandlesPromise ==
    ASSUME Types, Types', StateComes, Handles, Waits, Waits'
    PROVE  StateComes'
<1> DEFINE e == Head(inbox)
<1>1. /\ asks \in Seq(0 .. MaxMatch) /\ inbox \in Seq(Event) /\ pc # "disconnect" /\ tracker.match \in 0 .. MaxMatch
      /\ tracker \in Track
  BY DEF Types, WireTypes, Waits, TrackTypes, Track
<1>2. inbox # <<>> /\ inbox' = Tail(inbox) /\ e \in Event /\ UNCHANGED <<url, pc>>
  BY <1>1, HeadTailProperties DEF Handles, OnUpdateServerURL, OnCreatedMatch, OnSync, OnPatch, OnUpdate, OnMatchData,
         OnPlayNextMatch, OnRoomTimeout, OnWrongNamespace, OnSyncError, Receives, control
<1>3. CASE OnCreatedMatch
  <2>1. ~Elsewhere(e)
    BY <1>3 DEF OnCreatedMatch, Redirect, Waits
  <2>2. e.match \in 0 .. MaxMatch /\ tracker'.match = e.match /\ asks' = Append(asks, e.match)
    BY <1>1, <1>2, <1>3, <2>1 DEF OnCreatedMatch, Ask, Event, NoTrack, Track
  <2>3. Len(asks) + 1 \in 1 .. Len(asks') /\ asks'[Len(asks) + 1] = e.match
    BY <1>1, <2>2, AppendIs
  <2> QED
    BY <2>2, <2>3 DEF StateComes, Asked
<1>4. ASSUME tracker'.match = tracker.match, asks' = asks \/ \E m \in 0 .. MaxMatch : asks' = Append(asks, m),
             ~Promises(e)
      PROVE  StateComes'
  BY <1>2, <1>4, ComesShift
<1>5. CASE OnUpdateServerURL
  <2>1. e.kind = "updateServerURL" /\ ~Elsewhere(e)
    BY <1>5 DEF OnUpdateServerURL, Receives, Redirect, Waits
  <2> QED
    BY <1>4, <1>5, <2>1 DEF OnUpdateServerURL, Promises
<1>6. CASE OnSync
  <2>1. e.kind = "sync" /\ tracker.match # e.match
    BY <1>6 DEF OnSync, Receives, Redirect, Waits
  <2> QED
    BY <1>4, <1>6, <2>1 DEF OnSync, Promises
<1>7. CASE OnPatch
  <2>1. e.kind = "patch" /\ tracker'.match = tracker.match
    BY <1>1, <1>7 DEF OnPatch, Receives, ApplyPatch, Track
  <2> QED
    BY <1>1, <1>4, <1>7, <2>1 DEF OnPatch, Promises, Ask
<1>8. CASE OnUpdate
  <2>1. e.kind = "update" /\ tracker' = tracker
    BY <1>8 DEF OnUpdate, Receives
  <2> QED
    BY <1>1, <1>4, <1>8, <2>1 DEF OnUpdate, Promises, Ask
<1>9. CASE OnMatchData
  <2>1. e.kind = "matchData"
    BY <1>9 DEF OnMatchData, Receives
  <2> QED
    BY <1>4, <1>9, <2>1 DEF OnMatchData, Promises
<1>10. CASE OnPlayNextMatch
  <2>1. e.kind = "playNextMatch" /\ tracker' = tracker
    BY <1>10 DEF OnPlayNextMatch, Receives
  <2> QED
    BY <1>1, <1>4, <1>10, <2>1, Zeros DEF OnPlayNextMatch, Promises, Ask
<1>11. CASE OnSyncError
  <2>1. e.kind = "sync-error"
    BY <1>11 DEF OnSyncError, Receives
  <2> QED
    BY <1>4, <1>11, <2>1 DEF OnSyncError, Promises
<1>12. ~OnRoomTimeout /\ ~OnWrongNamespace
  BY DEF OnRoomTimeout, OnWrongNamespace, Close, Waits
<1> QED
  BY <1>3, <1>5, <1>6, <1>7, <1>8, <1>9, <1>10, <1>11, <1>12 DEF Handles

LEMMA PromiseKept ==
    ASSUME Types, Types', StateComes, [Next]_vars, Waits, Waits'
    PROVE  StateComes' \/ outages' > outages
<1> USE Zeros DEF site, connection, control, trouble, quiet
<1>1. current \in 0 .. MaxMatch /\ outages \in Nat /\ home \in Servers
  BY DEF Types, SiteTypes, CountTypes, Servers, Matches
<1>2. CASE Play
  <2>1. played[current] + 1 \in 0 .. MaxMove
    BY <1>2 DEF Play, Types, SiteTypes
  <2>2. PICK e \in Event : Tell(e)
    BY <1>1, <1>2, <2>1, EvEvent DEF Play
  <2> QED
    BY <1>2, <2>2, ComesGrow DEF Play, Tell, Send
<1>3. CASE PlayNext
  <2>1. Ev("playNextMatch", 0, 0) \in Event
    BY EvEvent
  <2> QED
    BY <1>3, <2>1, ComesGrow DEF PlayNext, Tell, Send
<1>4. CASE Visit
  <2>1. Ev("matchData", current, 0) \in Event
    BY <1>1, EvEvent
  <2> QED
    BY <1>4, <2>1, ComesGrow DEF Visit, Send
<1>5. CASE SiteFails
  <2>1. CASE Fault("drop")
    BY <1>1, <2>1 DEF Fault
  <2>2. CASE Send(Ev("room-timeout", current, 0)) /\ UNCHANGED <<asks, url, tracker>>
    <3>1. Ev("room-timeout", current, 0) \in Event
      BY <1>1, EvEvent
    <3> QED
      BY <2>2, <3>1, ComesGrow DEF Send
  <2>3. CASE Fault("move") /\ home' \in GameServers \ {home}
                 /\ Tell([Ev("updateServerURL", 0, 0) EXCEPT !.url = home']) /\ UNCHANGED <<asks, url, tracker>>
    <3>1. \A u \in Servers : [Ev("updateServerURL", 0, 0) EXCEPT !.url = u] \in Event
      BY EvEvent
    <3>2. [Ev("updateServerURL", 0, 0) EXCEPT !.url = home'] \in Event
      BY <2>3, <3>1 DEF Servers
    <3> QED
      BY <2>3, <3>2, ComesGrow DEF Tell, Send
  <2> QED
    BY <1>5, <2>1, <2>2, <2>3 DEF SiteFails
<1>6. CASE Answers
  BY <1>6, AnswersPromise
<1>7. CASE Handles
  BY <1>7, HandlesPromise
<1>8. CASE UNCHANGED vars
  BY <1>8, ComesGrow DEF vars
<1>9. ~Stop /\ ~Runs
  BY DEF Stop, Close, Runs, Checks, Connects, Joins, JoinTimesOut, Leaves, Disconnects, Resumes, Finishes, Waits
<1> QED
  BY <1>2, <1>3, <1>4, <1>5, <1>6, <1>7, <1>8, <1>9 DEF Next

\* Steps other than the end of a connection.
LEMMA CountKept ==
    ASSUME Types, Types', [Next]_vars, ~Disconnects
    PROVE  /\ failures' = failures /\ outages' >= outages
           /\ reason' = reason \/ reason' \in {"stopped", "unsupported"}
           /\ timedOut => timedOut'
<1> USE DEF site, connection, control, trouble, quiet
<1>1. outages \in Nat /\ outages' \in Nat /\ faults \in Nat
  BY DEF Types, CountTypes
<1>2. \A kind : Fault(kind) => outages' >= outages
  BY <1>1 DEF Fault
<1>3. CASE Play \/ PlayNext \/ Visit \/ SiteFails \/ Stop \/ Answers \/ UNCHANGED vars
  BY <1>1, <1>2, <1>3 DEF Play, PlayNext, Visit, SiteFails, Stop, Close, Answers, AnswerDefault, AnswerSync, vars
<1>4. CASE Handles
  BY <1>1, <1>4 DEF Handles, OnUpdateServerURL, OnCreatedMatch, OnSync, OnPatch, OnUpdate, OnMatchData,
         OnPlayNextMatch, OnRoomTimeout, OnWrongNamespace, OnSyncError, Close
<1>5. CASE Runs
  BY <1>1, <1>2, <1>5 DEF Runs, Checks, Connects, Joins, JoinTimesOut, Leaves, Resumes, Finishes
<1> QED
  BY <1>3, <1>4, <1>5 DEF Next

\* Where a connection is.
LEMMA PcSteps ==
    ASSUME Types, Types', [Next]_vars, ~Runs
    PROVE  UNCHANGED <<pc, gotIn>> /\ (joined => joined')
<1> USE DEF site, connection, control, trouble, quiet
<1>1. CASE Play \/ PlayNext \/ Visit \/ SiteFails \/ Stop \/ Answers \/ UNCHANGED vars
  BY <1>1 DEF Play, PlayNext, Visit, SiteFails, Stop, Close, Answers, AnswerDefault, AnswerSync, vars
<1>2. CASE Handles
  BY <1>2 DEF Handles, OnUpdateServerURL, OnCreatedMatch, OnSync, OnPatch, OnUpdate, OnMatchData,
         OnPlayNextMatch, OnRoomTimeout, OnWrongNamespace, OnSyncError, Close, Redirect
<1> QED
  BY <1>1, <1>2 DEF Next

LEMMA DisconnectsCounted ==
    ASSUME Types, Types', Counted, Disconnects
    PROVE  Counted'
<1>1. failures \in Nat /\ outages \in Nat /\ faults \in Nat /\ MaxFailures \in Nat \ {0}
  BY DEF Types, CountTypes
<1>2. pc' \in {"report", "check", "pause"} /\ pc = "disconnect"
  BY DEF Disconnects
<1>3. outages' >= failures' /\ (reason' = "failed" => outages' >= MaxFailures)
  BY <1>1 DEF Disconnects, Counted, Tries
<1> QED
  BY <1>2, <1>3 DEF Counted, Waits

LEMMA CountedStep ==
    ASSUME Types, Types', Counted, [Next]_vars
    PROVE  Counted'
<1> USE DEF site, connection, control, trouble, quiet
<1>1. /\ failures \in Nat /\ outages \in Nat /\ outages' \in Nat /\ MaxFailures \in Nat
      /\ asks \in Seq(0 .. MaxMatch) /\ inbox \in Seq(Event)
  BY DEF Types, CountTypes, WireTypes
<1>2. CASE Disconnects
  BY <1>2, DisconnectsCounted
<1>3. ASSUME ~Disconnects PROVE Counted'
  <2>1. /\ failures' = failures /\ outages' >= outages
        /\ reason' = reason \/ reason' \in {"stopped", "unsupported"}
        /\ timedOut => timedOut'
    BY <1>3, CountKept
  <2>2. outages' >= failures' /\ (reason' = "failed" => outages' >= MaxFailures)
    BY <1>1, <2>1 DEF Counted
  <2>3. pc' = "stay" => joined'
    <3>1. CASE Runs
      BY <3>1, <1>3 DEF Runs, Checks, Connects, Joins, JoinTimesOut, Leaves, Resumes, Finishes, Counted
    <3>2. CASE ~Runs
      BY <3>2, PcSteps DEF Counted
    <3> QED
      BY <3>1, <3>2
  <2>4. ASSUME pc' = "disconnect", reason' = "none", ~gotIn', ~timedOut' PROVE outages' > failures'
    <3>1. reason = "none" /\ ~timedOut
      BY <2>1, <2>4
    <3>2. CASE pc = "disconnect" /\ ~gotIn
      BY <1>1, <2>1, <3>1, <3>2 DEF Counted
    <3>3. CASE ~Runs
      BY <2>4, <3>2, <3>3, PcSteps
    <3>4. CASE Connects
      <4>1. Fault("refused")
        BY <2>4, <3>4 DEF Connects
      <4> QED
        BY <1>1, <2>1, <4>1 DEF Fault, Counted
    <3>5. CASE JoinTimesOut
      <4>1. CASE Fault("slow")
        BY <1>1, <2>1, <4>1 DEF Fault, Counted
      <4>2. CASE asks = <<>> /\ inbox = <<>>
        <5>1. Waits /\ ~StateComes
          BY <3>1, <3>5, <4>2 DEF JoinTimesOut, Waits, StateComes
        <5> QED
          BY <1>1, <2>1, <5>1 DEF Counted
      <4> QED
        BY <3>1, <3>5, <4>1, <4>2 DEF JoinTimesOut
    <3>6. ~Joins /\ ~Leaves /\ ~Checks /\ ~Resumes /\ ~Finishes
      BY <2>4 DEF Joins, Leaves, Checks, Resumes, Finishes, Counted
    <3> QED
      BY <1>3, <3>3, <3>4, <3>5, <3>6 DEF Runs
  <2>5. ASSUME Waits', ~StateComes' PROVE outages' > failures'
    <3>1. reason = "none" /\ ~timedOut
      BY <2>1, <2>5 DEF Waits
    <3>2. CASE Runs
      <4>1. asks' = <<0>>
        BY <1>3, <2>5, <3>2 DEF Runs, Checks, Connects, Joins, JoinTimesOut, Leaves, Resumes, Finishes, Waits
      <4>2. 1 \in 1 .. Len(asks') /\ asks'[1] = 0
        BY <4>1
      <4> QED
        BY <2>5, <4>2 DEF StateComes, Asked
    <3>3. CASE ~Runs
      <4>1. Waits
        BY <2>5, <3>1, <3>3, PcSteps DEF Waits
      <4>2. CASE StateComes
        BY <1>1, <2>1, <2>5, <4>1, <4>2, PromiseKept DEF Counted
      <4>3. CASE ~StateComes
        BY <1>1, <2>1, <4>1, <4>3 DEF Counted
      <4> QED
        BY <4>2, <4>3
    <3> QED
      BY <3>2, <3>3
  <2> QED
    BY <2>2, <2>3, <2>4, <2>5 DEF Counted
<1> QED
  BY <1>2, <1>3

\* The client gives up only when as many connections have failed as it may
\* lose, each to an outage of its own; redirects, rooms that go to sleep and
\* rooms that were left after it had got in do not add up.
THEOREM GivesUp == Safe => []GivesUpOnFailures
<1>1. Init => Counted
  BY DEF Init, Counted, Waits
<1>2. Types /\ Counted /\ [Next]_vars => Types' /\ Counted'
  BY TypesStep, CountedStep
<1>3. Counted => GivesUpOnFailures
  BY DEF Counted, GivesUpOnFailures
<1> QED
  BY <1>1, <1>2, <1>3, TypesInit, PTL DEF Safe
-----------------------------------------------------------------------------
(***************************************************************************)
(* No way back.  A tracker that has a state is what is shown; of the       *)
(* events on their way none names a match before the tracker's, and a sync *)
(* that was not overtaken has every move of the states that come before    *)
(* it.                                                                     *)
(***************************************************************************)
Held ==
    /\ tracker.synced => shown = tracker
    /\ ~shown.synced => shown.id = 0
    /\ shown.match <= tracker.match

Before(d, e) ==
    /\ d.kind = "createdMatch" /\ e.kind = "createdMatch" => d.match <= e.match
    /\ d.kind \in {"sync", "patch"} /\ e.kind = "sync" /\ e.fits /\ d.match = e.match => d.id <= e.id
InOrder == \A i, j \in 1 .. Len(inbox) : i < j => Before(inbox[i], inbox[j])

Beyond(e) ==
    /\ e.kind = "createdMatch" => tracker.match <= e.match
    /\ e.kind = "sync" /\ e.fits /\ e.match = shown.match => shown.id <= e.id
Ahead == \A i \in 1 .. Len(inbox) : Beyond(inbox[i])

Onward == Held /\ InOrder /\ Ahead

\* A fresh event comes after all that was sent before, and is beyond what is shown.
LEMMA FreshIsLast ==
    ASSUME Types', NEW d \in Event, EventTrue(d)', NEW e \in Event, Fresh(e)'
    PROVE  Before(d, e)
BY DEF EventTrue, Fresh, Before, Event, Types, SiteTypes, Matches

LEMMA FreshIsBeyond ==
    ASSUME Types', IInv', Held', NEW e \in Event, EventTrue(e)', Fresh(e)'
    PROVE  Beyond(e)'
<1>1. /\ tracker'.match <= current' /\ shown'.id \in Nat
      /\ shown'.synced => shown'.match \in Matches /\ shown'.id <= played'[shown'.match]
  BY DEF IInv, TrackTrue, Types, TrackTypes, Track
<1>2. e.kind = "sync" => played'[e.match] \in Nat
  BY DEF EventTrue, Types, SiteTypes
<1> QED
  BY <1>1, <1>2 DEF Held, Fresh, Beyond

LEMMA InOrderStep ==
    ASSUME Types, Types', IInv, IInv', InOrder, [Next]_vars
    PROVE  InOrder'
<1>1. inbox \in Seq(Event) /\ inbox' \in Seq(Event) /\ Len(inbox) \in Nat
  BY LenProperties DEF Types, WireTypes
<1>2. CASE inbox' = inbox
  BY <1>2 DEF InOrder, Before
<1>3. CASE inbox # <<>> /\ inbox' = Tail(inbox)
  <2> SUFFICES ASSUME NEW i \in 1 .. Len(inbox'), NEW j \in 1 .. Len(inbox'), i < j
               PROVE  Before(inbox'[i], inbox'[j])
    BY DEF InOrder, Before
  <2>1. /\ i + 1 \in 1 .. Len(inbox) /\ inbox'[i] = inbox[i + 1]
        /\ j + 1 \in 1 .. Len(inbox) /\ inbox'[j] = inbox[j + 1]
    BY <1>1, <1>3, TailIs
  <2>2. i + 1 < j + 1
    BY <1>1
  <2> QED
    BY <2>1, <2>2 DEF InOrder
<1>4. CASE inbox' = <<>>
  BY <1>4 DEF InOrder
<1>5. ASSUME NEW e \in Event, EventTrue(e)', Fresh(e)', inbox' = Append(inbox, e) PROVE InOrder'
  <2> SUFFICES ASSUME NEW i \in 1 .. Len(inbox'), NEW j \in 1 .. Len(inbox'), i < j
               PROVE  Before(inbox'[i], inbox'[j])
    BY DEF InOrder, Before
  <2>1. i \in 1 .. Len(inbox) /\ inbox'[i] = inbox[i] /\ inbox[i] \in Event
    BY <1>1, <1>5, AppendIs
  <2>2. CASE j \in 1 .. Len(inbox)
    <3>1. inbox'[j] = inbox[j]
      BY <1>1, <1>5, <2>2, AppendIs
    <3> QED
      BY <2>1, <2>2, <3>1 DEF InOrder
  <2>3. CASE j = Len(inbox) + 1
    <3>1. inbox'[j] = e
      BY <1>1, <1>5, <2>3, AppendIs
    <3>2. PICK d \in Event : d = inbox'[i]
      BY <2>1
    <3>3. EventTrue(d)'
      BY <3>2 DEF IInv, InboxTrue
    <3>4. Before(d, e)
      BY <1>5, <3>3, FreshIsLast
    <3> QED
      BY <3>1, <3>2, <3>4
  <2> QED
    BY <1>1, <1>5, <2>2, <2>3, AppendIs
<1> QED
  BY <1>2, <1>3, <1>4, <1>5, InboxSteps

\* While the client follows the same match and shows the same state.
LEMMA AheadStays ==
    ASSUME Types, Types', IInv, IInv', Held', Ahead, [Next]_vars,
           UNCHANGED shown, tracker'.match = tracker.match
    PROVE  Ahead'
<1>1. inbox \in Seq(Event)
  BY DEF Types, WireTypes
<1>2. \A e : Beyond(e) => Beyond(e)'
  BY DEF Beyond
<1>3. CASE inbox' = inbox
  BY <1>3 DEF Ahead, Beyond
<1>4. CASE inbox # <<>> /\ inbox' = Tail(inbox)
  <2>1. \A i \in 1 .. Len(inbox') : i + 1 \in 1 .. Len(inbox) /\ inbox'[i] = inbox[i + 1]
    BY <1>1, <1>4, TailIs
  <2> QED
    BY <2>1 DEF Ahead, Beyond
<1>5. CASE inbox' = <<>>
  BY <1>5 DEF Ahead
<1>6. ASSUME NEW e \in Event, EventTrue(e)', Fresh(e)', inbox' = Append(inbox, e) PROVE Ahead'
  <2>1. Beyond(e)'
    BY <1>6, FreshIsBeyond
  <2>2. ASSUME NEW i \in 1 .. Len(inbox') PROVE inbox'[i] = e \/ (i \in 1 .. Len(inbox) /\ inbox'[i] = inbox[i])
    BY <1>1, <1>6, AppendIs
  <2>3. ASSUME NEW i \in 1 .. Len(inbox'), NEW d, d = inbox'[i] PROVE Beyond(d)'
    <3>1. CASE d = e
      BY <2>1, <3>1
    <3>2. CASE i \in 1 .. Len(inbox) /\ d = inbox[i]
      BY <1>2, <3>2 DEF Ahead
    <3> QED
      BY <2>2, <2>3, <3>1, <3>2
  <2> QED
    BY <2>3 DEF Ahead
<1> QED
  BY <1>3, <1>4, <1>5, <1>6, InboxSteps

\* When the event at the head has been taken.
LEMMA AheadOfHead ==
    ASSUME Types, InOrder, Ahead, inbox # <<>>, inbox' = Tail(inbox),
           \A e \in Event : Before(Head(inbox), e) /\ Beyond(e) => Beyond(e)'
    PROVE  Ahead'
<1>1. inbox \in Seq(Event) /\ Len(inbox) \in Nat
  BY LenProperties DEF Types, WireTypes
<1>2. ASSUME NEW i \in 1 .. Len(inbox'), NEW e, e = inbox'[i] PROVE Beyond(e)'
  <2>1. i + 1 \in 1 .. Len(inbox) /\ e = inbox[i + 1] /\ e \in Event /\ 1 \in 1 .. Len(inbox) /\ Head(inbox) = inbox[1]
    BY <1>1, <1>2, TailIs
  <2>2. Before(Head(inbox), e)
    BY <1>1, <2>1 DEF InOrder
  <2> QED
    BY <2>1, <2>2 DEF Ahead
<1> QED
  BY <1>2 DEF Ahead

\* What is shown stays, or goes on, or is a late answer.
GoesOn ==
    \/ shown'.match > shown.match
    \/ shown'.match = shown.match /\ (shown'.id >= shown.id \/ late')

LEMMA CreatedOnward ==
    ASSUME Types, Types', IInv, IInv', Onward, [Next]_vars, OnCreatedMatch
    PROVE  Held' /\ Ahead' /\ GoesOn
<1> DEFINE e == Head(inbox)
<1>1. /\ inbox # <<>> /\ inbox' = Tail(inbox) /\ e \in Event /\ e.kind = "createdMatch" /\ UNCHANGED shown
      /\ Beyond(e) /\ tracker \in Track /\ shown \in Track
  <2>1. inbox \in Seq(Event) /\ inbox # <<>> /\ inbox' = Tail(inbox) /\ e.kind = "createdMatch" /\ UNCHANGED shown
    BY DEF OnCreatedMatch, Receives, Types, WireTypes
  <2>2. e \in Event /\ 1 \in 1 .. Len(inbox) /\ e = inbox[1]
    BY <2>1, TailIs, HeadTailProperties
  <2> QED
    BY <2>1, <2>2 DEF Onward, Ahead, Types, TrackTypes
<1>2. shown.match \in Nat /\ tracker.match \in Nat /\ shown.id \in Nat /\ e.match \in Nat /\ tracker.match <= e.match
  BY <1>1 DEF Beyond, Track, Event
<1>3. GoesOn
  BY <1>1, <1>2 DEF GoesOn
<1>4. CASE tracker' = tracker
  <2>1. Held'
    BY <1>1, <1>4 DEF Onward, Held
  <2> QED
    BY <1>1, <1>3, <1>4, <2>1, AheadStays DEF Onward
<1>5. CASE tracker' = [NoTrack EXCEPT !.match = e.match]
  <2>1. tracker'.match = e.match /\ ~tracker'.synced
    BY <1>5 DEF NoTrack
  <2>2. Held'
    BY <1>1, <1>2, <2>1 DEF Onward, Held
  <2>3. \A d \in Event : Before(e, d) /\ Beyond(d) => Beyond(d)'
    BY <1>1, <2>1 DEF Before, Beyond
  <2> QED
    BY <1>1, <1>3, <2>2, <2>3, AheadOfHead DEF Onward
<1> QED
  BY <1>4, <1>5 DEF OnCreatedMatch

\* A sync or a patch that the tracker takes is shown.
LEMMA AppliedOnward ==
    ASSUME Types, Types', IInv, IInv', Onward, [Next]_vars, OnSync \/ OnPatch
    PROVE  Held' /\ Ahead' /\ GoesOn
<1> DEFINE e == Head(inbox)
<1>1. /\ inbox # <<>> /\ inbox' = Tail(inbox) /\ e \in Event /\ Beyond(e)
      /\ tracker \in Track /\ shown \in Track
  <2>1. inbox \in Seq(Event) /\ inbox # <<>> /\ inbox' = Tail(inbox)
    BY DEF OnSync, OnPatch, Receives, Types, WireTypes
  <2>2. e \in Event /\ 1 \in 1 .. Len(inbox) /\ e = inbox[1]
    BY <2>1, TailIs, HeadTailProperties
  <2> QED
    BY <2>1, <2>2 DEF Onward, Ahead, Types, TrackTypes
<1>2. shown.match \in Nat /\ tracker.match \in Nat /\ shown.id \in Nat /\ tracker.id \in Nat /\ e.match \in Nat /\ e.id \in Nat
  BY <1>1 DEF Track, Event
<1>3. CASE UNCHANGED <<tracker, shown>>
  <2>1. Held' /\ GoesOn
    BY <1>2, <1>3 DEF Onward, Held, GoesOn
  <2> QED
    BY <1>3, <2>1, AheadStays DEF Onward
<1>4. ASSUME e.kind \in {"sync", "patch"}, tracker.match = e.match, tracker'.match = e.match, tracker'.id = e.id,
             tracker'.synced, shown' = tracker',
             e.kind = "patch" => tracker.synced /\ tracker.id < e.id,
             e.kind = "sync" => e.fits \/ late'
      PROVE  Held' /\ Ahead' /\ GoesOn
  <2>1. Held'
    BY <1>2, <1>4 DEF Held
  <2>2. \A d \in Event : Before(e, d) /\ Beyond(d) => Beyond(d)'
    BY <1>4 DEF Before, Beyond
  <2>3. Ahead'
    BY <1>1, <2>2, AheadOfHead DEF Onward
  <2>4. GoesOn
    <3>1. shown.match <= e.match /\ (tracker.synced => shown = tracker)
      BY <1>4 DEF Onward, Held
    <3>2. CASE e.kind = "patch"
      BY <1>2, <1>4, <3>1, <3>2 DEF GoesOn
    <3>3. CASE e.kind = "sync"
      BY <1>1, <1>2, <1>4, <3>1, <3>3 DEF GoesOn, Beyond
    <3> QED
      BY <1>4, <3>2, <3>3
  <2> QED
    BY <2>1, <2>3, <2>4
<1>5. CASE OnSync
  <2>1. /\ ApplySync(tracker, e.id).match = tracker.match /\ ApplySync(tracker, e.id).id = e.id
        /\ ApplySync(tracker, e.id).synced
    BY <1>1 DEF ApplySync, Track
  <2>2. e.kind = "sync"
    BY <1>5 DEF OnSync, Receives
  <2>3. CASE tracker' = ApplySync(tracker, e.id) /\ shown' = tracker' /\ late' = ~e.fits /\ tracker.match = e.match
    BY <1>4, <2>1, <2>2, <2>3
  <2> QED
    BY <1>3, <1>5, <2>3 DEF OnSync
<1>6. CASE OnPatch
  <2>1. /\ ApplyPatch(tracker, e).match = tracker.match /\ ApplyPatch(tracker, e).id = e.id
        /\ ApplyPatch(tracker, e).synced = tracker.synced
    BY <1>1 DEF ApplyPatch, Track
  <2>2. e.kind = "patch"
    BY <1>6 DEF OnPatch, Receives
  <2>3. CASE tracker' = ApplyPatch(tracker, e) /\ shown' = tracker' /\ Follows(tracker, e) /\ tracker.match = e.match
    <3>1. tracker.synced /\ tracker.id < e.id
      BY <1>2, <2>3 DEF Follows
    <3> QED
      BY <1>4, <2>1, <2>2, <2>3, <3>1
  <2> QED
    BY <1>3, <1>6, <2>3 DEF OnPatch
<1> QED
  BY <1>5, <1>6

LEMMA OnwardStep ==
    ASSUME Types, Types', IInv, IInv', Onward, [Next]_vars
    PROVE  Onward' /\ GoesOn
<1> USE DEF site, connection, control, quiet
<1>1. shown.match \in Nat /\ shown.id \in Nat
  BY DEF Types, TrackTypes, Track
<1>2. CASE UNCHANGED <<tracker, shown>>
  <2>1. Held' /\ GoesOn
    BY <1>1, <1>2 DEF Onward, Held, GoesOn
  <2> QED
    BY <1>2, <2>1, AheadStays, InOrderStep DEF Onward
<1>3. CASE OnCreatedMatch \/ OnSync \/ OnPatch
  BY <1>3, CreatedOnward, AppliedOnward, InOrderStep DEF Onward
<1>4. CASE OnMatchData
  BY <1>2, <1>4 DEF OnMatchData, Onward, Held
<1>5. CASE OnUpdateServerURL \/ OnUpdate \/ OnPlayNextMatch \/ OnRoomTimeout \/ OnWrongNamespace \/ OnSyncError
  BY <1>2, <1>5 DEF OnUpdateServerURL, OnUpdate, OnPlayNextMatch, OnRoomTimeout, OnWrongNamespace, OnSyncError
<1>6. CASE Play \/ PlayNext \/ Visit \/ SiteFails \/ Stop \/ Answers \/ UNCHANGED vars
  BY <1>2, <1>6 DEF Play, PlayNext, Visit, SiteFails, Stop, Answers, AnswerDefault, AnswerSync, vars
<1>7. CASE Runs
  BY <1>2, <1>7 DEF Runs, Checks, Connects, Joins, JoinTimesOut, Leaves, Disconnects, Resumes, Finishes
<1> QED
  BY <1>3, <1>4, <1>5, <1>6, <1>7 DEF Next, Handles

\* What is shown of a match never goes back, but for an answer that a move overtook,
\* and a match never comes back: through reconnects, redirects and re-syncs.
THEOREM NoWayBack == Safe => RollbackTakesLateSync
<1>1. Init => Onward
  <2>1. ASSUME Init PROVE Onward
    <3>1. tracker = NoTrack /\ shown = NoTrack /\ inbox = <<>>
      BY <2>1 DEF Init
    <3> QED
      BY <3>1 DEF Onward, Held, InOrder, Ahead, NoTrack
  <2> QED
    BY <2>1
<1>2. Types /\ IInv /\ Types' /\ IInv' /\ Onward /\ [Next]_vars => Onward'
  BY OnwardStep
<1>3. Types /\ IInv /\ Types' /\ IInv' /\ Onward /\ [Next]_vars => [GoesOn]_vars
  BY OnwardStep
<1>4. GoesOn <=> \/ shown'.match > shown.match
                 \/ shown'.match = shown.match /\ (shown'.id >= shown.id \/ late')
  BY DEF GoesOn
<1>5. Safe => [][GoesOn]_vars
  BY <1>1, <1>2, <1>3, Inductive, PTL DEF Safe
<1> QED
  BY <1>5 DEF RollbackTakesLateSync, GoesOn
===============================================================================

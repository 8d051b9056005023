---------------------------- MODULE BridgeLineups ----------------------------
(***************************************************************************)
(* The tournament bridge's bindings.  A tournament binds a Discord channel *)
(* to one of its matches and keeps the binding up to date with the line-up *)
(* of the match's current game.  The card shows the line-up while the bot  *)
(* takes it to be current, which it decides from the results it has queued *)
(* for the channel (codenames_lineup_is_current).                          *)
(*                                                                         *)
(* The tournament is external.  It works out a line-up when it has dealt   *)
(* with every result reported from the channel, by processing it or by     *)
(* logging the game by hand ("The tournament only sends a line-up after it *)
(* has processed the last result from the thread"), and that line-up is    *)
(* bound at once (one that reached the bot only after a later report would *)
(* be shown although it is stale).  The last line-up may be sent again at  *)
(* any time, but not once it was withdrawn by a binding without one.       *)
(***************************************************************************)
EXTENDS Bridge, Naturals, Sequences, SequencesExt

CONSTANT
    MaxLineups   \* bound: line-ups a tournament works out for a channel

ASSUME LineupsAssumption ==
    /\ None \notin Events
    /\ MaxLineups \in Nat

VARIABLES
    bindings,   \* each channel's row of codenames_bindings
    rows,       \* the outbox, in the order of its ids: a result's event and channel
    finishing,  \* calls of on_game_finished that have read the binding
    processed,  \* external: results the tournament has processed, in that order
    sent        \* external: the line-up last sent for each channel

lineupsVars == <<bindings, rows, finishing, processed, sent>>

\* What tells two line-ups apart is their number and the last result they
\* name; `covers' (not sent) are the results the tournament had dealt with.
Lineup == [number : 1 .. MaxLineups, last : Events \cup {None}, covers : SUBSET Events]
Binding == [lineup : Lineup \cup {None}, after : Nat]
Result == [event : Events, channel : Channels]

LineupsTypeOK ==
    /\ bindings \in [Channels -> Binding \cup {None}]
    /\ rows \in Seq(Result)
    /\ finishing \subseteq Result
    /\ processed \in Seq(Result)
    /\ sent \in [Channels -> Lineup \cup {None}]

LineupsInit ==
    /\ bindings = [c \in Channels |-> None]
    /\ rows = <<>>
    /\ finishing = {}
    /\ processed = <<>>
    /\ sent = [c \in Channels |-> None]

Reported(c) == {r.event : r \in {x \in Range(rows) : x.channel = c}}

LatestId_Null(c) ==
    IF Reported(c) = {} THEN None ELSE SelectLastInSeq(rows, LAMBDA r : r.channel = c)

\* _latest_outbox_id: the id of the channel's last result, 0 if there is none
LatestId(c) == SelectLastInSeq(rows, LAMBDA r : r.channel = c)

-----------------------------------------------------------------------------
LineupAfter_EveryBind(c, lineup) == LatestId(c)

\* A line-up sent again unchanged keeps the outbox id it was first stored after.
LineupAfter(c, lineup) ==
    IF bindings[c] # None /\ bindings[c].lineup = lineup
    THEN bindings[c].after
    ELSE LatestId(c)

\* upsert_codenames_binding
Upsert(c, lineup) ==
    bindings' = [bindings EXCEPT ![c] = [lineup |-> lineup, after |-> LineupAfter(c, lineup)]]

\* The tournament binds the channel without a line-up.
BindBare(c) ==
    /\ Upsert(c, None)
    /\ UNCHANGED <<rows, finishing, processed, sent>>

\* The last result of the channel the tournament has processed.
LastProcessed(c) ==
    LET i == SelectLastInSeq(processed, LAMBDA r : r.channel = c)
    IN IF i = 0 THEN None ELSE processed[i].event

NextNumber(c) == IF sent[c] = None THEN 1 ELSE sent[c].number + 1

\* The tournament has dealt with all results and binds the next line-up.
BindNewLineup(c) ==
    LET lineup == [number |-> NextNumber(c), last |-> LastProcessed(c), covers |-> Reported(c)] IN
    /\ NextNumber(c) <= MaxLineups
    /\ Upsert(c, lineup)
    /\ sent' = [sent EXCEPT ![c] = lineup]
    /\ UNCHANGED <<rows, finishing, processed>>

\* It sends the line-up again: a retry, or a change of players or deadline.
BindAgain(c) ==
    /\ bindings[c] # None
    /\ bindings[c].lineup # None
    /\ Upsert(c, sent[c])
    /\ UNCHANGED <<rows, finishing, processed, sent>>

\* remove_codenames_binding; the tournament has finished with the channel.
Unbind(c) ==
    /\ bindings[c] # None
    /\ bindings' = [bindings EXCEPT ![c] = None]
    /\ UNCHANGED <<rows, finishing, processed, sent>>

\* on_game_finished reads the binding ...
GameFinished(c, e) ==
    /\ bindings[c] # None
    /\ finishing' = finishing \cup {[event |-> e, channel |-> c]}
    /\ UNCHANGED <<bindings, rows, processed, sent>>

\* ... and queues the result, unless its event id is taken.
QueueResult(r) ==
    /\ r \in finishing
    /\ finishing' = finishing \ {r}
    /\ rows' = IF \E x \in Range(rows) : x.event = r.event THEN rows ELSE Append(rows, r)
    /\ UNCHANGED <<bindings, processed, sent>>

\* External: a result arrives and is processed, in whatever order they come.
Process(r) ==
    /\ r \in Range(rows) \ Range(processed)
    /\ processed' = Append(processed, r)
    /\ UNCHANGED <<bindings, rows, finishing, sent>>

\* The process dies: the calls of on_game_finished are lost.
CallsLost ==
    /\ finishing # {}
    /\ finishing' = {}
    /\ UNCHANGED <<bindings, rows, processed, sent>>

LineupsNext ==
    \/ \E c \in Channels : BindBare(c) \/ BindNewLineup(c) \/ BindAgain(c) \/ Unbind(c)
    \/ \E c \in Channels, e \in Events : GameFinished(c, e)
    \/ \E r \in Result : QueueResult(r) \/ Process(r)
    \/ CallsLost

LineupsSpec == LineupsInit /\ [][LineupsNext]_lineupsVars

-----------------------------------------------------------------------------
\* codenames_lineup_is_current
LineupIsCurrent_AnyRow(c) ==
    /\ bindings[c] # None
    /\ bindings[c].lineup # None
    /\ LET latest == Len(rows)
       IN \/ latest = 0
          \/ bindings[c].lineup.last = rows[latest].event
          \/ bindings[c].after >= latest

LineupIsCurrent(c) ==
    /\ bindings[c] # None
    /\ bindings[c].lineup # None
    /\ LET latest == LatestId(c)
       IN \/ latest = 0
          \/ bindings[c].lineup.last = rows[latest].event
          \/ bindings[c].after >= latest

(***************************************************************************)
(* "this bot ignores a line-up older than its last report, so a stale one  *)
(* is never shown": a line-up on the card is one the tournament worked out *)
(* when it had dealt with every result reported from the channel, also     *)
(* when it was sent again after a report (docs/tournament-bridge.md).      *)
(***************************************************************************)
StaleLineupNeverShown ==
    \A c \in Channels : LineupIsCurrent(c) => Reported(c) \subseteq bindings[c].lineup.covers

(***************************************************************************)
(* The other way round: the tournament's last line-up, bound when every    *)
(* result was dealt with and none reported since, is not held back (or the *)
(* players would be told nothing before their next game).                  *)
(***************************************************************************)
FreshLineupShown ==
    \A c \in Channels :
        /\ bindings[c] # None
        /\ bindings[c].lineup # None
        /\ Reported(c) \subseteq bindings[c].lineup.covers
        => LineupIsCurrent(c)
=============================================================================

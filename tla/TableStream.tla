---------------------------- MODULE TableStream ----------------------------
(***************************************************************************)
(* How a worker follows a game on Board Game Arena: watch_table of         *)
(* bga/client.py, and what bga/monitor.py stores of the states it yields.  *)
(*                                                                         *)
(* A session loads the table's public page, connects, subscribes to the    *)
(* table's channel, asks who is present, and from then on interprets the   *)
(* packets that the channel brings.  The page tells who is to move;        *)
(* packets tell what has changed.  Nothing that was published between the  *)
(* page and the subscription is sent again.  The game and the channel are  *)
(* external.                                                               *)
(***************************************************************************)
EXTENDS Naturals, FiniteSets, Sequences, SequencesExt

CONSTANTS
    Players,     \* who plays at the table
    Guests,      \* ids that the page or the channel names and that do not play
    MaxPackets,  \* bound: packets published
    FaultKinds,  \* what may go wrong: some of the kinds below
    MaxFaults    \* bound: faults

ASSUME StreamAssumption ==
    /\ IsFiniteSet(Players) /\ Players # {}
    /\ IsFiniteSet(Guests) /\ Guests \cap Players = {}
    /\ {MaxPackets, MaxFaults} \subseteq Nat
    /\ FaultKinds \subseteq {"failure", "crash", "roster", "presence"}

Ids == Players \cup Guests

\* An event of a packet.  An item of a frame is a packet, which is a sequence of
\* events, or the reply to a command.
\* "set" stands for the three that say who is to move: gameStateMultipleActiveUpdate,
\* a gameStateChange with one active player, and endPrivateAction (nobody).
Kinds == {"set", "ack", "begin", "recap", "over"}
Event(kind, ids) == [kind |-> kind, ids |-> ids]
Reply == <<>>

\* BgaNotificationState: whether it tells who is waited for (waiting_ids is not
\* None), who that is, the names, and whether the game is over.
States == [tells : BOOLEAN, waiting : SUBSET Ids, names : SUBSET Ids, over : BOOLEAN]
Names(names) == [tells |-> FALSE, waiting |-> {}, names |-> names, over |-> FALSE]
Tells(waiting, names) == [tells |-> TRUE, waiting |-> waiting, names |-> names, over |-> FALSE]
Finished(names) == [tells |-> TRUE, waiting |-> {}, names |-> names, over |-> TRUE]

NoSession == [pc |-> "snapshot", waiting |-> {}, known |-> {}, roster |-> {},
              page |-> Names({}), pending |-> <<>>, out |-> <<>>]

VARIABLES
    game,       \* external: who is to move, and whether the game is over
    published,  \* packets published
    fallback,   \* the setting BGA_ENABLE_TABLEINFOS_FALLBACK
    cached,     \* whether the table's roster is in _roster_cache
    watch,      \* the subscription: open, last_waiting_ids and player_names
    session,    \* the worker and its call of watch_table
    joined,     \* external: whether the channel reaches the session
    socket,     \* external: frames sent and not yet received
    faults,
    missed      \* history: the session may not know who is to move

channel == <<joined, socket>>
vars == <<game, published, fallback, cached, watch, session, channel, faults, missed>>

Steps == {"snapshot", "page", "connect", "subscribe", "presence", "html", "pending", "stream", "done"}
Packets == Seq([kind : Kinds, ids : SUBSET Players]) \ {Reply}

TypeOK ==
    /\ game \in [turn : SUBSET Players, over : BOOLEAN]
    /\ published \in 0 .. MaxPackets
    /\ {fallback, cached, joined, missed} \subseteq BOOLEAN
    /\ watch \in [open : BOOLEAN, waiting : SUBSET Ids, names : SUBSET Ids]
    /\ session \in [pc : Steps, waiting : SUBSET Ids, known : SUBSET Ids,
                    roster : SUBSET Players, page : States,
                    pending : Seq(Packets), out : Seq(States)]
    /\ socket \in Seq(Seq(Packets \cup {Reply}))
    /\ faults \in 0 .. MaxFaults

Init ==
    /\ game \in [turn : SUBSET Players, over : {FALSE}]
    /\ published = 0
    /\ fallback \in BOOLEAN
    /\ cached = FALSE
    /\ watch = [open |-> TRUE, waiting |-> {}, names |-> {}]
    /\ session = NoSession
    /\ joined = FALSE /\ socket = <<>>
    /\ faults = 0
    /\ missed = TRUE

Fault(kind) ==
    /\ kind \in FaultKinds
    /\ faults < MaxFaults
    /\ faults' = faults + 1

SessionGoes(pc) == session' = [session EXCEPT !.pc = pc]

-----------------------------------------------------------------------------
(***************************************************************************)
(* External: the game and its channel.                                     *)
(***************************************************************************)
\* What is sent reaches the session in a frame of its own, or in one with what
\* was sent before.
Sent(item) ==
    {Append(socket, <<item>>)}
        \cup (IF socket = <<>> THEN {}
              ELSE {[socket EXCEPT ![Len(socket)] = Append(@, item)]})

\* What a packet says of the turn is complete, unless it only removes a player or
\* acknowledges one, or takes those it knows by name for everybody.  (An
\* acknowledgement in the packet that opens a turn of several players replaces
\* them: the code looks at who was waited for before the packet.)
Complete(packet) ==
    LET last == packet[Len(packet)] IN
    \/ last.kind \in {"set", "over"}
    \/ last.kind = "begin" /\ session.roster # {}

Publish(packet, turn, over) ==
    /\ ~game.over
    /\ published < MaxPackets
    /\ published' = published + 1
    /\ game' = [turn |-> turn, over |-> over]
    /\ IF joined THEN socket' \in Sent(packet) ELSE UNCHANGED socket
    /\ missed' = IF joined /\ Complete(packet) THEN FALSE
                 ELSE IF joined /\ Len(packet) = 1 /\ packet[1].kind # "begin" THEN missed
                 ELSE TRUE
    /\ UNCHANGED <<fallback, cached, watch, session, joined, faults>>

GameMoves ==
    \/ \E s \in SUBSET Players : Publish(<<Event("set", s)>>, s, FALSE)
    \/ \E s \in SUBSET Players : \E p \in s :
            Publish(<<Event("set", s), Event("ack", {p})>>, s, FALSE)
    \/ \E p \in game.turn : Publish(<<Event("ack", {p})>>, game.turn, FALSE)
    \/ Publish(<<Event("begin", {})>>, Players, FALSE)
    \/ \E p \in game.turn : Publish(<<Event("recap", {p})>>, game.turn \ {p}, FALSE)

GameEnds ==
    \/ Publish(<<Event("over", {})>>, {}, TRUE)
    \/ \E p \in Players : Publish(<<Event("over", {}), Event("set", {p})>>, {}, TRUE)

\* _connect and _connect_and_subscribe: from the subscription on, what is published is sent.
Connects ==
    /\ session.pc = "connect"
    /\ SessionGoes("subscribe")
    /\ joined' = TRUE
    /\ socket' = <<<<Reply>>>>
    /\ UNCHANGED <<game, published, fallback, cached, watch, faults, missed>>

Replies == {i \in DOMAIN socket : Reply \in ToSet(socket[i])}

\* An answer that comes too late finds the session in the stream.
ChannelAnswers ==
    /\ session.pc = "presence"
    /\ Replies = {}
    /\ socket' \in Sent(Reply)
    /\ UNCHANGED <<game, published, fallback, cached, watch, session, joined, faults, missed>>

-----------------------------------------------------------------------------
(***************************************************************************)
(* What states are made of packets.                                        *)
(***************************************************************************)
\* One event of _extract_states_from_packet.  `before` is who was waited for
\* when the packet came; an acknowledgement counts only if that is one at most.
Heeds_Always(before) == TRUE
Heeds(before) == Cardinality(before) <= 1

\* A form that takes a turn of nobody for the end of the game.
Interpret_NobodyIsTheEnd(was, e, before, known) ==
    LET set(waiting) == [was EXCEPT !.waiting = waiting, !.tells = TRUE] IN
    IF was.over THEN was
    ELSE CASE e.kind = "set" -> IF e.ids = {} THEN Finished(known) ELSE set(e.ids)
           [] e.kind = "ack" -> IF Heeds(before) THEN set(e.ids) ELSE was
           [] e.kind = "begin" -> set(known \cup was.waiting)
           [] e.kind = "recap" -> IF e.ids \subseteq was.waiting THEN set(was.waiting \ e.ids) ELSE was
           [] e.kind = "over" -> Finished(known)

Interpret(was, e, before, known) ==
    LET set(waiting) == [was EXCEPT !.waiting = waiting, !.tells = TRUE] IN
    IF was.over THEN was
    ELSE CASE e.kind = "set" -> set(e.ids)
           [] e.kind = "ack" -> IF Heeds(before) THEN set(e.ids) ELSE was
           [] e.kind = "begin" -> set(known \cup was.waiting)
           [] e.kind = "recap" -> IF e.ids \subseteq was.waiting THEN set(was.waiting \ e.ids) ELSE was
           [] e.kind = "over" -> Finished(known)

FromPacket(packet, waiting, known) ==
    FoldLeft(LAMBDA was, e : Interpret(was, e, waiting, known),
             [Names(known) EXCEPT !.waiting = waiting], packet)

\* _extract_states_from_items: the states of the packets that tell something.
FromItems(items, waiting, known) ==
    LET next(acc, item) ==
            LET state == FromPacket(item, acc.waiting, known) IN
            IF state.tells THEN [waiting |-> state.waiting, out |-> Append(acc.out, state)] ELSE acc
    IN  FoldLeft(next, [waiting |-> waiting, out |-> <<>>], items).out

\* _sanitize_state_with_roster
Sanitise(state, roster) ==
    IF roster = {} THEN state
    ELSE [state EXCEPT !.names = roster, !.waiting = @ \cap roster]

-----------------------------------------------------------------------------
(***************************************************************************)
(* A session                                                               *)
(***************************************************************************)
\* The subscription is removed, and the sync loop cancels the worker.
Ended == [NoSession EXCEPT !.pc = "done"]
Closes ==
    /\ watch' = [watch EXCEPT !.open = FALSE, !.waiting = {}, !.names = {}]
    /\ session' = Ended

\* The worker fetches the table's state first (fetch_public_table_snapshot), and
\* starts a session with what the subscription and the state say.
Snapshots ==
    /\ session.pc = "snapshot"
    /\ IF game.over
       THEN Closes
       ELSE /\ session' = [session EXCEPT !.pc = "page", !.waiting = watch.waiting,
                                          !.known = watch.names \cup Players]
            /\ UNCHANGED watch
    /\ UNCHANGED <<game, published, fallback, cached, channel, faults, missed>>

\* _extract_initial_state_from_html: the names on the page, and who is to move
\* if the state of the game says so; the last player's turn, if it is over.
Pages ==
    LET tells == IF game.over THEN {{p} : p \in Players} ELSE {game.turn} \ {{}} IN
    {Names({}), Names(Ids)} \cup {Tells(turn, Ids) : turn \in tells}

\* What the table's infos bring: its players, or nothing if they cannot be had.
Rosters == {Players, {}}

\* _load_public_player_roster: a cached roster is used; a fetch may fail.
LoadsRoster(page) ==
    \E roster \in Rosters :
        /\ roster = {} => Fault("roster") /\ ~cached
        /\ roster # {} => UNCHANGED faults
        /\ cached' = (roster # {})
        /\ session' = [session EXCEPT !.pc = "connect", !.page = page, !.roster = roster,
                                      !.known = @ \cup roster]

\* _load_public_bootstrap.  A page that leads elsewhere ends the watch.
LoadsPage ==
    /\ session.pc = "page"
    /\ \/ \E page \in Pages :
            /\ LoadsRoster(page)
            /\ missed' = (missed /\ (game.over \/ ~page.tells))
            /\ UNCHANGED watch
       \/ /\ game.over
          /\ Closes
          /\ UNCHANGED <<cached, faults, missed>>
    /\ UNCHANGED <<game, published, fallback, channel>>

\* _send_command_and_wait takes one frame: what precedes the reply is pending,
\* what follows it in the same frame is dropped.
\* A form that keeps the reply, too.
Before_Through(frame) == IF Reply \in ToSet(frame)
                         THEN SelectInSeq(frame, LAMBDA item : item = Reply)
                         ELSE Len(frame)

Before(frame) == IF Reply \in ToSet(frame)
                 THEN SelectInSeq(frame, LAMBDA item : item = Reply) - 1
                 ELSE Len(frame)
Dropped(frame) == Len(frame) > Before(frame) + 1

AwaitsReply(pc, out) ==
    LET frame == Head(socket) IN
    /\ socket # <<>>
    /\ socket' = Tail(socket)
    /\ session' = [session EXCEPT
            !.pending = @ \o SubSeq(frame, 1, Before(frame)),
            !.pc = IF Reply \in ToSet(frame) THEN pc ELSE @,
            !.out = IF Reply \in ToSet(frame) THEN out ELSE @]
    /\ missed' = (missed \/ Dropped(frame))
    /\ UNCHANGED <<game, published, fallback, cached, watch, joined, faults>>

Subscribes == session.pc = "subscribe" /\ AwaitsReply("presence", <<>>)

\* _request_presence brings the names of those who watch; without an answer the
\* session goes on.
Presence ==
    /\ session.pc = "presence"
    /\ \/ AwaitsReply("html", <<Names(session.known \cup Guests)>>)
       \/ /\ Fault("presence")
          /\ SessionGoes("html")
          /\ UNCHANGED <<game, published, fallback, cached, watch, channel, missed>>

\* The page's state is next, and then what came during the commands.
Bootstrap(page) == IF page = Names({}) THEN <<>> ELSE <<[page EXCEPT !.names = @ \cup session.known]>>

YieldsPage ==
    /\ session.pc = "html" /\ session.out = <<>>
    /\ session' = [session EXCEPT !.pc = "pending", !.out = Bootstrap(session.page),
                                  !.page = Names({})]
    /\ UNCHANGED <<game, published, fallback, cached, watch, channel, faults, missed>>

YieldsPending ==
    /\ session.pc = "pending" /\ session.out = <<>>
    /\ session' = [session EXCEPT !.pc = "stream", !.pending = <<>>,
            !.out = FromItems(session.pending, session.waiting, session.known)]
    /\ UNCHANGED <<game, published, fallback, cached, watch, channel, faults, missed>>

Receives ==
    /\ session.pc = "stream" /\ session.out = <<>>
    /\ socket # <<>>
    /\ socket' = Tail(socket)
    /\ session' = [session EXCEPT !.out = FromItems(Head(socket), session.waiting, session.known)]
    /\ UNCHANGED <<game, published, fallback, cached, watch, joined, faults, missed>>

\* A form that polls if the setting forbids it.
Polls_Inverted ==
    /\ session.pc = "stream" /\ session.out = <<>> /\ socket = <<>>
    /\ ~fallback /\ game.over
    /\ session' = [session EXCEPT !.out = <<Finished(session.known)>>]
    /\ UNCHANGED <<game, published, fallback, cached, watch, channel, faults, missed>>

\* After 30 quiet seconds, if the setting allows it: is the game over?
Polls ==
    /\ session.pc = "stream" /\ session.out = <<>> /\ socket = <<>>
    /\ fallback /\ game.over
    /\ session' = [session EXCEPT !.out = <<Finished(session.known)>>]
    /\ UNCHANGED <<game, published, fallback, cached, watch, channel, faults, missed>>

\* A state is yielded, and _apply_table_state stores it: one that does not tell
\* who is waited for keeps who that was, one of a finished game ends the watch.
Yields ==
    LET state == Sanitise(Head(session.out), session.roster) IN
    /\ session.out # <<>>
    /\ IF state.over
       THEN Closes /\ joined' = FALSE /\ socket' = <<>>
       ELSE /\ session' = [session EXCEPT
                    !.out = Tail(@),
                    !.waiting = IF state.tells THEN state.waiting ELSE @,
                    !.known = state.names]
            /\ watch' = [watch EXCEPT
                    !.waiting = IF state.tells THEN state.waiting ELSE @,
                    !.names = @ \cup state.names]
            /\ UNCHANGED channel
    /\ UNCHANGED <<game, published, fallback, cached, faults, missed>>

\* Anything the session does may fail; after a while the worker starts again.
StartsOver ==
    /\ session' = NoSession
    /\ joined' = FALSE /\ socket' = <<>>
    /\ missed' = TRUE
    /\ UNCHANGED <<game, published, fallback, watch>>

Fails ==
    /\ session.pc \notin {"snapshot", "done"}
    /\ Fault("failure")
    /\ StartsOver
    /\ UNCHANGED cached

\* The bot restarts: the rosters are forgotten.
Crashes ==
    /\ session.pc # "done"
    /\ Fault("crash")
    /\ StartsOver
    /\ cached' = FALSE

SessionStep ==
    \/ Snapshots
    \/ LoadsPage
    \/ Connects
    \/ Subscribes
    \/ ChannelAnswers
    \/ Presence
    \/ YieldsPage
    \/ YieldsPending
    \/ Receives
    \/ Polls
    \/ Yields

Next ==
    \/ GameMoves
    \/ GameEnds
    \/ SessionStep
    \/ Fails
    \/ Crashes

Spec == Init /\ [][Next]_vars /\ WF_vars(SessionStep)

-----------------------------------------------------------------------------
(***************************************************************************)
(* Properties                                                              *)
(***************************************************************************)

\* When all that was sent has been dealt with, the bot waits for exactly the
\* players who are to move, however page, packets before and during the commands,
\* names and acknowledgements came together; unless the page did not say it and
\* nothing since did, or a packet fell between the page and the subscription, or
\* behind a reply, or the packet is one that the heuristics misread.
Quiet == session.pc = "stream" /\ session.out = <<>> /\ socket = <<>>
WaitsForTheRightPlayers ==
    Quiet /\ watch.open /\ ~missed => watch.waiting = game.turn

\* Nothing that a page, a packet or a poll brings is taken for the end of a game that
\* goes on, not even that it is nobody's turn: such a game stays watched
\* (_extract_states_from_packet, watch_table, _apply_table_state).
WatchedToTheEnd == ~watch.open => game.over

\* A game that is over is reported, whatever fails or restarts.  The only thing
\* that can keep the watch open is a healthy session that missed the end, as long
\* as nothing else ends that session and the setting is off.
EndReported == game.over ~> ~watch.open \/ (Quiet /\ missed /\ ~fallback)
=============================================================================

------------------------- MODULE TableStreamProofs -------------------------
(***************************************************************************)
(* Theorems about TableStream, for any players, guests and faults, and any *)
(* number of packets: types, that the bot waits for exactly those who are  *)
(* to move, and that the watch of a game that goes on is not ended.        *)
(*                                                                         *)
(* The second is about what is still to come.  A state that is to be       *)
(* yielded, the page, what is pending and what was sent lead to whom the   *)
(* bot will wait for; since the names that are known when a packet is      *)
(* interpreted are those of a later state, a packet leads from a set to    *)
(* some sets (ItemStep), and a sequence of packets where a path of such    *)
(* steps does (Leads).  The invariant says that everywhere it may lead are *)
(* the players who are to move (TurnKnown), and that the end of a game is  *)
(* in it (EndComing).                                                      *)
(***************************************************************************)
EXTENDS TableStream, SequenceTheorems, WellFoundedInduction, FiniteSetTheorems, TLAPS

-----------------------------------------------------------------------------
(* Segments, their greatest and least elements, and folds over sequences.  *)

\* Induction over an initial segment: a set that holds 0, and with a number the
\* next one, holds all.
LEMMA Climbs ==
    ASSUME NEW n \in Nat, NEW S, 0 \in S,
           \A i \in 1 .. n : i - 1 \in S => i \in S
    PROVE  0 .. n \subseteq S
<1> SUFFICES ASSUME 0 .. n \ S # {} PROVE FALSE
  OBVIOUS
<1>1. PICK m \in 0 .. n \ S : \A y \in 0 .. n \ S : ~ (<<y, m>> \in OpToRel(<, Nat))
  <2>1. 0 .. n \ S \subseteq Nat
    OBVIOUS
  <2> HIDE DEF OpToRel
  <2> QED
    BY <2>1, NatLessThanWellFounded, WFMin
<1>2. m \in 1 .. n
  OBVIOUS
<1>3. m - 1 \in S
  <2>1. m - 1 \in 0 .. n /\ m \in Nat /\ m - 1 \in Nat /\ m - 1 < m
    BY <1>2
  <2>2. m - 1 \in 0 .. n \ S => <<m - 1, m>> \in OpToRel(<, Nat)
    BY <2>1 DEF OpToRel
  <2> QED
    BY <1>1, <2>1, <2>2
<1> QED
  BY <1>2, <1>3

\* A set of positive numbers up to n has a greatest, which Max chooses, and a
\* least, which Min chooses.
LEMMA MaxOfSegment ==
    ASSUME NEW n \in Nat, NEW I \in SUBSET (1 .. n), I # {}
    PROVE  Max(I) \in I /\ \A i \in I : Max(I) >= i
<1> DEFINE S == {m \in 0 .. n : \A J \in SUBSET (1 .. m) : J # {} =>
                                  \E x \in J : \A y \in J : x >= y}
<1>1. 0 \in S
  <2>1. 1 .. 0 = {} /\ 0 \in 0 .. n
    OBVIOUS
  <2> QED
    BY <2>1
<1>2. ASSUME NEW m \in 1 .. n, m - 1 \in S PROVE m \in S
  <2> SUFFICES ASSUME NEW J \in SUBSET (1 .. m), J # {}
               PROVE  \E x \in J : \A y \in J : x >= y
    OBVIOUS
  <2>1. CASE m \in J
    <3>1. \A y \in J : m >= y
      OBVIOUS
    <3> QED
      BY <2>1, <3>1
  <2>2. CASE m \notin J
    <3>1. J \in SUBSET (1 .. (m - 1))
      BY <2>2
    <3> QED
      BY <1>2, <3>1
  <2> QED
    BY <2>1, <2>2
<1>3. n \in S
  <2> HIDE DEF S
  <2>1. 0 .. n \subseteq S
    BY <1>1, <1>2, Climbs
  <2>2. n \in 0 .. n
    OBVIOUS
  <2> QED
    BY <2>1, <2>2
<1>4. \E x \in I : \A y \in I : x >= y
  BY <1>3
<1> QED
  BY <1>4 DEF Max

\* And a least, which Min chooses.
LEMMA MinOfSegment ==
    ASSUME NEW n \in Nat, NEW I \in SUBSET (1 .. n), I # {}
    PROVE  Min(I) \in I /\ \A i \in I : i >= Min(I)
<1>1. PICK m \in I : \A y \in I : ~ (<<y, m>> \in OpToRel(<, Nat))
  <2>1. I \subseteq Nat
    OBVIOUS
  <2> HIDE DEF OpToRel
  <2> QED
    BY <2>1, NatLessThanWellFounded, WFMin
<1>2. \A y \in I : y >= m
  <2> TAKE y \in I
  <2>1. y \in Nat /\ m \in Nat
    OBVIOUS
  <2>2. ~ (y < m)
    BY <1>1, <2>1 DEF OpToRel
  <2> QED
    BY <2>1, <2>2
<1> QED
  BY <1>2 DEF Min

\* The greatest of the first m positions is m, and without it the first m - 1 remain.
LEMMA MaxOfFirst ==
    ASSUME NEW m \in Nat, m > 0
    PROVE  Max(1 .. m) = m /\ (1 .. m) \ {m} = 1 .. (m - 1)
<1>1. 1 .. m # {} /\ m \in 1 .. m
  OBVIOUS
<1>2. Max(1 .. m) \in 1 .. m /\ \A i \in 1 .. m : Max(1 .. m) >= i
  BY <1>1, MaxOfSegment
<1> QED
  BY <1>1, <1>2

\* The recursion behind a fold over n positions, with base b and step F, has a solution.
Unfolds(g, n, b, F, seq) ==
    g = [s \in SUBSET (1 .. n) |-> IF s = {} THEN b ELSE F[<<g[s \ {Max(s)}], seq[Max(s)]>>]]

\* Some function on the sets of positions unfolds as the fold over a sequence does.
LEMMA FoldExists ==
    ASSUME NEW A, NEW X, NEW b \in A, NEW F \in [A \X X -> A],
           NEW n \in Nat, NEW seq \in [1 .. n -> X]
    PROVE  \E g \in [SUBSET (1 .. n) -> A] : Unfolds(g, n, b, F, seq)
<1> DEFINE Solves(g, m) ==
             \A s \in SUBSET (1 .. m) :
                g[s] = IF s = {} THEN b ELSE F[<<g[s \ {Max(s)}], seq[Max(s)]>>]
           S == {m \in 0 .. n : \E g \in [SUBSET (1 .. m) -> A] : Solves(g, m)}
<1>1. 0 \in S
  <2>1. [s \in SUBSET (1 .. 0) |-> b] \in [SUBSET (1 .. 0) -> A]
    OBVIOUS
  <2>2. \A s \in SUBSET (1 .. 0) : s = {}
    OBVIOUS
  <2>3. Solves([s \in SUBSET (1 .. 0) |-> b], 0)
    BY <2>2
  <2> HIDE DEF Solves
  <2> QED
    BY <2>1, <2>3
<1>2. ASSUME NEW m \in 1 .. n, m - 1 \in S PROVE m \in S
  <2>1. PICK g \in [SUBSET (1 .. (m - 1)) -> A] : Solves(g, m - 1)
    BY <1>2
  <2> DEFINE h == [s \in SUBSET (1 .. m) |-> IF m \in s THEN F[<<g[s \ {m}], seq[m]>>] ELSE g[s]]
  <2>2. \A s \in SUBSET (1 .. m) : m \in s => s \ {m} \in SUBSET (1 .. (m - 1))
    OBVIOUS
  <2>3. \A s \in SUBSET (1 .. m) : m \notin s => s \in SUBSET (1 .. (m - 1))
    OBVIOUS
  <2>4. h \in [SUBSET (1 .. m) -> A]
    <3>1. seq[m] \in X
      OBVIOUS
    <3> QED
      BY <2>2, <2>3, <3>1
  <2>5. ASSUME NEW s \in SUBSET (1 .. m), s # {}
        PROVE  h[s] = F[<<h[s \ {Max(s)}], seq[Max(s)]>>]
    <3>0. m \in Nat
      OBVIOUS
    <3>1. Max(s) \in s /\ \A i \in s : Max(s) >= i
      <4> HIDE DEF h, S
      <4> QED
        BY <2>5, <3>0, MaxOfSegment
    <3>2. CASE m \in s
      <4>1. Max(s) = m
        <5>1. Max(s) \in 1 .. m /\ Max(s) >= m
          BY <3>1, <3>2
        <5> QED
          BY <5>1
      <4>2. h[s \ {m}] = g[s \ {m}]
        <5>1. s \ {m} \in SUBSET (1 .. m) /\ m \notin s \ {m}
          OBVIOUS
        <5> QED
          BY <5>1
      <4> QED
        BY <3>2, <4>1, <4>2
    <3>3. CASE m \notin s
      <4>1. s \in SUBSET (1 .. (m - 1)) /\ s \ {Max(s)} \in SUBSET (1 .. m) /\ m \notin s \ {Max(s)}
        BY <2>3, <3>3
      <4>2. h[s] = g[s] /\ h[s \ {Max(s)}] = g[s \ {Max(s)}]
        BY <3>3, <4>1
      <4> QED
        BY <2>1, <2>5, <4>1, <4>2
    <3> QED
      BY <3>2, <3>3
  <2>6. h[{}] = b
    <3>1. {} \in SUBSET (1 .. m) /\ {} \in SUBSET (1 .. (m - 1))
      OBVIOUS
    <3>2. h[{}] = g[{}]
      BY <3>1
    <3> QED
      BY <2>1, <3>1, <3>2
  <2>7. Solves(h, m)
    <3> HIDE DEF h
    <3> QED
      BY <2>5, <2>6
  <2> HIDE DEF Solves, h
  <2> QED
    BY <2>4, <2>7
<1>3. n \in S
  <2> HIDE DEF S
  <2>1. 0 .. n \subseteq S
    BY <1>1, <1>2, Climbs
  <2>2. n \in 0 .. n
    OBVIOUS
  <2> QED
    BY <2>1, <2>2
<1>4. PICK g \in [SUBSET (1 .. n) -> A] : Solves(g, n)
  BY <1>3
<1>5. Unfolds(g, n, b, F, seq)
  BY <1>4 DEF Unfolds
<1> QED
  BY <1>5

-----------------------------------------------------------------------------
(* What a packet makes of a state: FromPacket.                             *)

Events == [kind : Kinds, ids : SUBSET Players]
Items == Packets \cup {Reply}

\* Items are sequences of events, and packets are those that are not empty.
LEMMA ItemsAreSequences ==
    /\ Items = Seq(Events)
    /\ \A item \in Items : Len(item) \in Nat /\ item \in [1 .. Len(item) -> Events]
                            /\ DOMAIN item = 1 .. Len(item)
<1>1. Reply \in Seq(Events)
  BY EmptySeq DEF Reply
<1>2. Items = Seq(Events)
  BY <1>1 DEF Items, Packets, Events
<1>3. ASSUME NEW item \in Seq(Events)
      PROVE  Len(item) \in Nat /\ item \in [1 .. Len(item) -> Events] /\ DOMAIN item = 1 .. Len(item)
  BY <1>3, LenProperties
<1> QED
  BY <1>2, <1>3

\* One event makes a state of a state.
LEMMA InterpretTypes ==
    ASSUME NEW was \in States, NEW e \in Events, NEW before, NEW known \in SUBSET Ids
    PROVE  Interpret(was, e, before, known) \in States
<1>1. was.waiting \in SUBSET Ids /\ e.ids \in SUBSET Ids /\ e.kind \in Kinds
  BY DEF States, Events, Ids
<1>2. ASSUME NEW waiting \in SUBSET Ids
      PROVE  [was EXCEPT !.waiting = waiting, !.tells = TRUE] \in States
  BY DEF States
<1>3. Finished(known) \in States
  BY DEF Finished, States
<1>4. CASE was.over
  BY <1>4 DEF Interpret
<1>5. CASE ~was.over
  <2>1. CASE e.kind = "set"
    BY <1>1, <1>2, <1>5, <2>1 DEF Interpret
  <2>2. CASE e.kind = "ack"
    BY <1>1, <1>2, <1>5, <2>2 DEF Interpret
  <2>3. CASE e.kind = "begin"
    BY <1>1, <1>2, <1>5, <2>3 DEF Interpret
  <2>4. CASE e.kind = "recap"
    BY <1>1, <1>2, <1>5, <2>4 DEF Interpret
  <2>5. CASE e.kind = "over"
    BY <1>1, <1>3, <1>5, <2>5 DEF Interpret
  <2> QED
    BY <1>1, <2>1, <2>2, <2>3, <2>4, <2>5 DEF Kinds
<1> QED
  BY <1>4, <1>5

Base(waiting, known) == [Names(known) EXCEPT !.waiting = waiting]

\* The state a packet begins with.
LEMMA BaseIs ==
    ASSUME NEW w \in SUBSET Ids, NEW k \in SUBSET Ids
    PROVE  /\ Base(w, k) \in States
           /\ Base(w, k) = [tells |-> FALSE, waiting |-> w, names |-> k, over |-> FALSE]
<1>1. Names(k) = [tells |-> FALSE, waiting |-> {}, names |-> k, over |-> FALSE]
  BY DEF Names
<1>2. ASSUME NEW r \in States
      PROVE  [r EXCEPT !.waiting = w] = [tells |-> r.tells, waiting |-> w, names |-> r.names, over |-> r.over]
  BY DEF States
<1>3. Names(k) \in States
  BY <1>1 DEF States
<1>4. Base(w, k) = [tells |-> FALSE, waiting |-> w, names |-> k, over |-> FALSE]
  BY <1>1, <1>2, <1>3 DEF Base
<1> QED
  BY <1>4 DEF States

\* The recursion that FromPacket stands for.
PacketUnfolds(g, packet, w, k) ==
    g = [s \in SUBSET (DOMAIN packet) |->
            IF s = {} THEN Base(w, k)
            ELSE Interpret(g[s \ {Max(s)}], packet[Max(s)], w, k)]

\* FromPacket is the last value of a function that unfolds so.
LEMMA PacketUnfolded ==
    ASSUME NEW packet, NEW w, NEW k
    PROVE  FromPacket(packet, w, k) = (CHOOSE g : PacketUnfolds(g, packet, w, k))[DOMAIN packet]
BY DEF FromPacket, FoldLeft, MapThenFoldSet, PacketUnfolds, Base

\* A packet's state is what its events make, one after the other, of the base.
PacketTrace(a, packet, w, k) ==
    /\ a \in [0 .. Len(packet) -> States]
    /\ a[0] = Base(w, k)
    /\ \A i \in 1 .. Len(packet) : a[i] = Interpret(a[i - 1], packet[i], w, k)
    /\ FromPacket(packet, w, k) = a[Len(packet)]

\* FromPacket is where some trace of states ends, one for each event.
LEMMA PacketIsTraced ==
    ASSUME NEW packet \in Items, NEW w \in SUBSET Ids, NEW k \in SUBSET Ids
    PROVE  \E a : PacketTrace(a, packet, w, k)
<1> DEFINE n == Len(packet)
           F == [x \in States \X Events |-> Interpret(x[1], x[2], w, k)]
<1>1. n \in Nat /\ packet \in [1 .. n -> Events] /\ DOMAIN packet = 1 .. n
  BY ItemsAreSequences
<1>2. F \in [States \X Events -> States]
  BY InterpretTypes
<1>3. Base(w, k) \in States
  BY BaseIs
<1>4. PICK g \in [SUBSET (1 .. n) -> States] : Unfolds(g, n, Base(w, k), F, packet)
  <2> HIDE DEF F, n
  <2> QED
    BY <1>1, <1>2, <1>3, FoldExists
<1>5. PacketUnfolds(g, packet, w, k)
  <2>1. ASSUME NEW s \in SUBSET (1 .. n), s # {}
        PROVE  F[<<g[s \ {Max(s)}], packet[Max(s)]>>] = Interpret(g[s \ {Max(s)}], packet[Max(s)], w, k)
    <3>1. Max(s) \in s
      <4> HIDE DEF n, F
      <4> QED
        BY <1>1, <2>1, MaxOfSegment
    <3>2. g[s \ {Max(s)}] \in States /\ packet[Max(s)] \in Events
      BY <1>1, <1>4, <3>1
    <3> QED
      BY <3>2
  <2> HIDE DEF F
  <2>2. g = [s \in SUBSET (1 .. n) |->
                IF s = {} THEN Base(w, k) ELSE F[<<g[s \ {Max(s)}], packet[Max(s)]>>]]
    BY <1>4 DEF Unfolds
  <2> HIDE DEF n
  <2>3. g = [s \in SUBSET (1 .. n) |->
                IF s = {} THEN Base(w, k) ELSE Interpret(g[s \ {Max(s)}], packet[Max(s)], w, k)]
    BY <2>1, <2>2, Zenon
  <2> QED
    BY <1>1, <2>3 DEF PacketUnfolds
<1> DEFINE h == CHOOSE f : PacketUnfolds(f, packet, w, k)
           a == [i \in 0 .. n |-> h[1 .. i]]
<1>6. PacketUnfolds(h, packet, w, k)
  BY <1>5
<1> HIDE DEF h, n
<1>7. \A s \in SUBSET (1 .. n) : h[s] = IF s = {} THEN Base(w, k)
                                        ELSE Interpret(h[s \ {Max(s)}], packet[Max(s)], w, k)
  BY <1>1, <1>6 DEF PacketUnfolds
<1>8. a[0] = Base(w, k)
  <2>1. 1 .. 0 = {} /\ 0 \in 0 .. n /\ {} \in SUBSET (1 .. n)
    BY <1>1
  <2> QED
    BY <1>7, <2>1
<1>9. ASSUME NEW i \in 1 .. n PROVE a[i] = Interpret(a[i - 1], packet[i], w, k)
  <2>0. n \in Nat
    BY <1>1
  <2>1. i \in Nat /\ i > 0 /\ i \in 0 .. n /\ i - 1 \in 0 .. n /\ 1 .. i # {} /\ 1 .. i \in SUBSET (1 .. n)
    <3> HIDE DEF a
    <3>1. i \in Nat /\ i > 0 /\ i \in 0 .. n /\ i - 1 \in 0 .. n
      BY <2>0
    <3>2. 1 .. i # {} /\ 1 .. i \subseteq 1 .. n
      BY <2>0
    <3> QED
      BY <3>1, <3>2
  <2>2. Max(1 .. i) = i /\ (1 .. i) \ {i} = 1 .. (i - 1)
    BY <2>1, MaxOfFirst
  <2>3. h[1 .. i] = Interpret(h[1 .. (i - 1)], packet[i], w, k)
    BY <1>7, <2>1, <2>2
  <2> QED
    BY <2>1, <2>3
<1>10. FromPacket(packet, w, k) = a[n]
  <2>1. n \in 0 .. n /\ FromPacket(packet, w, k) = h[1 .. n]
    BY <1>1, PacketUnfolded DEF h
  <2> QED
    BY <2>1
<1>11. \A i \in 0 .. n : a[i] \in States
  <2> DEFINE S == {i \in 0 .. n : a[i] \in States}
  <2> HIDE DEF a
  <2>1. 0 \in S
    BY <1>1, <1>3, <1>8
  <2>2. ASSUME NEW i \in 1 .. n, i - 1 \in S PROVE i \in S
    <3>1. a[i - 1] \in States /\ packet[i] \in Events /\ i \in 0 .. n
      BY <1>1, <2>2
    <3> QED
      BY <1>9, <3>1, InterpretTypes
  <2> HIDE DEF S
  <2>3. 0 .. n \subseteq S
    BY <1>1, <2>1, <2>2, Climbs
  <2> QED
    BY <2>3 DEF S
<1>12. a \in [0 .. n -> States]
  BY <1>11
<1> QED
  <2> HIDE DEF a
  <2> QED
    BY <1>8, <1>9, <1>10, <1>12 DEF PacketTrace, n

\* What one event keeps: the names, and that a game that is over tells so.
LEMMA InterpretKeeps ==
    ASSUME NEW was \in States, NEW e \in Events, NEW before, NEW known \in SUBSET Ids
    PROVE  /\ Interpret(was, e, before, known).names \in {was.names, known}
           /\ (was.over => was.tells) =>
                (Interpret(was, e, before, known).over => Interpret(was, e, before, known).tells)
           /\ was.over => Interpret(was, e, before, known) = was
           /\ ~was.over /\ e.kind = "over" => Interpret(was, e, before, known).over
           /\ Interpret(was, e, before, known).over => was.over \/ e.kind = "over"
<1>1. e.kind \in Kinds
  BY DEF Events
<1>2. ASSUME NEW waiting
      PROVE  /\ [was EXCEPT !.waiting = waiting, !.tells = TRUE].names = was.names
             /\ [was EXCEPT !.waiting = waiting, !.tells = TRUE].over = was.over
             /\ [was EXCEPT !.waiting = waiting, !.tells = TRUE].tells = TRUE
  BY DEF States
<1>3. Finished(known).names = known /\ Finished(known).over = TRUE /\ Finished(known).tells = TRUE
  BY DEF Finished
<1>4. CASE was.over
  BY <1>4 DEF Interpret
<1>5. CASE ~was.over
  <2>1. CASE e.kind = "set"
    BY <1>2, <1>5, <2>1 DEF Interpret
  <2>2. CASE e.kind = "ack"
    BY <1>2, <1>5, <2>2 DEF Interpret
  <2>3. CASE e.kind = "begin"
    BY <1>2, <1>5, <2>3 DEF Interpret
  <2>4. CASE e.kind = "recap"
    BY <1>2, <1>5, <2>4 DEF Interpret
  <2>5. CASE e.kind = "over"
    BY <1>3, <1>5, <2>5 DEF Interpret
  <2> QED
    BY <1>1, <2>1, <2>2, <2>3, <2>4, <2>5 DEF Kinds
<1> QED
  BY <1>4, <1>5

\* A packet that says that the game is over.
OverPacket(packet) == packet # Reply /\ packet[1].kind = "over"

\* What a packet makes: a state, with the names known; nothing, if it is empty.
LEMMA PacketFacts ==
    ASSUME NEW packet \in Items, NEW w \in SUBSET Ids, NEW k \in SUBSET Ids
    PROVE  /\ FromPacket(packet, w, k) \in States
           /\ FromPacket(packet, w, k).names = k
           /\ FromPacket(packet, w, k).over => FromPacket(packet, w, k).tells
           /\ OverPacket(packet) => FromPacket(packet, w, k).over
           /\ packet = Reply => FromPacket(packet, w, k) = Base(w, k)
<1>1. PICK a : PacketTrace(a, packet, w, k)
  BY PacketIsTraced
<1>2. Len(packet) \in Nat /\ packet \in [1 .. Len(packet) -> Events]
  BY ItemsAreSequences
<1>3. /\ a \in [0 .. Len(packet) -> States]
      /\ a[0] = Base(w, k)
      /\ \A i \in 1 .. Len(packet) : a[i] = Interpret(a[i - 1], packet[i], w, k)
      /\ FromPacket(packet, w, k) = a[Len(packet)]
  BY <1>1 DEF PacketTrace
<1>4. Base(w, k) \in States /\ Base(w, k).names = k /\ ~Base(w, k).over
  BY BaseIs
<1> DEFINE S == {i \in 0 .. Len(packet) : /\ a[i].names = k
                                          /\ a[i].over => a[i].tells
                                          /\ OverPacket(packet) /\ i > 0 => a[i].over}
<1>5. 0 \in S
  BY <1>2, <1>3, <1>4
<1>6. ASSUME NEW i \in 1 .. Len(packet), i - 1 \in S PROVE i \in S
  <2>1. i - 1 \in 0 .. Len(packet) /\ i \in 0 .. Len(packet) /\ i \in Nat
    BY <1>2
  <2>2. a[i - 1] \in States /\ packet[i] \in Events /\ a[i] = Interpret(a[i - 1], packet[i], w, k)
    BY <1>2, <1>3, <2>1
  <2>3. a[i].names = k /\ (a[i].over => a[i].tells)
    BY <1>6, <2>2, InterpretKeeps
  <2>4. ASSUME OverPacket(packet) PROVE a[i].over
    <3>1. CASE i = 1
      <4>1. ~a[0].over /\ packet[1].kind = "over"
        BY <1>3, <1>4, <2>4 DEF OverPacket
      <4>2. i - 1 = 0
        BY <3>1
      <4> QED
        BY <2>2, <3>1, <4>1, <4>2, InterpretKeeps
    <3>2. CASE i # 1
      <4>1. i - 1 > 0
        BY <2>1, <3>2
      <4>2. a[i - 1].over
        BY <1>6, <2>4, <4>1
      <4> QED
        BY <2>2, <4>2, InterpretKeeps
    <3> QED
      BY <3>1, <3>2
  <2> QED
    BY <2>1, <2>3, <2>4
<1>7. Len(packet) \in S
  <2> HIDE DEF S
  <2>1. 0 .. Len(packet) \subseteq S
    BY <1>2, <1>5, <1>6, Climbs
  <2>2. Len(packet) \in 0 .. Len(packet)
    BY <1>2
  <2> QED
    BY <2>1, <2>2
<1>8. a[Len(packet)] \in States
  BY <1>2, <1>3
<1>9. packet = Reply => Len(packet) = 0
  BY DEF Reply
<1>10. packet # Reply => Len(packet) > 0
  <2>1. packet \in Seq(Events)
    BY ItemsAreSequences
  <2> QED
    BY <1>2, <2>1, EmptySeq DEF Reply
<1> QED
  BY <1>2, <1>3, <1>7, <1>8, <1>9, <1>10 DEF OverPacket

\* A packet of one event.
LEMMA LonePacket ==
    ASSUME NEW e \in Events, NEW w \in SUBSET Ids, NEW k \in SUBSET Ids
    PROVE  /\ <<e>> \in Items
           /\ FromPacket(<<e>>, w, k) = Interpret(Base(w, k), e, w, k)
<1>1. <<e>> \in Items /\ Len(<<e>>) = 1 /\ <<e>>[1] = e
  BY ItemsAreSequences
<1>2. PICK a : PacketTrace(a, <<e>>, w, k)
  BY <1>1, PacketIsTraced
<1>3. 1 - 1 = 0 /\ 1 \in 1 .. 1
  OBVIOUS
<1>4. a[1] = Interpret(a[0], e, w, k) /\ a[0] = Base(w, k) /\ FromPacket(<<e>>, w, k) = a[1]
  BY <1>1, <1>2, <1>3 DEF PacketTrace
<1> QED
  BY <1>1, <1>4

-----------------------------------------------------------------------------
(* What a frame makes of its packets: FromItems.                           *)

\* What a frame adds to what was gathered so far: the step of FromItems.
Gathered == [waiting : SUBSET Ids, out : Seq(States)]
Gathers(acc, item, known) ==
    LET state == FromPacket(item, acc.waiting, known) IN
    IF state.tells THEN [waiting |-> state.waiting, out |-> Append(acc.out, state)] ELSE acc

ItemsUnfold(g, items, w, k) ==
    g = [s \in SUBSET (DOMAIN items) |->
            IF s = {} THEN [waiting |-> w, out |-> <<>>]
            ELSE Gathers(g[s \ {Max(s)}], items[Max(s)], k)]

\* FromItems is the last value of a function that unfolds so.
LEMMA ItemsUnfolded ==
    ASSUME NEW items, NEW w, NEW k
    PROVE  FromItems(items, w, k) = (CHOOSE g : ItemsUnfold(g, items, w, k))[DOMAIN items].out
BY DEF FromItems, FoldLeft, MapThenFoldSet, ItemsUnfold, Gathers

\* What is gathered keeps its type.
LEMMA GathersTypes ==
    ASSUME NEW acc \in Gathered, NEW item \in Items, NEW k \in SUBSET Ids
    PROVE  Gathers(acc, item, k) \in Gathered
<1>1. acc.waiting \in SUBSET Ids /\ acc.out \in Seq(States)
  BY DEF Gathered
<1>2. PICK s : s = FromPacket(item, acc.waiting, k)
  OBVIOUS
<1>3. s \in States
  BY <1>1, <1>2, PacketFacts
<1>4. s.waiting \in SUBSET Ids /\ Append(acc.out, s) \in Seq(States)
  BY <1>1, <1>3, AppendProperties DEF States
<1>5. Gathers(acc, item, k) = IF s.tells THEN [waiting |-> s.waiting, out |-> Append(acc.out, s)] ELSE acc
  BY <1>2 DEF Gathers
<1> QED
  BY <1>4, <1>5 DEF Gathered

ItemsTrace(a, items, w, k) ==
    /\ a \in [0 .. Len(items) -> Gathered]
    /\ a[0] = [waiting |-> w, out |-> <<>>]
    /\ \A i \in 1 .. Len(items) : a[i] = Gathers(a[i - 1], items[i], k)
    /\ FromItems(items, w, k) = a[Len(items)].out

\* FromItems is where some trace of what is gathered ends, one step for each item.
LEMMA ItemsAreTraced ==
    ASSUME NEW items \in Seq(Items), NEW w \in SUBSET Ids, NEW k \in SUBSET Ids
    PROVE  \E a : ItemsTrace(a, items, w, k)
<1> DEFINE n == Len(items)
           b == [waiting |-> w, out |-> <<>>]
           F == [x \in Gathered \X Items |-> Gathers(x[1], x[2], k)]
<1>1. n \in Nat /\ items \in [1 .. n -> Items] /\ DOMAIN items = 1 .. n
  BY LenProperties
<1>2. F \in [Gathered \X Items -> Gathered]
  BY GathersTypes
<1>3. b \in Gathered
  BY EmptySeq DEF Gathered
<1>4. PICK g \in [SUBSET (1 .. n) -> Gathered] : Unfolds(g, n, b, F, items)
  <2> HIDE DEF F, n, b
  <2> QED
    BY <1>1, <1>2, <1>3, FoldExists
<1> HIDE DEF b
<1>5. ItemsUnfold(g, items, w, k)
  <2>1. ASSUME NEW s \in SUBSET (1 .. n), s # {}
        PROVE  F[<<g[s \ {Max(s)}], items[Max(s)]>>] = Gathers(g[s \ {Max(s)}], items[Max(s)], k)
    <3>1. Max(s) \in s
      <4> HIDE DEF n, F
      <4> QED
        BY <1>1, <2>1, MaxOfSegment
    <3>2. g[s \ {Max(s)}] \in Gathered /\ items[Max(s)] \in Items
      BY <1>1, <1>4, <3>1
    <3> QED
      BY <3>2
  <2> HIDE DEF F
  <2>2. g = [s \in SUBSET (1 .. n) |->
                IF s = {} THEN b ELSE F[<<g[s \ {Max(s)}], items[Max(s)]>>]]
    BY <1>4 DEF Unfolds
  <2> HIDE DEF n
  <2>3. g = [s \in SUBSET (1 .. n) |->
                IF s = {} THEN b ELSE Gathers(g[s \ {Max(s)}], items[Max(s)], k)]
    BY <2>1, <2>2, Zenon
  <2> QED
    BY <1>1, <2>3 DEF ItemsUnfold, b
<1> DEFINE h == CHOOSE f : ItemsUnfold(f, items, w, k)
           a == [i \in 0 .. n |-> h[1 .. i]]
<1>6. ItemsUnfold(h, items, w, k)
  BY <1>5
<1> HIDE DEF h, n
<1>7. \A s \in SUBSET (1 .. n) : h[s] = IF s = {} THEN b
                                        ELSE Gathers(h[s \ {Max(s)}], items[Max(s)], k)
  BY <1>1, <1>6 DEF ItemsUnfold, b
<1>8. a[0] = b
  <2>1. 1 .. 0 = {} /\ 0 \in 0 .. n /\ {} \in SUBSET (1 .. n)
    BY <1>1
  <2> QED
    BY <1>7, <2>1
<1>9. ASSUME NEW i \in 1 .. n PROVE a[i] = Gathers(a[i - 1], items[i], k)
  <2>0. n \in Nat
    BY <1>1
  <2>1. i \in Nat /\ i > 0 /\ i \in 0 .. n /\ i - 1 \in 0 .. n /\ 1 .. i # {} /\ 1 .. i \in SUBSET (1 .. n)
    <3> HIDE DEF a
    <3>1. i \in Nat /\ i > 0 /\ i \in 0 .. n /\ i - 1 \in 0 .. n
      BY <2>0
    <3>2. i \in 1 .. i /\ \A j \in 1 .. i : j \in 1 .. n
      BY <2>0
    <3> QED
      BY <3>1, <3>2
  <2>2. Max(1 .. i) = i /\ (1 .. i) \ {i} = 1 .. (i - 1)
    BY <2>1, MaxOfFirst
  <2>3. h[1 .. i] = Gathers(h[1 .. (i - 1)], items[i], k)
    BY <1>7, <2>1, <2>2
  <2> QED
    BY <2>1, <2>3
<1>10. FromItems(items, w, k) = a[n].out
  <2>1. n \in 0 .. n /\ FromItems(items, w, k) = h[1 .. n].out
    BY <1>1, ItemsUnfolded DEF h
  <2> QED
    BY <2>1
<1>11. \A i \in 0 .. n : a[i] \in Gathered
  <2> DEFINE S == {i \in 0 .. n : a[i] \in Gathered}
  <2> HIDE DEF a
  <2>1. 0 \in S
    BY <1>1, <1>3, <1>8
  <2>2. ASSUME NEW i \in 1 .. n, i - 1 \in S PROVE i \in S
    <3>1. a[i - 1] \in Gathered /\ items[i] \in Items /\ i \in 0 .. n
      BY <1>1, <2>2
    <3> QED
      BY <1>9, <3>1, GathersTypes
  <2> HIDE DEF S
  <2>3. 0 .. n \subseteq S
    BY <1>1, <2>1, <2>2, Climbs
  <2> QED
    BY <2>3 DEF S
<1>12. a \in [0 .. n -> Gathered]
  BY <1>11
<1> QED
  <2> HIDE DEF a
  <2> QED
    BY <1>8, <1>9, <1>10, <1>12 DEF ItemsTrace, n, b

-----------------------------------------------------------------------------
(* Where sequences lead.                                                   *)

\* Those who may be waited for.
Groups == SUBSET Ids

\* A sequence leads from one set of ids to another if a path does whose steps are
\* in a relation.
Path(t, seq, rel, from, to) ==
    /\ t \in [0 .. Len(seq) -> SUBSET Ids]
    /\ t[0] = from
    /\ t[Len(seq)] = to
    /\ \A i \in 1 .. Len(seq) : <<seq[i], t[i - 1], t[i]>> \in rel
Leads(seq, rel, from, to) == \E t : Path(t, seq, rel, from, to)

\* The empty sequence leads nowhere else.
LEMMA LeadsNowhere ==
    ASSUME NEW rel, NEW from \in SUBSET Ids, NEW to, Leads(<<>>, rel, from, to)
    PROVE  to = from
BY DEF Leads, Path

\* And it leads where it starts.
LEMMA LeadsEmpty ==
    ASSUME NEW rel, NEW from \in SUBSET Ids
    PROVE  Leads(<<>>, rel, from, from)
<1> DEFINE t == [i \in 0 .. 0 |-> from]
<1>1. Len(<<>>) = 0 /\ t \in [0 .. 0 -> SUBSET Ids] /\ t[0] = from /\ 1 .. 0 = {}
  OBVIOUS
<1>2. Path(t, <<>>, rel, from, from)
  BY <1>1 DEF Path
<1> QED
  BY <1>2 DEF Leads

\* What ends with x leads first where the rest does.
LEMMA LeadsWithout ==
    ASSUME NEW X, NEW seq \in Seq(X), NEW x \in X, NEW rel, NEW from, NEW to,
           Leads(Append(seq, x), rel, from, to)
    PROVE  \E m \in SUBSET Ids : Leads(seq, rel, from, m) /\ <<x, m, to>> \in rel
<1> DEFINE n == Len(seq)
<1>1. PICK t : Path(t, Append(seq, x), rel, from, to)
  BY DEF Leads
<1>2. /\ n \in Nat /\ Len(Append(seq, x)) = n + 1
      /\ \A i \in 1 .. n : Append(seq, x)[i] = seq[i]
      /\ Append(seq, x)[n + 1] = x
  BY AppendProperties
<1>3. t \in [0 .. n + 1 -> SUBSET Ids] /\ t[0] = from /\ t[n + 1] = to
  BY <1>1, <1>2 DEF Path
<1>4. \A i \in 1 .. n + 1 : <<Append(seq, x)[i], t[i - 1], t[i]>> \in rel
  BY <1>1, <1>2 DEF Path
<1> DEFINE u == [i \in 0 .. n |-> t[i]]
<1> HIDE DEF n
<1>5. u \in [0 .. n -> SUBSET Ids] /\ u[0] = from /\ u[n] = t[n] /\ t[n] \in SUBSET Ids
  BY <1>2, <1>3
<1>6. \A i \in 1 .. n : <<seq[i], u[i - 1], u[i]>> \in rel
  <2> TAKE i \in 1 .. n
  <2>1. i \in 1 .. n + 1 /\ i \in 0 .. n /\ i - 1 \in 0 .. n
    BY <1>2
  <2>2. <<Append(seq, x)[i], t[i - 1], t[i]>> \in rel
    BY <1>4, <2>1
  <2> QED
    BY <1>2, <2>1, <2>2
<1>7. <<x, t[n], to>> \in rel
  <2>1. n + 1 \in 1 .. n + 1 /\ (n + 1) - 1 = n
    BY <1>2
  <2>2. <<Append(seq, x)[n + 1], t[(n + 1) - 1], t[n + 1]>> \in rel
    BY <1>4, <2>1
  <2> QED
    BY <1>2, <1>3, <2>1, <2>2
<1>8. Path(u, seq, rel, from, t[n])
  <2> HIDE DEF u
  <2> QED
    BY <1>5, <1>6 DEF Path, n
<1> QED
  BY <1>5, <1>7, <1>8 DEF Leads

\* And the other way round.
LEMMA LeadsAppend ==
    ASSUME NEW X, NEW seq \in Seq(X), NEW x \in X, NEW rel, NEW from,
           NEW m, NEW to \in SUBSET Ids,
           Leads(seq, rel, from, m), <<x, m, to>> \in rel
    PROVE  Leads(Append(seq, x), rel, from, to)
<1> DEFINE n == Len(seq)
<1>1. PICK t : Path(t, seq, rel, from, m)
  BY DEF Leads
<1>2. /\ n \in Nat /\ Len(Append(seq, x)) = n + 1
      /\ \A i \in 1 .. n : Append(seq, x)[i] = seq[i]
      /\ Append(seq, x)[n + 1] = x
  BY AppendProperties
<1>3. /\ t \in [0 .. n -> SUBSET Ids] /\ t[0] = from /\ t[n] = m
      /\ \A i \in 1 .. n : <<seq[i], t[i - 1], t[i]>> \in rel
  BY <1>1 DEF Path
<1> DEFINE u == [i \in 0 .. n + 1 |-> IF i = n + 1 THEN to ELSE t[i]]
<1> HIDE DEF n
<1>4. u \in [0 .. n + 1 -> SUBSET Ids]
  <2>1. \A i \in 0 .. n + 1 : i # n + 1 => i \in 0 .. n
    BY <1>2
  <2> QED
    BY <1>3, <2>1
<1>5. u[0] = from /\ u[n + 1] = to
  BY <1>2, <1>3
<1>6. ASSUME NEW i \in 1 .. n + 1 PROVE <<Append(seq, x)[i], u[i - 1], u[i]>> \in rel
  <2>1. CASE i = n + 1
    <3>1. i - 1 = n /\ n \in 0 .. n + 1 /\ n # n + 1 /\ i \in 0 .. n + 1
      BY <1>2, <2>1
    <3>2. u[i - 1] = m /\ u[i] = to
      BY <1>3, <2>1, <3>1
    <3> QED
      BY <1>2, <2>1, <3>2
  <2>2. CASE i # n + 1
    <3>1. i \in 1 .. n /\ i - 1 \in 0 .. n + 1 /\ i - 1 # n + 1 /\ i \in 0 .. n + 1
      BY <1>2, <2>2
    <3>2. u[i - 1] = t[i - 1] /\ u[i] = t[i]
      BY <2>2, <3>1
    <3> QED
      BY <1>2, <1>3, <3>1, <3>2
  <2> QED
    BY <2>1, <2>2
<1>7. Path(u, Append(seq, x), rel, from, to)
  <2> HIDE DEF u
  <2> QED
    BY <1>2, <1>4, <1>5, <1>6 DEF Path
<1> QED
  BY <1>7 DEF Leads

\* What one sequence and then another lead to, by way of something.
LEMMA LeadsThrough ==
    ASSUME NEW X, NEW seq \in Seq(X), NEW rest \in Seq(X), NEW rel, NEW from, NEW to,
           Leads(seq \o rest, rel, from, to)
    PROVE  \E m \in SUBSET Ids : Leads(seq, rel, from, m) /\ Leads(rest, rel, m, to)
<1> DEFINE n == Len(seq)
           k == Len(rest)
<1>1. PICK t : Path(t, seq \o rest, rel, from, to)
  BY DEF Leads
<1>2. /\ n \in Nat /\ k \in Nat /\ Len(seq \o rest) = n + k
      /\ \A i \in 1 .. n : (seq \o rest)[i] = seq[i]
      /\ \A i \in 1 .. k : (seq \o rest)[n + i] = rest[i]
  <2>1. /\ Len(seq \o rest) = Len(seq) + Len(rest)
        /\ \A i \in 1 .. Len(seq) + Len(rest) :
             (seq \o rest)[i] = IF i <= Len(seq) THEN seq[i] ELSE rest[i - Len(seq)]
    BY ConcatProperties
  <2>2. n \in Nat /\ k \in Nat
    BY LenProperties
  <2>3. ASSUME NEW i \in 1 .. n PROVE (seq \o rest)[i] = seq[i]
    <3>1. i \in 1 .. Len(seq) + Len(rest) /\ i <= Len(seq)
      BY <2>2
    <3> QED
      BY <2>1, <3>1
  <2>4. ASSUME NEW i \in 1 .. k PROVE (seq \o rest)[n + i] = rest[i]
    <3>1. n + i \in 1 .. Len(seq) + Len(rest) /\ ~(n + i <= Len(seq)) /\ (n + i) - Len(seq) = i
      BY <2>2
    <3> QED
      BY <2>1, <3>1
  <2> QED
    BY <2>1, <2>2, <2>3, <2>4
<1>3. /\ t \in [0 .. n + k -> SUBSET Ids] /\ t[0] = from /\ t[n + k] = to
      /\ \A i \in 1 .. n + k : <<(seq \o rest)[i], t[i - 1], t[i]>> \in rel
  BY <1>1, <1>2 DEF Path
<1> DEFINE u == [i \in 0 .. n |-> t[i]]
           v == [i \in 0 .. k |-> t[n + i]]
<1> HIDE DEF n, k
<1>4. \A i \in 0 .. n : i \in 0 .. n + k
  BY <1>2
<1>5. \A i \in 0 .. k : n + i \in 0 .. n + k
  BY <1>2
<1>6. u \in [0 .. n -> SUBSET Ids] /\ v \in [0 .. k -> SUBSET Ids]
  BY <1>3, <1>4, <1>5
<1>7. u[0] = from /\ u[n] = t[n] /\ v[0] = t[n] /\ v[k] = to /\ t[n] \in SUBSET Ids
  <2>1. 0 \in 0 .. n /\ n \in 0 .. n /\ 0 \in 0 .. k /\ k \in 0 .. k /\ n + 0 = n /\ n \in 0 .. n + k
    BY <1>2
  <2> QED
    BY <1>3, <2>1
<1>8. ASSUME NEW i \in 1 .. n PROVE <<seq[i], u[i - 1], u[i]>> \in rel
  <2>1. i \in 1 .. n + k /\ i \in 0 .. n /\ i - 1 \in 0 .. n
    BY <1>2
  <2>2. <<(seq \o rest)[i], t[i - 1], t[i]>> \in rel
    BY <1>3, <2>1
  <2> QED
    BY <1>2, <2>1, <2>2
<1>9. ASSUME NEW i \in 1 .. k PROVE <<rest[i], v[i - 1], v[i]>> \in rel
  <2>1. n + i \in 1 .. n + k /\ i \in 0 .. k /\ i - 1 \in 0 .. k /\ (n + i) - 1 = n + (i - 1)
    BY <1>2
  <2>2. <<(seq \o rest)[n + i], t[(n + i) - 1], t[n + i]>> \in rel
    BY <1>3, <2>1
  <2>3. v[i] = t[n + i] /\ v[i - 1] = t[n + (i - 1)]
    BY <2>1
  <2> QED
    BY <1>2, <2>1, <2>2, <2>3
<1>10. Path(u, seq, rel, from, t[n]) /\ Path(v, rest, rel, t[n], to)
  <2> HIDE DEF u, v
  <2> QED
    BY <1>6, <1>7, <1>8, <1>9 DEF Path, n, k
<1> QED
  BY <1>7, <1>10 DEF Leads

\* A head first, and then where the tail leads.
LEMMA LeadsOn ==
    ASSUME NEW X, NEW seq \in Seq(X), seq # <<>>, NEW rel, NEW from \in SUBSET Ids,
           NEW m, NEW to, <<Head(seq), from, m>> \in rel, Leads(Tail(seq), rel, m, to)
    PROVE  Leads(seq, rel, from, to)
<1> DEFINE n == Len(Tail(seq))
<1>1. PICK t : Path(t, Tail(seq), rel, m, to)
  BY DEF Leads
<1>2. /\ n \in Nat /\ Len(seq) = n + 1 /\ Head(seq) = seq[1]
      /\ \A i \in 1 .. n : Tail(seq)[i] = seq[i + 1]
  <2>1. Len(seq) \in Nat /\ Len(seq) # 0 /\ Head(seq) = seq[1]
    BY EmptySeq, LenProperties
  <2>2. Len(Tail(seq)) = Len(seq) - 1 /\ \A i \in 1 .. Len(Tail(seq)) : Tail(seq)[i] = seq[i + 1]
    BY HeadTailProperties
  <2> QED
    BY <2>1, <2>2
<1>3. /\ t \in [0 .. n -> SUBSET Ids] /\ t[0] = m /\ t[n] = to
      /\ \A i \in 1 .. n : <<Tail(seq)[i], t[i - 1], t[i]>> \in rel
  BY <1>1 DEF Path
<1> DEFINE u == [i \in 0 .. n + 1 |-> IF i = 0 THEN from ELSE t[i - 1]]
<1> HIDE DEF n
<1>4. u \in [0 .. n + 1 -> SUBSET Ids]
  <2>1. \A i \in 0 .. n + 1 : i # 0 => i - 1 \in 0 .. n
    BY <1>2
  <2> QED
    BY <1>3, <2>1
<1>5. u[0] = from /\ u[n + 1] = to
  <2>1. 0 \in 0 .. n + 1 /\ n + 1 \in 0 .. n + 1 /\ n + 1 # 0 /\ (n + 1) - 1 = n
    BY <1>2
  <2> QED
    BY <1>3, <2>1
<1>6. ASSUME NEW i \in 1 .. n + 1 PROVE <<seq[i], u[i - 1], u[i]>> \in rel
  <2>1. CASE i = 1
    <3>1. i - 1 = 0 /\ 0 \in 0 .. n + 1 /\ i \in 0 .. n + 1 /\ i # 0
      BY <1>2, <2>1
    <3>2. u[i - 1] = from /\ u[i] = m
      BY <1>3, <3>1
    <3> QED
      BY <1>2, <2>1, <3>2
  <2>2. CASE i # 1
    <3>1. i - 1 \in 1 .. n /\ i - 1 \in 0 .. n + 1 /\ i - 1 # 0 /\ i \in 0 .. n + 1 /\ i # 0 /\ (i - 1) + 1 = i
      BY <1>2, <2>2
    <3>2. u[i - 1] = t[(i - 1) - 1] /\ u[i] = t[i - 1]
      BY <3>1
    <3>3. <<Tail(seq)[i - 1], t[(i - 1) - 1], t[i - 1]>> \in rel
      BY <1>3, <3>1
    <3>4. Tail(seq)[i - 1] = seq[i]
      BY <1>2, <3>1
    <3> QED
      BY <3>2, <3>3, <3>4
  <2> QED
    BY <2>1, <2>2
<1>7. Path(u, seq, rel, from, to)
  <2> HIDE DEF u
  <2> QED
    BY <1>2, <1>4, <1>5, <1>6 DEF Path
<1> QED
  BY <1>7 DEF Leads

\* If the last element is another, everything else leads where it led.
LEMMA LeadsOtherwise ==
    ASSUME NEW X, NEW seq \in Seq(X), seq # <<>>, NEW x \in X, NEW rel,
           NEW from, NEW to, NEW new, Len(new) = Len(seq),
           \A i \in 1 .. Len(seq) : new[i] = IF i = Len(seq) THEN x ELSE seq[i],
           Leads(new, rel, from, to)
    PROVE  \E m \in Groups :
              /\ <<x, m, to>> \in rel
              /\ \A other \in Groups :
                    <<seq[Len(seq)], m, other>> \in rel => Leads(seq, rel, from, other)
<1> DEFINE n == Len(seq)
<1>1. PICK t : Path(t, new, rel, from, to)
  BY DEF Leads
<1>2. /\ n \in Nat /\ n > 0 /\ Len(new) = n
      /\ \A i \in 1 .. n : i # n => new[i] = seq[i]
      /\ new[n] = x
  <2>1. n \in Nat /\ n # 0 /\ seq \in [1 .. n -> X] /\ DOMAIN seq = 1 .. n
    BY EmptySeq, LenProperties
  <2>2. n \in 1 .. n
    BY <2>1
  <2>3. n > 0
    BY <2>1
  <2> QED
    BY <2>1, <2>2, <2>3
<1>3. /\ t \in [0 .. n -> SUBSET Ids] /\ t[0] = from /\ t[n] = to
      /\ \A i \in 1 .. n : <<new[i], t[i - 1], t[i]>> \in rel
  BY <1>1, <1>2 DEF Path
<1> HIDE DEF n
<1>4. n \in 1 .. n /\ n - 1 \in 0 .. n
  BY <1>2
<1>5. t[n - 1] \in SUBSET Ids /\ <<x, t[n - 1], to>> \in rel
  BY <1>2, <1>3, <1>4
<1>6. ASSUME NEW other \in Groups, <<seq[n], t[n - 1], other>> \in rel
      PROVE  Leads(seq, rel, from, other)
  <2> DEFINE u == [i \in 0 .. n |-> IF i = n THEN other ELSE t[i]]
  <2>1. u \in [0 .. n -> SUBSET Ids] /\ u[0] = from /\ u[n] = other
    BY <1>2, <1>3 DEF Groups
  <2>2. ASSUME NEW i \in 1 .. n PROVE <<seq[i], u[i - 1], u[i]>> \in rel
    <3>1. i \in 0 .. n /\ i - 1 \in 0 .. n /\ i - 1 # n
      BY <1>2
    <3>2. u[i - 1] = t[i - 1]
      BY <3>1
    <3>3. CASE i = n
      <4>1. u[i] = other
        BY <3>1, <3>3
      <4> QED
        BY <1>6, <3>2, <3>3, <4>1
    <3>4. CASE i # n
      <4>1. u[i] = t[i]
        BY <3>1, <3>4
      <4>2. <<new[i], t[i - 1], t[i]>> \in rel /\ new[i] = seq[i]
        BY <1>2, <1>3, <3>4
      <4> QED
        BY <3>2, <4>1, <4>2
    <3> QED
      BY <3>3, <3>4
  <2>3. Path(u, seq, rel, from, other)
    <3> HIDE DEF u
    <3> QED
      BY <2>1, <2>2 DEF Path, n
  <2> QED
    BY <2>3 DEF Leads
<1> QED
  BY <1>5, <1>6 DEF n, Groups

-----------------------------------------------------------------------------
(* Where packets and frames lead.                                          *)

\* Who is waited for after an item, if its state is stored with the players in
\* counts: whoever was waited for before among those, and whatever names were known.
Told(state, counts, from) == IF state.tells THEN state.waiting \cap counts ELSE from
ItemStep(counts) ==
    {x \in Items \X Groups \X Groups :
        \E raw, known \in SUBSET Ids :
            /\ raw \cap counts = x[2] \cap counts
            /\ Players \subseteq known
            /\ x[3] = Told(FromPacket(x[1], raw, known), counts, x[2])}
FrameStep(counts) ==
    {x \in Seq(Items) \X Groups \X Groups : Leads(x[1], ItemStep(counts), x[2], x[3])}

\* Membership in the steps, part by part.
LEMMA ItemStepIs ==
    ASSUME NEW item, NEW from, NEW to, NEW counts
    PROVE  <<item, from, to>> \in ItemStep(counts) <=>
              /\ item \in Items /\ from \in SUBSET Ids /\ to \in SUBSET Ids
              /\ \E raw, known \in SUBSET Ids :
                    /\ raw \cap counts = from \cap counts
                    /\ Players \subseteq known
                    /\ to = Told(FromPacket(item, raw, known), counts, from)
<1>1. PICK x : x = <<item, from, to>>
  OBVIOUS
<1>2. x[1] = item /\ x[2] = from /\ x[3] = to
  BY <1>1
<1>3. x \in Items \X Groups \X Groups <=>
        item \in Items /\ from \in SUBSET Ids /\ to \in SUBSET Ids
  <2>1. x \in Items \X Groups \X Groups <=> item \in Items /\ from \in Groups /\ to \in Groups
    BY <1>1
  <2> QED
    BY <2>1 DEF Groups
<1>4. x \in ItemStep(counts) <=>
        /\ x \in Items \X Groups \X Groups
        /\ \E raw, known \in SUBSET Ids :
              /\ raw \cap counts = x[2] \cap counts
              /\ Players \subseteq known
              /\ x[3] = Told(FromPacket(x[1], raw, known), counts, x[2])
  BY Zenon DEF ItemStep
<1>5. x \in ItemStep(counts) <=>
        /\ x \in Items \X Groups \X Groups
        /\ \E raw, known \in SUBSET Ids :
              /\ raw \cap counts = from \cap counts
              /\ Players \subseteq known
              /\ to = Told(FromPacket(item, raw, known), counts, from)
  BY <1>2, <1>4
<1> QED
  BY <1>1, <1>3, <1>5

\* A step of a frame, packet by packet.
LEMMA FrameStepIs ==
    ASSUME NEW frame, NEW from, NEW to, NEW counts
    PROVE  <<frame, from, to>> \in FrameStep(counts) <=>
              /\ frame \in Seq(Items) /\ from \in SUBSET Ids /\ to \in SUBSET Ids
              /\ Leads(frame, ItemStep(counts), from, to)
<1>1. PICK x : x = <<frame, from, to>>
  OBVIOUS
<1>2. x[1] = frame /\ x[2] = from /\ x[3] = to
  BY <1>1
<1>3. x \in Seq(Items) \X Groups \X Groups <=>
        frame \in Seq(Items) /\ from \in SUBSET Ids /\ to \in SUBSET Ids
  <2>1. x \in Seq(Items) \X Groups \X Groups <=> frame \in Seq(Items) /\ from \in Groups /\ to \in Groups
    BY <1>1
  <2> QED
    BY <2>1 DEF Groups
<1>4. x \in FrameStep(counts) <=>
        /\ x \in Seq(Items) \X Groups \X Groups
        /\ Leads(x[1], ItemStep(counts), x[2], x[3])
  BY Zenon DEF FrameStep
<1> QED
  BY <1>1, <1>2, <1>3, <1>4

\* A reply changes nothing.
LEMMA ReplySteps ==
    ASSUME NEW from \in SUBSET Ids, NEW to, NEW counts
    PROVE  <<Reply, from, to>> \in ItemStep(counts) <=> to = from
<1>1. ASSUME NEW raw \in SUBSET Ids, NEW known \in SUBSET Ids
      PROVE  Told(FromPacket(Reply, raw, known), counts, from) = from
  <2>1. Reply \in Items
    BY DEF Items
  <2>2. FromPacket(Reply, raw, known) = Base(raw, known) /\ ~Base(raw, known).tells
    BY <2>1, PacketFacts, BaseIs
  <2> QED
    BY <2>2 DEF Told
<1>2. Reply \in Items /\ Ids \in SUBSET Ids /\ Players \subseteq Ids
  BY DEF Items, Ids
<1>3. <<Reply, from, from>> \in ItemStep(counts)
  BY <1>1, <1>2, ItemStepIs
<1>4. <<Reply, from, to>> \in ItemStep(counts) => to = from
  BY <1>1, ItemStepIs
<1> QED
  BY <1>3, <1>4

\* Who is waited for after the states that a frame makes.
LastTold(out, counts, from) == IF out = <<>> THEN from ELSE out[Len(out)].waiting \cap counts

\* The states that come out of a frame tell, keep the names, tell of the end if an
\* item does, and leave the bot waiting for somebody the frame leads to.
LEMMA FrameStates ==
    ASSUME NEW items \in Seq(Items), NEW w \in Groups, NEW k \in Groups,
           Players \subseteq k, NEW counts \in Groups
    PROVE  \E out \in Seq(States) :
              /\ out = FromItems(items, w, k)
              /\ \A j \in 1 .. Len(out) : out[j].tells /\ out[j].names = k
              /\ Leads(items, ItemStep(counts), w, LastTold(out, counts, w))
              /\ (\E i \in 1 .. Len(items) : OverPacket(items[i])) =>
                    \E j \in 1 .. Len(out) : out[j].over
<1> DEFINE n == Len(items)
<1>0. PICK out : out = FromItems(items, w, k)
  OBVIOUS
<1>a. w \in SUBSET Ids /\ k \in SUBSET Ids /\ counts \in SUBSET Ids
  BY DEF Groups
<1>1. PICK a : ItemsTrace(a, items, w, k)
  BY <1>a, ItemsAreTraced
<1>2. n \in Nat /\ items \in [1 .. n -> Items]
  BY LenProperties
<1>3. /\ a \in [0 .. n -> Gathered]
      /\ a[0] = [waiting |-> w, out |-> <<>>]
      /\ \A i \in 1 .. n : a[i] = Gathers(a[i - 1], items[i], k)
      /\ out = a[n].out
  BY <1>0, <1>1 DEF ItemsTrace
<1> HIDE DEF n
<1>4. \A i \in 0 .. n : a[i].waiting \in SUBSET Ids /\ a[i].out \in Seq(States)
  BY <1>3 DEF Gathered
<1>5. ASSUME NEW i \in 1 .. n
      PROVE  \E s \in States :
                /\ s = FromPacket(items[i], a[i - 1].waiting, k)
                /\ s.names = k
                /\ OverPacket(items[i]) => s.over /\ s.tells
                /\ ~s.tells => a[i] = a[i - 1]
                /\ s.tells => /\ a[i].waiting = s.waiting
                              /\ a[i].out = Append(a[i - 1].out, s)
  <2>1. PICK s : s = FromPacket(items[i], a[i - 1].waiting, k)
    OBVIOUS
  <2>2. i - 1 \in 0 .. n /\ items[i] \in Items
    BY <1>2
  <2>3. s \in States /\ s.names = k /\ (OverPacket(items[i]) => s.over) /\ (s.over => s.tells)
    BY <1>a, <1>4, <2>1, <2>2, PacketFacts
  <2>4. a[i] = Gathers(a[i - 1], items[i], k)
    BY <1>3
  <2>5. a[i] = IF s.tells THEN [waiting |-> s.waiting, out |-> Append(a[i - 1].out, s)] ELSE a[i - 1]
    BY <2>1, <2>4 DEF Gathers
  <2> QED
    BY <2>1, <2>3, <2>5
<1> DEFINE Good(i) ==
             LET o == a[i].out IN
             /\ \A j \in 1 .. Len(o) : o[j].tells /\ o[j].names = k
             /\ o = <<>> => a[i].waiting = w
             /\ o # <<>> => a[i].waiting = o[Len(o)].waiting
             /\ \A h \in 1 .. i : OverPacket(items[h]) => \E j \in 1 .. Len(o) : o[j].over
           S == {i \in 0 .. n : Good(i)}
<1>6. 0 \in S
  <2>1. 0 \in 0 .. n /\ a[0].out = <<>> /\ a[0].waiting = w /\ 1 .. 0 = {} /\ Len(<<>>) = 0
    BY <1>2, <1>3
  <2> QED
    BY <2>1
<1>7. ASSUME NEW i \in 1 .. n, i - 1 \in S PROVE i \in S
  <2>1. i - 1 \in 0 .. n /\ i \in 0 .. n
    BY <1>2
  <2>2. PICK o : o = a[i - 1].out
    OBVIOUS
  <2>3. PICK r : r = a[i].out
    OBVIOUS
  <2>4. PICK s \in States :
                /\ s.names = k
                /\ OverPacket(items[i]) => s.over /\ s.tells
                /\ ~s.tells => a[i] = a[i - 1]
                /\ s.tells => /\ a[i].waiting = s.waiting
                              /\ r = Append(o, s)
    BY <1>5, <2>2, <2>3
  <2>5. o \in Seq(States)
    BY <1>4, <2>1, <2>2
  <2>6. Good(i - 1)
    BY <1>7
  <2>7. CASE ~s.tells
    <3>1. a[i] = a[i - 1] /\ ~OverPacket(items[i])
      BY <2>4, <2>7
    <3>2. \A h \in 1 .. i : h = i \/ h \in 1 .. (i - 1)
      BY <2>1
    <3>3. Good(i)
      BY <2>6, <3>1, <3>2
    <3> QED
      BY <2>1, <3>3
  <2>8. CASE s.tells
    <3>1. /\ r # <<>> /\ Len(r) = Len(o) + 1 /\ Len(o) \in Nat
          /\ \A j \in 1 .. Len(o) : r[j] = o[j]
          /\ r[Len(o) + 1] = s
      BY <2>4, <2>5, <2>8, AppendProperties
    <3>2. \A j \in 1 .. Len(r) : r[j].tells /\ r[j].names = k
      <4> TAKE j \in 1 .. Len(r)
      <4>1. CASE j = Len(o) + 1
        BY <2>4, <2>8, <3>1, <4>1
      <4>2. CASE j # Len(o) + 1
        <5>1. j \in 1 .. Len(o)
          BY <3>1, <4>2
        <5> QED
          BY <2>2, <2>6, <3>1, <5>1
      <4> QED
        BY <4>1, <4>2
    <3>3. a[i].waiting = r[Len(r)].waiting
      BY <2>4, <2>8, <3>1
    <3>4. ASSUME NEW h \in 1 .. i, OverPacket(items[h]) PROVE \E j \in 1 .. Len(r) : r[j].over
      <4>1. CASE h = i
        <5>1. Len(o) + 1 \in 1 .. Len(r) /\ r[Len(o) + 1].over
          BY <2>4, <3>1, <3>4, <4>1
        <5> QED
          BY <5>1
      <4>2. CASE h # i
        <5>1. h \in 1 .. (i - 1)
          BY <2>1, <4>2
        <5>2. PICK j \in 1 .. Len(o) : o[j].over
          BY <2>2, <2>6, <3>4, <5>1
        <5>3. j \in 1 .. Len(r) /\ r[j].over
          BY <3>1, <5>2
        <5> QED
          BY <5>3
      <4> QED
        BY <4>1, <4>2
    <3>5. Good(i)
      BY <2>3, <3>1, <3>2, <3>3, <3>4
    <3> QED
      BY <2>1, <3>5
  <2> QED
    BY <2>7, <2>8
<1>8. \A i \in 0 .. n : Good(i)
  <2> HIDE DEF Good
  <2>1. 0 .. n \subseteq S
    <3> HIDE DEF S
    <3> QED
      BY <1>2, <1>6, <1>7, Climbs
  <2> QED
    BY <2>1
<1> DEFINE u == [i \in 0 .. n |-> IF a[i].out = <<>> THEN w ELSE a[i].waiting \cap counts]
<1>9. u \in [0 .. n -> SUBSET Ids]
  BY <1>a, <1>4
<1>10. u[0] = w /\ u[n] = IF out = <<>> THEN w ELSE out[Len(out)].waiting \cap counts
  <2>1. 0 \in 0 .. n /\ n \in 0 .. n /\ a[0].out = <<>>
    BY <1>2, <1>3
  <2>2. u[0] = w
    BY <2>1
  <2>3. out # <<>> => a[n].waiting = out[Len(out)].waiting
    BY <1>3, <1>8, <2>1
  <2> QED
    BY <1>3, <2>1, <2>2, <2>3
<1>11. ASSUME NEW i \in 1 .. n PROVE <<items[i], u[i - 1], u[i]>> \in ItemStep(counts)
  <2>1. i - 1 \in 0 .. n /\ i \in 0 .. n /\ items[i] \in Items
    BY <1>2
  <2>2. PICK s \in States :
                /\ s = FromPacket(items[i], a[i - 1].waiting, k)
                /\ ~s.tells => a[i] = a[i - 1]
                /\ s.tells => /\ a[i].waiting = s.waiting
                              /\ a[i].out = Append(a[i - 1].out, s)
    BY <1>5
  <2>3. u[i - 1] = IF a[i - 1].out = <<>> THEN w ELSE a[i - 1].waiting \cap counts
    BY <2>1
  <2>4. u[i] = IF a[i].out = <<>> THEN w ELSE a[i].waiting \cap counts
    BY <2>1
  <2>5. a[i - 1].out = <<>> => a[i - 1].waiting = w
    BY <1>8, <2>1
  <2>6. a[i - 1].waiting \cap counts = u[i - 1] \cap counts
    BY <2>3, <2>5
  <2>7. u[i] = Told(s, counts, u[i - 1])
    <3>1. CASE s.tells
      <4>1. a[i].out # <<>>
        <5>1. a[i - 1].out \in Seq(States)
          BY <1>4, <2>1
        <5> QED
          BY <2>2, <3>1, <5>1, AppendProperties
      <4> QED
        BY <2>2, <2>4, <3>1, <4>1 DEF Told
    <3>2. CASE ~s.tells
      BY <2>2, <2>3, <2>4, <3>2 DEF Told
    <3> QED
      BY <3>1, <3>2
  <2>8. u[i - 1] \in SUBSET Ids /\ u[i] \in SUBSET Ids /\ a[i - 1].waiting \in SUBSET Ids
    BY <1>4, <1>9, <2>1
  <2>9. \E raw, known \in SUBSET Ids :
          /\ raw \cap counts = u[i - 1] \cap counts
          /\ Players \subseteq known
          /\ u[i] = Told(FromPacket(items[i], raw, known), counts, u[i - 1])
    BY <1>a, <2>2, <2>6, <2>7, <2>8
  <2> HIDE DEF u
  <2> QED
    BY <2>1, <2>8, <2>9, ItemStepIs
<1>12. Leads(items, ItemStep(counts), w, LastTold(out, counts, w))
  <2> HIDE DEF u
  <2>1. Path(u, items, ItemStep(counts), w, u[n])
    BY <1>9, <1>10, <1>11 DEF Path, n
  <2> QED
    BY <1>10, <2>1 DEF Leads, LastTold
<1>13. n \in 0 .. n
  BY <1>2
<1>14. Good(n) /\ out \in Seq(States)
  BY <1>3, <1>4, <1>8, <1>13
<1> HIDE DEF u
<1> QED
  BY <1>0, <1>3, <1>12, <1>14 DEF n
\* The first part of that, without somebody who counts.
LEMMA StatesTell ==
    ASSUME NEW items \in Seq(Items), NEW w \in Groups, NEW k \in Groups, Players \subseteq k
    PROVE  \A j \in 1 .. Len(FromItems(items, w, k)) :
              FromItems(items, w, k)[j].tells /\ FromItems(items, w, k)[j].names = k
<1>1. Ids \in Groups
  BY DEF Groups
<1>2. PICK out \in Seq(States) :
            /\ out = FromItems(items, w, k)
            /\ \A j \in 1 .. Len(out) : out[j].tells /\ out[j].names = k
  BY <1>1, FrameStates
<1> QED
  BY <1>2

\* There are finitely many ids, so how many of them are waited for is a number.
LEMMA IdsAreFinite == IsFiniteSet(Ids)
BY StreamAssumption, FS_Union DEF Ids

\* What the packets of one event do to whom the bot waits for.
LEMMA EventSteps ==
    ASSUME NEW e \in Events, NEW counts \in SUBSET Ids, Players \subseteq counts,
           NEW from \in SUBSET Ids, NEW to, <<<<e>>, from, to>> \in ItemStep(counts)
    PROVE  /\ e.kind = "set" => to = e.ids
           /\ e.kind = "begin" /\ counts = Players => to = Players
           /\ \A p \in from : e.kind = "ack" /\ e.ids = {p} /\ from \subseteq Players => to = from
           /\ \A p \in from : e.kind = "recap" /\ e.ids = {p} /\ from \subseteq Players => to = from \ {p}
<1>1. PICK raw \in SUBSET Ids, known \in SUBSET Ids :
            /\ raw \cap counts = from \cap counts
            /\ Players \subseteq known
            /\ to = Told(FromPacket(<<e>>, raw, known), counts, from)
  BY ItemStepIs
<1>2. PICK b : b = Base(raw, known)
  OBVIOUS
<1>3. /\ b \in States /\ b.waiting = raw /\ b.names = known /\ b.over = FALSE /\ b.tells = FALSE
  BY <1>2, BaseIs
<1>4. FromPacket(<<e>>, raw, known) = Interpret(b, e, raw, known)
  BY <1>2, LonePacket
<1>5. ASSUME NEW waiting
      PROVE  /\ [b EXCEPT !.waiting = waiting, !.tells = TRUE].tells = TRUE
             /\ [b EXCEPT !.waiting = waiting, !.tells = TRUE].waiting = waiting
  BY <1>3 DEF States
<1>6. e.ids \in SUBSET Players
  BY DEF Events
<1>7. ASSUME e.kind = "set" PROVE to = e.ids
  <2>1. FromPacket(<<e>>, raw, known) = [b EXCEPT !.waiting = e.ids, !.tells = TRUE]
    BY <1>3, <1>4, <1>7 DEF Interpret
  <2>2. to = e.ids \cap counts
    BY <1>1, <1>5, <2>1 DEF Told
  <2> QED
    BY <1>6, <2>2
<1>8. ASSUME e.kind = "begin", counts = Players PROVE to = Players
  <2>1. FromPacket(<<e>>, raw, known) = [b EXCEPT !.waiting = known \cup raw, !.tells = TRUE]
    BY <1>3, <1>4, <1>8 DEF Interpret
  <2>2. to = (known \cup raw) \cap counts
    BY <1>1, <1>5, <2>1 DEF Told
  <2> QED
    BY <1>1, <1>8, <2>2
<1>9. ASSUME NEW p \in from, e.kind = "ack", e.ids = {p}, from \subseteq Players PROVE to = from
  <2>1. p \in raw /\ from \cap counts = from
    BY <1>1, <1>9
  <2>2. CASE Cardinality(raw) <= 1
    <3>1. FromPacket(<<e>>, raw, known) = [b EXCEPT !.waiting = e.ids, !.tells = TRUE]
      BY <1>3, <1>4, <1>9, <2>2 DEF Interpret, Heeds
    <3>2. to = e.ids \cap counts
      BY <1>1, <1>5, <3>1 DEF Told
    <3>3. raw = {p}
      <4>1. IsFiniteSet(raw)
        BY IdsAreFinite, FS_Subset
      <4>2. IsFiniteSet(raw \ {p}) /\ Cardinality(raw \ {p}) = Cardinality(raw) - 1
        BY <2>1, <4>1, FS_RemoveElement
      <4>3. Cardinality(raw) \in Nat /\ Cardinality(raw \ {p}) \in Nat
        BY <4>1, <4>2, FS_CardinalityType
      <4>4. Cardinality(raw \ {p}) = 0
        BY <2>2, <4>2, <4>3
      <4>5. raw \ {p} = {}
        BY <4>2, <4>4, FS_EmptySet
      <4> QED
        BY <2>1, <4>5
    <3> QED
      BY <1>1, <1>9, <2>1, <3>2, <3>3
  <2>3. CASE ~(Cardinality(raw) <= 1)
    <3>1. FromPacket(<<e>>, raw, known) = b
      BY <1>3, <1>4, <1>9, <2>3 DEF Interpret, Heeds
    <3> QED
      BY <1>1, <1>3, <3>1 DEF Told
  <2> QED
    BY <2>2, <2>3
<1>10. ASSUME NEW p \in from, e.kind = "recap", e.ids = {p}, from \subseteq Players PROVE to = from \ {p}
  <2>1. p \in raw /\ from \cap counts = from
    BY <1>1, <1>10
  <2>2. e.ids \subseteq b.waiting
    BY <1>3, <1>10, <2>1
  <2>3. FromPacket(<<e>>, raw, known) = [b EXCEPT !.waiting = b.waiting \ e.ids, !.tells = TRUE]
    BY <1>3, <1>4, <1>10, <2>2 DEF Interpret
  <2>4. to = (raw \ {p}) \cap counts
    BY <1>1, <1>3, <1>5, <1>10, <2>3 DEF Told
  <2> QED
    BY <1>1, <2>1, <2>4
<1> QED
  BY <1>7, <1>8, <1>9, <1>10

\* What precedes a reply are packets, and if nothing follows it, they are the frame.
LEMMA BeforeIs ==
    ASSUME NEW frame \in Seq(Items)
    PROVE  /\ Before(frame) \in 0 .. Len(frame)
           /\ \A i \in 1 .. Before(frame) : frame[i] \in Packets
           /\ SubSeq(frame, 1, Before(frame)) \in Seq(Packets)
           /\ Reply \notin ToSet(frame) => SubSeq(frame, 1, Before(frame)) = frame
           /\ Reply \in ToSet(frame) /\ ~Dropped(frame) =>
                 frame = Append(SubSeq(frame, 1, Before(frame)), Reply)
<1> DEFINE n == Len(frame)
           I == {i \in 1 .. n : frame[i] = Reply}
           f == SubSeq(frame, 1, Before(frame))
<1>1. n \in Nat /\ frame \in [1 .. n -> Items] /\ DOMAIN frame = 1 .. n
  BY LenProperties
<1>2. ToSet(frame) = {frame[i] : i \in 1 .. n}
  BY <1>1 DEF ToSet
<1>3. Reply \in ToSet(frame) <=> I # {}
  BY <1>2
<1>4. SelectInSeq(frame, LAMBDA item : item = Reply) = IF I # {} THEN Min(I) ELSE 0
  BY DEF SelectInSeq
<1> HIDE DEF n
<1>5. ASSUME I # {}
      PROVE  /\ Before(frame) = Min(I) - 1 /\ Min(I) \in 1 .. n /\ frame[Min(I)] = Reply
             /\ \A i \in 1 .. n : i < Min(I) => frame[i] # Reply
  <2>1. I \in SUBSET (1 .. n)
    OBVIOUS
  <2>2. Min(I) \in I /\ \A i \in I : i >= Min(I)
    <3> HIDE DEF I
    <3> QED
      BY <1>1, <1>5, <2>1, MinOfSegment
  <2>3. Before(frame) = Min(I) - 1
    <3> HIDE DEF I
    <3> QED
      BY <1>3, <1>4, <1>5 DEF Before
  <2>4. Min(I) \in 1 .. n /\ frame[Min(I)] = Reply
    BY <2>2
  <2>5. ASSUME NEW i \in 1 .. n, i < Min(I) PROVE frame[i] # Reply
    <3>1. ~(i >= Min(I))
      BY <1>1, <2>4, <2>5
    <3> QED
      BY <2>2, <3>1
  <2> QED
    BY <2>3, <2>4, <2>5
<1>6. I = {} => Before(frame) = n
  <2> HIDE DEF I
  <2> QED
    BY <1>3 DEF Before, n
<1>7. Before(frame) \in 0 .. n
  <2>1. CASE I = {}
    BY <1>1, <1>6, <2>1
  <2>2. CASE I # {}
    <3>1. PICK m : m = Min(I)
      OBVIOUS
    <3>2. Before(frame) = m - 1 /\ m \in 1 .. n
      BY <1>5, <2>2, <3>1
    <3> QED
      BY <1>1, <3>2
  <2> QED
    BY <2>1, <2>2
<1>8. ASSUME NEW i \in 1 .. Before(frame) PROVE frame[i] \in Packets
  <2>1. i \in 1 .. n
    BY <1>1, <1>7
  <2>2. frame[i] # Reply
    <3>1. CASE I = {}
      BY <2>1, <3>1
    <3>2. CASE I # {}
      <4>1. PICK m : m = Min(I)
        OBVIOUS
      <4>2. Before(frame) = m - 1 /\ m \in 1 .. n
        BY <1>5, <3>2, <4>1
      <4>3. i < m
        BY <1>1, <4>2
      <4> QED
        BY <1>5, <2>1, <3>2, <4>1, <4>3
    <3> QED
      BY <3>1, <3>2
  <2>3. frame[i] \in Items
    BY <1>1, <2>1
  <2> QED
    BY <2>2, <2>3 DEF Items
<1>9. /\ f \in Seq(Packets)
      /\ Len(f) = Before(frame)
      /\ \A i \in 1 .. Before(frame) : f[i] = frame[i]
  <2>1. PICK k : k = Before(frame)
    OBVIOUS
  <2>2. k \in Int /\ k \in Nat /\ 1 \in Int /\ \A i \in 1 .. k : frame[i] \in Packets
    BY <1>1, <1>7, <1>8, <2>1
  <2>3. /\ SubSeq(frame, 1, k) \in Seq(Packets)
        /\ Len(SubSeq(frame, 1, k)) = IF 1 <= k THEN k - 1 + 1 ELSE 0
        /\ \A i \in 1 .. k - 1 + 1 : SubSeq(frame, 1, k)[i] = frame[1 + i - 1]
    <3> HIDE DEF I, n
    <3> QED
      BY <2>2, SubSeqProperties
  <2>4. Len(SubSeq(frame, 1, k)) = k
    BY <2>2, <2>3
  <2>5. ASSUME NEW i \in 1 .. k PROVE SubSeq(frame, 1, k)[i] = frame[i]
    <3>1. i \in 1 .. k - 1 + 1 /\ 1 + i - 1 = i
      BY <2>2
    <3> QED
      BY <2>3, <3>1
  <2> QED
    BY <2>1, <2>3, <2>4, <2>5
<1>10. I = {} => f = frame
  <2> SUFFICES ASSUME I = {} PROVE f = frame
    OBVIOUS
  <2>1. Before(frame) = n
    BY <1>6
  <2> HIDE DEF I
  <2> QED
    BY <2>1, SubSeqFull DEF n
<1>11. ASSUME I # {}, ~Dropped(frame) PROVE frame = Append(f, Reply)
  <2>1. PICK m : m = Min(I)
    OBVIOUS
  <2>2. Before(frame) = m - 1 /\ m \in 1 .. n /\ frame[m] = Reply
    BY <1>5, <1>11, <2>1
  <2>3. ~(n > Before(frame) + 1)
    BY <1>11 DEF Dropped, n
  <2>4. n = m /\ n = Before(frame) + 1
    BY <1>1, <2>2, <2>3
  <2> HIDE DEF f, I
  <2>5. f \in Seq(Items) /\ Reply \in Items
    BY <1>9, SeqMonotonic DEF Items
  <2>6. /\ Append(f, Reply) \in Seq(Items)
        /\ Len(Append(f, Reply)) = Len(f) + 1
        /\ \A i \in 1 .. Len(f) : Append(f, Reply)[i] = f[i]
        /\ Append(f, Reply)[Len(f) + 1] = Reply
    BY <2>5, AppendProperties
  <2>7. Len(frame) = Len(Append(f, Reply))
    BY <1>9, <2>4, <2>6 DEF n
  <2>8. ASSUME NEW i \in 1 .. Len(frame) PROVE frame[i] = Append(f, Reply)[i]
    <3>1. CASE i = n
      BY <1>9, <2>2, <2>4, <2>6, <3>1
    <3>2. CASE i # n
      <4>1. i \in 1 .. Before(frame)
        BY <1>1, <2>4, <3>2, <1>7 DEF n
      <4> QED
        BY <1>9, <2>6, <4>1
    <3> QED
      BY <3>1, <3>2
  <2> QED
    BY <2>6, <2>7, <2>8, SeqEqual
<1> HIDE DEF I, f
<1> QED
  BY <1>3, <1>7, <1>8, <1>9, <1>10, <1>11 DEF n, f

-----------------------------------------------------------------------------
(* Types.                                                                  *)

Sessions == [pc : Steps, waiting : SUBSET Ids, known : SUBSET Ids,
             roster : SUBSET Players, page : States,
             pending : Seq(Packets), out : Seq(States)]
Subscriptions == [open : BOOLEAN, waiting : SUBSET Ids, names : SUBSET Ids]
Frames == Seq(Seq(Items))

\* A state that names, and tells nothing.
LEMMA NamesIsState ==
    ASSUME NEW k \in SUBSET Ids
    PROVE  Names(k) \in States /\ ~Names(k).tells /\ ~Names(k).over /\ Names(k).names = k
BY DEF Names, States

\* The sessions that have not begun, or have ended.
LEMMA NoSessionTypes ==
    NoSession \in Sessions /\ Ended \in Sessions
<1>1. {} \in SUBSET Ids /\ {} \in SUBSET Players
  OBVIOUS
<1>2. Names({}) \in States
  BY <1>1, NamesIsState
<1>3. <<>> \in Seq(Packets) /\ <<>> \in Seq(States)
  BY EmptySeq
<1>4. NoSession \in Sessions
  BY <1>1, <1>2, <1>3 DEF NoSession, Sessions, Steps
<1>5. \A s \in Sessions : [s EXCEPT !.pc = "done"] \in Sessions
  BY DEF Sessions, Steps
<1> QED
  BY <1>4, <1>5 DEF Ended

\* What is sent is frames again.
LEMMA SentTypes ==
    ASSUME NEW item \in Items
    PROVE  socket \in Frames => Sent(item) \subseteq Frames
<1> SUFFICES ASSUME socket \in Frames, NEW new \in Sent(item) PROVE new \in Frames
  OBVIOUS
<1>1. <<item>> \in Seq(Items)
  OBVIOUS
<1>2. CASE new = Append(socket, <<item>>)
  BY <1>1, <1>2, AppendProperties DEF Frames
<1>3. CASE socket # <<>> /\ new = [socket EXCEPT ![Len(socket)] = Append(@, item)]
  <2>1. Len(socket) \in 1 .. Len(socket)
    <3>1. Len(socket) \in Nat \ {0}
      BY <1>3, EmptySeq DEF Frames
    <3> QED
      BY <3>1
  <2>2. socket[Len(socket)] \in Seq(Items)
    BY <2>1, ElementOfSeq DEF Frames
  <2>3. Append(socket[Len(socket)], item) \in Seq(Items)
    BY <2>2, AppendProperties
  <2> QED
    BY <1>3, <2>1, <2>3, ExceptSeq DEF Frames
<1> QED
  BY <1>2, <1>3 DEF Sent

\* A state that is stored keeps its type.
LEMMA SanitiseTypes ==
    ASSUME NEW s \in States, NEW r \in SUBSET Players
    PROVE  /\ Sanitise(s, r) \in States
           /\ Sanitise(s, r).tells = s.tells
           /\ Sanitise(s, r).over = s.over
           /\ Sanitise(s, r).names = IF r = {} THEN s.names ELSE r
           /\ Sanitise(s, r).waiting = s.waiting \cap (IF r # {} THEN r ELSE Ids)
<1>1. r \in SUBSET Ids /\ s.waiting \in SUBSET Ids /\ s.names \in SUBSET Ids
  BY DEF Ids, States
<1>2. CASE r = {}
  <2>1. Sanitise(s, r) = s
    BY <1>2 DEF Sanitise
  <2> QED
    BY <1>1, <1>2, <2>1
<1>3. CASE r # {}
  <2>1. Sanitise(s, r) = [s EXCEPT !.names = r, !.waiting = s.waiting \cap r]
    BY <1>3 DEF Sanitise
  <2>2. PICK w \in SUBSET Ids : w = s.waiting \cap r
    BY <1>1
  <2>3. Sanitise(s, r) = [s EXCEPT !.names = r, !.waiting = w]
    BY <2>1, <2>2
  <2>4. /\ Sanitise(s, r) \in States /\ Sanitise(s, r).tells = s.tells /\ Sanitise(s, r).over = s.over
        /\ Sanitise(s, r).names = r /\ Sanitise(s, r).waiting = w
    BY <1>1, <2>3 DEF States
  <2> QED
    BY <1>3, <2>2, <2>4
<1> QED
  BY <1>2, <1>3

\* What a page says of a game that goes on is who is to move, or nothing.
LEMMA PageTypes ==
    game \in [turn : SUBSET Players, over : BOOLEAN] =>
        \A page \in Pages : page \in States /\ ~page.over /\ (page = Names({}) \/ page.names = Ids)
                            /\ (page.tells /\ ~game.over => page.waiting = game.turn)
<1> SUFFICES ASSUME game \in [turn : SUBSET Players, over : BOOLEAN], NEW page \in Pages
             PROVE  page \in States /\ ~page.over /\ (page = Names({}) \/ page.names = Ids)
                            /\ (page.tells /\ ~game.over => page.waiting = game.turn)
  OBVIOUS
<1>1. CASE page \in {Names({}), Names(Ids)}
  <2>1. {} \in SUBSET Ids /\ Ids \in SUBSET Ids
    OBVIOUS
  <2> QED
    BY <1>1, <2>1, NamesIsState
<1>2. ASSUME NEW turn, page = Tells(turn, Ids),
             turn \in IF game.over THEN {{p} : p \in Players} ELSE {game.turn} \ {{}}
      PROVE  page \in States /\ ~page.over /\ (page = Names({}) \/ page.names = Ids)
                            /\ (page.tells /\ ~game.over => page.waiting = game.turn)
  <2>1. turn \in SUBSET Players /\ (~game.over => turn = game.turn)
    BY <1>2
  <2>2. turn \in SUBSET Ids
    BY <2>1 DEF Ids
  <2> QED
    BY <1>2, <2>1, <2>2 DEF Tells, States
<1> QED
  BY <1>1, <1>2 DEF Pages

\* The page's state comes with the names known so far.
LEMMA BootstrapTypes ==
    session \in Sessions =>
        /\ Bootstrap(session.page) \in Seq(States)
        /\ session.page # Names({}) =>
             \E s \in States :
                /\ Bootstrap(session.page) = <<s>>
                /\ s.names = session.page.names \cup session.known
                /\ s.tells = session.page.tells /\ s.waiting = session.page.waiting
                /\ s.over = session.page.over
        /\ session.page = Names({}) => Bootstrap(session.page) = <<>>
<1> SUFFICES ASSUME session \in Sessions
             PROVE  /\ Bootstrap(session.page) \in Seq(States)
                    /\ session.page # Names({}) =>
                         \E s \in States :
                            /\ Bootstrap(session.page) = <<s>>
                            /\ s.names = session.page.names \cup session.known
                            /\ s.tells = session.page.tells /\ s.waiting = session.page.waiting
                            /\ s.over = session.page.over
                    /\ session.page = Names({}) => Bootstrap(session.page) = <<>>
  OBVIOUS
<1>1. PICK page \in States : page = session.page
  BY DEF Sessions
<1>2. session.known \in SUBSET Ids
  BY DEF Sessions
<1>3. CASE page = Names({})
  <2>1. Bootstrap(session.page) = <<>>
    BY <1>1, <1>3 DEF Bootstrap
  <2> QED
    BY <1>1, <1>3, <2>1, EmptySeq
<1>4. CASE page # Names({})
  <2>1. PICK s : s = [page EXCEPT !.names = page.names \cup session.known]
    OBVIOUS
  <2>2. /\ s \in States /\ s.names = page.names \cup session.known
        /\ s.tells = page.tells /\ s.waiting = page.waiting /\ s.over = page.over
    BY <1>2, <2>1 DEF States
  <2>3. Bootstrap(session.page) = <<s>>
    BY <1>1, <1>4, <2>1 DEF Bootstrap
  <2>4. <<s>> \in Seq(States)
    BY <2>2
  <2> QED
    BY <1>1, <1>4, <2>2, <2>3, <2>4
<1> QED
  BY <1>3, <1>4

Types ==
    /\ game \in [turn : SUBSET Players, over : BOOLEAN]
    /\ published \in 0 .. MaxPackets
    /\ fallback \in BOOLEAN /\ cached \in BOOLEAN /\ joined \in BOOLEAN /\ missed \in BOOLEAN
    /\ watch \in Subscriptions
    /\ session \in Sessions
    /\ socket \in Frames
    /\ faults \in 0 .. MaxFaults

\* The same, under the names of this module.
LEMMA TypesAreTypeOK == TypeOK <=> Types
BY DEF TypeOK, Types, Subscriptions, Sessions, Frames, Items

\* The packets of the game.
LEMMA MovesArePackets ==
    /\ \A e \in Events : <<e>> \in Packets
    /\ \A e, f \in Events : <<e, f>> \in Packets
    /\ \A kind \in Kinds, ids \in SUBSET Players : Event(kind, ids) \in Events
    /\ \A p \in Players : {p} \in SUBSET Players
    /\ {} \in SUBSET Players /\ Players \in SUBSET Players
    /\ Packets \subseteq Items
    /\ {"set", "ack", "begin", "recap", "over"} \subseteq Kinds
<1>1. \A e \in Events : <<e>> \in Packets
  <2> TAKE e \in Events
  <2>1. <<e>> \in Seq(Events) /\ <<e>> # <<>>
    OBVIOUS
  <2> QED
    BY <2>1 DEF Packets, Events, Reply
<1>2. \A e, f \in Events : <<e, f>> \in Packets
  <2> TAKE e, f \in Events
  <2>1. <<e, f>> \in Seq(Events) /\ <<e, f>> # <<>>
    OBVIOUS
  <2> QED
    BY <2>1 DEF Packets, Events, Reply
<1>3. \A kind \in Kinds, ids \in SUBSET Players : Event(kind, ids) \in Events
  BY DEF Event, Events
<1> QED
  BY <1>1, <1>2, <1>3 DEF Items, Kinds

\* Every action keeps the types.
LEMMA PublishTypes ==
    ASSUME Types, NEW packet \in Packets, NEW turn \in SUBSET Players, NEW over \in BOOLEAN,
           Publish(packet, turn, over)
    PROVE  Types'
<1>1. packet \in Items
  BY MovesArePackets
<1>2. socket' \in Frames
  BY <1>1, SentTypes DEF Publish, Types
<1>3. published' \in 0 .. MaxPackets
  BY StreamAssumption DEF Publish, Types
<1>4. missed' \in BOOLEAN
  BY DEF Publish, Types
<1> QED
  BY <1>2, <1>3, <1>4 DEF Publish, Types

\* A move of the game keeps the types.
LEMMA GameMovesTypes ==
    ASSUME Types, GameMoves
    PROVE  Types'
<1> USE MovesArePackets
<1>1. game.turn \in SUBSET Players
  BY DEF Types
<1>2. ASSUME NEW s \in SUBSET Players, Publish(<<Event("set", s)>>, s, FALSE) PROVE Types'
  BY <1>2, PublishTypes
<1>3. ASSUME NEW s \in SUBSET Players, NEW p \in s,
             Publish(<<Event("set", s), Event("ack", {p})>>, s, FALSE)
      PROVE  Types'
  <2>1. Event("set", s) \in Events /\ Event("ack", {p}) \in Events
    OBVIOUS
  <2>2. <<Event("set", s), Event("ack", {p})>> \in Packets
    BY <2>1
  <2> QED
    BY <1>3, <2>2, PublishTypes
<1>4. ASSUME NEW p \in game.turn, Publish(<<Event("ack", {p})>>, game.turn, FALSE) PROVE Types'
  BY <1>1, <1>4, PublishTypes
<1>5. CASE Publish(<<Event("begin", {})>>, Players, FALSE)
  BY <1>5, PublishTypes
<1>6. ASSUME NEW p \in game.turn, Publish(<<Event("recap", {p})>>, game.turn \ {p}, FALSE) PROVE Types'
  BY <1>1, <1>6, PublishTypes
<1> QED
  BY <1>2, <1>3, <1>4, <1>5, <1>6 DEF GameMoves

\* So does its end.
LEMMA GameEndsTypes ==
    ASSUME Types, GameEnds
    PROVE  Types'
<1> USE MovesArePackets
<1>1. CASE Publish(<<Event("over", {})>>, {}, TRUE)
  BY <1>1, PublishTypes
<1>2. ASSUME NEW p \in Players, Publish(<<Event("over", {}), Event("set", {p})>>, {}, TRUE) PROVE Types'
  <2>1. Event("over", {}) \in Events /\ Event("set", {p}) \in Events
    OBVIOUS
  <2>2. <<Event("over", {}), Event("set", {p})>> \in Packets
    BY <2>1
  <2> QED
    BY <1>2, <2>2, PublishTypes
<1> QED
  BY <1>1, <1>2 DEF GameEnds

\* A fault stays within the bound of faults.
LEMMA FaultTypes ==
    ASSUME Types, NEW kind, Fault(kind)
    PROVE  faults' \in 0 .. MaxFaults
BY StreamAssumption DEF Fault, Types

\* A session that goes on to its next step remains one.
LEMMA GoesTypes ==
    ASSUME Types, NEW pc \in Steps, SessionGoes(pc)
    PROVE  session' \in Sessions
BY DEF SessionGoes, Types, Sessions

\* Reading a frame while a reply is awaited keeps the types.
LEMMA AwaitsTypes ==
    ASSUME Types, NEW pc \in Steps, NEW out \in Seq(States), AwaitsReply(pc, out)
    PROVE  Types'
<1>1. PICK frame : frame = Head(socket)
  OBVIOUS
<1>2. socket # <<>> /\ socket \in Frames /\ socket' = Tail(socket)
  BY DEF AwaitsReply, Types
<1>3. frame \in Seq(Items) /\ socket' \in Frames
  BY <1>1, <1>2, HeadTailProperties DEF Frames
<1>4. PICK f : f = SubSeq(frame, 1, Before(frame))
  OBVIOUS
<1>5. f \in Seq(Packets)
  BY <1>3, <1>4, BeforeIs
<1>6. PICK next : next = IF Reply \in ToSet(frame) THEN pc ELSE session.pc
  OBVIOUS
<1>7. PICK then : then = IF Reply \in ToSet(frame) THEN out ELSE session.out
  OBVIOUS
<1>11. next \in Steps /\ then \in Seq(States)
  BY <1>6, <1>7 DEF Types, Sessions
<1>12. session' = [session EXCEPT !.pending = session.pending \o f, !.pc = next, !.out = then]
  BY <1>1, <1>4, <1>6, <1>7 DEF AwaitsReply
<1>8. session.pending \o f \in Seq(Packets)
  BY <1>5, ConcatProperties DEF Types, Sessions
<1>9. session' \in Sessions
  BY <1>8, <1>11, <1>12 DEF Types, Sessions
<1>10. missed' \in BOOLEAN
  BY DEF AwaitsReply, Types
<1> QED
  BY <1>3, <1>9, <1>10 DEF AwaitsReply, Types

\* What a session deals with is made of items.
LEMMA ItemsOfSession ==
    Types => /\ session.pending \in Seq(Items)
             /\ session.waiting \in SUBSET Ids /\ session.known \in SUBSET Ids
             /\ socket # <<>> => Head(socket) \in Seq(Items) /\ Tail(socket) \in Frames
<1> SUFFICES ASSUME Types
             PROVE  /\ session.pending \in Seq(Items)
                    /\ session.waiting \in SUBSET Ids /\ session.known \in SUBSET Ids
                    /\ socket # <<>> => Head(socket) \in Seq(Items) /\ Tail(socket) \in Frames
  OBVIOUS
<1>1. session.pending \in Seq(Packets)
  BY DEF Types, Sessions
<1>2. session.pending \in Seq(Items)
  BY <1>1, SeqMonotonic DEF Items
<1>3. socket # <<>> => Head(socket) \in Seq(Items) /\ Tail(socket) \in Frames
  BY HeadTailProperties DEF Types, Frames
<1> QED
  BY <1>2, <1>3 DEF Types, Sessions

\* The states of a frame have their type, whatever names are known.
LEMMA OutTypes ==
    ASSUME NEW items \in Seq(Items), NEW w \in SUBSET Ids, NEW k \in SUBSET Ids
    PROVE  FromItems(items, w, k) \in Seq(States)
<1>1. PICK a : ItemsTrace(a, items, w, k)
  BY ItemsAreTraced
<1>2. Len(items) \in 0 .. Len(items)
  BY LenProperties
<1>3. a[Len(items)] \in Gathered /\ FromItems(items, w, k) = a[Len(items)].out
  BY <1>1, <1>2 DEF ItemsTrace
<1> QED
  BY <1>3 DEF Gathered

\* So does ending the watch.
LEMMA ClosesTypes ==
    ASSUME Types, Closes
    PROVE  session' \in Sessions /\ watch' \in Subscriptions
BY NoSessionTypes DEF Closes, Types, Subscriptions

\* Every step of a session does.
LEMMA StepTypes ==
    ASSUME Types, SessionStep
    PROVE  Types'
<1>1. CASE Snapshots
  <2>1. CASE game.over
    BY <1>1, <2>1, ClosesTypes DEF Snapshots, Types, channel
  <2>2. CASE ~game.over
    <3>1. watch.waiting \in SUBSET Ids /\ watch.names \cup Players \in SUBSET Ids
      BY DEF Types, Subscriptions, Ids
    <3>2. session' = [session EXCEPT !.pc = "page", !.waiting = watch.waiting,
                                     !.known = watch.names \cup Players]
      BY <1>1, <2>2 DEF Snapshots
    <3>3. session' \in Sessions
      BY <3>1, <3>2 DEF Types, Sessions, Steps
    <3> QED
      BY <1>1, <2>2, <3>3 DEF Snapshots, Types, channel
  <2> QED
    BY <2>1, <2>2
<1>2. CASE LoadsPage
  <2>1. ASSUME NEW page \in Pages, LoadsRoster(page), UNCHANGED watch,
               missed' = (missed /\ (game.over \/ ~page.tells))
        PROVE  Types'
    <3>1. page \in States
      BY PageTypes DEF Types
    <3>2. PICK roster \in Rosters :
            /\ roster = {} => Fault("roster") /\ ~cached
            /\ roster # {} => UNCHANGED faults
            /\ cached' = (roster # {})
            /\ session' = [session EXCEPT !.pc = "connect", !.page = page, !.roster = roster,
                                          !.known = @ \cup roster]
      BY <2>1 DEF LoadsRoster
    <3>3. roster \in SUBSET Players /\ session.known \cup roster \in SUBSET Ids
      BY DEF Rosters, Ids, Types, Sessions
    <3>4. session' \in Sessions
      BY <3>1, <3>2, <3>3 DEF Types, Sessions, Steps
    <3>5. faults' \in 0 .. MaxFaults
      BY <3>2, FaultTypes DEF Types
    <3>6. cached' \in BOOLEAN /\ missed' \in BOOLEAN
      BY <2>1, <3>2 DEF Types
    <3> QED
      BY <1>2, <2>1, <3>4, <3>5, <3>6 DEF LoadsPage, Types, channel
  <2>2. CASE Closes /\ UNCHANGED <<cached, faults, missed>>
    BY <1>2, <2>2, ClosesTypes DEF LoadsPage, Types, channel
  <2> QED
    BY <1>2, <2>1, <2>2 DEF LoadsPage
<1>3. CASE Connects
  <2>1. session' \in Sessions
    BY <1>3, GoesTypes DEF Connects, Steps
  <2>2. socket' \in Frames
    <3>1. <<Reply>> \in Seq(Items)
      BY DEF Items
    <3>2. <<<<Reply>>>> \in Frames
      BY <3>1 DEF Frames
    <3> QED
      BY <1>3, <3>2 DEF Connects
  <2> QED
    BY <1>3, <2>1, <2>2 DEF Connects, Types
<1>4. CASE Subscribes
  BY <1>4, AwaitsTypes, EmptySeq DEF Subscribes, Steps
<1>5. CASE ChannelAnswers
  <2>1. socket' \in Frames
    BY <1>5, SentTypes DEF ChannelAnswers, Types, Items
  <2> QED
    BY <1>5, <2>1 DEF ChannelAnswers, Types
<1>6. CASE Presence
  <2>1. CASE AwaitsReply("html", <<Names(session.known \cup Guests)>>)
    <3>1. session.known \cup Guests \in SUBSET Ids
      BY DEF Types, Sessions, Ids
    <3>2. <<Names(session.known \cup Guests)>> \in Seq(States)
      BY <3>1, NamesIsState
    <3> QED
      BY <2>1, <3>2, AwaitsTypes DEF Steps
  <2>2. CASE Fault("presence") /\ SessionGoes("html")
             /\ UNCHANGED <<game, published, fallback, cached, watch, channel, missed>>
    <3>1. session' \in Sessions /\ faults' \in 0 .. MaxFaults
      BY <2>2, GoesTypes, FaultTypes DEF Steps
    <3> QED
      BY <2>2, <3>1 DEF Types, channel
  <2> QED
    BY <1>6, <2>1, <2>2 DEF Presence
<1>7. CASE YieldsPage
  <2>1. Bootstrap(session.page) \in Seq(States) /\ Names({}) \in States
    BY BootstrapTypes, NamesIsState DEF Types
  <2>2. session' \in Sessions
    BY <1>7, <2>1 DEF YieldsPage, Types, Sessions, Steps
  <2> QED
    BY <1>7, <2>2 DEF YieldsPage, Types, channel
<1>8. CASE YieldsPending
  <2>1. FromItems(session.pending, session.waiting, session.known) \in Seq(States)
    BY ItemsOfSession, OutTypes
  <2>2. <<>> \in Seq(Packets)
    BY EmptySeq
  <2>3. session' \in Sessions
    BY <1>8, <2>1, <2>2 DEF YieldsPending, Types, Sessions, Steps
  <2> QED
    BY <1>8, <2>3 DEF YieldsPending, Types, channel
<1>9. CASE Receives
  <2>1. FromItems(Head(socket), session.waiting, session.known) \in Seq(States) /\ Tail(socket) \in Frames
    BY <1>9, ItemsOfSession, OutTypes DEF Receives
  <2>2. session' \in Sessions
    BY <1>9, <2>1 DEF Receives, Types, Sessions
  <2> QED
    BY <1>9, <2>1, <2>2 DEF Receives, Types
<1>10. CASE Polls
  <2>1. Finished(session.known) \in States
    BY DEF Finished, States, Types, Sessions
  <2>2. <<Finished(session.known)>> \in Seq(States)
    BY <2>1
  <2>3. session' \in Sessions
    BY <1>10, <2>2 DEF Polls, Types, Sessions
  <2> QED
    BY <1>10, <2>3 DEF Polls, Types, channel
<1>11. CASE Yields
  <2>1. PICK s : s = Sanitise(Head(session.out), session.roster)
    OBVIOUS
  <2>2. session.out # <<>> /\ session.out \in Seq(States)
    BY <1>11 DEF Yields, Types, Sessions
  <2>3. s \in States /\ Tail(session.out) \in Seq(States)
    BY <2>1, <2>2, HeadTailProperties, SanitiseTypes DEF Types, Sessions
  <2>4. s.waiting \in SUBSET Ids /\ s.names \in SUBSET Ids
    BY <2>3 DEF States
  <2>5. CASE s.over
    <3>1. Closes /\ joined' = FALSE /\ socket' = <<>>
      BY <1>11, <2>1, <2>5 DEF Yields
    <3>2. socket' \in Frames
      BY <3>1, EmptySeq DEF Frames
    <3> QED
      BY <1>11, <3>1, <3>2, ClosesTypes DEF Yields, Types
  <2>6. CASE ~s.over
    <3>1. /\ session' = [session EXCEPT
                    !.out = Tail(@),
                    !.waiting = IF s.tells THEN s.waiting ELSE @,
                    !.known = s.names]
          /\ watch' = [watch EXCEPT
                    !.waiting = IF s.tells THEN s.waiting ELSE @,
                    !.names = @ \cup s.names]
          /\ UNCHANGED channel
      BY <1>11, <2>1, <2>6 DEF Yields
    <3>2. session' \in Sessions
      BY <2>3, <2>4, <3>1 DEF Types, Sessions
    <3>3. watch' \in Subscriptions
      BY <2>4, <3>1 DEF Types, Subscriptions
    <3> QED
      BY <1>11, <3>1, <3>2, <3>3 DEF Yields, Types, channel
  <2> QED
    BY <2>5, <2>6
<1> QED
  BY <1>1, <1>2, <1>3, <1>4, <1>5, <1>6, <1>7, <1>8, <1>9, <1>10, <1>11 DEF SessionStep

\* A session that starts over does.
LEMMA StartsOverTypes ==
    ASSUME Types, StartsOver
    PROVE  session' \in Sessions /\ socket' \in Frames /\ joined' \in BOOLEAN /\ missed' \in BOOLEAN
BY NoSessionTypes, EmptySeq DEF StartsOver, Frames

\* So every step does.
LEMMA TypesStep ==
    ASSUME Types, [Next]_vars
    PROVE  Types'
<1>1. CASE Fails
  BY <1>1, StartsOverTypes, FaultTypes DEF Fails, StartsOver, Types
<1>2. CASE Crashes
  BY <1>2, StartsOverTypes, FaultTypes DEF Crashes, StartsOver, Types
<1>3. CASE UNCHANGED vars
  BY <1>3 DEF vars, channel, Types
<1> QED
  BY <1>1, <1>2, <1>3, GameMovesTypes, GameEndsTypes, StepTypes DEF Next

\* And the types hold at the start.
LEMMA TypesInit == Init => Types
<1> SUFFICES ASSUME Init PROVE Types
  OBVIOUS
<1>1. session \in Sessions
  BY NoSessionTypes DEF Init
<1>2. socket \in Frames
  BY EmptySeq DEF Init, Frames
<1>3. game \in [turn : SUBSET Players, over : BOOLEAN]
  BY DEF Init
<1>4. watch \in Subscriptions
  BY DEF Init, Subscriptions
<1>5. published \in 0 .. MaxPackets /\ faults \in 0 .. MaxFaults
  BY StreamAssumption DEF Init
<1>6. fallback \in BOOLEAN /\ cached \in BOOLEAN /\ joined \in BOOLEAN /\ missed \in BOOLEAN
  BY DEF Init
<1> QED
  BY <1>1, <1>2, <1>3, <1>4, <1>5, <1>6 DEF Types

\* Every variable has its type.
THEOREM TypeCorrect == Spec => []TypeOK
<1>1. Init => Types
  BY TypesInit
<1>2. Types /\ [Next]_vars => Types'
  BY TypesStep
<1>3. Types => TypeOK
  BY TypesAreTypeOK
<1> QED
  BY <1>1, <1>2, <1>3, PTL DEF Spec

-----------------------------------------------------------------------------
(* What holds at which step of a session.                                  *)

Phases ==
    /\ session.pc \in {"snapshot", "page"} => missed
    /\ ~joined => socket = <<>>
    /\ joined <=> session.pc \in {"subscribe", "presence", "html", "pending", "stream"}
    /\ session.pc \in {"snapshot", "page", "connect", "subscribe", "presence", "done"} => session.out = <<>>
    /\ session.pc \in {"snapshot", "page", "connect", "stream", "done"} => session.pending = <<>>
    /\ session.pc \in {"snapshot", "page", "pending", "stream", "done"} => session.page = Names({})
    /\ session.pc \notin {"snapshot", "done"} =>
          session.waiting = watch.waiting /\ Players \subseteq session.known
    /\ session.roster \in {Players, {}}

\* The states that are still to be yielded name the players, and if there are
\* several, they come out of packets and tell.
Sound(out) ==
    /\ \A j \in 1 .. Len(out) : Players \subseteq out[j].names
    /\ Len(out) > 1 => \A j \in 1 .. Len(out) : out[j].tells
OutSound == Sound(session.out)

\* A session that ends, or has not begun.
LEMMA IdlePhases ==
    /\ NoSession.pc = "snapshot" /\ NoSession.out = <<>> /\ NoSession.pending = <<>>
    /\ NoSession.page = Names({}) /\ NoSession.roster = {} /\ NoSession.waiting = {}
    /\ Ended.pc = "done" /\ Ended.out = <<>> /\ Ended.pending = <<>>
    /\ Ended.page = Names({}) /\ Ended.roster = {}
BY DEF NoSession, Ended

\* Nothing to yield, or one state of it, is sound.
LEMMA FewSound ==
    /\ Sound(<<>>)
    /\ \A s : Players \subseteq s.names => Sound(<<s>>)
<1>1. Len(<<>>) = 0 /\ 1 .. 0 = {}
  OBVIOUS
<1>2. \A s : Len(<<s>>) = 1 /\ <<s>>[1] = s
  OBVIOUS
<1> QED
  BY <1>1, <1>2 DEF Sound

\* What is published leaves the session at its step.
LEMMA PublishPhases ==
    ASSUME Types, Phases, OutSound, NEW packet, NEW turn, NEW over, Publish(packet, turn, over)
    PROVE  Phases' /\ OutSound'
<1>1. session' = session /\ watch' = watch /\ joined' = joined
  BY DEF Publish
<1>2. ~joined' => socket' = <<>>
  BY DEF Publish, Phases
<1>3. session.pc \in {"snapshot", "page"} => missed'
  BY DEF Publish, Phases
<1>4. Phases'
  BY <1>1, <1>2, <1>3 DEF Phases
<1> QED
  BY <1>1, <1>4 DEF OutSound

\* What is read while a reply is awaited is told later.
LEMMA AwaitsPhases ==
    ASSUME Types, Phases, OutSound, NEW pc, NEW out \in Seq(States),
           \/ session.pc = "subscribe" /\ pc = "presence" /\ out = <<>>
           \/ session.pc = "presence" /\ pc = "html" /\ \E s \in States : out = <<s>> /\ Players \subseteq s.names,
           AwaitsReply(pc, out)
    PROVE  Phases' /\ OutSound'
<1>1. PICK p : p = session'.pending
  OBVIOUS
<1>2. \/ session' = [session EXCEPT !.pending = p]
      \/ session' = [session EXCEPT !.pending = p, !.pc = pc, !.out = out]
  <2>1. CASE Reply \in ToSet(Head(socket))
    BY <1>1, <2>1 DEF AwaitsReply, Types, Sessions
  <2>2. CASE Reply \notin ToSet(Head(socket))
    BY <1>1, <2>2 DEF AwaitsReply, Types, Sessions
  <2> QED
    BY <2>1, <2>2
<1>3. watch' = watch /\ joined' = joined /\ joined
  BY DEF AwaitsReply, Phases
<1>4. session.out = <<>>
  BY DEF Phases
<1>5. CASE session' = [session EXCEPT !.pending = p]
  <2>1. /\ session'.pc = session.pc /\ session'.out = session.out /\ session'.waiting = session.waiting
        /\ session'.known = session.known /\ session'.roster = session.roster /\ session'.page = session.page
    BY <1>5 DEF Types, Sessions
  <2>2. Phases'
    BY <1>3, <2>1 DEF Phases
  <2> QED
    BY <2>1, <2>2 DEF OutSound
<1>6. CASE session' = [session EXCEPT !.pending = p, !.pc = pc, !.out = out]
  <2>1. /\ session'.pc = pc /\ session'.out = out /\ session'.waiting = session.waiting
        /\ session'.known = session.known /\ session'.roster = session.roster /\ session'.page = session.page
    BY <1>6 DEF Types, Sessions
  <2>2. Phases'
    BY <1>3, <2>1 DEF Phases
  <2>3. OutSound'
    BY <2>1, FewSound DEF OutSound
  <2> QED
    BY <2>2, <2>3
<1> QED
  BY <1>2, <1>5, <1>6

\* Every step of a session keeps what holds at its steps.
LEMMA StepPhases ==
    ASSUME Types, Phases, OutSound, SessionStep
    PROVE  Phases' /\ OutSound'
<1>0. session \in Sessions /\ missed \in BOOLEAN /\ joined \in BOOLEAN
  BY DEF Types
<1>a. ASSUME Closes, ~joined', socket' = <<>> PROVE Phases' /\ OutSound'
  <2>1. session' = Ended
    BY <1>a DEF Closes
  <2> QED
    BY <1>a, <2>1, IdlePhases, FewSound DEF Phases, OutSound
<1>1. CASE Snapshots
  <2>1. ~joined /\ socket = <<>> /\ missed /\ joined' = joined /\ socket' = socket /\ missed' = missed
    BY <1>1 DEF Snapshots, Phases, channel
  <2>2. CASE game.over
    BY <1>1, <1>a, <2>1, <2>2 DEF Snapshots
  <2>3. CASE ~game.over
    <3>1. /\ watch' = watch
          /\ session' = [session EXCEPT !.pc = "page", !.waiting = watch.waiting,
                                        !.known = watch.names \cup Players]
      BY <1>1, <2>3 DEF Snapshots
    <3>2. /\ session'.pc = "page" /\ session'.waiting = watch.waiting
          /\ session'.known = watch.names \cup Players
          /\ session'.out = session.out /\ session'.pending = session.pending
          /\ session'.page = session.page /\ session'.roster = session.roster
      BY <1>0, <3>1 DEF Sessions
    <3> QED
      BY <1>1, <2>1, <3>1, <3>2 DEF Snapshots, Phases, OutSound
  <2> QED
    BY <2>2, <2>3
<1>2. CASE LoadsPage
  <2>1. ~joined /\ socket = <<>> /\ joined' = joined /\ socket' = socket /\ session.pc = "page"
    BY <1>2 DEF LoadsPage, Phases, channel
  <2>2. ASSUME NEW page \in Pages, LoadsRoster(page), UNCHANGED watch PROVE Phases' /\ OutSound'
    <3>1. PICK roster \in Rosters :
            session' = [session EXCEPT !.pc = "connect", !.page = page, !.roster = roster,
                                       !.known = @ \cup roster]
      BY <2>2 DEF LoadsRoster
    <3>2. /\ session'.pc = "connect" /\ session'.waiting = session.waiting
          /\ session'.known = session.known \cup roster
          /\ session'.out = session.out /\ session'.pending = session.pending
          /\ session'.roster = roster
      BY <1>0, <3>1 DEF Sessions
    <3> QED
      BY <2>1, <2>2, <3>2 DEF Phases, OutSound, Rosters
  <2> QED
    BY <1>2, <1>a, <2>1, <2>2 DEF LoadsPage
<1>3. CASE Connects
  <2>1. session' = [session EXCEPT !.pc = "subscribe"] /\ session.pc = "connect"
    BY <1>3 DEF Connects, SessionGoes
  <2>2. /\ session'.pc = "subscribe" /\ session'.waiting = session.waiting
        /\ session'.known = session.known
        /\ session'.out = session.out /\ session'.pending = session.pending
        /\ session'.roster = session.roster
    BY <1>0, <2>1 DEF Sessions
  <2> QED
    BY <1>3, <2>1, <2>2 DEF Connects, Phases, OutSound
<1>4. CASE Subscribes
  BY <1>4, AwaitsPhases, EmptySeq DEF Subscribes
<1>5. CASE ChannelAnswers
  BY <1>5 DEF ChannelAnswers, Phases, OutSound
<1>6. CASE Presence
  <2>1. CASE AwaitsReply("html", <<Names(session.known \cup Guests)>>)
    <3>1. session.known \cup Guests \in SUBSET Ids /\ Players \subseteq session.known
      BY <1>0, <1>6 DEF Sessions, Ids, Presence, Phases
    <3>2. PICK s : s = Names(session.known \cup Guests)
      OBVIOUS
    <3>3. s \in States /\ s.names = session.known \cup Guests
      BY <3>1, <3>2, NamesIsState
    <3>4. <<s>> \in Seq(States) /\ Players \subseteq s.names
      BY <3>1, <3>3
    <3> QED
      BY <1>6, <2>1, <3>2, <3>3, <3>4, AwaitsPhases DEF Presence
  <2>2. CASE /\ SessionGoes("html")
             /\ UNCHANGED <<game, published, fallback, cached, watch, channel, missed>>
    <3>1. session' = [session EXCEPT !.pc = "html"] /\ session.pc = "presence"
      BY <1>6, <2>2 DEF SessionGoes, Presence
    <3>2. /\ session'.pc = "html" /\ session'.waiting = session.waiting
          /\ session'.known = session.known
          /\ session'.out = session.out /\ session'.pending = session.pending
          /\ session'.roster = session.roster
      BY <1>0, <3>1 DEF Sessions
    <3> QED
      BY <2>2, <3>1, <3>2 DEF Phases, OutSound, channel
  <2> QED
    BY <1>6, <2>1, <2>2 DEF Presence
<1>7. CASE YieldsPage
  <2>1. PICK out \in Seq(States) : out = Bootstrap(session.page)
    BY <1>0, BootstrapTypes
  <2>2. session' = [session EXCEPT !.pc = "pending", !.out = out, !.page = Names({})] /\ session.pc = "html"
    BY <1>7, <2>1 DEF YieldsPage
  <2>3. /\ session'.pc = "pending" /\ session'.waiting = session.waiting
        /\ session'.known = session.known /\ session'.page = Names({})
        /\ session'.out = out /\ session'.pending = session.pending
        /\ session'.roster = session.roster
    BY <1>0, <2>2 DEF Sessions
  <2>4. Sound(out)
    <3>1. CASE session.page = Names({})
      BY <1>0, <2>1, <3>1, BootstrapTypes, FewSound
    <3>2. CASE session.page # Names({})
      <4>1. PICK s \in States : out = <<s>> /\ s.names = session.page.names \cup session.known
        BY <1>0, <2>1, <3>2, BootstrapTypes
      <4>2. Players \subseteq s.names
        BY <2>2, <4>1 DEF Phases
      <4> QED
        BY <4>1, <4>2, FewSound
    <3> QED
      BY <3>1, <3>2
  <2> QED
    BY <1>7, <2>2, <2>3, <2>4 DEF YieldsPage, Phases, OutSound, channel
<1>8. CASE YieldsPending
  <2>1. PICK out : out = FromItems(session.pending, session.waiting, session.known)
    OBVIOUS
  <2>2. session' = [session EXCEPT !.pc = "stream", !.pending = <<>>, !.out = out] /\ session.pc = "pending"
    BY <1>8, <2>1 DEF YieldsPending
  <2>3. /\ session'.pc = "stream" /\ session'.waiting = session.waiting
        /\ session'.known = session.known /\ session'.page = session.page
        /\ session'.out = out /\ session'.pending = <<>>
        /\ session'.roster = session.roster
    BY <1>0, <2>2 DEF Sessions
  <2>4. \A j \in 1 .. Len(out) : out[j].tells /\ out[j].names = session.known
    <3>1. /\ session.pending \in Seq(Items) /\ session.waiting \in Groups
          /\ session.known \in Groups /\ Players \subseteq session.known
      BY <2>2, ItemsOfSession DEF Phases, Groups
    <3> QED
      BY <2>1, <3>1, StatesTell
  <2>5. Sound(out)
    BY <2>2, <2>4 DEF Phases, Sound
  <2> QED
    BY <1>8, <2>2, <2>3, <2>5 DEF YieldsPending, Phases, OutSound, channel
<1>9. CASE Receives
  <2>1. PICK out : out = FromItems(Head(socket), session.waiting, session.known)
    OBVIOUS
  <2>2. session' = [session EXCEPT !.out = out] /\ session.pc = "stream" /\ socket # <<>>
    BY <1>9, <2>1 DEF Receives
  <2>3. /\ session'.pc = "stream" /\ session'.waiting = session.waiting
        /\ session'.known = session.known /\ session'.page = session.page
        /\ session'.out = out /\ session'.pending = session.pending
        /\ session'.roster = session.roster
    BY <1>0, <2>2 DEF Sessions
  <2>4. \A j \in 1 .. Len(out) : out[j].tells /\ out[j].names = session.known
    <3>1. /\ Head(socket) \in Seq(Items) /\ session.waiting \in Groups
          /\ session.known \in Groups /\ Players \subseteq session.known
      BY <2>2, ItemsOfSession DEF Phases, Groups
    <3> QED
      BY <2>1, <3>1, StatesTell
  <2>5. Sound(out)
    BY <2>2, <2>4 DEF Phases, Sound
  <2> QED
    BY <1>9, <2>2, <2>3, <2>5 DEF Receives, Phases, OutSound, channel
<1>10. CASE Polls
  <2>1. PICK s : s = Finished(session.known)
    OBVIOUS
  <2>2. s.names = session.known
    BY <2>1 DEF Finished
  <2>3. session' = [session EXCEPT !.out = <<s>>] /\ session.pc = "stream"
    BY <1>10, <2>1 DEF Polls
  <2>4. /\ session'.pc = "stream" /\ session'.waiting = session.waiting
        /\ session'.known = session.known /\ session'.page = session.page
        /\ session'.out = <<s>> /\ session'.pending = session.pending
        /\ session'.roster = session.roster
    BY <1>0, <2>3 DEF Sessions
  <2>5. Sound(<<s>>)
    BY <2>2, <2>3, FewSound DEF Phases
  <2> QED
    BY <1>10, <2>3, <2>4, <2>5 DEF Polls, Phases, OutSound, channel
<1>11. CASE Yields
  <2>1. PICK s : s = Sanitise(Head(session.out), session.roster)
    OBVIOUS
  <2>2. session.out # <<>> /\ session.out \in Seq(States)
    BY <1>0, <1>11 DEF Yields, Sessions
  <2>3. CASE s.over
    BY <1>11, <1>a, <2>1, <2>3 DEF Yields
  <2>4. CASE ~s.over
    <3>1. PICK w : w = IF s.tells THEN s.waiting ELSE session.waiting
      OBVIOUS
    <3>2. /\ session' = [session EXCEPT !.out = Tail(session.out), !.waiting = w, !.known = s.names]
          /\ watch' = [watch EXCEPT !.waiting = IF s.tells THEN s.waiting ELSE @,
                                    !.names = @ \cup s.names]
          /\ UNCHANGED channel
      BY <1>11, <2>1, <2>4, <3>1 DEF Yields
    <3>3. /\ session'.pc = session.pc /\ session'.waiting = w
          /\ session'.known = s.names /\ session'.page = session.page
          /\ session'.out = Tail(session.out) /\ session'.pending = session.pending
          /\ session'.roster = session.roster
      BY <1>0, <3>2 DEF Sessions
    <3>4. session.pc \in {"html", "pending", "stream"} /\ session.waiting = watch.waiting
      BY <1>0, <2>2 DEF Phases, Sessions, Steps
    <3>5. watch'.waiting = w
      BY <3>1, <3>2, <3>4 DEF Types, Subscriptions
    <3>6. /\ Head(session.out) = session.out[1] /\ 1 \in 1 .. Len(session.out)
          /\ Len(session.out) \in Nat
          /\ Len(Tail(session.out)) = Len(session.out) - 1
          /\ \A j \in 1 .. Len(Tail(session.out)) : Tail(session.out)[j] = session.out[j + 1]
      <4>1. Len(session.out) \in Nat \ {0}
        BY <2>2, EmptySeq
      <4> QED
        BY <2>2, <4>1, HeadTailProperties
    <3>7. Players \subseteq s.names
      <4>1. session.out[1] \in States /\ Players \subseteq session.out[1].names
        BY <2>2, <3>6, ElementOfSeq DEF OutSound, Sound
      <4>2. s.names = IF session.roster = {} THEN session.out[1].names ELSE session.roster
        BY <1>0, <2>1, <3>6, <4>1, SanitiseTypes DEF Sessions
      <4> QED
        BY <4>1, <4>2 DEF Phases
    <3>8. Sound(Tail(session.out))
      <4>1. \A j \in 1 .. Len(Tail(session.out)) : j + 1 \in 1 .. Len(session.out)
        BY <3>6
      <4>2. Len(Tail(session.out)) > 1 => Len(session.out) > 1
        BY <3>6
      <4> QED
        BY <3>6, <4>1, <4>2 DEF OutSound, Sound
    <3> QED
      BY <1>11, <3>2, <3>3, <3>4, <3>5, <3>7, <3>8 DEF Yields, Phases, OutSound, channel
  <2> QED
    BY <2>3, <2>4
<1> QED
  BY <1>1, <1>2, <1>3, <1>4, <1>5, <1>6, <1>7, <1>8, <1>9, <1>10, <1>11 DEF SessionStep

\* And so does every other step.
LEMMA PhasesStep ==
    ASSUME Types, Phases, OutSound, [Next]_vars
    PROVE  Phases' /\ OutSound'
<1>1. ASSUME StartsOver PROVE Phases' /\ OutSound'
  <2>1. session' = NoSession /\ ~joined' /\ socket' = <<>> /\ missed'
    BY <1>1 DEF StartsOver
  <2> QED
    BY <2>1, IdlePhases, FewSound DEF Phases, OutSound
<1>2. CASE GameMoves
  BY <1>2, PublishPhases DEF GameMoves
<1>3. CASE GameEnds
  BY <1>3, PublishPhases DEF GameEnds
<1>4. CASE Fails \/ Crashes
  BY <1>1, <1>4 DEF Fails, Crashes
<1>5. CASE UNCHANGED vars
  BY <1>5 DEF vars, channel, Phases, OutSound
<1> QED
  BY <1>2, <1>3, <1>4, <1>5, StepPhases DEF Next

-----------------------------------------------------------------------------
(* Whom the bot will wait for when all that was sent has been dealt with.  *)

\* The players that count: the roster, if it is known.
CountsOf(s) == IF s.roster # {} THEN s.roster ELSE Ids

\* Who is waited for after the states that are still to be yielded, and then the page's.
ShownBy(s) ==
    IF s.out = <<>> THEN s.waiting ELSE Told(s.out[Len(s.out)], CountsOf(s), s.waiting)
PagedBy(s) == Told(s.page, CountsOf(s), ShownBy(s))

\* From there, the pending packets and the frames may lead to whom.
EndsIn(s, frames, to) ==
    \E m \in Groups : /\ Leads(s.pending, ItemStep(CountsOf(s)), PagedBy(s), m)
                      /\ Leads(frames, FrameStep(CountsOf(s)), m, to)

\* Something that says that the game is over is still to come.
OverIn(s, frames) ==
    \/ \E j \in 1 .. Len(s.out) : s.out[j].over
    \/ \E j \in 1 .. Len(s.pending) : OverPacket(s.pending[j])
    \/ \E i \in 1 .. Len(frames) : \E j \in 1 .. Len(frames[i]) : OverPacket(frames[i][j])

\* The players are always among those who count, and these are ids.
LEMMA GroupsOf ==
    ASSUME NEW s \in Sessions
    PROVE  /\ CountsOf(s) \in Groups /\ PagedBy(s) \in Groups /\ s.pending \in Seq(Items)
           /\ s.waiting \in Groups /\ s.known \in Groups
           /\ s.roster = Players => Players \subseteq CountsOf(s)
           /\ s.roster = {} => Players \subseteq CountsOf(s)
<1>1. /\ s.roster \in SUBSET Players /\ s.waiting \in SUBSET Ids /\ s.known \in SUBSET Ids
      /\ s.page \in States /\ s.out \in Seq(States) /\ s.pending \in Seq(Packets)
  BY DEF Sessions
<1>2. PICK counts : counts = CountsOf(s)
  OBVIOUS
<1>3. /\ counts \in SUBSET Ids
      /\ s.roster = Players => Players \subseteq counts
      /\ s.roster = {} => Players \subseteq counts
  BY <1>1, <1>2 DEF CountsOf, Ids
<1>4. \A x \in States, from \in SUBSET Ids : Told(x, counts, from) \in SUBSET Ids
  BY <1>3 DEF Told, States
<1>5. ShownBy(s) \in SUBSET Ids
  <2>1. s.out # <<>> => s.out[Len(s.out)] \in States
    <3> SUFFICES ASSUME s.out # <<>> PROVE s.out[Len(s.out)] \in States
      OBVIOUS
    <3>1. Len(s.out) \in Nat \ {0}
      BY <1>1, EmptySeq
    <3>2. Len(s.out) \in 1 .. Len(s.out)
      BY <3>1
    <3> QED
      BY <1>1, <3>2, ElementOfSeq
  <2> QED
    BY <1>1, <1>2, <1>4, <2>1 DEF ShownBy
<1>6. PagedBy(s) \in SUBSET Ids
  BY <1>1, <1>2, <1>4, <1>5 DEF PagedBy
<1>7. s.pending \in Seq(Items)
  BY <1>1, SeqMonotonic DEF Items
<1> QED
  BY <1>1, <1>2, <1>3, <1>6, <1>7 DEF Groups

\* What is sent comes last: the rest leads somewhere, and the item from there.
SentTo(frames, item) ==
    {Append(frames, <<item>>)}
        \cup (IF frames = <<>> THEN {}
              ELSE {[frames EXCEPT ![Len(frames)] = Append(@, item)]})

\* The two forms of sending an item are one.
LEMMA SentIs == \A item : Sent(item) = SentTo(socket, item)
BY DEF Sent, SentTo

\* If all leads somewhere once an item is sent, the rest leads from where it led before.
LEMMA EndsSent ==
    ASSUME NEW s \in Sessions, NEW frames \in Frames, NEW item \in Items,
           NEW new \in SentTo(frames, item), NEW to \in Groups, EndsIn(s, new, to)
    PROVE  \E m \in Groups : EndsIn(s, frames, m) /\ <<item, m, to>> \in ItemStep(CountsOf(s))
<1>1. PICK counts : counts = CountsOf(s)
  OBVIOUS
<1>2. PICK m0 \in Groups : /\ Leads(s.pending, ItemStep(counts), PagedBy(s), m0)
                           /\ Leads(new, FrameStep(counts), m0, to)
  BY <1>1 DEF EndsIn
<1>3. \A m \in Groups : Leads(frames, FrameStep(counts), m0, m) => EndsIn(s, frames, m)
  BY <1>1, <1>2 DEF EndsIn
<1>4. frames \in Seq(Seq(Items)) /\ <<item>> \in Seq(Items)
  BY DEF Frames
<1>5. CASE new = Append(frames, <<item>>)
  <2>1. PICK m \in SUBSET Ids : /\ Leads(frames, FrameStep(counts), m0, m)
                                /\ <<<<item>>, m, to>> \in FrameStep(counts)
    BY <1>2, <1>4, <1>5, LeadsWithout
  <2>2. Leads(<<item>>, ItemStep(counts), m, to)
    BY <2>1, FrameStepIs
  <2>3. <<item>> = Append(<<>>, item) /\ <<>> \in Seq(Items)
    OBVIOUS
  <2>4. PICK m2 \in SUBSET Ids : Leads(<<>>, ItemStep(counts), m, m2) /\ <<item, m2, to>> \in ItemStep(counts)
    <3>1. Leads(Append(<<>>, item), ItemStep(counts), m, to)
      BY <2>2, <2>3
    <3> QED
      BY <2>3, <3>1, LeadsWithout
  <2>5. m2 = m
    BY <2>4, LeadsNowhere
  <2> QED
    BY <1>1, <1>3, <2>1, <2>4, <2>5 DEF Groups
<1>6. CASE frames # <<>> /\ new = [frames EXCEPT ![Len(frames)] = Append(@, item)]
  <2>1. PICK f : f = frames[Len(frames)]
    OBVIOUS
  <2>2. f \in Seq(Items)
    <3>1. Len(frames) \in Nat \ {0}
      BY <1>4, <1>6, EmptySeq
    <3>2. Len(frames) \in 1 .. Len(frames)
      BY <3>1
    <3> QED
      BY <1>4, <2>1, <3>2, ElementOfSeq
  <2>3. PICK x \in Seq(Items) : x = Append(f, item)
    BY <2>2, AppendProperties
  <2>4. Len(new) = Len(frames) /\ \A i \in 1 .. Len(frames) : new[i] = IF i = Len(frames) THEN x ELSE frames[i]
    <3>1. Len(frames) \in Nat \ {0}
      BY <1>4, <1>6, EmptySeq
    <3>2. Len(frames) \in 1 .. Len(frames)
      BY <3>1
    <3>3. new = [frames EXCEPT ![Len(frames)] = x]
      BY <1>6, <2>1, <2>3
    <3> QED
      BY <1>4, <3>2, <3>3, ExceptSeq
  <2>5. PICK m \in Groups :
            /\ <<x, m, to>> \in FrameStep(counts)
            /\ \A other \in Groups :
                  <<f, m, other>> \in FrameStep(counts) => Leads(frames, FrameStep(counts), m0, other)
    BY <1>2, <1>4, <1>6, <2>1, <2>4, LeadsOtherwise
  <2>6. Leads(Append(f, item), ItemStep(counts), m, to)
    BY <2>3, <2>5, FrameStepIs
  <2>7. PICK m2 \in SUBSET Ids : Leads(f, ItemStep(counts), m, m2) /\ <<item, m2, to>> \in ItemStep(counts)
    BY <2>2, <2>6, LeadsWithout
  <2>8. <<f, m, m2>> \in FrameStep(counts)
    BY <2>2, <2>5, <2>7, FrameStepIs DEF Groups
  <2>9. Leads(frames, FrameStep(counts), m0, m2)
    BY <2>5, <2>7, <2>8 DEF Groups
  <2> QED
    BY <1>1, <1>3, <2>7, <2>9 DEF Groups
<1> QED
  BY <1>5, <1>6 DEF SentTo

\* A frame that is taken for a reply, and loses nothing, leads where it led.
LEMMA EndsAwaited ==
    ASSUME NEW s \in Sessions, NEW r \in Sessions, NEW frames \in Frames, frames # <<>>,
           NEW f, f = SubSeq(Head(frames), 1, Before(Head(frames))),
           ~ (Reply \in ToSet(Head(frames)) /\ Dropped(Head(frames))),
           r.pending = s.pending \o f, CountsOf(r) = CountsOf(s), PagedBy(r) = PagedBy(s),
           NEW to, EndsIn(r, Tail(frames), to)
    PROVE  EndsIn(s, frames, to)
<1>1. PICK counts : counts = CountsOf(s)
  OBVIOUS
<1>2. PICK m \in Groups : /\ Leads(s.pending \o f, ItemStep(counts), PagedBy(s), m)
                          /\ Leads(Tail(frames), FrameStep(counts), m, to)
  BY <1>1 DEF EndsIn
<1>3. Head(frames) \in Seq(Items)
  BY HeadTailProperties DEF Frames
<1>4. f \in Seq(Packets)
  BY <1>3, BeforeIs
<1>5. f \in Seq(Items) /\ s.pending \in Seq(Items)
  BY <1>4, SeqMonotonic, GroupsOf DEF Items
<1>6. PICK m0 \in SUBSET Ids : Leads(s.pending, ItemStep(counts), PagedBy(s), m0)
                               /\ Leads(f, ItemStep(counts), m0, m)
  BY <1>2, <1>5, LeadsThrough
<1>7. m \in SUBSET Ids
  BY DEF Groups
<1>8. Leads(Head(frames), ItemStep(counts), m0, m)
  <2>1. CASE Reply \notin ToSet(Head(frames))
    <3>1. Head(frames) = f
      BY <1>3, <2>1, BeforeIs
    <3> QED
      BY <1>6, <3>1
  <2>2. CASE Reply \in ToSet(Head(frames))
    <3>1. Head(frames) = Append(f, Reply)
      BY <1>3, <2>2, BeforeIs
    <3>2. <<Reply, m, m>> \in ItemStep(counts) /\ Reply \in Items
      BY <1>7, ReplySteps DEF Items
    <3>3. Leads(Append(f, Reply), ItemStep(counts), m0, m)
      BY <1>5, <1>6, <1>7, <3>2, LeadsAppend
    <3> QED
      BY <3>1, <3>3
  <2> QED
    BY <2>1, <2>2
<1>9. <<Head(frames), m0, m>> \in FrameStep(counts)
  BY <1>3, <1>6, <1>7, <1>8, FrameStepIs
<1>10. Leads(frames, FrameStep(counts), m0, to)
  BY <1>2, <1>6, <1>9, LeadsOn DEF Frames
<1>11. m0 \in Groups
  BY <1>6 DEF Groups
<1> QED
  BY <1>1, <1>6, <1>10, <1>11 DEF EndsIn

\* Nor does it lose the end of the game.
LEMMA OverAwaited ==
    ASSUME NEW s \in Sessions, NEW r \in Sessions, NEW frames \in Frames, frames # <<>>,
           NEW f, f = SubSeq(Head(frames), 1, Before(Head(frames))),
           ~ (Reply \in ToSet(Head(frames)) /\ Dropped(Head(frames))),
           r.pending = s.pending \o f, s.out = <<>>, OverIn(s, frames)
    PROVE  OverIn(r, Tail(frames))
<1>1. Head(frames) \in Seq(Items) /\ Head(frames) = frames[1]
  BY HeadTailProperties DEF Frames
<1>2. f \in Seq(Packets)
  BY <1>1, BeforeIs
<1>3. f \in Seq(Items) /\ s.pending \in Seq(Items)
  BY <1>2, SeqMonotonic, GroupsOf DEF Items
<1>4. /\ Len(r.pending) = Len(s.pending) + Len(f)
      /\ \A i \in 1 .. Len(s.pending) + Len(f) :
            r.pending[i] = IF i <= Len(s.pending) THEN s.pending[i] ELSE f[i - Len(s.pending)]
  BY <1>3, ConcatProperties
<1>5. PICK a \in Nat, b \in Nat : a = Len(s.pending) /\ b = Len(f)
  BY <1>3, LenProperties
<1>6. ASSUME NEW j \in 1 .. Len(s.pending), OverPacket(s.pending[j]) PROVE OverIn(r, Tail(frames))
  <2>0. j \in 1 .. a
    BY <1>5
  <2>1. j \in 1 .. a + b /\ j <= a
    BY <2>0
  <2>2. j \in 1 .. Len(r.pending) /\ r.pending[j] = s.pending[j]
    BY <1>4, <1>5, <2>1
  <2> QED
    BY <1>6, <2>2 DEF OverIn
<1>7. ASSUME NEW j \in 1 .. Len(frames[1]), OverPacket(frames[1][j]) PROVE OverIn(r, Tail(frames))
  <2>1. j \in 1 .. Len(f) /\ f[j] = frames[1][j]
    <3>1. CASE Reply \notin ToSet(Head(frames))
      BY <1>1, <1>7, <3>1, BeforeIs
    <3>2. CASE Reply \in ToSet(Head(frames))
      <4>1. frames[1] = Append(f, Reply)
        BY <1>1, <3>2, BeforeIs
      <4>2. Reply \in Items
        BY DEF Items
      <4>3. /\ Len(frames[1]) = Len(f) + 1 /\ frames[1][Len(f) + 1] = Reply
            /\ \A i \in 1 .. Len(f) : frames[1][i] = f[i]
        BY <1>3, <4>1, <4>2, AppendProperties
      <4>4. j # b + 1 /\ j \in 1 .. b + 1
        BY <1>5, <1>7, <4>3 DEF OverPacket
      <4>5. j \in 1 .. b
        BY <4>4
      <4> QED
        BY <1>5, <4>3, <4>5
    <3> QED
      BY <3>1, <3>2
  <2>a. j \in 1 .. b
    BY <1>5, <2>1
  <2>2. a + j \in 1 .. a + b /\ ~ (a + j <= a) /\ (a + j) - a = j
    BY <2>a
  <2>3. r.pending[a + j] = f[j] /\ a + j \in 1 .. Len(r.pending)
    BY <1>4, <1>5, <2>2
  <2> QED
    BY <1>7, <2>1, <2>3 DEF OverIn
<1>8. ASSUME NEW i \in 1 .. Len(frames), i # 1, NEW j \in 1 .. Len(frames[i]), OverPacket(frames[i][j])
      PROVE  OverIn(r, Tail(frames))
  <2>1. Len(frames) \in Nat
    BY LenProperties DEF Frames
  <2>2. Len(Tail(frames)) = Len(frames) - 1 /\ \A h \in 1 .. Len(Tail(frames)) : Tail(frames)[h] = frames[h + 1]
    BY HeadTailProperties DEF Frames
  <2>3. i - 1 \in 1 .. Len(Tail(frames)) /\ (i - 1) + 1 = i
    BY <1>8, <2>1, <2>2
  <2>4. Tail(frames)[i - 1] = frames[i]
    BY <2>2, <2>3
  <2> QED
    BY <1>8, <2>3, <2>4 DEF OverIn
<1>9. ~ \E j \in 1 .. Len(s.out) : s.out[j].over
  <2>1. Len(s.out) = 0 /\ 1 .. 0 = {}
    OBVIOUS
  <2> QED
    BY <2>1
<1> QED
  BY <1>6, <1>7, <1>8, <1>9 DEF OverIn

-----------------------------------------------------------------------------
(* The invariant.                                                          *)

\* Unless something was missed, all that was sent leads to those who are to move.
TurnKnown ==
    watch.open /\ ~missed /\ ~game.over =>
        \A to \in Groups : EndsIn(session, socket, to) => to = game.turn

\* Unless something was missed, the end of the game is still to come.
EndComing ==
    watch.open /\ ~missed /\ game.over => OverIn(session, socket)

IInv == Types /\ Phases /\ OutSound /\ TurnKnown /\ EndComing

\* Of a session, only what is waiting, still to be yielded or pending matters, and the roster.
LEMMA EndsSame ==
    ASSUME NEW s, NEW r, r.out = s.out, r.pending = s.pending, r.page = s.page,
           r.roster = s.roster, r.waiting = s.waiting
    PROVE  /\ CountsOf(r) = CountsOf(s) /\ PagedBy(r) = PagedBy(s)
           /\ \A frames, to : EndsIn(r, frames, to) <=> EndsIn(s, frames, to)
           /\ \A frames : OverIn(r, frames) <=> OverIn(s, frames)
<1>1. CountsOf(r) = CountsOf(s) /\ PagedBy(r) = PagedBy(s)
  BY DEF CountsOf, PagedBy, ShownBy
<1>2. \A frames, to : EndsIn(r, frames, to) <=> EndsIn(s, frames, to)
  BY <1>1 DEF EndsIn
<1>3. \A frames : OverIn(r, frames) <=> OverIn(s, frames)
  BY DEF OverIn
<1> QED
  BY <1>1, <1>2, <1>3

\* Nothing that is sent makes what is still to come go away.
LEMMA OverSent ==
    ASSUME NEW s, NEW frames \in Frames, NEW item \in Items, NEW new \in SentTo(frames, item),
           OverIn(s, frames)
    PROVE  OverIn(s, new)
<1> SUFFICES ASSUME NEW i \in 1 .. Len(frames), NEW j \in 1 .. Len(frames[i]), OverPacket(frames[i][j])
             PROVE  OverIn(s, new)
  BY DEF OverIn
<1>1. frames \in Seq(Seq(Items)) /\ <<item>> \in Seq(Items) /\ frames[i] \in Seq(Items)
  BY ElementOfSeq DEF Frames
<1>2. Len(frames) \in Nat
  BY <1>1, LenProperties
<1>3. CASE new = Append(frames, <<item>>)
  <2>1. Len(new) = Len(frames) + 1 /\ new[i] = frames[i]
    BY <1>1, <1>3, AppendProperties
  <2>2. i \in 1 .. Len(new)
    BY <1>2, <2>1
  <2> QED
    BY <2>1, <2>2 DEF OverIn
<1>4. CASE frames # <<>> /\ new = [frames EXCEPT ![Len(frames)] = Append(@, item)]
  <2>1. Len(frames) \in 1 .. Len(frames)
    BY <1>2
  <2>2. PICK x \in Seq(Items) : x = Append(frames[Len(frames)], item)
    BY <1>1, <2>1, ElementOfSeq, AppendProperties
  <2>3. new = [frames EXCEPT ![Len(frames)] = x]
    BY <1>4, <2>2
  <2>4. Len(new) = Len(frames) /\ new[i] = IF i = Len(frames) THEN x ELSE frames[i]
    BY <1>1, <2>1, <2>3, ExceptSeq
  <2>5. i = Len(frames) => j \in 1 .. Len(x) /\ x[j] = frames[i][j]
    <3> SUFFICES ASSUME i = Len(frames) PROVE j \in 1 .. Len(x) /\ x[j] = frames[i][j]
      OBVIOUS
    <3>1. x = Append(frames[i], item)
      BY <2>2
    <3>2. Len(x) = Len(frames[i]) + 1 /\ x[j] = frames[i][j]
      BY <1>1, <3>1, AppendProperties
    <3>3. Len(frames[i]) \in Nat
      BY <1>1, LenProperties
    <3> QED
      BY <3>2, <3>3
  <2>6. j \in 1 .. Len(new[i]) /\ OverPacket(new[i][j])
    BY <2>4, <2>5
  <2> QED
    BY <2>4, <2>6 DEF OverIn
<1> QED
  BY <1>3, <1>4 DEF SentTo

\* The packet that is published is among what was sent.
LEMMA OverIsSent ==
    ASSUME NEW s, NEW frames \in Frames, NEW item \in Items, NEW new \in SentTo(frames, item),
           OverPacket(item)
    PROVE  OverIn(s, new)
<1>1. frames \in Seq(Seq(Items)) /\ <<item>> \in Seq(Items)
  BY DEF Frames
<1>2. Len(frames) \in Nat
  BY <1>1, LenProperties
<1>3. CASE new = Append(frames, <<item>>)
  <2>1. Len(new) = Len(frames) + 1 /\ new[Len(frames) + 1] = <<item>>
    BY <1>1, <1>3, AppendProperties
  <2>2. Len(frames) + 1 \in 1 .. Len(new) /\ 1 \in 1 .. Len(<<item>>) /\ <<item>>[1] = item
    BY <1>2, <2>1
  <2> QED
    BY <2>1, <2>2 DEF OverIn
<1>4. CASE frames # <<>> /\ new = [frames EXCEPT ![Len(frames)] = Append(@, item)]
  <2>0. Len(frames) \in Nat \ {0}
    BY <1>1, <1>4, EmptySeq
  <2>1. Len(frames) \in 1 .. Len(frames)
    BY <2>0
  <2>2. frames[Len(frames)] \in Seq(Items)
    BY <1>1, <2>1, ElementOfSeq
  <2>3. PICK x \in Seq(Items) : x = Append(frames[Len(frames)], item)
    BY <2>2, AppendProperties
  <2>4. new = [frames EXCEPT ![Len(frames)] = x]
    BY <1>4, <2>3
  <2>5. Len(new) = Len(frames) /\ new[Len(frames)] = x
    BY <1>1, <2>1, <2>4, ExceptSeq
  <2>6. Len(x) = Len(frames[Len(frames)]) + 1 /\ x[Len(frames[Len(frames)]) + 1] = item
        /\ Len(frames[Len(frames)]) \in Nat
    BY <2>2, <2>3, AppendProperties
  <2>7. Len(frames[Len(frames)]) + 1 \in 1 .. Len(x)
    BY <2>6
  <2> QED
    BY <2>1, <2>5, <2>6, <2>7 DEF OverIn
<1> QED
  BY <1>3, <1>4 DEF SentTo

-----------------------------------------------------------------------------
(* The game moves and ends.                                                *)

\* Unless something is missed, what is published was heard, from what was known before.
LEMMA PublishLeads ==
    ASSUME IInv, NEW packet \in Packets, NEW turn \in SUBSET Players, Publish(packet, turn, FALSE),
           watch.open, ~missed', NEW to \in Groups, EndsIn(session', socket', to)
    PROVE  /\ \/ Complete(packet)
              \/ Len(packet) = 1 /\ packet[1].kind # "begin" /\ ~missed
           /\ \E m \in Groups : /\ <<packet, m, to>> \in ItemStep(CountsOf(session))
                                /\ ~missed => m = game.turn
<1>1. session \in Sessions /\ socket \in Frames /\ packet \in Items
  BY MovesArePackets DEF IInv, Types
<1>2. joined /\ \/ Complete(packet)
                \/ Len(packet) = 1 /\ packet[1].kind # "begin" /\ ~missed
  BY DEF Publish
<1>3. socket' \in SentTo(socket, packet) /\ session' = session
  BY <1>2, SentIs DEF Publish
<1>4. PICK m \in Groups : /\ EndsIn(session, socket, m)
                          /\ <<packet, m, to>> \in ItemStep(CountsOf(session))
  BY <1>1, <1>3, EndsSent
<1>5. ~game.over
  BY DEF Publish
<1>6. ~missed => m = game.turn
  BY <1>4, <1>5 DEF IInv, TurnKnown
<1> QED
  BY <1>2, <1>4, <1>6

\* A packet of one event leaves those to move who are to move.
LEMMA LoneTurn ==
    ASSUME IInv, NEW kind \in Kinds, NEW ids \in SUBSET Players, NEW turn \in SUBSET Players,
           Publish(<<Event(kind, ids)>>, turn, FALSE),
           \/ kind = "set" /\ turn = ids
           \/ kind = "begin" /\ turn = Players
           \/ kind = "ack" /\ turn = game.turn /\ \E p \in game.turn : ids = {p}
           \/ kind = "recap" /\ \E p \in game.turn : ids = {p} /\ turn = game.turn \ {p}
    PROVE  TurnKnown' /\ EndComing'
<1>1. game'.over = FALSE /\ game'.turn = turn /\ watch' = watch /\ session' = session
  BY DEF Publish
<1>2. EndComing'
  BY <1>1 DEF EndComing
<1>3. ASSUME watch.open, ~missed', NEW to \in Groups, EndsIn(session', socket', to) PROVE to = turn
  <2>1. PICK e \in Events : e = Event(kind, ids)
    BY MovesArePackets
  <2>2. e.kind = kind /\ e.ids = ids
    BY <2>1 DEF Event
  <2>3. PICK packet \in Packets : packet = <<e>>
    BY MovesArePackets
  <2>a. Len(packet) = 1 /\ packet[1] = e
    BY <2>3
  <2>b. packet[Len(packet)].kind = kind
    BY <2>2, <2>a
  <2>4. Complete(packet) <=> kind \in {"set", "over"} \/ (kind = "begin" /\ session.roster # {})
    BY <2>b DEF Complete
  <2>5. Publish(packet, turn, FALSE)
    BY <2>1, <2>3
  <2>c. /\ Complete(packet) \/ (Len(packet) = 1 /\ packet[1].kind # "begin" /\ ~missed)
        /\ \E m \in Groups : /\ <<packet, m, to>> \in ItemStep(CountsOf(session))
                             /\ ~missed => m = game.turn
    BY <1>3, <2>5, PublishLeads
  <2>6. /\ Complete(packet) \/ (kind # "begin" /\ ~missed)
        /\ \E m \in Groups : /\ <<<<e>>, m, to>> \in ItemStep(CountsOf(session))
                             /\ ~missed => m = game.turn
    BY <2>2, <2>3, <2>a, <2>c
  <2>7. PICK m \in Groups : /\ <<<<e>>, m, to>> \in ItemStep(CountsOf(session))
                            /\ ~missed => m = game.turn
    BY <2>6
  <2>8. session \in Sessions /\ session.roster \in {Players, {}} /\ game.turn \in SUBSET Players
    BY DEF IInv, Types, Phases
  <2>9. PICK counts \in Groups : counts = CountsOf(session)
    BY <2>8, GroupsOf
  <2>10. Players \subseteq counts /\ counts \in SUBSET Ids /\ m \in SUBSET Ids
    BY <2>8, <2>9, GroupsOf DEF Groups
  <2>11. <<<<e>>, m, to>> \in ItemStep(counts)
    BY <2>7, <2>9
  <2>12. /\ e.kind = "set" => to = e.ids
         /\ e.kind = "begin" /\ counts = Players => to = Players
         /\ \A p \in m : e.kind = "ack" /\ e.ids = {p} /\ m \subseteq Players => to = m
         /\ \A p \in m : e.kind = "recap" /\ e.ids = {p} /\ m \subseteq Players => to = m \ {p}
    BY <2>10, <2>11, EventSteps
  <2>13. CASE kind = "set"
    BY <2>2, <2>12, <2>13
  <2>14. CASE kind = "begin"
    <3>1. session.roster # {}
      BY <2>4, <2>6, <2>14
    <3>2. counts = Players
      BY <2>8, <2>9, <3>1 DEF CountsOf
    <3> QED
      BY <2>2, <2>12, <2>14, <3>2
  <2>15. CASE kind = "ack"
    <3>1. m = game.turn
      BY <2>4, <2>6, <2>7, <2>15
    <3> QED
      BY <2>2, <2>8, <2>12, <2>15, <3>1
  <2>16. CASE kind = "recap"
    <3>1. m = game.turn
      BY <2>4, <2>6, <2>7, <2>16
    <3> QED
      BY <2>2, <2>8, <2>12, <2>16, <3>1
  <2> QED
    BY <2>13, <2>14, <2>15, <2>16
<1> QED
  BY <1>1, <1>2, <1>3 DEF TurnKnown

\* So does every move; a packet that acknowledges as it opens a turn is missed.
LEMMA GameMovesKnown ==
    ASSUME IInv, GameMoves
    PROVE  TurnKnown' /\ EndComing'
<1>0. game.turn \in SUBSET Players
  BY DEF IInv, Types
<1>1. ASSUME NEW s \in SUBSET Players, Publish(<<Event("set", s)>>, s, FALSE)
      PROVE  TurnKnown' /\ EndComing'
  BY <1>1, LoneTurn DEF Kinds
<1>2. ASSUME NEW s \in SUBSET Players, NEW p \in s,
             Publish(<<Event("set", s), Event("ack", {p})>>, s, FALSE)
      PROVE  TurnKnown' /\ EndComing'
  <2>1. PICK packet : packet = <<Event("set", s), Event("ack", {p})>>
    OBVIOUS
  <2>2. Len(packet) = 2 /\ packet[2].kind = "ack"
    BY <2>1 DEF Event
  <2>3. ~Complete(packet)
    BY <2>2 DEF Complete
  <2>4. missed'
    BY <1>2, <2>1, <2>2, <2>3 DEF Publish
  <2> QED
    BY <2>4 DEF TurnKnown, EndComing
<1>3. ASSUME NEW p \in game.turn, Publish(<<Event("ack", {p})>>, game.turn, FALSE)
      PROVE  TurnKnown' /\ EndComing'
  <2>1. {p} \in SUBSET Players /\ "ack" \in Kinds
    BY <1>0 DEF Kinds
  <2> QED
    BY <1>0, <1>3, <2>1, LoneTurn
<1>4. CASE Publish(<<Event("begin", {})>>, Players, FALSE)
  <2>1. {} \in SUBSET Players /\ Players \in SUBSET Players /\ "begin" \in Kinds
    BY DEF Kinds
  <2> QED
    BY <1>4, <2>1, LoneTurn
<1>5. ASSUME NEW p \in game.turn, Publish(<<Event("recap", {p})>>, game.turn \ {p}, FALSE)
      PROVE  TurnKnown' /\ EndComing'
  <2>1. {p} \in SUBSET Players /\ game.turn \ {p} \in SUBSET Players /\ "recap" \in Kinds
    BY <1>0 DEF Kinds
  <2> QED
    BY <1>5, <2>1, LoneTurn
<1> QED
  BY <1>1, <1>2, <1>3, <1>4, <1>5 DEF GameMoves

\* And the end of the game is among what was sent.
LEMMA GameEndsKnown ==
    ASSUME IInv, GameEnds
    PROVE  TurnKnown' /\ EndComing'
<1>1. ASSUME NEW packet \in Packets, OverPacket(packet), Publish(packet, {}, TRUE),
             packet[1].kind = "over"
      PROVE  TurnKnown' /\ EndComing'
  <2>1. game'.over = TRUE /\ session' = session
    BY <1>1 DEF Publish
  <2>2. ASSUME ~missed' PROVE OverIn(session', socket')
    <3>1. socket' \in SentTo(socket, packet)
      BY <1>1, <2>2, SentIs DEF Publish
    <3>2. packet \in Items /\ socket \in Frames
      BY MovesArePackets DEF IInv, Types
    <3> QED
      BY <1>1, <3>1, <3>2, OverIsSent
  <2> QED
    BY <2>1, <2>2 DEF TurnKnown, EndComing
<1>2. CASE Publish(<<Event("over", {})>>, {}, TRUE)
  <2>1. PICK e \in Events : e = Event("over", {})
    BY MovesArePackets
  <2>2. <<e>> \in Packets /\ <<e>>[1] = e /\ e.kind = "over" /\ <<e>> # <<>>
    BY <2>1, MovesArePackets DEF Event
  <2> QED
    BY <1>1, <1>2, <2>1, <2>2 DEF OverPacket, Reply
<1>3. ASSUME NEW p \in Players, Publish(<<Event("over", {}), Event("set", {p})>>, {}, TRUE)
      PROVE  TurnKnown' /\ EndComing'
  <2>1. PICK e \in Events, f \in Events : e = Event("over", {}) /\ f = Event("set", {p})
    BY MovesArePackets
  <2>2. <<e, f>> \in Packets /\ <<e, f>>[1] = e /\ e.kind = "over" /\ <<e, f>> # <<>>
    BY <2>1, MovesArePackets DEF Event
  <2> QED
    BY <1>1, <1>3, <2>1, <2>2 DEF OverPacket, Reply
<1> QED
  BY <1>2, <1>3 DEF GameEnds

-----------------------------------------------------------------------------
(* The session's steps.                                                    *)

\* With nothing pending and nothing sent, the bot waits for whom it has been told.
LEMMA EndsNowhere ==
    ASSUME NEW s \in Sessions, s.pending = <<>>
    PROVE  /\ \A to \in Groups : EndsIn(s, <<>>, to) => to = PagedBy(s)
           /\ EndsIn(s, <<>>, PagedBy(s))
<1>1. PICK counts : counts = CountsOf(s)
  OBVIOUS
<1>2. PICK paged \in Groups : paged = PagedBy(s)
  BY GroupsOf
<1>3. paged \in SUBSET Ids
  BY DEF Groups
<1>4. ASSUME NEW to \in Groups, EndsIn(s, <<>>, to) PROVE to = paged
  <2>1. PICK m \in Groups : /\ Leads(<<>>, ItemStep(counts), paged, m)
                            /\ Leads(<<>>, FrameStep(counts), m, to)
    BY <1>1, <1>2, <1>4 DEF EndsIn
  <2>2. m = paged
    BY <1>3, <2>1, LeadsNowhere
  <2>3. to = m
    BY <1>3, <2>1, <2>2, LeadsNowhere
  <2> QED
    BY <2>2, <2>3
<1>5. EndsIn(s, <<>>, paged)
  <2>1. Leads(<<>>, ItemStep(counts), paged, paged) /\ Leads(<<>>, FrameStep(counts), paged, paged)
    BY <1>3, LeadsEmpty
  <2> QED
    BY <1>1, <1>2, <2>1 DEF EndsIn
<1> QED
  BY <1>2, <1>4, <1>5

\* Names tell nothing.
LEMMA NamesTellNothing ==
    \A names, counts, from : Told(Names(names), counts, from) = from
BY DEF Told, Names

\* A watch that is closed need not know.
LEMMA ClosesKnown ==
    ASSUME Types, Closes
    PROVE  TurnKnown' /\ EndComing'
<1>1. watch'.open = FALSE
  BY DEF Closes, Types, Subscriptions
<1> QED
  BY <1>1 DEF TurnKnown, EndComing

\* A first look at the table keeps what is known.
LEMMA SnapshotsKnown ==
    ASSUME IInv, Snapshots
    PROVE  TurnKnown' /\ EndComing'
<1>1. CASE game.over
  BY <1>1, ClosesKnown DEF Snapshots, IInv
<1>2. CASE ~game.over
  BY <1>2 DEF Snapshots, IInv, Phases, TurnKnown, EndComing
<1> QED
  BY <1>1, <1>2

\* The page says who is to move, or it is missed.
LEMMA LoadsPageKnown ==
    ASSUME IInv, Types', LoadsPage
    PROVE  TurnKnown' /\ EndComing'
<1>1. ASSUME NEW page \in Pages, LoadsRoster(page), missed' = (missed /\ (game.over \/ ~page.tells)),
             UNCHANGED watch
      PROVE  TurnKnown' /\ EndComing'
  <2>1. /\ session.pc = "page" /\ missed /\ ~joined /\ socket = <<>> /\ session.pending = <<>>
        /\ game' = game /\ socket' = socket
    BY DEF LoadsPage, IInv, Phases, channel
  <2>2. PICK roster \in Rosters :
            session' = [session EXCEPT !.pc = "connect", !.page = page, !.roster = roster,
                                       !.known = @ \cup roster]
    BY <1>1 DEF LoadsRoster
  <2>3. PICK r \in Sessions : r = session'
    BY DEF Types
  <2>4. session \in Sessions /\ game \in [turn : SUBSET Players, over : BOOLEAN]
    BY DEF IInv, Types
  <2>5. r.pending = session.pending /\ r.page = page /\ r.roster = roster
    BY <2>2, <2>3, <2>4 DEF Sessions
  <2>6. ASSUME ~missed', NEW to \in Groups, EndsIn(session', socket', to) PROVE to = game.turn
    <3>1. ~game.over /\ page.tells
      BY <1>1, <2>1, <2>6
    <3>2. page.waiting = game.turn
      BY <2>4, <3>1, PageTypes
    <3>3. to = PagedBy(r)
      BY <2>1, <2>3, <2>5, <2>6, EndsNowhere
    <3>4. PICK counts : counts = CountsOf(r)
      OBVIOUS
    <3>5. Players \subseteq counts
      BY <2>5, <3>4, GroupsOf DEF Rosters
    <3>6. PagedBy(r) = page.waiting \cap counts
      BY <2>5, <3>1, <3>4 DEF PagedBy, Told
    <3> QED
      BY <2>4, <3>2, <3>3, <3>5, <3>6
  <2>7. TurnKnown'
    BY <2>1, <2>6 DEF TurnKnown
  <2>8. EndComing'
    BY <1>1, <2>1 DEF EndComing
  <2> QED
    BY <2>7, <2>8
<1>2. CASE Closes
  BY <1>2, ClosesKnown DEF IInv
<1> QED
  BY <1>1, <1>2 DEF LoadsPage

\* A reply that is sent changes nothing.
LEMMA RepliesKnown ==
    ASSUME IInv, NEW new \in SentTo(socket, Reply), watch.open, ~missed
    PROVE  /\ ~game.over => \A to \in Groups : EndsIn(session, new, to) => to = game.turn
           /\ game.over => OverIn(session, new)
<1>1. session \in Sessions /\ socket \in Frames /\ Reply \in Items
  BY DEF IInv, Types, Items
<1>2. ASSUME ~game.over, NEW to \in Groups, EndsIn(session, new, to) PROVE to = game.turn
  <2>1. PICK m \in Groups : EndsIn(session, socket, m) /\ <<Reply, m, to>> \in ItemStep(CountsOf(session))
    BY <1>1, <1>2, EndsSent
  <2>2. to = m
    BY <2>1, ReplySteps DEF Groups
  <2> QED
    BY <1>2, <2>1, <2>2 DEF IInv, TurnKnown
<1>3. ASSUME game.over PROVE OverIn(session, new)
  <2>1. OverIn(session, socket)
    BY <1>3 DEF IInv, EndComing
  <2> QED
    BY <1>1, <2>1, OverSent
<1> QED
  BY <1>2, <1>3

\* Nothing that was sent is lost by subscribing.
LEMMA ConnectsKnown ==
    ASSUME IInv, Connects
    PROVE  TurnKnown' /\ EndComing'
<1>1. session \in Sessions /\ session.pc = "connect" /\ socket = <<>>
  BY DEF IInv, Types, Phases, Connects
<1>2. session' = [session EXCEPT !.pc = "subscribe"] /\ UNCHANGED <<game, watch, missed>>
  BY DEF Connects, SessionGoes
<1>3. /\ session'.out = session.out /\ session'.pending = session.pending
      /\ session'.page = session.page /\ session'.roster = session.roster
      /\ session'.waiting = session.waiting
  BY <1>1, <1>2 DEF Sessions
<1>4. PICK r, new : r = session' /\ new = socket'
  OBVIOUS
<1>5. /\ \A to : EndsIn(r, new, to) <=> EndsIn(session, new, to)
      /\ OverIn(r, new) <=> OverIn(session, new)
  BY <1>3, <1>4, EndsSame
<1>6. new \in SentTo(socket, Reply)
  <2>1. new = Append(socket, <<Reply>>)
    BY <1>1, <1>4 DEF Connects
  <2> QED
    BY <2>1 DEF SentTo
<1> QED
  BY <1>2, <1>4, <1>5, <1>6, RepliesKnown DEF TurnKnown, EndComing

\* Nor by what the channel answers.
LEMMA AnswersKnown ==
    ASSUME IInv, ChannelAnswers
    PROVE  TurnKnown' /\ EndComing'
<1>1. PICK new : new = socket'
  OBVIOUS
<1>2. new \in SentTo(socket, Reply)
  BY <1>1, SentIs DEF ChannelAnswers
<1>3. UNCHANGED <<game, watch, missed, session>>
  BY DEF ChannelAnswers
<1> QED
  BY <1>1, <1>2, <1>3, RepliesKnown DEF TurnKnown, EndComing

\* What is taken for a reply loses nothing, unless something is dropped.
LEMMA AwaitsKnown ==
    ASSUME IInv, Types', session.pc \in {"subscribe", "presence"}, NEW pc, NEW out,
           out = <<>> \/ \E names : out = <<Names(names)>>,
           AwaitsReply(pc, out)
    PROVE  TurnKnown' /\ EndComing'
<1>1. session \in Sessions /\ socket \in Frames /\ socket # <<>> /\ session.out = <<>>
  BY DEF IInv, Types, Phases, AwaitsReply
<1>2. PICK f : f = SubSeq(Head(socket), 1, Before(Head(socket)))
  OBVIOUS
<1>3. PICK r \in Sessions : r = session'
  BY DEF Types
<1>4. /\ r.pending = session.pending \o f /\ r.page = session.page /\ r.roster = session.roster
      /\ r.waiting = session.waiting /\ r.out \in {<<>>, out}
  <2>1. CASE Reply \in ToSet(Head(socket))
    <3>1. PICK p : p = session.pending \o f
      OBVIOUS
    <3>2. r = [session EXCEPT !.pending = p, !.pc = pc, !.out = out]
      BY <1>2, <1>3, <2>1, <3>1 DEF AwaitsReply
    <3> QED
      BY <1>1, <3>1, <3>2 DEF Sessions
  <2>2. CASE Reply \notin ToSet(Head(socket))
    <3>1. PICK p : p = session.pending \o f
      OBVIOUS
    <3>2. r = [session EXCEPT !.pending = p, !.pc = session.pc, !.out = session.out]
      BY <1>2, <1>3, <2>2, <3>1 DEF AwaitsReply
    <3> QED
      BY <1>1, <3>1, <3>2 DEF Sessions
  <2> QED
    BY <2>1, <2>2
<1>5. ShownBy(r) = session.waiting /\ ShownBy(session) = session.waiting
  <2>1. CASE r.out = <<>>
    BY <1>1, <1>4, <2>1 DEF ShownBy
  <2>2. ASSUME NEW names, r.out = <<Names(names)>> PROVE ShownBy(r) = session.waiting
    <3>1. r.out[Len(r.out)] = Names(names) /\ r.out # <<>>
      BY <2>2
    <3> QED
      BY <1>4, <3>1, NamesTellNothing DEF ShownBy
  <2> QED
    BY <1>1, <1>4, <2>1, <2>2 DEF ShownBy
<1>6. CountsOf(r) = CountsOf(session) /\ PagedBy(r) = PagedBy(session)
  BY <1>4, <1>5 DEF CountsOf, PagedBy
<1>7. PICK frames \in Frames : frames = socket
  BY <1>1
<1>8. Tail(frames) = socket' /\ UNCHANGED <<game, watch>> /\ missed' = (missed \/ Dropped(Head(frames)))
  BY <1>7 DEF AwaitsReply
<1>9. ASSUME watch.open, ~missed', ~game.over, NEW to \in Groups, EndsIn(r, Tail(frames), to)
      PROVE  to = game.turn
  <2>1. EndsIn(session, frames, to)
    BY <1>1, <1>2, <1>4, <1>6, <1>7, <1>8, <1>9, EndsAwaited
  <2> QED
    BY <1>7, <1>8, <1>9, <2>1 DEF IInv, TurnKnown
<1>10. ASSUME watch.open, ~missed', game.over PROVE OverIn(r, Tail(frames))
  <2>1. OverIn(session, frames)
    BY <1>7, <1>8, <1>10 DEF IInv, EndComing
  <2> QED
    BY <1>1, <1>2, <1>4, <1>7, <1>8, <1>10, <2>1, OverAwaited
<1> QED
  BY <1>3, <1>8, <1>9, <1>10 DEF TurnKnown, EndComing

\* Nor by looking for who is present.
LEMMA PresenceKnown ==
    ASSUME IInv, Types', Presence
    PROVE  TurnKnown' /\ EndComing'
<1>1. CASE AwaitsReply("html", <<Names(session.known \cup Guests)>>)
  BY <1>1, AwaitsKnown DEF Presence
<1>2. CASE /\ SessionGoes("html")
           /\ UNCHANGED <<game, published, fallback, cached, watch, channel, missed>>
  <2>1. session \in Sessions /\ session' = [session EXCEPT !.pc = "html"]
    BY <1>2 DEF IInv, Types, SessionGoes
  <2>2. /\ session'.out = session.out /\ session'.pending = session.pending
        /\ session'.page = session.page /\ session'.roster = session.roster
        /\ session'.waiting = session.waiting
    BY <2>1 DEF Sessions
  <2>3. PICK r : r = session'
    OBVIOUS
  <2>4. /\ \A to : EndsIn(r, socket, to) <=> EndsIn(session, socket, to)
        /\ OverIn(r, socket) <=> OverIn(session, socket)
    BY <2>2, <2>3, EndsSame
  <2>5. UNCHANGED <<game, watch, missed, socket>>
    BY <1>2 DEF channel
  <2> QED
    BY <2>3, <2>4, <2>5 DEF IInv, TurnKnown, EndComing
<1> QED
  BY <1>1, <1>2 DEF Presence

\* The page is told as it was read, with more names.
LEMMA YieldsPageKnown ==
    ASSUME IInv, Types', YieldsPage
    PROVE  TurnKnown' /\ EndComing'
<1>1. session \in Sessions /\ session.out = <<>> /\ UNCHANGED <<game, watch, missed, socket>>
  BY DEF IInv, Types, YieldsPage, channel
<1>2. PICK out : out = Bootstrap(session.page)
  OBVIOUS
<1>3. PICK r \in Sessions : r = session'
  BY DEF Types
<1>4. r = [session EXCEPT !.pc = "pending", !.out = out, !.page = Names({})]
  BY <1>2, <1>3 DEF YieldsPage
<1>5. /\ r.out = out /\ r.page = Names({}) /\ r.pending = session.pending
      /\ r.roster = session.roster /\ r.waiting = session.waiting
  BY <1>1, <1>4 DEF Sessions
<1>6. PICK counts : counts = CountsOf(session) /\ counts = CountsOf(r)
  BY <1>5 DEF CountsOf
<1>7. ShownBy(session) = session.waiting
  BY <1>1 DEF ShownBy
<1>8. ShownBy(r) = Told(session.page, counts, session.waiting)
  <2>1. CASE session.page = Names({})
    <3>1. out = <<>>
      BY <1>1, <1>2, <2>1, BootstrapTypes
    <3> QED
      BY <1>5, <2>1, <3>1, NamesTellNothing DEF ShownBy
  <2>2. CASE session.page # Names({})
    <3>1. PICK s \in States : out = <<s>> /\ s.tells = session.page.tells /\ s.waiting = session.page.waiting
      BY <1>1, <1>2, <2>2, BootstrapTypes
    <3>2. r.out # <<>> /\ r.out[Len(r.out)] = s
      BY <1>5, <3>1
    <3> QED
      BY <1>5, <1>6, <3>1, <3>2 DEF ShownBy, Told
  <2> QED
    BY <2>1, <2>2
<1>9. PagedBy(r) = PagedBy(session)
  BY <1>5, <1>6, <1>7, <1>8, NamesTellNothing DEF PagedBy
<1>10. \A to : EndsIn(r, socket, to) <=> EndsIn(session, socket, to)
  BY <1>5, <1>6, <1>9 DEF EndsIn
<1>11. OverIn(session, socket) => OverIn(r, socket)
  <2>1. Len(session.out) = 0 /\ 1 .. 0 = {}
    BY <1>1
  <2> QED
    BY <1>5, <2>1 DEF OverIn
<1> QED
  BY <1>1, <1>3, <1>10, <1>11 DEF IInv, TurnKnown, EndComing

\* What comes out of items has been told in the end, and tells of the end if they do.
LEMMA StatesShown ==
    ASSUME NEW s \in Sessions, Players \subseteq s.known, s.roster \in {Players, {}},
           NEW items \in Seq(Items),
           NEW r, r.out = FromItems(items, s.waiting, s.known), r.page = Names({}),
           r.waiting = s.waiting, r.roster = s.roster
    PROVE  /\ Leads(items, ItemStep(CountsOf(s)), s.waiting, PagedBy(r))
           /\ (\E i \in 1 .. Len(items) : OverPacket(items[i])) => \E j \in 1 .. Len(r.out) : r.out[j].over
<1>1. PICK counts \in Groups : counts = CountsOf(s) /\ counts = CountsOf(r)
  BY GroupsOf DEF CountsOf
<1>2. s.waiting \in Groups /\ s.known \in Groups
  BY GroupsOf
<1>3. PICK out \in Seq(States) :
          /\ out = FromItems(items, s.waiting, s.known)
          /\ \A j \in 1 .. Len(out) : out[j].tells /\ out[j].names = s.known
          /\ Leads(items, ItemStep(counts), s.waiting, LastTold(out, counts, s.waiting))
          /\ (\E i \in 1 .. Len(items) : OverPacket(items[i])) => \E j \in 1 .. Len(out) : out[j].over
  BY <1>2, FrameStates
<1>4. PagedBy(r) = ShownBy(r)
  BY NamesTellNothing DEF PagedBy
<1>5. ShownBy(r) = LastTold(out, counts, s.waiting)
  <2>1. CASE out = <<>>
    BY <1>3, <2>1 DEF ShownBy, LastTold
  <2>2. CASE out # <<>>
    <3>1. Len(out) \in Nat \ {0}
      BY <1>3, <2>2, EmptySeq
    <3>2. out[Len(out)].tells
      BY <1>3, <3>1
    <3> QED
      BY <1>1, <1>3, <2>2, <3>2 DEF ShownBy, LastTold, Told
  <2> QED
    BY <2>1, <2>2
<1> QED
  BY <1>1, <1>3, <1>4, <1>5

\* What was pending has been told when its states have.
LEMMA YieldsPendingKnown ==
    ASSUME IInv, Types', YieldsPending
    PROVE  TurnKnown' /\ EndComing'
<1>1. /\ session \in Sessions /\ socket \in Frames /\ session.out = <<>> /\ session.page = Names({})
      /\ Players \subseteq session.known /\ session.roster \in {Players, {}}
      /\ UNCHANGED <<game, watch, missed, socket>>
  BY DEF IInv, Types, Phases, YieldsPending, channel
<1>2. PICK out : out = FromItems(session.pending, session.waiting, session.known)
  OBVIOUS
<1>3. PICK r \in Sessions : r = session'
  BY DEF Types
<1>4. r = [session EXCEPT !.pc = "stream", !.pending = <<>>, !.out = out]
  BY <1>2, <1>3 DEF YieldsPending
<1>5. /\ r.out = out /\ r.page = Names({}) /\ r.pending = <<>>
      /\ r.roster = session.roster /\ r.waiting = session.waiting
  BY <1>1, <1>4 DEF Sessions
<1>6. /\ session.pending \in Seq(Items) /\ PagedBy(r) \in Groups
      /\ CountsOf(r) = CountsOf(session)
  BY <1>1, <1>5, GroupsOf DEF CountsOf
<1>7. PagedBy(session) = session.waiting
  BY <1>1, NamesTellNothing DEF PagedBy, ShownBy
<1>8. /\ Leads(session.pending, ItemStep(CountsOf(session)), session.waiting, PagedBy(r))
      /\ (\E i \in 1 .. Len(session.pending) : OverPacket(session.pending[i])) =>
            \E j \in 1 .. Len(r.out) : r.out[j].over
  BY <1>1, <1>2, <1>5, <1>6, StatesShown
<1>9. ASSUME NEW to \in Groups, EndsIn(r, socket, to) PROVE EndsIn(session, socket, to)
  <2>1. PICK m \in Groups : /\ Leads(<<>>, ItemStep(CountsOf(r)), PagedBy(r), m)
                            /\ Leads(socket, FrameStep(CountsOf(r)), m, to)
    BY <1>5, <1>9 DEF EndsIn
  <2>2. m = PagedBy(r)
    BY <1>6, <2>1, LeadsNowhere DEF Groups
  <2> QED
    BY <1>6, <1>7, <1>8, <2>1, <2>2 DEF EndsIn
<1>10. OverIn(session, socket) => OverIn(r, socket)
  <2>1. Len(session.out) = 0 /\ 1 .. 0 = {}
    BY <1>1
  <2> QED
    BY <1>8, <2>1 DEF OverIn
<1> QED
  BY <1>1, <1>3, <1>9, <1>10 DEF IInv, TurnKnown, EndComing

\* And so has a frame.
LEMMA ReceivesKnown ==
    ASSUME IInv, Types', Receives
    PROVE  TurnKnown' /\ EndComing'
<1>1. /\ session \in Sessions /\ session.out = <<>> /\ session.page = Names({})
      /\ session.pending = <<>> /\ session.pc = "stream"
      /\ Players \subseteq session.known /\ session.roster \in {Players, {}}
      /\ UNCHANGED <<game, watch, missed>>
  BY DEF IInv, Types, Phases, Receives
<1>2. PICK frames \in Frames : frames = socket /\ frames # <<>> /\ Tail(frames) = socket'
  BY DEF IInv, Types, Receives
<1>3. Head(frames) \in Seq(Items)
  BY <1>2, HeadTailProperties DEF Frames
<1>4. PICK r \in Sessions : r = session'
  BY DEF Types
<1>5. PICK out : out = FromItems(Head(frames), session.waiting, session.known)
  OBVIOUS
<1>6. r = [session EXCEPT !.out = out]
  BY <1>2, <1>4, <1>5 DEF Receives
<1>7. /\ r.out = out /\ r.page = Names({}) /\ r.pending = <<>>
      /\ r.roster = session.roster /\ r.waiting = session.waiting
  BY <1>1, <1>6 DEF Sessions
<1>8. PagedBy(r) \in Groups /\ session.waiting \in Groups
  BY <1>1, GroupsOf
<1>9. PICK counts : counts = CountsOf(session) /\ counts = CountsOf(r)
  BY <1>7 DEF CountsOf
<1>10. PagedBy(session) = session.waiting
  BY <1>1, NamesTellNothing DEF PagedBy, ShownBy
<1>11. /\ Leads(Head(frames), ItemStep(counts), session.waiting, PagedBy(r))
       /\ (\E i \in 1 .. Len(Head(frames)) : OverPacket(Head(frames)[i])) =>
             \E j \in 1 .. Len(r.out) : r.out[j].over
  BY <1>1, <1>3, <1>5, <1>7, <1>9, StatesShown
<1>12. ASSUME NEW to \in Groups, EndsIn(r, Tail(frames), to) PROVE EndsIn(session, frames, to)
  <2>1. PICK m \in Groups : /\ Leads(<<>>, ItemStep(counts), PagedBy(r), m)
                            /\ Leads(Tail(frames), FrameStep(counts), m, to)
    BY <1>7, <1>9, <1>12 DEF EndsIn
  <2>2. m = PagedBy(r)
    BY <1>8, <2>1, LeadsNowhere DEF Groups
  <2>3. <<Head(frames), session.waiting, m>> \in FrameStep(counts)
    BY <1>3, <1>8, <1>11, <2>2, FrameStepIs DEF Groups
  <2>4. Leads(frames, FrameStep(counts), session.waiting, to)
    BY <1>2, <1>8, <2>1, <2>3, LeadsOn DEF Frames, Groups
  <2>5. Leads(<<>>, ItemStep(counts), session.waiting, session.waiting)
    BY <1>8, LeadsEmpty DEF Groups
  <2> QED
    BY <1>1, <1>8, <1>9, <1>10, <2>4, <2>5 DEF EndsIn
<1>13. ASSUME OverIn(session, frames) PROVE OverIn(r, Tail(frames))
  <2>1. PICK i \in 1 .. Len(frames) : \E j \in 1 .. Len(frames[i]) : OverPacket(frames[i][j])
    <3>1. Len(session.out) = 0 /\ Len(session.pending) = 0 /\ 1 .. 0 = {}
      BY <1>1
    <3> QED
      BY <1>13, <3>1 DEF OverIn
  <2>2. CASE i = 1
    <3>1. Head(frames) = frames[1]
      BY <1>2, HeadTailProperties DEF Frames
    <3> QED
      BY <1>11, <2>1, <2>2, <3>1 DEF OverIn
  <2>3. CASE i # 1
    <3>1. Len(frames) \in Nat
      BY LenProperties DEF Frames
    <3>2. Len(Tail(frames)) = Len(frames) - 1
          /\ \A h \in 1 .. Len(Tail(frames)) : Tail(frames)[h] = frames[h + 1]
      BY <1>2, HeadTailProperties DEF Frames
    <3>3. i - 1 \in 1 .. Len(Tail(frames)) /\ (i - 1) + 1 = i
      BY <2>3, <3>1, <3>2
    <3>4. Tail(frames)[i - 1] = frames[i]
      BY <3>2, <3>3
    <3> QED
      BY <2>1, <3>3, <3>4 DEF OverIn
  <2> QED
    BY <2>2, <2>3
<1> QED
  BY <1>1, <1>2, <1>4, <1>12, <1>13 DEF IInv, TurnKnown, EndComing

\* A game that is over is told to be.
LEMMA PollsKnown ==
    ASSUME IInv, Polls
    PROVE  TurnKnown' /\ EndComing'
<1>1. session \in Sessions /\ game.over /\ game' = game
  BY DEF IInv, Types, Polls
<1>2. PICK s : s = Finished(session.known)
  OBVIOUS
<1>3. s.over /\ session' = [session EXCEPT !.out = <<s>>]
  BY <1>2 DEF Polls, Finished
<1>4. PICK r : r = session'
  OBVIOUS
<1>5. r.out = <<s>>
  BY <1>1, <1>3, <1>4 DEF Sessions
<1>6. 1 \in 1 .. Len(r.out) /\ r.out[1] = s
  BY <1>5
<1>7. \A frames : OverIn(r, frames)
  BY <1>3, <1>6 DEF OverIn
<1> QED
  BY <1>1, <1>4, <1>7 DEF TurnKnown, EndComing

\* A state that is stored takes nothing from what has been told.
LEMMA StoredShown ==
    ASSUME NEW s \in Sessions, Sound(s.out), s.out # <<>>, ~Head(s.out).over, NEW r,
           r.out = Tail(s.out), r.roster = s.roster, r.page = s.page, r.pending = s.pending,
           r.waiting = Told(Head(s.out), CountsOf(s), s.waiting)
    PROVE  /\ \A frames, to : EndsIn(r, frames, to) <=> EndsIn(s, frames, to)
           /\ \A frames : OverIn(s, frames) => OverIn(r, frames)
<1>1. PICK out \in Seq(States) : out = s.out
  BY DEF Sessions
<1>2. PICK n \in Nat : n = Len(out) /\ n > 0
  <2>1. Len(out) \in Nat \ {0}
    BY <1>1, EmptySeq
  <2> QED
    BY <2>1
<1>3. /\ Head(out) = out[1] /\ Len(Tail(out)) = n - 1
      /\ \A j \in 1 .. n - 1 : Tail(out)[j] = out[j + 1]
  BY <1>1, <1>2, HeadTailProperties
<1>4. PICK counts : counts = CountsOf(s) /\ counts = CountsOf(r)
  BY DEF CountsOf
<1>5. ShownBy(s) = Told(out[n], counts, s.waiting)
  BY <1>1, <1>2, <1>4 DEF ShownBy
<1>6. ShownBy(r) = ShownBy(s)
  <2>1. CASE n = 1
    <3>1. r.out = <<>>
      <4>1. Len(Tail(out)) = 0 /\ Tail(out) \in Seq(States)
        BY <1>1, <1>3, <2>1, HeadTailProperties
      <4> QED
        BY <1>1, <4>1, EmptySeq
    <3>2. ShownBy(r) = r.waiting
      BY <3>1 DEF ShownBy
    <3> QED
      BY <1>1, <1>3, <1>4, <1>5, <2>1, <3>2
  <2>2. CASE n # 1
    <3>1. n > 1 /\ n \in 1 .. n /\ n - 1 \in 1 .. n - 1 /\ (n - 1) + 1 = n /\ n - 1 # 0
      BY <1>2, <2>2
    <3>2. Tail(out)[n - 1] = out[n] /\ out[n].tells /\ Tail(out) # <<>>
      BY <1>1, <1>2, <1>3, <3>1 DEF Sound
    <3>3. ShownBy(r) = Told(out[n], counts, r.waiting)
      BY <1>1, <1>3, <1>4, <3>2 DEF ShownBy
    <3> QED
      BY <1>5, <3>2, <3>3 DEF Told
  <2> QED
    BY <2>1, <2>2
<1>7. PagedBy(r) = PagedBy(s)
  BY <1>4, <1>6 DEF PagedBy
<1>8. \A frames, to : EndsIn(r, frames, to) <=> EndsIn(s, frames, to)
  BY <1>4, <1>7 DEF EndsIn
<1>9. ASSUME NEW j \in 1 .. n, out[j].over PROVE \E i \in 1 .. Len(r.out) : r.out[i].over
  <2>1. j # 1
    BY <1>1, <1>3, <1>9
  <2>2. j - 1 \in 1 .. n - 1 /\ (j - 1) + 1 = j
    BY <1>2, <2>1
  <2>3. Tail(out)[j - 1] = out[j]
    BY <1>3, <2>2
  <2> QED
    BY <1>1, <1>3, <1>9, <2>2, <2>3
<1>10. \A frames : OverIn(s, frames) => OverIn(r, frames)
  BY <1>1, <1>2, <1>9 DEF OverIn
<1> QED
  BY <1>8, <1>10

\* Nor by telling what was read.
LEMMA YieldsKnown ==
    ASSUME IInv, Yields
    PROVE  TurnKnown' /\ EndComing'
<1>1. PICK s : s = Sanitise(Head(session.out), session.roster)
  OBVIOUS
<1>2. /\ session \in Sessions /\ session.out # <<>> /\ session.out \in Seq(States)
      /\ session.roster \in SUBSET Players /\ session.roster \in {Players, {}} /\ Sound(session.out)
  BY DEF IInv, Types, Sessions, Phases, OutSound, Yields
<1>3. Head(session.out) \in States
  BY <1>2, HeadTailProperties
<1>4. PICK h \in States : h = Head(session.out)
  BY <1>3
<1>5. /\ s.tells = h.tells /\ s.over = h.over
      /\ s.waiting = h.waiting \cap CountsOf(session)
  BY <1>1, <1>2, <1>4, SanitiseTypes DEF CountsOf
<1>6. CASE s.over
  BY <1>1, <1>6, ClosesKnown DEF Yields, IInv
<1>7. CASE ~s.over
  <2>1. PICK w : w = IF s.tells THEN s.waiting ELSE session.waiting
    OBVIOUS
  <2>2. /\ session' = [session EXCEPT !.out = Tail(session.out), !.waiting = w, !.known = s.names]
        /\ watch'.open = watch.open
        /\ UNCHANGED <<socket, game, missed>>
    BY <1>1, <1>7, <2>1 DEF Yields, channel, IInv, Types, Subscriptions
  <2>3. PICK r : r = session'
    OBVIOUS
  <2>4. /\ r.out = Tail(session.out) /\ r.pending = session.pending /\ r.page = session.page
        /\ r.roster = session.roster /\ r.waiting = w
    BY <1>2, <2>2, <2>3 DEF Sessions
  <2>5. w = Told(h, CountsOf(session), session.waiting)
    BY <1>5, <2>1 DEF Told
  <2>6. /\ \A to : EndsIn(r, socket, to) <=> EndsIn(session, socket, to)
        /\ OverIn(session, socket) => OverIn(r, socket)
    BY <1>2, <1>4, <1>5, <1>7, <2>4, <2>5, StoredShown
  <2> QED
    BY <2>2, <2>3, <2>6 DEF IInv, TurnKnown, EndComing
<1> QED
  BY <1>6, <1>7

\* Every step of a session keeps what is known.
LEMMA StepKnown ==
    ASSUME IInv, Types', SessionStep
    PROVE  TurnKnown' /\ EndComing'
<1>1. CASE Subscribes
  BY <1>1, AwaitsKnown DEF Subscribes
<1> QED
  BY <1>1, SnapshotsKnown, LoadsPageKnown, ConnectsKnown, AnswersKnown, PresenceKnown, YieldsPageKnown,
     YieldsPendingKnown, ReceivesKnown, PollsKnown, YieldsKnown DEF SessionStep

-----------------------------------------------------------------------------
(* The invariant holds.                                                    *)

\* The invariant holds at the start.
LEMMA IInvInit == Init => IInv
<1> SUFFICES ASSUME Init PROVE IInv
  OBVIOUS
<1>1. Types
  BY TypesInit
<1>2. session = NoSession /\ joined = FALSE /\ socket = <<>> /\ missed = TRUE
  BY DEF Init
<1>3. Phases /\ OutSound
  BY <1>2, IdlePhases, FewSound DEF Phases, OutSound
<1>4. TurnKnown /\ EndComing
  BY <1>2 DEF TurnKnown, EndComing
<1> QED
  BY <1>1, <1>3, <1>4 DEF IInv

\* Every step keeps the invariant.
LEMMA IInvStep == IInv /\ [Next]_vars => IInv'
<1> SUFFICES ASSUME IInv, [Next]_vars PROVE IInv'
  OBVIOUS
<1>1. Types' /\ Phases' /\ OutSound'
  BY TypesStep, PhasesStep DEF IInv
<1>2. TurnKnown' /\ EndComing'
  <2>1. CASE GameMoves
    BY <2>1, GameMovesKnown
  <2>2. CASE GameEnds
    BY <2>2, GameEndsKnown
  <2>3. CASE SessionStep
    BY <1>1, <2>3, StepKnown
  <2>4. CASE Fails \/ Crashes
    BY <2>4 DEF Fails, Crashes, StartsOver, TurnKnown, EndComing
  <2>5. CASE UNCHANGED vars
    BY <2>5 DEF vars, channel, IInv, TurnKnown, EndComing
  <2> QED
    BY <2>1, <2>2, <2>3, <2>4, <2>5 DEF Next
<1> QED
  BY <1>1, <1>2 DEF IInv

\* Where nothing is still to come, it says who is waited for.
LEMMA IInvWaits == IInv => WaitsForTheRightPlayers
<1> SUFFICES ASSUME IInv, Quiet, watch.open, ~missed PROVE watch.waiting = game.turn
  BY DEF WaitsForTheRightPlayers
<1>1. /\ session \in Sessions /\ session.pc = "stream" /\ session.out = <<>> /\ socket = <<>>
      /\ session.pending = <<>> /\ session.page = Names({}) /\ session.waiting = watch.waiting
  BY DEF IInv, Types, Phases, Quiet
<1>2. PagedBy(session) = session.waiting /\ session.waiting \in Groups
  BY <1>1, NamesTellNothing, GroupsOf DEF PagedBy, ShownBy
<1>3. EndsIn(session, socket, session.waiting)
  BY <1>1, <1>2, EndsNowhere
<1>4. ~game.over
  <2>1. ~OverIn(session, socket)
    <3>1. /\ Len(session.out) = 0 /\ Len(session.pending) = 0 /\ Len(socket) = 0
          /\ 1 .. 0 = {}
      BY <1>1
    <3> QED
      BY <3>1 DEF OverIn
  <2> QED
    BY <2>1 DEF IInv, EndComing
<1> QED
  BY <1>1, <1>2, <1>3, <1>4 DEF IInv, TurnKnown

\* When all that was sent has been dealt with, the bot waits for exactly the players who
\* are to move, unless it missed what its page and its packets can say.
THEOREM WaitsRightly == Spec => []WaitsForTheRightPlayers
<1>1. Init => IInv
  BY IInvInit
<1>2. IInv /\ [Next]_vars => IInv'
  BY IInvStep
<1>3. IInv => WaitsForTheRightPlayers
  BY IInvWaits
<1> QED
  BY <1>1, <1>2, <1>3, PTL DEF Spec

\* The end of a game is never lost but where it is missed: as long as the watch is open,
\* it is in what the session holds or in what was sent.  It is what EndReported rests on.
THEOREM EndOnItsWay == Spec => []EndComing
<1>1. Init => IInv
  BY IInvInit
<1>2. IInv /\ [Next]_vars => IInv'
  BY IInvStep
<1>3. IInv => EndComing
  BY DEF IInv
<1> QED
  BY <1>1, <1>2, <1>3, PTL DEF Spec

-----------------------------------------------------------------------------
(* The end of a game is not made up.                                       *)

\* States and items that do not say that the game is over.
Going == {s \in States : ~s.over}
Still == {item \in Items : \A i \in 1 .. Len(item) : item[i].kind # "over"}

\* As long as the game goes on, nothing says that it is over.
NothingEnds ==
    ~game.over => /\ watch.open
                  /\ session.page \in Going
                  /\ session.out \in Seq(Going)
                  /\ session.pending \in Seq(Still)
                  /\ socket \in Seq(Seq(Still))

\* What does not say that the game is over makes no state that does.
LEMMA PacketGoing ==
    ASSUME NEW item \in Still, NEW w \in SUBSET Ids, NEW k \in SUBSET Ids
    PROVE  FromPacket(item, w, k) \in Going
<1>0. item \in Items /\ \A i \in 1 .. Len(item) : item[i].kind # "over"
  BY DEF Still
<1>1. PICK a : PacketTrace(a, item, w, k)
  BY <1>0, PacketIsTraced
<1>2. Len(item) \in Nat /\ item \in [1 .. Len(item) -> Events]
  BY <1>0, ItemsAreSequences
<1>3. /\ a \in [0 .. Len(item) -> States]
      /\ a[0] = Base(w, k)
      /\ \A i \in 1 .. Len(item) : a[i] = Interpret(a[i - 1], item[i], w, k)
      /\ FromPacket(item, w, k) = a[Len(item)]
  BY <1>1 DEF PacketTrace
<1> DEFINE S == {i \in 0 .. Len(item) : ~a[i].over}
<1>4. 0 \in S
  BY <1>2, <1>3, BaseIs
<1>5. ASSUME NEW i \in 1 .. Len(item), i - 1 \in S PROVE i \in S
  <2>1. i - 1 \in 0 .. Len(item) /\ i \in 0 .. Len(item)
    BY <1>2
  <2>2. a[i - 1] \in States /\ item[i] \in Events /\ a[i] = Interpret(a[i - 1], item[i], w, k)
    BY <1>2, <1>3, <2>1
  <2>3. ~a[i - 1].over /\ item[i].kind # "over"
    BY <1>0, <1>5
  <2> QED
    BY <2>1, <2>2, <2>3, InterpretKeeps
<1>6. Len(item) \in S
  <2> HIDE DEF S
  <2>1. 0 .. Len(item) \subseteq S
    BY <1>2, <1>4, <1>5, Climbs
  <2>2. Len(item) \in 0 .. Len(item)
    BY <1>2
  <2> QED
    BY <2>1, <2>2
<1>7. a[Len(item)] \in States
  BY <1>2, <1>3
<1> QED
  BY <1>3, <1>6, <1>7 DEF Going

\* Nor do several of them.
LEMMA ItemsGoing ==
    ASSUME NEW items \in Seq(Still), NEW w \in SUBSET Ids, NEW k \in SUBSET Ids
    PROVE  FromItems(items, w, k) \in Seq(Going)
<1> DEFINE n == Len(items)
<1>1. items \in Seq(Items)
  BY SeqMonotonic DEF Still
<1>2. PICK a : ItemsTrace(a, items, w, k)
  BY <1>1, ItemsAreTraced
<1>3. n \in Nat /\ items \in [1 .. n -> Still]
  BY LenProperties
<1>4. /\ a \in [0 .. n -> Gathered]
      /\ a[0] = [waiting |-> w, out |-> <<>>]
      /\ \A i \in 1 .. n : a[i] = Gathers(a[i - 1], items[i], k)
      /\ FromItems(items, w, k) = a[n].out
  BY <1>2 DEF ItemsTrace
<1> HIDE DEF n
<1> DEFINE S == {i \in 0 .. n : a[i].out \in Seq(Going)}
<1>5. 0 \in S
  <2>1. 0 \in 0 .. n
    BY <1>3
  <2>2. a[0].out = <<>>
    BY <1>4
  <2>3. <<>> \in Seq(Going)
    BY EmptySeq
  <2> QED
    BY <2>1, <2>2, <2>3
<1>6. ASSUME NEW i \in 1 .. n, i - 1 \in S PROVE i \in S
  <2>1. i - 1 \in 0 .. n /\ i \in 0 .. n /\ items[i] \in Still
    BY <1>3
  <2>2. a[i - 1].waiting \in SUBSET Ids
    BY <1>4, <2>1 DEF Gathered
  <2>3. PICK s \in Going : s = FromPacket(items[i], a[i - 1].waiting, k)
    BY <2>1, <2>2, PacketGoing
  <2>4. a[i] = IF s.tells THEN [waiting |-> s.waiting, out |-> Append(a[i - 1].out, s)] ELSE a[i - 1]
    BY <1>4, <2>3 DEF Gathers
  <2>5. a[i - 1].out \in Seq(Going)
    BY <1>6
  <2>6. a[i].out \in Seq(Going)
    <3>1. CASE s.tells
      <4>1. PICK o \in Seq(Going) : o = Append(a[i - 1].out, s)
        BY <2>5, AppendProperties
      <4> QED
        BY <2>4, <3>1, <4>1
    <3> QED
      BY <2>4, <2>5, <3>1
  <2> QED
    BY <2>1, <2>6
<1>7. n \in S
  <2> HIDE DEF S
  <2>1. 0 .. n \subseteq S
    BY <1>3, <1>5, <1>6, Climbs
  <2>2. n \in 0 .. n
    BY <1>3
  <2> QED
    BY <2>1, <2>2
<1> QED
  BY <1>4, <1>7

\* Sending what goes on keeps what was sent going on.
LEMMA SentStill ==
    ASSUME NEW frames \in Seq(Seq(Still)), NEW item \in Still, NEW new \in SentTo(frames, item)
    PROVE  new \in Seq(Seq(Still))
<1>1. <<item>> \in Seq(Still)
  OBVIOUS
<1>2. CASE new = Append(frames, <<item>>)
  BY <1>1, <1>2, AppendProperties
<1>3. CASE frames # <<>> /\ new = [frames EXCEPT ![Len(frames)] = Append(@, item)]
  <2>1. Len(frames) \in 1 .. Len(frames)
    <3>1. Len(frames) \in Nat \ {0}
      BY <1>3, EmptySeq
    <3> QED
      BY <3>1
  <2>2. frames[Len(frames)] \in Seq(Still)
    BY <2>1, ElementOfSeq
  <2>3. Append(frames[Len(frames)], item) \in Seq(Still)
    BY <2>2, AppendProperties
  <2> QED
    BY <1>3, <2>1, <2>3, ExceptSeq
<1> QED
  BY <1>2, <1>3 DEF SentTo

\* The reply to a command is no end.
LEMMA ReplyIsStill == Reply \in Still
<1>1. Len(Reply) = 0 /\ 1 .. 0 = {} /\ Reply \in Items
  BY DEF Reply, Items
<1> QED
  BY <1>1 DEF Still

\* Nor are names.
LEMMA NamesGoing == \A k \in SUBSET Ids : Names(k) \in Going
BY NamesIsState DEF Going

\* Publishing a packet that is no end keeps the invariant.
LEMMA PublishEnds ==
    ASSUME Types, NothingEnds, NEW packet \in Packets, NEW turn, NEW over,
           over \/ packet \in Still, Publish(packet, turn, over)
    PROVE  NothingEnds'
<1>1. ~game.over /\ game'.over = over /\ watch' = watch /\ session' = session
  BY DEF Publish
<1>2. CASE over
  BY <1>1, <1>2 DEF NothingEnds
<1>3. CASE packet \in Still
  <2>1. socket' \in SentTo(socket, packet) \/ socket' = socket
    BY SentIs DEF Publish
  <2>2. socket' \in Seq(Seq(Still))
    BY <1>1, <1>3, <2>1, SentStill DEF NothingEnds
  <2> QED
    BY <1>1, <2>2 DEF NothingEnds
<1> QED
  BY <1>2, <1>3

\* The packets of a move are no ends.
LEMMA MovesAreStill ==
    /\ \A e \in Events : e.kind # "over" => <<e>> \in Still
    /\ \A e, f \in Events : e.kind # "over" /\ f.kind # "over" => <<e, f>> \in Still
<1>1. ASSUME NEW e \in Events, e.kind # "over" PROVE <<e>> \in Still
  <2>1. PICK item \in Items : item = <<e>>
    BY MovesArePackets
  <2>2. Len(item) = 1 /\ item[1] = e
    BY <2>1
  <2>3. item \in Still
    BY <1>1, <2>2 DEF Still
  <2> QED
    BY <2>1, <2>3
<1>2. ASSUME NEW e \in Events, NEW f \in Events, e.kind # "over", f.kind # "over"
      PROVE  <<e, f>> \in Still
  <2>1. PICK item \in Items : item = <<e, f>>
    BY MovesArePackets
  <2>2. Len(item) = 2 /\ item[1] = e /\ item[2] = f
    BY <2>1
  <2>3. \A i \in 1 .. 2 : i = 1 \/ i = 2
    OBVIOUS
  <2>4. item \in Still
    BY <1>2, <2>2, <2>3 DEF Still
  <2> QED
    BY <2>1, <2>4
<1> QED
  BY <1>1, <1>2

\* So moves keep it, and the end of the game needs nothing of it.
LEMMA MovesEnd ==
    ASSUME Types, NothingEnds, GameMoves \/ GameEnds
    PROVE  NothingEnds'
<1>0. game.turn \in SUBSET Players
  BY DEF Types
<1>1. ASSUME NEW kind \in Kinds, kind # "over", NEW ids \in SUBSET Players, NEW turn,
             Publish(<<Event(kind, ids)>>, turn, FALSE)
      PROVE  NothingEnds'
  <2>1. PICK e \in Events : e = Event(kind, ids)
    BY MovesArePackets
  <2>2. e.kind # "over"
    BY <1>1, <2>1 DEF Event
  <2>3. <<e>> \in Packets /\ <<e>> \in Still
    BY <2>2, MovesArePackets, MovesAreStill
  <2>4. Publish(<<e>>, turn, FALSE)
    BY <1>1, <2>1
  <2> QED
    BY <2>3, <2>4, PublishEnds
<1>2. ASSUME NEW s \in SUBSET Players, NEW p \in s,
             Publish(<<Event("set", s), Event("ack", {p})>>, s, FALSE)
      PROVE  NothingEnds'
  <2>0. {p} \in SUBSET Players /\ "set" \in Kinds /\ "ack" \in Kinds
    BY DEF Kinds
  <2>1. PICK e \in Events, f \in Events : e = Event("set", s) /\ f = Event("ack", {p})
    BY <2>0, MovesArePackets
  <2>2. e.kind # "over" /\ f.kind # "over"
    BY <2>1 DEF Event
  <2>3. <<e, f>> \in Packets /\ <<e, f>> \in Still
    BY <2>2, MovesArePackets, MovesAreStill
  <2>4. Publish(<<e, f>>, s, FALSE)
    BY <1>2, <2>1
  <2> QED
    BY <2>3, <2>4, PublishEnds
<1>3. CASE GameMoves
  <2>0. "set" \in Kinds /\ "ack" \in Kinds /\ "begin" \in Kinds /\ "recap" \in Kinds
        /\ {} \in SUBSET Players
    BY DEF Kinds
  <2>1. ASSUME NEW s \in SUBSET Players, Publish(<<Event("set", s)>>, s, FALSE) PROVE NothingEnds'
    BY <1>1, <2>0, <2>1
  <2>2. ASSUME NEW p \in game.turn, Publish(<<Event("ack", {p})>>, game.turn, FALSE) PROVE NothingEnds'
    <3>1. {p} \in SUBSET Players
      BY <1>0
    <3> QED
      BY <1>1, <2>0, <2>2, <3>1
  <2>3. CASE Publish(<<Event("begin", {})>>, Players, FALSE)
    BY <1>1, <2>0, <2>3
  <2>4. ASSUME NEW p \in game.turn, Publish(<<Event("recap", {p})>>, game.turn \ {p}, FALSE)
        PROVE  NothingEnds'
    <3>1. {p} \in SUBSET Players
      BY <1>0
    <3> QED
      BY <1>1, <2>0, <2>4, <3>1
  <2> QED
    BY <1>2, <1>3, <2>1, <2>2, <2>3, <2>4 DEF GameMoves
<1>4. CASE GameEnds
  <2>1. ASSUME NEW packet, Publish(packet, {}, TRUE) PROVE game'.over
    BY <2>1 DEF Publish
  <2>2. game'.over
    BY <1>4, <2>1 DEF GameEnds
  <2> QED
    BY <2>2 DEF NothingEnds
<1> QED
  BY <1>3, <1>4

\* What is read while a reply is awaited is pending, or told.
LEMMA AwaitsEnd ==
    ASSUME Types, NothingEnds, NEW pc, NEW out \in Seq(Going), AwaitsReply(pc, out)
    PROVE  NothingEnds'
<1> SUFFICES ASSUME ~game.over PROVE NothingEnds'
  BY DEF AwaitsReply, NothingEnds
<1>1. /\ session \in Sessions /\ socket \in Frames /\ socket # <<>> /\ socket \in Seq(Seq(Still))
      /\ session.pending \in Seq(Still) /\ session.out \in Seq(Going) /\ session.page \in Going
      /\ watch.open
  BY DEF Types, NothingEnds, AwaitsReply
<1>2. PICK frame \in Seq(Still) : frame = Head(socket)
  BY <1>1, HeadTailProperties
<1>3. PICK f : f = SubSeq(frame, 1, Before(frame))
  OBVIOUS
<1>4. f \in Seq(Still)
  <2>1. frame \in Seq(Items)
    BY SeqMonotonic DEF Still
  <2>2. PICK b \in 0 .. Len(frame) : b = Before(frame)
    BY <2>1, BeforeIs
  <2>3. Len(frame) \in Nat /\ \A i \in 1 .. Len(frame) : frame[i] \in Still
    BY LenProperties, ElementOfSeq
  <2>4. b \in Int /\ 1 \in Int /\ \A i \in 1 .. b : frame[i] \in Still
    BY <2>3
  <2>5. SubSeq(frame, 1, b) \in Seq(Still)
    BY <2>4, SubSeqProperties
  <2> QED
    BY <1>3, <2>2, <2>5
<1>5. PICK p \in Seq(Still) : p = session.pending \o f
  BY <1>1, <1>4, ConcatProperties
<1>6. \/ session' = [session EXCEPT !.pending = p, !.pc = pc, !.out = out]
      \/ session' = [session EXCEPT !.pending = p, !.pc = session.pc, !.out = session.out]
  <2>1. CASE Reply \in ToSet(frame)
    BY <1>2, <1>3, <1>5, <2>1 DEF AwaitsReply
  <2>2. CASE Reply \notin ToSet(frame)
    BY <1>2, <1>3, <1>5, <2>2 DEF AwaitsReply
  <2> QED
    BY <2>1, <2>2
<1>7. session'.pending = p /\ session'.out \in Seq(Going) /\ session'.page = session.page
  <2>1. ASSUME NEW o \in Seq(Going), NEW q, session' = [session EXCEPT !.pending = p, !.pc = q, !.out = o]
        PROVE  session'.pending = p /\ session'.out = o /\ session'.page = session.page
    BY <1>1, <2>1 DEF Sessions
  <2> QED
    BY <1>1, <1>6, <2>1
<1>8. socket' \in Seq(Seq(Still))
  BY <1>1, HeadTailProperties DEF AwaitsReply
<1> QED
  BY <1>1, <1>5, <1>7, <1>8 DEF NothingEnds, AwaitsReply

\* Every step of a session keeps it.
LEMMA StepEnds ==
    ASSUME IInv, NothingEnds, SessionStep
    PROVE  NothingEnds'
<1>0. game' = game
  BY DEF SessionStep, Snapshots, LoadsPage, Connects, Subscribes, ChannelAnswers, Presence, AwaitsReply,
         YieldsPage, YieldsPending, Receives, Polls, Yields
<1> SUFFICES ASSUME ~game.over PROVE NothingEnds'
  BY <1>0 DEF NothingEnds
<1>1. /\ Types /\ session \in Sessions /\ socket \in Seq(Seq(Still)) /\ watch.open
      /\ session.pending \in Seq(Still) /\ session.out \in Seq(Going) /\ session.page \in Going
      /\ session.waiting \in SUBSET Ids /\ session.known \in SUBSET Ids
      /\ game \in [turn : SUBSET Players, over : BOOLEAN]
  BY DEF IInv, Types, Sessions, NothingEnds
<1>2. <<>> \in Seq(Still) /\ <<>> \in Seq(Going)
  BY EmptySeq
<1>3. \A s \in Going : <<s>> \in Seq(Going)
  OBVIOUS
<1>4. CASE Snapshots
  <2>1. watch' = watch /\ socket' = socket
        /\ session' = [session EXCEPT !.pc = "page", !.waiting = watch.waiting,
                                      !.known = watch.names \cup Players]
    BY <1>4 DEF Snapshots, channel
  <2>2. session'.page = session.page /\ session'.out = session.out /\ session'.pending = session.pending
    BY <1>1, <2>1 DEF Sessions
  <2> QED
    BY <1>1, <2>1, <2>2 DEF NothingEnds
<1>5. CASE LoadsPage
  <2>1. PICK page \in Pages : LoadsRoster(page) /\ watch' = watch
    BY <1>5 DEF LoadsPage
  <2>2. page \in Going
    BY <1>1, PageTypes DEF Going
  <2>3. PICK roster \in Rosters :
            session' = [session EXCEPT !.pc = "connect", !.page = page, !.roster = roster,
                                       !.known = @ \cup roster]
    BY <2>1 DEF LoadsRoster
  <2>4. session'.page = page /\ session'.out = session.out /\ session'.pending = session.pending
    BY <1>1, <2>3 DEF Sessions
  <2> QED
    BY <1>1, <1>5, <2>1, <2>2, <2>4 DEF LoadsPage, NothingEnds, channel
<1>6. CASE Connects
  <2>1. session' = [session EXCEPT !.pc = "subscribe"] /\ watch' = watch /\ socket' = <<<<Reply>>>>
    BY <1>6 DEF Connects, SessionGoes
  <2>2. session'.page = session.page /\ session'.out = session.out /\ session'.pending = session.pending
    BY <1>1, <2>1 DEF Sessions
  <2>3. <<Reply>> \in Seq(Still)
    BY ReplyIsStill
  <2>4. <<<<Reply>>>> \in Seq(Seq(Still))
    BY <2>3
  <2> QED
    BY <1>1, <2>1, <2>2, <2>4 DEF NothingEnds
<1>7. CASE Subscribes
  BY <1>1, <1>2, <1>7, AwaitsEnd DEF Subscribes
<1>8. CASE ChannelAnswers
  <2>1. socket' \in SentTo(socket, Reply) /\ session' = session /\ watch' = watch
    BY <1>8, SentIs DEF ChannelAnswers
  <2>2. socket' \in Seq(Seq(Still))
    BY <1>1, <2>1, ReplyIsStill, SentStill
  <2> QED
    BY <1>1, <2>1, <2>2 DEF NothingEnds
<1>9. CASE Presence
  <2>1. CASE AwaitsReply("html", <<Names(session.known \cup Guests)>>)
    <3>1. session.known \cup Guests \in SUBSET Ids
      BY <1>1 DEF Ids
    <3>2. PICK s \in Going : s = Names(session.known \cup Guests)
      BY <3>1, NamesGoing
    <3>3. AwaitsReply("html", <<s>>) /\ <<s>> \in Seq(Going)
      BY <1>3, <2>1, <3>2
    <3> QED
      BY <1>1, <3>3, AwaitsEnd
  <2>2. CASE SessionGoes("html") /\ UNCHANGED <<watch, socket>>
    <3>1. session' = [session EXCEPT !.pc = "html"]
      BY <2>2 DEF SessionGoes
    <3>2. session'.page = session.page /\ session'.out = session.out /\ session'.pending = session.pending
      BY <1>1, <3>1 DEF Sessions
    <3> QED
      BY <1>1, <2>2, <3>2 DEF NothingEnds
  <2> QED
    BY <1>9, <2>1, <2>2 DEF Presence, channel
<1>10. CASE YieldsPage
  <2>1. PICK out : out = Bootstrap(session.page)
    OBVIOUS
  <2>2. session' = [session EXCEPT !.pc = "pending", !.out = out, !.page = Names({})]
        /\ watch' = watch /\ socket' = socket
    BY <1>10, <2>1 DEF YieldsPage, channel
  <2>3. session'.page = Names({}) /\ session'.out = out /\ session'.pending = session.pending
    BY <1>1, <2>2 DEF Sessions
  <2>4. out \in Seq(Going)
    <3>1. CASE session.page = Names({})
      BY <1>1, <1>2, <2>1, <3>1, BootstrapTypes
    <3>2. CASE session.page # Names({})
      <4>1. PICK s \in States : out = <<s>> /\ s.over = session.page.over
        BY <1>1, <2>1, <3>2, BootstrapTypes
      <4>2. s \in Going
        BY <1>1, <4>1 DEF Going
      <4> QED
        BY <1>3, <4>1, <4>2
    <3> QED
      BY <3>1, <3>2
  <2>5. Names({}) \in Going
    BY NamesGoing
  <2> QED
    BY <1>1, <2>2, <2>3, <2>4, <2>5 DEF NothingEnds
<1>11. CASE YieldsPending
  <2>1. PICK out \in Seq(Going) : out = FromItems(session.pending, session.waiting, session.known)
    BY <1>1, ItemsGoing
  <2>2. session' = [session EXCEPT !.pc = "stream", !.pending = <<>>, !.out = out]
        /\ watch' = watch /\ socket' = socket
    BY <1>11, <2>1 DEF YieldsPending, channel
  <2>3. session'.page = session.page /\ session'.out = out /\ session'.pending = <<>>
    BY <1>1, <2>2 DEF Sessions
  <2> QED
    BY <1>1, <1>2, <2>1, <2>2, <2>3 DEF NothingEnds
<1>12. CASE Receives
  <2>0. Head(socket) \in Seq(Still) /\ Tail(socket) \in Seq(Seq(Still))
    BY <1>1, <1>12, HeadTailProperties DEF Receives
  <2>1. PICK out \in Seq(Going) : out = FromItems(Head(socket), session.waiting, session.known)
    BY <1>1, <2>0, ItemsGoing
  <2>2. session' = [session EXCEPT !.out = out] /\ watch' = watch /\ socket' = Tail(socket)
    BY <1>12, <2>1 DEF Receives
  <2>3. session'.page = session.page /\ session'.out = out /\ session'.pending = session.pending
    BY <1>1, <2>2 DEF Sessions
  <2> QED
    BY <1>1, <2>0, <2>1, <2>2, <2>3 DEF NothingEnds
<1>13. CASE Polls
  BY <1>13 DEF Polls
<1>14. CASE Yields
  <2>1. PICK s : s = Sanitise(Head(session.out), session.roster)
    OBVIOUS
  <2>2. Head(session.out) \in Going /\ Tail(session.out) \in Seq(Going)
    BY <1>1, <1>14, HeadTailProperties DEF Yields
  <2>3. ~s.over
    BY <1>1, <2>1, <2>2, SanitiseTypes DEF Sessions, Going
  <2>4. PICK w : session' = [session EXCEPT !.out = Tail(session.out), !.waiting = w, !.known = s.names]
    BY <1>14, <2>1, <2>3 DEF Yields
  <2>5. watch'.open = watch.open /\ socket' = socket
    BY <1>1, <1>14, <2>1, <2>3 DEF Yields, channel, Types, Subscriptions
  <2>6. session'.page = session.page /\ session'.out = Tail(session.out)
        /\ session'.pending = session.pending
    BY <1>1, <2>4 DEF Sessions
  <2> QED
    BY <1>1, <2>2, <2>5, <2>6 DEF NothingEnds
<1> QED
  BY <1>4, <1>5, <1>6, <1>7, <1>8, <1>9, <1>10, <1>11, <1>12, <1>13, <1>14 DEF SessionStep

\* And so does every step.
LEMMA NothingEndsStep == IInv /\ NothingEnds /\ [Next]_vars => NothingEnds'
<1> SUFFICES ASSUME IInv, NothingEnds, [Next]_vars PROVE NothingEnds'
  OBVIOUS
<1>1. Types
  BY DEF IInv
<1>2. CASE GameMoves \/ GameEnds
  BY <1>1, <1>2, MovesEnd
<1>3. CASE SessionStep
  BY <1>3, StepEnds
<1>4. CASE StartsOver
  <2>1. session' = NoSession /\ socket' = <<>> /\ game' = game /\ watch' = watch
    BY <1>4 DEF StartsOver
  <2>2. Names({}) \in Going
    BY NamesGoing
  <2> QED
    BY <2>1, <2>2, IdlePhases, EmptySeq DEF NothingEnds
<1>5. CASE UNCHANGED vars
  BY <1>5 DEF vars, channel, NothingEnds
<1> QED
  BY <1>2, <1>3, <1>4, <1>5 DEF Next, Fails, Crashes

\* It holds at the start.
LEMMA NothingEndsInit == Init => NothingEnds
<1> SUFFICES ASSUME Init PROVE NothingEnds
  OBVIOUS
<1>1. session = NoSession /\ socket = <<>> /\ watch.open
  BY DEF Init
<1>2. Names({}) \in Going
  BY NamesGoing
<1> QED
  BY <1>1, <1>2, IdlePhases, EmptySeq DEF NothingEnds

\* The watch of a game that goes on is not ended, whatever pages, packets and polls bring.
THEOREM EndsRightly == Spec => []WatchedToTheEnd
<1>1. Init => IInv /\ NothingEnds
  BY IInvInit, NothingEndsInit
<1>2. IInv /\ NothingEnds /\ [Next]_vars => (IInv /\ NothingEnds)'
  BY IInvStep, NothingEndsStep
<1>3. IInv /\ NothingEnds => WatchedToTheEnd
  BY DEF IInv, Types, NothingEnds, WatchedToTheEnd, Subscriptions
<1> QED
  BY <1>1, <1>2, <1>3, PTL DEF Spec
=============================================================================

------------------------- MODULE AccountLinksProofs -------------------------
(* The links table keeps its promises for every set of users, accounts and *)
(* spellings, and every interleaving of links, completions and crashes.    *)
EXTENDS AccountLinks, TLAPS

USE LinksAssumption

(***************************************************************************)
(* What the row-building operators return.                                 *)
(***************************************************************************)
LEMMA NewRowType ==
    ASSUME users \in [Users -> Player], NEW u \in Users, NEW e \in Entries
    PROVE  NewRow(u, e) \in Player
BY DEF NewRow, Player, Id, Name

LEMMA EnrichedType ==
    ASSUME users \in [Users -> Player], NEW p \in Player
    PROVE  Enriched(p) \in [Users -> Player]
BY DEF Enriched, Completed, Player, Id, Name

\* The rows hold types, and so do the players still to be looked at.
THEOREM TypeCorrect == Spec => []TypeOK
<1>1. Init => TypeOK
  BY DEF Init, TypeOK, Player, NoLink, Id, Name
<1>2. TypeOK /\ [Next]_vars => TypeOK'
  <2> SUFFICES ASSUME TypeOK, [Next]_vars PROVE TypeOK'
    OBVIOUS
  <2>1. ASSUME NEW u \in Users, NEW e \in Entries, NEW o \in BOOLEAN, Link(u, e, o)
        PROVE  TypeOK'
    <3>1. NoLink \in Player
      BY DEF NoLink, Player, Id, Name
    <3>2. NewRow(u, e) \in Player
      BY NewRowType DEF TypeOK
    <3> QED
      BY <2>1, <3>1, <3>2 DEF Link, TypeOK
  <2>2. ASSUME NEW u \in Users, Unlink(u) PROVE TypeOK'
    BY <2>2 DEF Unlink, TypeOK, NoLink, Player, Id, Name
  <2>3. ASSUME NEW r \in Rosters, EnrichBegin(r) PROVE TypeOK'
    BY <2>3 DEF EnrichBegin, TypeOK
  <2>4. CASE EnrichStep
    <3>1. Head(roster) \in Player /\ Tail(roster) \in Seq(Player)
      BY <2>4 DEF EnrichStep, Unlocked, TypeOK
    <3>2. users' \in [Users -> Player]
      BY <2>4, <3>1, EnrichedType DEF EnrichStep, TypeOK
    <3> QED
      BY <2>4, <3>1, <3>2 DEF EnrichStep, TypeOK
  <2>5. CASE Crash
    BY <2>5 DEF Crash, TypeOK
  <2>6. CASE UNCHANGED vars
    BY <2>6 DEF vars, TypeOK
  <2> QED
    BY <2>1, <2>2, <2>3, <2>4, <2>5, <2>6 DEF Next
<1> QED
  BY <1>1, <1>2, PTL DEF Spec

-----------------------------------------------------------------------------
(***************************************************************************)
(* Exclusivity.  A link first removes every other holder of what it        *)
(* writes; a completion only writes what nobody else can hold, because the *)
(* player it completes from matched a single user.                         *)
(***************************************************************************)
LEMMA LinkKeepsExclusive ==
    ASSUME TypeOK, Exclusive(users), NEW u \in Users, NEW e \in Entries,
           NEW o \in BOOLEAN, Link(u, e, o)
    PROVE  Exclusive(users')
<1> DEFINE row == NewRow(u, e)
<1>1. row \in Player
  BY NewRowType DEF TypeOK
<1>2. \A v \in Users : users'[v] = IF v = u THEN row
                                   ELSE IF v \in Holders(u, row) THEN NoLink ELSE users[v]
  BY DEF Link
<1>3. ASSUME NEW v \in Users, NEW w \in Users, v # w
      PROVE  ~SameId(users'[w], users'[v].id) /\ ~SameName(users'[w], users'[v].name)
  <2>1. CASE v \notin {u} /\ w \notin {u}
    BY <1>2, <1>3, <2>1 DEF Exclusive, SameId, SameName, NoLink
  <2>2. CASE v = u
    BY <1>1, <1>2, <1>3, <2>2 DEF Holders, SameId, SameName, NoLink
  <2>3. CASE w = u
    BY <1>1, <1>2, <1>3, <2>3 DEF Holders, SameId, SameName, NoLink
  <2> QED
    BY <2>1, <2>2, <2>3
<1> QED
  BY <1>3 DEF Exclusive

LEMMA EnrichKeepsExclusive ==
    ASSUME users \in [Users -> Player], Exclusive(users), NEW p \in Player
    PROVE  Exclusive(Enriched(p))
<1> DEFINE t == Enriched(p)
<1>1. ASSUME NEW v \in Users, NEW w \in Users, v # w
      PROVE  ~SameId(t[w], t[v].id) /\ ~SameName(t[w], t[v].name)
  <2>1. Matches(p) = {v} => t[w] = users[w] /\ t[v] = Completed(users[v], p)
    BY <1>1 DEF Enriched
  <2>2. Matches(p) = {w} => t[v] = users[v] /\ t[w] = Completed(users[w], p)
    BY <1>1 DEF Enriched
  <2>3. Matches(p) # {v} /\ Matches(p) # {w} => t[v] = users[v] /\ t[w] = users[w]
    BY DEF Enriched
  <2>4. ~SameId(users[w], users[v].id) /\ ~SameName(users[w], users[v].name)
    BY <1>1 DEF Exclusive
  <2>5. CASE Matches(p) = {v}
    <3>1. ~SameId(users[w], p.id) /\ ~SameName(users[w], p.name)
      BY <1>1, <2>5 DEF Matches
    <3> QED
      BY <2>1, <2>4, <2>5, <3>1 DEF Completed, SameId, SameName, Player, Id, Name
  <2>6. CASE Matches(p) = {w}
    <3>1. ~SameId(users[v], p.id) /\ ~SameName(users[v], p.name)
      BY <1>1, <2>6 DEF Matches
    <3> QED
      BY <2>2, <2>4, <2>6, <3>1 DEF Completed, SameId, SameName, Player, Id, Name
  <2> QED
    BY <2>3, <2>4, <2>5, <2>6
<1> QED
  BY <1>1 DEF Exclusive

\* No id and no name is ever held by two users, nor would be after a restart.
THEOREM HeldOnce == Spec => []IdOrNameHeldOnce
<1>1. Init => IdOrNameHeldOnce
  BY DEF Init, IdOrNameHeldOnce, Exclusive, SameId, SameName, NoLink
<1>2. TypeOK /\ IdOrNameHeldOnce /\ [Next]_vars => IdOrNameHeldOnce'
  <2> SUFFICES ASSUME TypeOK, IdOrNameHeldOnce, [Next]_vars
               PROVE  Exclusive(users') /\ Exclusive(disk')
    BY DEF IdOrNameHeldOnce
  <2>0. Exclusive(users) /\ Exclusive(disk)
    BY DEF IdOrNameHeldOnce
  <2>1. ASSUME NEW u \in Users, NEW e \in Entries, NEW o \in BOOLEAN, Link(u, e, o)
        PROVE  Exclusive(users') /\ Exclusive(disk')
    <3>1. Exclusive(users')
      BY <2>0, <2>1, LinkKeepsExclusive
    <3> QED
      BY <2>1, <3>1 DEF Link
  <2>2. ASSUME NEW u \in Users, Unlink(u) PROVE Exclusive(users') /\ Exclusive(disk')
    BY <2>0, <2>2 DEF Unlink, Exclusive, SameId, SameName, NoLink, TypeOK
  <2>3. ASSUME NEW r \in Rosters, EnrichBegin(r)
        PROVE  Exclusive(users') /\ Exclusive(disk')
    BY <2>0, <2>3 DEF EnrichBegin
  <2>4. CASE EnrichStep
    <3>1. Head(roster) \in Player
      BY <2>4 DEF EnrichStep, Unlocked, TypeOK
    <3>2. Exclusive(users')
      BY <2>0, <2>4, <3>1, EnrichKeepsExclusive DEF EnrichStep, TypeOK
    <3> QED
      BY <2>0, <2>4, <3>2 DEF EnrichStep
  <2>5. CASE Crash
    BY <2>0, <2>5 DEF Crash
  <2>6. CASE UNCHANGED vars
    BY <2>0, <2>6 DEF vars
  <2> QED
    BY <2>1, <2>2, <2>3, <2>4, <2>5, <2>6 DEF Next
<1> QED
  BY <1>1, <1>2, TypeCorrect, PTL DEF Spec

-----------------------------------------------------------------------------
(***************************************************************************)
(* Rows never mix two accounts, as long as only true entries are given and *)
(* seen.  The players an enrichment has still to look at come from a true  *)
(* player map, which is what makes the invariant inductive.                *)
(***************************************************************************)
RosterTrue == \A i \in DOMAIN roster : \E a \in Accounts : IsOf(roster[i], a)

UnmixedInv == NeverMixed /\ RosterTrue

LEMMA NewRowUnmixed ==
    ASSUME Truthful, TypeOK, Unmixed(users), NEW u \in Users, NEW e \in Entries
    PROVE  \E a \in Accounts : IsOf(NewRow(u, e), a)
<1> DEFINE row == NewRow(u, e)
<1>0. e \in Player /\ users[u] \in Player /\ e # NoLink
  BY DEF TypeOK
<1>1. PICK a \in Accounts : IsOf(e, a)
  BY DEF Truthful
<1>2. a.id \in Ids /\ a.name \in Names /\ Fold[a.name] # Blank
  BY DEF Truthful
<1>3. CASE e.id = Blank /\ Fold[users[u].name] = Fold[e.name]
  <2>1. Fold[e.name] # Blank /\ e.name # Blank
    BY <1>0, <1>3 DEF Player, NoLink
  <2>2. users[u] # NoLink
    BY <1>3, <2>1 DEF NoLink
  <2>3. PICK b \in Accounts : IsOf(users[u], b)
    BY <2>2 DEF Unmixed
  <2>4. row.id = users[u].id /\ row.name = e.name
    BY <1>3, <2>1 DEF NewRow
  <2> QED
    BY <1>3, <2>3, <2>4 DEF IsOf
<1>4. CASE e.name = Blank /\ users[u].id = e.id
  <2>1. e.id # Blank
    BY <1>0, <1>4 DEF Player, NoLink
  <2>2. users[u] # NoLink
    BY <1>4, <2>1 DEF NoLink
  <2>3. PICK b \in Accounts : IsOf(users[u], b)
    BY <2>2 DEF Unmixed
  <2>4. row.id = e.id /\ row.name = users[u].name
    BY <1>4, <2>1 DEF NewRow
  <2> QED
    BY <1>4, <2>3, <2>4 DEF IsOf
<1>5. CASE /\ ~(e.id = Blank /\ Fold[users[u].name] = Fold[e.name])
           /\ ~(e.name = Blank /\ users[u].id = e.id)
  BY <1>1, <1>5 DEF NewRow, IsOf
<1> QED
  BY <1>3, <1>4, <1>5

LEMMA EnrichedUnmixed ==
    ASSUME Truthful, users \in [Users -> Player], Unmixed(users),
           NEW p \in Player, NEW a \in Accounts, IsOf(p, a)
    PROVE  Unmixed(Enriched(p))
<1> DEFINE t == Enriched(p)
<1>1. ASSUME NEW u \in Users, t[u] # NoLink
      PROVE  \E c \in Accounts : IsOf(t[u], c)
  <2>1. CASE Matches(p) = {u}
    <3>1. SameId(users[u], p.id) \/ SameName(users[u], p.name)
      BY <2>1 DEF Matches
    <3>2. users[u] # NoLink
      BY <3>1 DEF SameId, SameName, NoLink
    <3>3. PICK b \in Accounts : IsOf(users[u], b)
      BY <3>2 DEF Unmixed
    <3>4. a.id = b.id \/ Fold[a.name] = Fold[b.name]
      BY <3>1, <3>3 DEF SameId, SameName, IsOf
    <3>5. a = b
      BY <3>4 DEF Truthful
    <3>6. t[u] = Completed(users[u], p)
      BY <2>1 DEF Enriched
    <3> QED
      BY <3>3, <3>5, <3>6 DEF Completed, IsOf
  <2>2. CASE Matches(p) # {u}
    BY <1>1, <2>2 DEF Enriched, Unmixed
  <2> QED
    BY <2>1, <2>2
<1> QED
  BY <1>1 DEF Unmixed

\* "A re-link never mixes two players", nor do completions, nor crashes.
THEOREM Unmixing ==
    ASSUME Truthful
    PROVE  Spec => []NeverMixed
<1>1. Init => UnmixedInv
  BY DEF Init, UnmixedInv, NeverMixed, Unmixed, RosterTrue
<1>2. TypeOK /\ UnmixedInv /\ [Next]_vars => UnmixedInv'
  <2> SUFFICES ASSUME TypeOK, UnmixedInv, [Next]_vars
               PROVE  Unmixed(users') /\ Unmixed(disk') /\ RosterTrue'
    BY DEF UnmixedInv, NeverMixed
  <2>0. Unmixed(users) /\ Unmixed(disk) /\ RosterTrue
    BY DEF UnmixedInv, NeverMixed
  <2>1. ASSUME NEW u \in Users, NEW e \in Entries, NEW o \in BOOLEAN, Link(u, e, o)
        PROVE  Unmixed(users') /\ Unmixed(disk') /\ RosterTrue'
    <3>1. \E a \in Accounts : IsOf(NewRow(u, e), a)
      BY <2>0, NewRowUnmixed
    <3>2. Unmixed(users')
      BY <2>0, <2>1, <3>1 DEF Link, Unmixed
    <3> QED
      BY <2>0, <2>1, <3>2 DEF Link, RosterTrue
  <2>2. ASSUME NEW u \in Users, Unlink(u)
        PROVE  Unmixed(users') /\ Unmixed(disk') /\ RosterTrue'
    BY <2>0, <2>2 DEF Unlink, Unmixed, RosterTrue, TypeOK
  <2>3. ASSUME NEW r \in Rosters, EnrichBegin(r)
        PROVE  Unmixed(users') /\ Unmixed(disk') /\ RosterTrue'
    BY <2>0, <2>3 DEF EnrichBegin, RosterTrue, Truthful
  <2>4. CASE EnrichStep
    <3>1. Head(roster) \in Player /\ Head(roster) = roster[1] /\ 1 \in DOMAIN roster
      BY <2>4 DEF EnrichStep, Unlocked, TypeOK
    <3>2. PICK a \in Accounts : IsOf(Head(roster), a)
      BY <2>0, <3>1 DEF RosterTrue
    <3>3. Unmixed(users')
      BY <2>0, <2>4, <3>1, <3>2, EnrichedUnmixed DEF EnrichStep, TypeOK
    <3>4. RosterTrue'
      BY <2>0, <2>4 DEF EnrichStep, Unlocked, RosterTrue, TypeOK
    <3> QED
      BY <2>0, <2>4, <3>3, <3>4 DEF EnrichStep
  <2>5. CASE Crash
    BY <2>0, <2>5 DEF Crash, RosterTrue
  <2>6. CASE UNCHANGED vars
    BY <2>0, <2>6 DEF vars, RosterTrue
  <2> QED
    BY <2>1, <2>2, <2>3, <2>4, <2>5, <2>6 DEF Next
<1>3. UnmixedInv => NeverMixed
  BY DEF UnmixedInv
<1> QED
  BY <1>1, <1>2, <1>3, TypeCorrect, PTL DEF Spec
=============================================================================

---------------------------- MODULE AccountLinks ----------------------------
(***************************************************************************)
(* The users table: which Discord user is which Board Game Arena player.   *)
(* A row holds a player id, a player name, or both.  People link           *)
(* themselves (or an admin links them), and the table monitor completes    *)
(* rows from the player maps of the tables it watches.  Every operation    *)
(* runs under the database's lock; completing rows walks a whole player    *)
(* map under that lock and commits once at the end, so it is modelled one  *)
(* player at a time and may be cut short by a crash.                       *)
(***************************************************************************)
EXTENDS Sequences

CONSTANTS
    Users,    \* Discord users
    Ids,      \* BGA player ids
    Names,    \* spellings of BGA player names
    Blank,    \* the empty string
    Fold,     \* a spelling's normal form: stripped and case-folded
    Entries,  \* what a caller of link_user may give, stripped: an id, a name or both
    Rosters,  \* player maps seen at tables, in iteration order
    Accounts  \* the accounts there are, each an id and a name

Id == Ids \cup {Blank}
Name == Names \cup {Blank}
Player == [id : Id, name : Name]
NoLink == [id |-> Blank, name |-> Blank]

ASSUME LinksAssumption ==
    /\ Blank \notin Ids \cup Names
    /\ Fold \in [Name -> Name]
    /\ Fold[Blank] = Blank
    /\ Entries \subseteq Player \ {NoLink}
    /\ \A e \in Entries : Fold[e.name] = Blank => e.name = Blank
    /\ Rosters \subseteq Seq(Player)
    /\ Accounts \subseteq [id : Ids, name : Names]

VARIABLES
    users,   \* each Discord user's row as the connection sees it, NoLink if none
    disk,    \* the same as of the last commit
    roster   \* the players the running enrichment has still to look at

vars == <<users, disk, roster>>

TypeOK ==
    /\ users \in [Users -> Player]
    /\ disk \in [Users -> Player]
    /\ roster \in Seq(Player)

Init ==
    /\ users = [u \in Users |-> NoLink]
    /\ disk = users
    /\ roster = <<>>

\* No other operation holds the lock.
Unlocked == roster = <<>>

SameId(row, id) == id # Blank /\ row.id = id
SameName(row, name) == Fold[name] # Blank /\ Fold[row.name] = Fold[name]

(***************************************************************************)
(* link_user.  An entry without an id keeps the stored id when the name is *)
(* unchanged; one without a name keeps the stored name when the id is      *)
(* unchanged.  (A user with no row has blank fields, which match no        *)
(* entry.)                                                                 *)
(***************************************************************************)
NewRow_MixesPlayers(u, e) ==
    [id   |-> IF e.id = Blank THEN users[u].id ELSE e.id,
     name |-> IF e.name = Blank THEN users[u].name ELSE e.name]

NewRow(u, e) ==
    [id   |-> IF e.id = Blank /\ Fold[users[u].name] = Fold[e.name]
              THEN users[u].id ELSE e.id,
     name |-> IF e.name = Blank /\ users[u].id = e.id
              THEN users[u].name ELSE e.name]

Holders_ExactSpelling(u, row) ==
    {v \in Users \ {u} : \/ SameId(users[v], row.id)
                         \/ row.name # Blank /\ users[v].name = row.name}

\* The other users whose link the new row would collide with.
Holders(u, row) ==
    {v \in Users \ {u} : SameId(users[v], row.id) \/ SameName(users[v], row.name)}

\* A collision is refused (LinkConflictError) unless an admin overrides it,
\* which deletes the holders' rows in the same transaction.
Link(u, e, override) ==
    LET row == NewRow(u, e) IN
    /\ Unlocked
    /\ override \/ Holders(u, row) = {}
    /\ users' = [v \in Users |-> IF v = u THEN row
                                 ELSE IF v \in Holders(u, row) THEN NoLink
                                 ELSE users[v]]
    /\ disk' = users'
    /\ UNCHANGED roster

Unlink_DropsEntry(u) ==
    /\ Unlocked
    /\ users[u] # NoLink
    /\ users' = [v \in Users \ {u} |-> users[v]]
    /\ disk' = users'
    /\ UNCHANGED roster

\* remove_linked_user
Unlink(u) ==
    /\ Unlocked
    /\ users[u] # NoLink
    /\ users' = [users EXCEPT ![u] = NoLink]
    /\ disk' = users'
    /\ UNCHANGED roster

(***************************************************************************)
(* enrich_linked_users_from_players                                        *)
(***************************************************************************)
EnrichBegin(r) ==
    /\ Unlocked
    /\ r # <<>>
    /\ roster' = r
    /\ UNCHANGED <<users, disk>>

\* The users a table's player may be: an ambiguous player completes nobody.
Matches(p) == {u \in Users : SameId(users[u], p.id) \/ SameName(users[u], p.name)}

Completed(row, p) ==
    [id   |-> IF row.id = Blank THEN p.id ELSE row.id,
     name |-> IF row.name = Blank THEN p.name ELSE row.name]

Enriched(p) ==
    [u \in Users |-> IF Matches(p) = {u} THEN Completed(users[u], p) ELSE users[u]]

EnrichStep ==
    /\ ~Unlocked
    /\ users' = Enriched(Head(roster))
    /\ roster' = Tail(roster)
    /\ disk' = IF roster' = <<>> THEN users' ELSE disk

\* The process dies: an uncommitted enrichment is rolled back.
Crash ==
    /\ ~Unlocked
    /\ users' = disk
    /\ roster' = <<>>
    /\ UNCHANGED disk

Next ==
    \/ \E u \in Users, e \in Entries, override \in BOOLEAN : Link(u, e, override)
    \/ \E u \in Users : Unlink(u)
    \/ \E r \in Rosters : EnrichBegin(r)
    \/ EnrichStep
    \/ Crash

Spec == Init /\ [][Next]_vars

-----------------------------------------------------------------------------
(***************************************************************************)
(* "A BGA ID or name belongs to at most one Discord user" (link_user):     *)
(* no two users hold the same id, nor two spellings of the same name,      *)
(* whatever sequence of links, overrides and completions led there, and    *)
(* also in what a restart would read back.                                 *)
(***************************************************************************)
Exclusive(t) ==
    \A u, v \in Users : u # v => /\ ~SameId(t[v], t[u].id)
                                 /\ ~SameName(t[v], t[u].name)

IdOrNameHeldOnce == Exclusive(users) /\ Exclusive(disk)

(***************************************************************************)
(* "so a re-link never mixes two players" (link_user): when every entry    *)
(* and every table tells the truth about some account, no row ever pairs   *)
(* one account's id with another's name, although rows are put together    *)
(* from separate links and sightings.                                      *)
(***************************************************************************)
IsOf(row, a) == row.id \in {a.id, Blank} /\ Fold[row.name] \in {Fold[a.name], Blank}

Unmixed(t) == \A u \in Users : t[u] = NoLink \/ \E a \in Accounts : IsOf(t[u], a)

NeverMixed == Unmixed(users) /\ Unmixed(disk)

\* Accounts differ in id and in name, and nothing false is entered or seen.
Truthful ==
    /\ \A a, b \in Accounts : a.id = b.id \/ Fold[a.name] = Fold[b.name] => a = b
    /\ \A a \in Accounts : Fold[a.name] # Blank
    /\ \A e \in Entries : \E a \in Accounts : IsOf(e, a)
    /\ \A r \in Rosters : \A i \in DOMAIN r : \E a \in Accounts : IsOf(r[i], a)
=============================================================================

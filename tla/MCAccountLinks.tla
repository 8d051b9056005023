--------------------------- MODULE MCAccountLinks ---------------------------
(* Three users and two accounts, one of whose names is typed two ways.      *)
EXTENDS AccountLinks

CONSTANTS u1, u2, u3

ids == {"7", "8"}
names == {"Ann", "ann", "Bob"}

fold == [n \in names \cup {""} |-> IF n = "Ann" THEN "ann" ELSE n]

accounts == {[id |-> "7", name |-> "Ann"], [id |-> "8", name |-> "Bob"]}

\* An id alone or a name alone (the self-link modal), or both (an admin).
entries ==
    {[id |-> i, name |-> ""] : i \in ids} \cup {[id |-> "", name |-> n] : n \in names}
        \cup {[id |-> "7", name |-> "ann"], [id |-> "8", name |-> "Bob"]}

\* Tables show an id and a name; a partly loaded one may lack the name.
rosters ==
    {<<[id |-> "7", name |-> "Ann"], [id |-> "8", name |-> "Bob"]>>,
     <<[id |-> "8", name |-> ""], [id |-> "7", name |-> "Ann"]>>}

\* Nothing but the truth is typed or seen in this instance.
ASSUME Truthful
=============================================================================

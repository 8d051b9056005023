-------------------------------- MODULE MCSeats --------------------------------
(* Seats with two spellings of a name, which one of two users goes by on     *)
(* Discord and which both used in another room.                            *)
EXTENDS Seats

MCNorm == [n \in Names |-> "ann"]
MCMemberNames == [u \in Users |-> IF u = 1 THEN {"ann"} ELSE {}]
MCRooms == {[s \in Seats |-> IF s = "s1" THEN "Ann" ELSE n] : n \in {"none", "Ann!"}}
MCLastNames == [u \in Users |-> "Ann"]
MCAlike == Names \X Names
===============================================================================

---------------------------- MODULE ClientContract ----------------------------
(***************************************************************************)
(* What the monitor relies on from the client of a Codenames room: it runs *)
(* until it ends for a reason, keeps the first reason, then tells the      *)
(* monitor that reason once and is over when the monitor has taken it.  A  *)
(* client that ends closes its connection and reports in the end.          *)
(***************************************************************************)
VARIABLES
    life,    \* "running", "ending", "reporting" or "over"
    reason   \* why it ends, "none" while it runs

contract == <<life, reason>>

Reasons == {"stopped", "unsupported", "failed"}

Init ==
    /\ life = "running"
    /\ reason = "none"

\* The client is stopped, meets a room it cannot follow, or gives up.
Ends ==
    /\ life = "running"
    /\ reason' \in Reasons
    /\ life' \in {"ending", "reporting"}

\* The connection is closed, and on_closed is called.
Reports ==
    /\ life = "ending"
    /\ life' = "reporting"
    /\ UNCHANGED reason

\* on_closed has returned.
Finishes ==
    /\ life = "reporting"
    /\ life' = "over"
    /\ UNCHANGED reason

Next == Ends \/ Reports \/ Finishes

Safe == Init /\ [][Next]_contract

Spec == Safe /\ WF_contract(Reports)
===============================================================================

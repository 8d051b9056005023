--------------------------- MODULE ResultDelivery ---------------------------
(***************************************************************************)
(* What the tournament bridge promises about results: "Results are kept in *)
(* a database outbox until the tournament accepts them, so a restart or an *)
(* outage on either side loses nothing.  Each game has a stable event_id,  *)
(* so redelivery never scores a game twice."  (docs/tournament-bridge.md)  *)
(*                                                                         *)
(* A queued result stays pending until it is settled: delivered (only if   *)
(* the tournament has it), rejected or abandoned.  Only a request to send  *)
(* again makes a settled result pending, and pending ones are settled in   *)
(* the end.                                                                *)
(***************************************************************************)
CONSTANT Events

VARIABLES
    result,   \* each event's place: unknown, pending or settled
    accepted  \* the events the tournament has taken

vars == <<result, accepted>>

Settled == {"delivered", "rejected", "abandoned"}

Init ==
    /\ result = [e \in Events |-> "unknown"]
    /\ accepted = {}

Queue(e) ==
    /\ result[e] = "unknown"
    /\ result' = [result EXCEPT ![e] = "pending"]
    /\ UNCHANGED accepted

\* The tournament takes a result; whether we hear of it is another matter.
Take(e) ==
    /\ result[e] = "pending"
    /\ accepted' = accepted \cup {e}
    /\ UNCHANGED result

Settle(e, s) ==
    /\ result[e] = "pending"
    /\ s = "delivered" => e \in accepted
    /\ result' = [result EXCEPT ![e] = s]
    /\ UNCHANGED accepted

Resend(S) ==
    /\ \A e \in S : result[e] \in Settled
    /\ result' = [e \in Events |-> IF e \in S THEN "pending" ELSE result[e]]
    /\ UNCHANGED accepted

Next ==
    \/ \E e \in Events : Queue(e)
    \/ \E e \in Events : Take(e)
    \/ \E e \in Events, s \in Settled : Settle(e, s)
    \/ \E S \in SUBSET Events : Resend(S)

Safe == Init /\ [][Next]_vars

Spec == Safe /\ \A e \in Events : WF_vars(\E s \in Settled : Settle(e, s))
=============================================================================

---------------------------- MODULE MCTableWatch ----------------------------
(***************************************************************************)
(* Two worker slots, so that a worker and its successor, or one cancelled  *)
(* in the middle of a database call, are there together.                   *)
(***************************************************************************)
EXTENDS TableWatch, TLC

=============================================================================

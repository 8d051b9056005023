--------------------------- MODULE MCTableStream ---------------------------
(***************************************************************************)
(* Two players, so that a turn is nobody's, one's or everybody's; one id   *)
(* that does not play; two packets, so that one can fall into the gap or   *)
(* behind a reply and one can meet the stream.                             *)
(***************************************************************************)
EXTENDS TableStream, TLC

MCPlayers == {"p1", "p2"}
MCGuests == {"g"}

=============================================================================

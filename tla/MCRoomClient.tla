----------------------------- MODULE MCRoomClient -----------------------------
(* RoomClient with a room that may move between two servers. *)
EXTENDS RoomClient
===============================================================================

---------------------------- MODULE MCRoomClients ----------------------------
(* RoomClients with two calls at a time and one channel bound to a tournament. *)
EXTENDS RoomClients
===============================================================================

---------------------------- MODULE MCRoomUpdates ----------------------------
(* A room of one or two matches; the configurations choose its faults.      *)
EXTENDS RoomUpdates, TLC
=============================================================================

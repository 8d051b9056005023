--------------------------- MODULE MCBridgeOutbox ---------------------------
(* The bridge with two channels and two events (a room may be watched in   *)
(* both channels), passes that read one row at a time, two callback URLs.  *)
EXTENDS BridgeOutbox, TLC
=============================================================================

--------------------------- MODULE MCBridgeLineups ---------------------------
(* Two channels, two finished games that either channel may report.        *)
EXTENDS BridgeLineups, TLC

Symmetry == Permutations(Channels) \cup Permutations(Events)
=============================================================================

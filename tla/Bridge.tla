------------------------------- MODULE Bridge -------------------------------
(***************************************************************************)
(* What the parts of the tournament bridge have in common: the channels    *)
(* that tournaments bind, and the results that are reported from them.     *)
(***************************************************************************)

CONSTANTS
    Channels,    \* Discord channels that tournaments bind to their matches
    Events,      \* event ids of finished games: a room and a match
    None         \* no channel, no event, no line-up, no binding
=============================================================================

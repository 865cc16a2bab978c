--------------------------- MODULE MCWSRequests ---------------------------
(***************************************************************************)
(* A small instance of WSRequests for TLC: two spins, one without an ID,   *)
(* and a request for the player's state without one.                       *)
(***************************************************************************)
EXTENDS WSRequests

CONSTANTS s1, s2, g
=============================================================================

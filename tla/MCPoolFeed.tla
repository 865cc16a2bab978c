---------------------------- MODULE MCPoolFeed ----------------------------
(***************************************************************************)
(* A small instance of PoolFeed for TLC.                                   *)
(***************************************************************************)
EXTENDS PoolFeed

CONSTANTS p, q

\* Two updates of a pool of the game, one of another game's.
Updates == <<p, q, p>>
=============================================================================

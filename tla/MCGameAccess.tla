--------------------------- MODULE MCGameAccess ---------------------------
(***************************************************************************)
(* A small instance of GameAccess for TLC.                                 *)
(***************************************************************************)
EXTENDS GameAccess

CONSTANTS u1, u2, c1, r1

\* The connection and the requests are one player's, the other is on lists.
Users == [p \in Proc |-> u1]

\* Open to all, restricted to both or to the other player, disabled.
Open == [active |-> TRUE, limit |-> FALSE, whitelist |-> {}]
Limited(us) == [active |-> TRUE, limit |-> TRUE, whitelist |-> us]
Disabled == [active |-> FALSE, limit |-> FALSE, whitelist |-> {}]

Games == {Open, Limited({u1, u2}), Limited({u2}), Disabled}
=============================================================================

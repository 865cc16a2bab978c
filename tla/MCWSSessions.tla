--------------------------- MODULE MCWSSessions ---------------------------
(***************************************************************************)
(* Small instances of WSSessions for TLC.                                  *)
(***************************************************************************)
EXTENDS WSSessions

CONSTANTS n1, n2, c1

\* One connection on a node of its own, the others together.
TwoNodes == [c \in Conn |-> IF c = c1 THEN n1 ELSE n2]

\* All subscriptions are made by one connection.
OneSubscriber == [u \in Sub |-> c1]
=============================================================================

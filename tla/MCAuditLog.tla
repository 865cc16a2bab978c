---------------------------- MODULE MCAuditLog ----------------------------
(***************************************************************************)
(* A small instance of AuditLog for TLC.                                   *)
(***************************************************************************)
EXTENDS AuditLog

S(f, sp, r, j) == [free |-> f, split |-> sp, rounds |-> r, jackpots |-> j]

\* A round not kept apart with a jackpot, a free spin of three rounds, and
\* rounds kept apart of which there is one.
Shapes == {S(FALSE, FALSE, 1, 1), S(TRUE, TRUE, 3, 0), S(FALSE, TRUE, 1, 0)}
=============================================================================

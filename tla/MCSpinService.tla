--------------------------- MODULE MCSpinService ---------------------------
(***************************************************************************)
(* Small instances of SpinService for TLC.                                 *)
(***************************************************************************)
EXTENDS SpinService, FiniteSets, TLC

CONSTANTS c1, c2, s1

\* All spins on one websocket connection, or each pair of calls overlapping.
OneConn == [s \in Session |-> c1]
TwoConns == [s \in Session |-> IF s = s1 THEN c2 ELSE c1]

Plain == [jackpots |-> 0, resultFreeSpin |-> 0, freeSpinBets |-> <<>>]
TwoJackpots == [Plain EXCEPT !.jackpots = 2]

FreePlain == [jackpots |-> 0, resultFreeSpin |-> 0]
FreeJackpot == [FreePlain EXCEPT !.jackpots = 1]
FreeRetrigger == [FreePlain EXCEPT !.resultFreeSpin = 1]

\* One free spin that retriggers, and the one it grants, listed as well.
Retriggered == [Plain EXCEPT !.resultFreeSpin = 1,
                             !.freeSpinBets = <<FreeRetrigger, FreeJackpot>>]

OneFree == [Plain EXCEPT !.resultFreeSpin = 1, !.freeSpinBets = <<FreeJackpot>>]

Results == {OneFree, Retriggered}
JackpotResults == {TwoJackpots, OneFree}
AwardResults == {Retriggered}

ASSUME \A r \in Results : Playable(r)
ASSUME \A r \in JackpotResults : ListsRetriggers(r)

Symmetry == Permutations(Session)
ConnSymmetry == Permutations(Session \ {s1})

\* At most one of the spins fails or dies.
OneFailure == Cardinality({s \in Session : pc[s] \in {"error", "dead"}}) <= 1
=============================================================================

------------------------- MODULE MCJackpotService -------------------------
(***************************************************************************)
(* Small instances of JackpotService for TLC.                              *)
(***************************************************************************)
EXTENDS JackpotService, TLC

Symmetry == Permutations(Stream)

\* At most so many callbacks of the flush timer have not run yet.
FewCallbacks == callbacks <= 1

\* The loop is woken by its ticker only, which flushes as a token does.
TickerOnly == callbacks = 0

\* Streams read the pools for the first time one after the other.
OneJoins ==
    \A l, k \in Stream :
        {stage[l], stage[k]} \subseteq {"listening", "initial"} => l = k

\* No stream goes away.
NoneLeaves == cancelled = {}

\* One stream at most goes away or misses a message.
OneLeaves == Cardinality(cancelled \cup failed) <= 1
=============================================================================

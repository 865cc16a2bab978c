---------------------------- MODULE SpinLedger ----------------------------
(***************************************************************************)
(* What the spin service promises about money, apart from how it is done:  *)
(* a bet is taken only in a round that was noted before; a round is paid   *)
(* or refunded once and only after its bet was taken; and a bet is never   *)
(* left both open and unknown, whatever step fails.  A free spin is        *)
(* granted its win without a bet and without a note.                       *)
(***************************************************************************)
CONSTANT Round

VARIABLES
    money,      \* how far the money of each round has moved
    noted,      \* rounds with a durable record that they are in progress
    reported    \* rounds handed to the audit log

ledgerVars == <<money, noted, reported>>

LedgerTypeOK ==
    /\ money \in [Round -> {"idle", "open", "paid", "refunded", "granted"}]
    /\ noted \subseteq Round
    /\ reported \subseteq Round

LedgerInit ==
    /\ money = [r \in Round |-> "idle"]
    /\ noted = {}
    /\ reported = {}

Move(r, from, to) == money[r] = from /\ money' = [money EXCEPT ![r] = to]

Note(r) == money[r] = "idle" /\ noted' = noted \cup {r}
           /\ UNCHANGED <<money, reported>>

TakeBet(r) == r \in noted /\ Move(r, "idle", "open")
              /\ UNCHANGED <<noted, reported>>

Pay(r) == Move(r, "open", "paid") /\ UNCHANGED <<noted, reported>>

GiveBack(r) == Move(r, "open", "refunded") /\ UNCHANGED <<noted, reported>>

Grant(r) == r \notin noted /\ Move(r, "idle", "granted")
            /\ UNCHANGED <<noted, reported>>

Report(r) == reported' = reported \cup {r} /\ UNCHANGED <<money, noted>>

\* The note of a round may go once the round is paid or reported.
Forget(r) == (money[r] = "paid" \/ r \in reported)
             /\ noted' = noted \ {r}
             /\ UNCHANGED <<money, reported>>

LedgerNext ==
    \E r \in Round : \/ Note(r) \/ TakeBet(r) \/ Pay(r) \/ GiveBack(r)
                     \/ Grant(r) \/ Report(r) \/ Forget(r)

LedgerSpec == LedgerInit /\ [][LedgerNext]_ledgerVars

\* A bet in the wallet's hands belongs to a round that is noted or reported.
OpenBetIsKnown ==
    \A r \in Round : money[r] = "open" => r \in noted \cup reported
=============================================================================

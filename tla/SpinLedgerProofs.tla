------------------------- MODULE SpinLedgerProofs -------------------------
(***************************************************************************)
(* The ledger keeps its one promise for any number of rounds.              *)
(***************************************************************************)
EXTENDS SpinLedger, TLAPS

LedgerInv == LedgerTypeOK /\ OpenBetIsKnown

\* A step of the ledger keeps its types and never leaves an open bet unknown:
\* TakeBet needs a note, and Forget needs a payment or a report.
LEMMA LedgerStepKeeps == LedgerInv /\ [LedgerNext]_ledgerVars => LedgerInv'
<1> SUFFICES ASSUME LedgerInv, [LedgerNext]_ledgerVars PROVE LedgerInv'
    OBVIOUS
<1> USE DEF LedgerInv, LedgerTypeOK, OpenBetIsKnown
<1>1. CASE UNCHANGED ledgerVars
  BY <1>1 DEF ledgerVars
<1>2. ASSUME NEW r \in Round, Note(r) PROVE LedgerInv'
  BY <1>2 DEF Note
<1>3. ASSUME NEW r \in Round, TakeBet(r) PROVE LedgerInv'
  BY <1>3 DEF TakeBet, Move
<1>4. ASSUME NEW r \in Round, Pay(r) PROVE LedgerInv'
  BY <1>4 DEF Pay, Move
<1>5. ASSUME NEW r \in Round, GiveBack(r) PROVE LedgerInv'
  BY <1>5 DEF GiveBack, Move
<1>6. ASSUME NEW r \in Round, Grant(r) PROVE LedgerInv'
  BY <1>6 DEF Grant, Move
<1>7. ASSUME NEW r \in Round, Report(r) PROVE LedgerInv'
  BY <1>7 DEF Report
<1>8. ASSUME NEW r \in Round, Forget(r) PROVE LedgerInv'
  BY <1>8 DEF Forget
<1> QED
  BY <1>1, <1>2, <1>3, <1>4, <1>5, <1>6, <1>7, <1>8 DEF LedgerNext

\* A bet in the wallet's hands always belongs to a round that is noted or
\* reported, so every open bet can be found again (executeNormalSpin saves the
\* record before PlaceBets; ExecuteSpinV2 reports before it clears).
THEOREM OpenBetKnown == LedgerSpec => []OpenBetIsKnown
<1>1. LedgerInit => LedgerInv
  BY DEF LedgerInit, LedgerInv, LedgerTypeOK, OpenBetIsKnown
<1>2. LedgerInv => OpenBetIsKnown
  BY DEF LedgerInv
<1> QED
  BY <1>1, <1>2, LedgerStepKeeps, PTL DEF LedgerSpec
=============================================================================

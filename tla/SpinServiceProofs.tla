------------------------- MODULE SpinServiceProofs -------------------------
(***************************************************************************)
(* Theorems about SpinService, for any number of spins and connections and *)
(* any results of the game module.                                         *)
(***************************************************************************)
EXTENDS SpinService, WellFoundedInduction, TLAPS

USE SessionAssumption, ConnAssumption, ResultsAssumption, AuditAssumption

-----------------------------------------------------------------------------
(***************************************************************************)
(* Type correctness.  RemainingFreeSpin is an int that free spins count    *)
(* down: that it never goes below zero needs FreeSpinLeft.                 *)
(***************************************************************************)

\* A free spin being played still counts as remaining in the handler's copy.
FreeSpinLeft ==
    \A s \in Session :
        Free(s) /\ pc[s] \in {"freeSave", "claim", "place", "settle"}
            => mem[s].remainingFreeSpin > 0

\* The steps of executeNormalSpin are taken by normal spins, those of
\* executeFreeSpin by free spins.
KindMatches ==
    \A s \in Session :
        /\ pc[s] \in {"idle", "load", "presave"} => spin[s].type = "none"
        /\ pc[s] \in {"trace", "play", "refund", "tracePost", "contribute"}
              => Normal(s)
        /\ pc[s] = "freeSave" => Free(s)
        /\ pc[s] \in {"claim", "place", "settle", "log", "save", "ok"}
              => Normal(s) \/ Free(s)

TypeInv == TypeOK /\ KindMatches /\ FreeSpinLeft

\* A fresh player state is a player state.
LEMMA NewPlayerStateType == NewPlayerState \in PlayerState
  BY DEF NewPlayerState, PlayerState

\* The next free spin of a well-typed player state is a well-typed spin.
LEMMA FreeSpinOfType ==
    ASSUME NEW ps \in PlayerState, ~NoMoreFreeSpins(ps)
    PROVE  FreeSpinOf(ps) \in Spin
  <1>1. ps.playedFreeSpin + 1 \in 1..Len(ps.freeSpins)
    BY DEF PlayerState, NoMoreFreeSpins
  <1>2. ps.freeSpins[ps.playedFreeSpin + 1] \in FreeResult
    BY <1>1 DEF PlayerState
  <1>3. <<>> \in Seq(FreeResult)
    OBVIOUS
  <1> QED
    BY <1>2, <1>3 DEF FreeSpinOf, Spin, PlayerState, FreeResult, NormalResult

\* Settling a normal spin leaves a well-typed player state.
LEMMA AfterNormalSpinType ==
    ASSUME TypeOK, NEW s \in Session
    PROVE  AfterNormalSpin(s, mem[s]) \in PlayerState
  <1>1. mem[s] \in PlayerState /\ spin[s].result \in NormalResult
    BY DEF TypeOK, Spin
  <1>2. FreeSpinsWon(s) \in PlayerState
    BY <1>1 DEF FreeSpinsWon, PlayerState, NormalResult
  <1>3. Reset(mem[s]) \in PlayerState
    <2>1. <<>> \in Seq(FreeResult) /\ NoSession \in Session \cup {NoSession}
      OBVIOUS
    <2> QED
      BY <1>1, <2>1 DEF Reset, PlayerState
  <1> QED
    BY <1>1, <1>2, <1>3 DEF AfterNormalSpin

\* So does settling a free spin, of which one at least remained.
LEMMA AfterFreeSpinType ==
    ASSUME NEW ps \in PlayerState, ps.remainingFreeSpin > 0
    PROVE  AfterFreeSpin(ps) \in PlayerState
  <1> DEFINE left == ps.remainingFreeSpin - 1
             free == ps.isFreeSpin /\ left # 0
             last == ps.isLastFreeSpin \/ left = 0
  <1>1. left \in Nat /\ ps.playedFreeSpin + 1 \in Nat
    BY DEF PlayerState
  <1>2. free \in BOOLEAN /\ last \in BOOLEAN
    OBVIOUS
  <1>3. AfterFreeSpin(ps) = [ps EXCEPT !.playedFreeSpin = ps.playedFreeSpin + 1,
                                       !.remainingFreeSpin = left,
                                       !.isFreeSpin = free,
                                       !.isLastFreeSpin = last]
    BY DEF AfterFreeSpin
  <1> HIDE DEF left, free, last
  <1> QED
    BY <1>1, <1>2, <1>3 DEF PlayerState

\* A player state that may play a free spin has one left to count down.
LEMMA FreeSpinSaveType ==
    ASSUME TypeOK, NEW s \in Session
    PROVE  [mem[s] EXCEPT !.remainingFreeSpin =
                @ + spin[s].result.resultFreeSpin] \in PlayerState
  <1>1. mem[s] \in PlayerState /\ spin[s].result.resultFreeSpin \in Nat
    BY DEF TypeOK, Spin, NormalResult
  <1>2. mem[s].remainingFreeSpin + spin[s].result.resultFreeSpin \in Nat
    BY <1>1 DEF PlayerState
  <1> QED
    BY <1>1, <1>2 DEF PlayerState

\* Where the claim loop leads.
LEMMA AfterClaimsLabel ==
    ASSUME NEW s, NEW n
    PROVE  AfterClaims(s, n) \in {"claim", "settle", "place"}
  BY DEF AfterClaims

USE DEF Running, Ended

\* The service starts with well-typed state and no spin under way.
LEMMA TypeInit == Init => TypeInv
  BY NewPlayerStateType
  DEF Init, TypeInv, TypeOK, KindMatches, FreeSpinLeft, Free, Normal, NoSpin,
      NoResult, Spin,
      NormalResult, SpinStatus

\* Every step keeps the types, the kind of spin that takes each step, and a
\* free spin to count down for each one that is being played.
LEMMA TypeStep ==
    ASSUME TypeInv, [Next]_vars
    PROVE  TypeInv'
  <1> USE DEF TypeInv
  <1>1. ASSUME NEW s \in Session, Begin(s) PROVE TypeInv'
    BY <1>1 DEF Begin, Goto, TypeOK, KindMatches, FreeSpinLeft, Free, Normal,
        redis, wallet, reward, logs
  <1>2. ASSUME NEW s \in Session, GetPlayerState(s) PROVE TypeInv'
    BY <1>2, NewPlayerStateType
    DEF GetPlayerState, Goto, TypeOK, KindMatches, FreeSpinLeft, Free, Normal,
        redis, wallet, reward, logs
  <1>3. ASSUME NEW s \in Session, PreSaveAndChoose(s) PROVE TypeInv'
    <2>1. CASE IsFreeSpin(mem[s]) /\ ~NoMoreFreeSpins(mem[s])
      <3>1. FreeSpinOf(mem[s]) \in Spin
        BY <2>1, FreeSpinOfType DEF TypeOK
      <3>2. FreeSpinOf(mem[s]).type = "free" /\ mem[s].remainingFreeSpin > 0
        BY <2>1 DEF FreeSpinOf, IsFreeSpin
      <3>3. \/ pc' = [pc EXCEPT ![s] = "error"] /\ spin' = spin
            \/ /\ pc' = [pc EXCEPT ![s] = "freeSave"]
               /\ spin' = [spin EXCEPT ![s] = FreeSpinOf(mem[s])]
        BY <1>3, <2>1 DEF PreSaveAndChoose, Goto
      <3>4. TypeOK'
        BY <1>3, <3>1, <3>3 DEF PreSaveAndChoose, TypeOK, wallet, reward, logs
      <3> QED
        BY <1>3, <3>2, <3>3, <3>4
        DEF PreSaveAndChoose, TypeOK, KindMatches, FreeSpinLeft, Free, Normal
    <2>2. CASE ~(IsFreeSpin(mem[s]) /\ ~NoMoreFreeSpins(mem[s]))
      <3>1. /\ [spin[s] EXCEPT !.type = "normal"] \in Spin
            /\ [spin[s] EXCEPT !.type = "free"] \in Spin
        BY DEF TypeOK, Spin
      <3>2. spin' \in [Session -> Spin]
        BY <1>3, <2>2, <3>1 DEF PreSaveAndChoose, TypeOK
      <3>3. \A t \in Session \ {s} : spin'[t] = spin[t] /\ pc'[t] = pc[t]
        BY <1>3 DEF PreSaveAndChoose, Goto, TypeOK
      <3>4. \/ pc'[s] = "error"
            \/ pc'[s] = "trace" /\ spin'[s].type = "normal"
            \/ pc'[s] = "fail"
        BY <1>3, <2>2 DEF PreSaveAndChoose, Goto, TypeOK, Spin
      <3>5. TypeOK'
        BY <1>3, <3>2 DEF PreSaveAndChoose, Goto, TypeOK, wallet, reward, logs
      <3> QED
        BY <1>3, <3>3, <3>4, <3>5
        DEF PreSaveAndChoose, KindMatches, FreeSpinLeft, Free, Normal
    <2> QED
      BY <2>1, <2>2
  <1>4. ASSUME NEW s \in Session, SaveSpinState(s) PROVE TypeInv'
    BY <1>4 DEF SaveSpinState, Goto, TypeOK, KindMatches, FreeSpinLeft, Free,
        Normal, wallet, reward, logs
  <1>5. ASSUME NEW s \in Session, PlaceBets(s) PROVE TypeInv'
    BY <1>5 DEF PlaceBets, Goto, TypeOK, KindMatches, FreeSpinLeft, Free,
        Normal, redis, reward, logs
  <1>6. ASSUME NEW s \in Session, PlayNormalSpin(s) PROVE TypeInv'
    <2>1. \A result \in NormalResults : [spin[s] EXCEPT !.result = result] \in Spin
      BY DEF TypeOK, Spin
    <2>2. /\ spin' \in [Session -> Spin]
          /\ \A t \in Session : spin'[t].type = spin[t].type
      BY <1>6, <2>1 DEF PlayNormalSpin, TypeOK, Spin
    <2>3. pc' \in {[pc EXCEPT ![s] = "tracePost"], [pc EXCEPT ![s] = "refund"]}
      BY <1>6 DEF PlayNormalSpin, Goto
    <2>4. TypeOK'
      BY <1>6, <2>2, <2>3
      DEF PlayNormalSpin, TypeOK, SpinStatus, redis, wallet, reward, logs
    <2> QED
      BY <1>6, <2>2, <2>3, <2>4
      DEF PlayNormalSpin, TypeOK, KindMatches, FreeSpinLeft, Free, Normal
  <1>7. ASSUME NEW s \in Session, Refund(s) PROVE TypeInv'
    BY <1>7 DEF Refund, Goto, TypeOK, KindMatches, FreeSpinLeft, Free, Normal,
        SpinStatus, redis, reward, logs
  <1>8. ASSUME NEW s \in Session, SaveSpinOutcome(s) PROVE TypeInv'
    BY <1>8 DEF SaveSpinOutcome, Goto, TypeOK, KindMatches, FreeSpinLeft,
        Free, Normal, wallet, reward, logs
  <1>9. ASSUME NEW s \in Session, ContributeToJackpot(s) PROVE TypeInv'
    BY <1>9
    DEF ContributeToJackpot, AfterClaims, Goto, TypeOK, KindMatches,
        FreeSpinLeft, Free, Normal, redis, wallet, logs
  <1>10. ASSUME NEW s \in Session, FreeSpinSave(s) PROVE TypeInv'
    <2> DEFINE retriggered == [mem[s] EXCEPT !.remainingFreeSpin =
                                   @ + spin[s].result.resultFreeSpin]
    <2>1. retriggered \in PlayerState
      BY FreeSpinSaveType
    <2>2. retriggered.remainingFreeSpin > 0
      BY <1>10 DEF FreeSpinSave, FreeSpinLeft, KindMatches, TypeOK,
                   PlayerState, Spin, NormalResult
    <2>3. /\ mem' = mem \/ mem' = [mem EXCEPT ![s] = retriggered]
          /\ db' \in {db, mem[s]}
      BY <1>10 DEF FreeSpinSave, TypeOK
    <2>4. /\ pc' = [pc EXCEPT ![s] = pc'[s]]
          /\ pc'[s] \in {"fail", "claim", "place", "settle"}
          /\ pc'[s] # "fail" => mem' = [mem EXCEPT ![s] = retriggered]
      BY <1>10, AfterClaimsLabel DEF FreeSpinSave, Goto, TypeOK
    <2> HIDE DEF retriggered
    <2>5. TypeOK'
      BY <1>10, <2>1, <2>3, <2>4
      DEF FreeSpinSave, TypeOK, SpinStatus, wallet, reward, logs
    <2>6. KindMatches' /\ FreeSpinLeft'
      BY <1>10, <2>2, <2>3, <2>4
      DEF FreeSpinSave, TypeOK, KindMatches, FreeSpinLeft, Normal, Free
    <2> QED
      BY <2>5, <2>6
  <1>11. ASSUME NEW s \in Session, Claim(s) PROVE TypeInv'
    BY <1>11
    DEF Claim, AfterClaims, Goto, TypeOK, KindMatches, FreeSpinLeft, Free,
        Normal, redis, wallet, logs
  <1>12. ASSUME NEW s \in Session, GetWinFails(s) \/ ModulePanics(s) PROVE TypeInv'
    BY <1>12 DEF GetWinFails, ModulePanics, Goto, TypeOK, KindMatches,
        FreeSpinLeft, Free, Normal,
        redis, wallet, reward, logs
  <1>13. ASSUME NEW s \in Session, SettleBets(s) PROVE TypeInv'
    <2> DEFINE next == IF Normal(s) THEN AfterNormalSpin(s, mem[s])
                                    ELSE AfterFreeSpin(mem[s])
    <2>1. next \in PlayerState
      <3>1. Free(s) => mem[s].remainingFreeSpin > 0
        BY <1>13 DEF SettleBets, FreeSpinLeft
      <3> QED
        BY <1>13, <3>1, AfterNormalSpinType, AfterFreeSpinType
        DEF SettleBets, KindMatches, TypeOK, Normal, Free
    <2>2. mem' \in {mem, [mem EXCEPT ![s] = next]}
      BY <1>13 DEF SettleBets, Normal, TypeOK
    <2>3. pc' \in {[pc EXCEPT ![s] = "log"], [pc EXCEPT ![s] = "fail"]}
      BY <1>13 DEF SettleBets, Goto
    <2>4. /\ status' \in [Session -> SpinStatus]
          /\ settled' \in [Session -> {"no", "win", "refund"}]
      BY <1>13 DEF SettleBets, TypeOK, SpinStatus
    <2> HIDE DEF next
    <2>5. TypeOK'
      BY <1>13, <2>1, <2>2, <2>3, <2>4 DEF SettleBets, TypeOK, redis, reward,
          logs
    <2>6. KindMatches' /\ FreeSpinLeft'
      BY <1>13, <2>2, <2>3
      DEF SettleBets, TypeOK, KindMatches, FreeSpinLeft, Normal, Free
    <2> QED
      BY <2>5, <2>6
  <1>14. ASSUME NEW s \in Session, LogSpin(s) PROVE TypeInv'
    BY <1>14 DEF LogSpin, Goto, TypeOK, KindMatches, FreeSpinLeft, Free,
        Normal, redis, wallet, reward
  <1>15. ASSUME NEW s \in Session, SavePlayerState(s) PROVE TypeInv'
    BY <1>15 DEF SavePlayerState, LoggedSession, Goto, TypeOK, KindMatches,
        FreeSpinLeft, Free, Normal, wallet, reward
  <1>16. ASSUME NEW s \in Session, FailSpin(s) PROVE TypeInv'
    BY <1>16 DEF FailSpin, Goto, TypeOK, KindMatches, FreeSpinLeft, Free,
        Normal, redis, wallet, reward, logs
  <1>17. ASSUME NEW s \in Session, ClearSpinState(s) PROVE TypeInv'
    BY <1>17 DEF ClearSpinState, TypeOK, KindMatches, FreeSpinLeft, Free,
        Normal, handler, wallet, reward
  <1>18. CASE Crash
    BY <1>18 DEF Crash, Active, TypeOK, KindMatches, FreeSpinLeft, Free,
        Normal, redis, wallet, reward
  <1>19. CASE UNCHANGED vars
    BY <1>19 DEF vars, TypeOK, KindMatches, FreeSpinLeft, Free, Normal,
        handler, redis, wallet, reward, logs
  <1> QED
    BY <1>1, <1>2, <1>3, <1>4, <1>5, <1>6, <1>7, <1>8, <1>9, <1>10, <1>11,
       <1>12, <1>13, <1>14, <1>15, <1>16, <1>17, <1>18, <1>19
    DEF Next, HandlerStep

\* The service keeps its types: no counter of free spins goes below zero.
THEOREM TypeCorrect == Spec => []TypeOK
  <1>1. Init => TypeInv
    BY TypeInit
  <1>2. TypeInv /\ [Next]_vars => TypeInv'
    BY TypeStep
  <1>3. TypeInv => TypeOK
    BY DEF TypeInv
  <1> QED
    BY <1>1, <1>2, <1>3, PTL DEF Spec

-----------------------------------------------------------------------------
(***************************************************************************)
(* The money of a spin.  The promises about bets, records and payouts are  *)
(* not inductive: they hold because of what each point of the handler has  *)
(* already done, which MoneyAt states point by point.                      *)
(***************************************************************************)

\* Nothing outside the handler has moved yet.
Untouched(s) == /\ s \notin placed /\ settled[s] = "no"
                /\ claimed[s] = 0 /\ s \notin contributed

MoneyAt(s) ==
    /\ pc[s] \in {"idle", "load", "presave", "trace", "freeSave"}
          => Untouched(s) /\ trace[s] = "absent"
    /\ pc[s] \in {"idle", "load", "presave", "trace"} => status[s] = "new"
    /\ pc[s] = "place" /\ Normal(s) => Untouched(s) /\ trace[s] = "new"
    /\ pc[s] \in {"play", "refund"}
          => /\ s \in placed /\ settled[s] = "no" /\ trace[s] = "new"
             /\ claimed[s] = 0 /\ s \notin contributed
    /\ pc[s] = "tracePost"
          => /\ s \in placed /\ trace[s] = "new"
             /\ claimed[s] = 0 /\ s \notin contributed
             /\ \/ status[s] = "paying" /\ settled[s] = "no"
                \/ status[s] = "refunded" /\ settled[s] = "refund"
                \/ status[s] = "spinError" /\ settled[s] # "win"
    /\ pc[s] = "contribute" => claimed[s] = 0
    /\ pc[s] \in {"contribute", "claim", "settle"} /\ Normal(s)
          => s \in placed /\ settled[s] = "no" /\ trace[s] = "paying"
    /\ pc[s] \in {"claim", "place", "settle"} /\ Free(s)
          => settled[s] = "no" /\ (pc[s] = "settle" => s \in placed)
    /\ pc[s] = "claim" => claimed[s] < spin[s].result.jackpots
    /\ pc[s] \in {"settle", "log", "save", "ok"} \/ (pc[s] = "place" /\ Free(s))
          => claimed[s] = spin[s].result.jackpots
    /\ pc[s] \in {"log", "save", "ok"} => s \in placed /\ settled[s] = "win"
    /\ pc[s] \in {"log", "save"} /\ Normal(s) => trace[s] = "paying"

\* What stays true of a spin after it left the points above.
MoneyAfter(s) ==
    /\ Free(s) => trace[s] = "absent"
    /\ Free(s) => settled[s] # "refund"
    /\ settled[s] = "refund" => claimed[s] = 0 /\ s \notin contributed
    /\ pc[s] = "fail" /\ Normal(s) /\ s \in placed => trace[s] # "absent"
    /\ pc[s] \in {"error", "dead"} /\ Normal(s) /\ s \in placed
          => trace[s] # "absent" \/ s \in audited \/ ~AuditEnabled
    /\ Normal(s) /\ claimed[s] > 0 => s \in placed
    /\ trace[s] # "completed"
    /\ s \in clearing =>
          \/ pc[s] = "ok"
          \/ pc[s] = "error" /\ (s \in audited \/ ~AuditEnabled)

\* Free spins saved, or about to be, were won by a spin that has been paid.
AwardsArePaid ==
    /\ db.trigger \in Session => PaidWin(db.trigger)
    /\ \A s \in Session : mem[s].trigger \in Session => PaidWin(mem[s].trigger)

MoneyInv ==
    /\ \A s \in Session : MoneyAt(s) /\ MoneyAfter(s)
    /\ TraceIsAccurate
    /\ AwardsArePaid

\* What MoneyInv says of one spin.
MoneyOf(s) ==
    /\ MoneyAt(s) /\ MoneyAfter(s)
    /\ trace[s] = "new" => claimed[s] = 0 /\ ~PaidWin(s) /\ s \notin contributed
    /\ trace[s] = "refunded" => settled[s] = "refund"
    /\ trace[s] = "paying" => settled[s] # "refund"
    /\ trace[s] = "spinError" => claimed[s] = 0 /\ ~PaidWin(s)

\* The invariant is that of each spin by itself, and AwardsArePaid.
LEMMA MoneyInvSplit ==
    MoneyInv <=> (\A s \in Session : MoneyOf(s)) /\ AwardsArePaid
  BY DEF MoneyInv, MoneyOf, TraceIsAccurate

\* A step that leaves all that MoneyOf reads of a spin.
SameFor(t) ==
    /\ pc'[t] = pc[t] /\ spin'[t] = spin[t] /\ status'[t] = status[t]
    /\ trace'[t] = trace[t]
    /\ t \in placed' <=> t \in placed
    /\ settled'[t] = settled[t]
    /\ claimed'[t] = claimed[t]
    /\ t \in contributed' <=> t \in contributed
    /\ t \in audited' <=> t \in audited
    /\ t \in clearing' <=> t \in clearing

\* What holds of a spin's money depends on that spin's own state only.
LEMMA MoneyFrame ==
    ASSUME NEW t \in Session, SameFor(t), MoneyOf(t)
    PROVE  MoneyOf(t)'
  BY DEF SameFor, MoneyOf, MoneyAt, MoneyAfter, Untouched, Normal, Free, PaidWin

\* Every step of a spin but Crash moves the money of that spin alone.
LEMMA OneSpinMoves ==
    ASSUME TypeOK, NEW s \in Session, NEW t \in Session \ {s},
           Begin(s) \/ HandlerStep(s) \/ ModulePanics(s) \/ ClearSpinState(s)
    PROVE  SameFor(t)
  <1> USE DEF SameFor, Goto, TypeOK, handler, redis, wallet, reward, logs
  <1>1. CASE Begin(s)
    BY <1>1 DEF Begin
  <1>2. CASE GetPlayerState(s)
    BY <1>2 DEF GetPlayerState
  <1>3. CASE PreSaveAndChoose(s)
    BY <1>3 DEF PreSaveAndChoose
  <1>4. CASE SaveSpinState(s)
    BY <1>4 DEF SaveSpinState
  <1>5. CASE PlaceBets(s)
    BY <1>5 DEF PlaceBets
  <1>6. CASE PlayNormalSpin(s)
    BY <1>6 DEF PlayNormalSpin
  <1>7. CASE Refund(s)
    BY <1>7 DEF Refund
  <1>8. CASE SaveSpinOutcome(s)
    BY <1>8 DEF SaveSpinOutcome
  <1>9. CASE ContributeToJackpot(s)
    BY <1>9 DEF ContributeToJackpot
  <1>10. CASE FreeSpinSave(s)
    BY <1>10 DEF FreeSpinSave
  <1>11. CASE Claim(s)
    BY <1>11 DEF Claim
  <1>12. CASE GetWinFails(s)
    BY <1>12 DEF GetWinFails
  <1>13. CASE ModulePanics(s)
    BY <1>13 DEF ModulePanics
  <1>14. CASE SettleBets(s)
    BY <1>14 DEF SettleBets
  <1>15. CASE LogSpin(s)
    BY <1>15 DEF LogSpin
  <1>16. CASE SavePlayerState(s)
    BY <1>16 DEF SavePlayerState, LoggedSession
  <1>17. CASE FailSpin(s)
    BY <1>17 DEF FailSpin
  <1>18. CASE ClearSpinState(s)
    BY <1>18 DEF ClearSpinState
  <1> QED
    BY <1>1, <1>2, <1>3, <1>4, <1>5, <1>6, <1>7, <1>8, <1>9,
       <1>10, <1>11, <1>12, <1>13, <1>14, <1>15, <1>16, <1>17, <1>18
    DEF HandlerStep

\* Each step keeps what MoneyInv says of the spin it belongs to.
LEMMA MoneyOfStep ==
    ASSUME TypeInv, NEW s \in Session, MoneyOf(s),
           Begin(s) \/ HandlerStep(s) \/ ModulePanics(s) \/ ClearSpinState(s)
    PROVE  MoneyOf(s)'
  <1> USE DEF TypeInv, TypeOK, KindMatches, MoneyOf, MoneyAt, MoneyAfter,
              Untouched, Normal, Free, PaidWin, Goto, handler, redis, wallet, reward, logs
  <1>1. CASE Begin(s)
    BY <1>1 DEF Begin
  <1>2. CASE GetPlayerState(s)
    BY <1>2 DEF GetPlayerState
  <1>3. CASE PreSaveAndChoose(s)
    BY <1>3 DEF PreSaveAndChoose, FreeSpinOf, Spin
  <1>4. CASE SaveSpinState(s)
    BY <1>4 DEF SaveSpinState, TakesEffect, Reply
  <1>5. CASE PlaceBets(s)
    BY <1>5 DEF PlaceBets, TakesEffect, Reply
  <1>6. CASE PlayNormalSpin(s)
    BY <1>6 DEF PlayNormalSpin, Spin
  <1>7. CASE Refund(s)
    BY <1>7 DEF Refund, TakesEffect, Reply
  <1>8. CASE SaveSpinOutcome(s)
    BY <1>8 DEF SaveSpinOutcome, TakesEffect, Reply
  <1>9. CASE ContributeToJackpot(s)
    BY <1>9 DEF ContributeToJackpot, AfterClaims, Spin, NormalResult
  <1>10. CASE FreeSpinSave(s)
    BY <1>10 DEF FreeSpinSave, AfterClaims, TakesEffect, Reply, Spin, NormalResult
  <1>11. CASE Claim(s)
    BY <1>11 DEF Claim, AfterClaims, TakesEffect, Reply, Spin, NormalResult
  <1>12. CASE GetWinFails(s)
    BY <1>12 DEF GetWinFails
  <1>13. CASE ModulePanics(s)
    BY <1>13 DEF ModulePanics
  <1>14. CASE SettleBets(s)
    BY <1>14 DEF SettleBets, TakesEffect, Reply
  <1>15. CASE LogSpin(s)
    BY <1>15 DEF LogSpin
  <1>16. CASE SavePlayerState(s)
    BY <1>16 DEF SavePlayerState, LoggedSession, TakesEffect, Reply
  <1>17. CASE FailSpin(s)
    BY <1>17 DEF FailSpin
  <1>18. CASE ClearSpinState(s)
    BY <1>18 DEF ClearSpinState
  <1> QED
    BY <1>1, <1>2, <1>3, <1>4, <1>5, <1>6, <1>7, <1>8, <1>9,
       <1>10, <1>11, <1>12, <1>13, <1>14, <1>15, <1>16, <1>17, <1>18
    DEF HandlerStep

\* The state Redis holds, and every handler's copy of it, has free spins only
\* of a spin that was paid.
LEMMA AwardsStep ==
    ASSUME TypeInv, \A s \in Session : MoneyOf(s), AwardsArePaid, [Next]_vars
    PROVE  AwardsArePaid'
  <1>1. \A s \in Session : PaidWin(s) => PaidWin(s)'
    <2> SUFFICES ASSUME NEW s \in Session, PaidWin(s) PROVE PaidWin(s)'
      OBVIOUS
    <2>1. ASSUME NEW t \in Session, Refund(t) PROVE PaidWin(s)'
      BY <2>1 DEF Refund, MoneyOf, MoneyAt, PaidWin, TypeInv, TypeOK
    <2>2. ASSUME NEW t \in Session, SettleBets(t) PROVE PaidWin(s)'
      BY <2>2 DEF SettleBets, PaidWin, TypeInv, TypeOK
    <2>3. CASE UNCHANGED settled
      BY <2>3 DEF PaidWin
    <2>4. \/ \E t \in Session : Refund(t) \/ SettleBets(t)
          \/ UNCHANGED settled
      BY DEF Next, vars, HandlerStep, Begin, GetPlayerState, PreSaveAndChoose,
             SaveSpinState, PlaceBets, PlayNormalSpin, SaveSpinOutcome,
             ContributeToJackpot, FreeSpinSave, Claim, GetWinFails, LogSpin,
             SavePlayerState, FailSpin, ModulePanics, ClearSpinState, Crash,
             wallet
    <2> QED
      BY <2>1, <2>2, <2>3, <2>4
  <1>2. /\ db'.trigger \in {db.trigger} \cup {mem[s].trigger : s \in Session}
        /\ \A s \in Session :
              mem'[s].trigger \in {mem[s].trigger, db.trigger, NoSession}
                                  \cup (IF PaidWin(s)' THEN {s} ELSE {})
    <2> USE DEF TypeInv, TypeOK, handler, redis
    <2>1. ASSUME NEW s \in Session, GetPlayerState(s) PROVE <1>2!:
      BY <2>1 DEF GetPlayerState, NewPlayerState
    <2>2. ASSUME NEW s \in Session, PreSaveAndChoose(s) PROVE <1>2!:
      BY <2>2 DEF PreSaveAndChoose
    <2>3. ASSUME NEW s \in Session, FreeSpinSave(s) PROVE <1>2!:
      <3> DEFINE more == [mem[s] EXCEPT !.remainingFreeSpin =
                              @ + spin[s].result.resultFreeSpin]
      <3>1. more.trigger = mem[s].trigger
        BY DEF PlayerState
      <3>2. /\ mem' \in {mem, [mem EXCEPT ![s] = more]}
            /\ db' \in {db, mem[s]}
        BY <2>3 DEF FreeSpinSave
      <3> HIDE DEF more
      <3> QED
        BY <3>1, <3>2
    <2>4. ASSUME NEW s \in Session, SettleBets(s) PROVE <1>2!:
      <3> DEFINE after == IF Normal(s) THEN AfterNormalSpin(s, mem[s])
                                       ELSE AfterFreeSpin(mem[s])
      <3>1. after.trigger \in {mem[s].trigger, NoSession, s}
        BY DEF AfterNormalSpin, FreeSpinsWon, Reset, AfterFreeSpin, PlayerState
      <3>2. /\ \/ mem' = mem
               \/ mem' = [mem EXCEPT ![s] = after] /\ PaidWin(s)'
            /\ db' = db
        BY <2>4 DEF SettleBets, PaidWin, TakesEffect, Reply, Normal
      <3> HIDE DEF after
      <3> QED
        BY <3>1, <3>2
    <2>5. ASSUME NEW s \in Session, SavePlayerState(s) PROVE <1>2!:
      BY <2>5 DEF SavePlayerState
    <2>6. CASE UNCHANGED <<db, mem>>
      BY <2>6
    <2>7. \/ \E s \in Session : \/ GetPlayerState(s) \/ PreSaveAndChoose(s)
                                \/ FreeSpinSave(s) \/ SettleBets(s)
                                \/ SavePlayerState(s)
          \/ UNCHANGED <<db, mem>>
      BY DEF Next, vars, HandlerStep, Begin, SaveSpinState, PlaceBets,
             PlayNormalSpin, Refund, SaveSpinOutcome, ContributeToJackpot,
             Claim, GetWinFails, LogSpin, FailSpin, ModulePanics,
             ClearSpinState, Crash
    <2> QED
      BY <2>1, <2>2, <2>3, <2>4, <2>5, <2>6, <2>7
  <1> QED
    BY <1>1, <1>2 DEF AwardsArePaid

\* No money has moved when the service starts.
LEMMA MoneyInit == Init => MoneyInv
  BY DEF Init, MoneyInv, MoneyAt, MoneyAfter, Untouched, TraceIsAccurate,
         AwardsArePaid, NewPlayerState, NoSpin, Normal, Free

\* Every step, of any handler or of the process, keeps what MoneyAt says of
\* each spin and pays for the free spins it grants.
LEMMA MoneyStep ==
    ASSUME TypeInv, MoneyInv, [Next]_vars
    PROVE  MoneyInv'
  <1>1. (\A s \in Session : MoneyOf(s)) /\ AwardsArePaid
    BY MoneyInvSplit
  <1>2. AwardsArePaid'
    BY <1>1, AwardsStep
  <1>3. ASSUME NEW t \in Session PROVE MoneyOf(t)'
    <2>1. ASSUME NEW s \in Session,
                 Begin(s) \/ HandlerStep(s) \/ ModulePanics(s) \/ ClearSpinState(s)
          PROVE  MoneyOf(t)'
      BY <1>1, <2>1, OneSpinMoves, MoneyFrame, MoneyOfStep DEF TypeInv
    <2>2. CASE Crash
      BY <1>1, <2>2
      DEF Crash, Active, MoneyOf, MoneyAt, MoneyAfter, Untouched, Normal, Free,
          PaidWin, TypeInv, TypeOK, KindMatches, redis, wallet, reward
    <2>3. CASE UNCHANGED vars
      <3>1. SameFor(t)
        BY <2>3 DEF vars, SameFor, handler, redis, wallet, reward, logs
      <3> QED
        BY <1>1, <3>1, MoneyFrame
    <2> QED
      BY <2>1, <2>2, <2>3 DEF Next
  <1>4. ((\A s \in Session : MoneyOf(s)) /\ AwardsArePaid)' <=> MoneyInv'
    BY DEF MoneyInv, MoneyOf, TraceIsAccurate
  <1> QED
    BY <1>2, <1>3, <1>4

\* At every step of every handler the wallet, the reward service, the record
\* and the log have come as far as that point of ExecuteSpinV2 requires.
THEOREM MoneyCorrect == Spec => [](TypeInv /\ MoneyInv)
  <1>1. Init => TypeInv /\ MoneyInv
    BY TypeInit, MoneyInit
  <1>2. TypeInv /\ MoneyInv /\ [Next]_vars => (TypeInv /\ MoneyInv)'
    BY TypeStep, MoneyStep
  <1> QED
    BY <1>1, <1>2, PTL DEF Spec

\* Whatever fails, a bet that was taken for a spin not answered with success
\* has a spin_state record or an error event.
THEOREM UnfinishedTraced == Spec => []UnfinishedSpinIsTraced
  <1>1. TypeInv /\ MoneyInv => UnfinishedSpinIsTraced
    BY DEF TypeInv, TypeOK, MoneyInv, MoneyAt, MoneyAfter, Untouched, KindMatches,
           UnfinishedSpinIsTraced, Normal, Free
  <1> QED
    BY <1>1, MoneyCorrect, PTL

\* A spin_state record never claims more, or less, than has happened.
THEOREM TraceAccurate == Spec => []TraceIsAccurate
  <1>1. TypeInv /\ MoneyInv => TraceIsAccurate
    BY DEF MoneyInv
  <1> QED
    BY <1>1, MoneyCorrect, PTL

\* A bet given back leaves no jackpot, contribution or free spins behind.
THEOREM RefundClean == Spec => []RefundLeavesNothing
  <1>1. TypeInv /\ MoneyInv => RefundLeavesNothing
    BY DEF MoneyInv, MoneyAfter, AwardsArePaid, RefundLeavesNothing, PaidWin
  <1> QED
    BY <1>1, MoneyCorrect, PTL

\* A spin answered with success was paid with all its jackpots.
THEOREM SuccessPaid == Spec => []SuccessIsPaid
  <1>1. TypeInv /\ MoneyInv => SuccessIsPaid
    BY DEF MoneyInv, MoneyAt, SuccessIsPaid, PaidWin
  <1> QED
    BY <1>1, MoneyCorrect, PTL

\* Jackpots granted to a normal spin that was not paid can be found again: with
\* a record that says it was being paid, or an error event.
THEOREM ClaimsTraced == Spec => []ClaimsAreTraced
  <1>1. TypeInv /\ MoneyInv => ClaimsAreTraced
    <2> SUFFICES ASSUME TypeInv, MoneyInv, AuditEnabled, NEW s \in Session,
                        Normal(s), claimed[s] > 0, ~PaidWin(s)
                 PROVE  trace[s] = "paying" \/ s \in audited
      BY DEF ClaimsAreTraced
    <2>1. MoneyAt(s) /\ MoneyAfter(s) /\ TraceIsAccurate
      BY DEF MoneyInv
    <2>2. s \in placed /\ claimed[s] # 0
      BY <2>1 DEF MoneyAfter, TypeInv, TypeOK
    <2>3. pc[s] \in {"contribute", "claim", "settle", "fail", "error", "dead"}
      BY <2>1, <2>2 DEF MoneyAt, Untouched, PaidWin, TypeInv, TypeOK, Running, Ended
    <2>4. trace[s] # "absent" \/ s \in audited
      BY <2>1, <2>2, <2>3 DEF MoneyAt, MoneyAfter
    <2>5. trace[s] \in {"absent", "paying"}
      BY <2>1, <2>2 DEF TraceIsAccurate, MoneyAfter, TypeInv, TypeOK, SpinStatus
    <2> QED BY <2>4, <2>5
  <1> QED
    BY <1>1, MoneyCorrect, PTL

-----------------------------------------------------------------------------
(***************************************************************************)
(* The service implements the ledger.  A step of one spin moves that       *)
(* spin's entry by one step of the ledger, or not at all.                  *)
(***************************************************************************)

Noted(s) == trace[s] # "absent"

\* The ways the entry of a spin may move.
EntryMoves(s) ==
    LET money == LedgerMoney(s)
        sameMoney == LedgerMoney(s)' = money
        sameNote == Noted(s)' <=> Noted(s)
        sameReport == s \in audited' <=> s \in audited
    IN  \/ sameMoney /\ sameNote /\ sameReport
        \/ money = "idle" /\ Noted(s)' /\ sameMoney /\ sameReport
        \/ Noted(s) /\ money = "idle" /\ LedgerMoney(s)' = "open"
              /\ sameNote /\ sameReport
        \/ money = "open" /\ LedgerMoney(s)' \in {"paid", "refunded"}
              /\ sameNote /\ sameReport
        \/ ~Noted(s) /\ money = "idle" /\ LedgerMoney(s)' = "granted"
              /\ sameNote /\ sameReport
        \/ s \in audited' /\ sameMoney /\ sameNote
        \/ (money = "paid" \/ s \in audited) /\ ~Noted(s)'
              /\ sameMoney /\ sameReport

\* If one spin's entry moves as the ledger allows and no other spin's state
\* changes, the step is a step of the ledger or leaves it unchanged.
LEMMA EntryMovesLift ==
    ASSUME TypeOK, TypeOK', NEW s \in Session, EntryMoves(s),
           \A t \in Session \ {s} : SameFor(t)
    PROVE  [Ledger!LedgerNext]_(Ledger!ledgerVars)
  <1> DEFINE money == [r \in Session |-> LedgerMoney(r)]
             noted == {r \in Session : Noted(r)}
  <1>1. \A t \in Session \ {s} :
           /\ LedgerMoney(t)' = LedgerMoney(t)
           /\ Noted(t)' <=> Noted(t)
           /\ t \in audited' <=> t \in audited
    BY DEF SameFor, LedgerMoney, Free, PaidWin, Noted
  <1>2. /\ money' = [money EXCEPT ![s] = LedgerMoney(s)']
        /\ noted' = IF Noted(s)' THEN noted \cup {s} ELSE noted \ {s}
        /\ audited' = IF s \in audited' THEN audited \cup {s} ELSE audited \ {s}
    <2>1. money' = [money EXCEPT ![s] = LedgerMoney(s)']
      <3>1. \A r \in Session : money'[r] = [money EXCEPT ![s] = LedgerMoney(s)'][r]
        BY <1>1
      <3> QED
        BY <3>1
    <2>2. noted' = IF Noted(s)' THEN noted \cup {s} ELSE noted \ {s}
      BY <1>1
    <2>3. audited' = IF s \in audited' THEN audited \cup {s} ELSE audited \ {s}
      BY <1>1 DEF TypeOK
    <2> QED
      BY <2>1, <2>2, <2>3
  <1>3. money[s] = LedgerMoney(s) /\ (s \in noted <=> Noted(s))
    OBVIOUS
  <1>4. money = [money EXCEPT ![s] = money[s]]
    OBVIOUS
  <1>5. /\ money = [r \in Session |-> LedgerMoney(r)]
        /\ noted = {r \in Session : trace[r] # "absent"}
        /\ money' = [r \in Session |-> LedgerMoney(r)']
        /\ noted' = {r \in Session : trace'[r] # "absent"}
    BY DEF Noted
  <1> HIDE DEF money, noted
  <1> USE DEF Ledger!LedgerNext, Ledger!ledgerVars, Ledger!Move
  <1>6. CASE LedgerMoney(s)' = LedgerMoney(s) /\ (Noted(s)' <=> Noted(s))
    <2>1. money' = money /\ noted' = noted
      BY <1>2, <1>3, <1>4, <1>6
    <2>2. CASE s \in audited'
      BY <1>2, <1>5, <2>1, <2>2 DEF Ledger!Report
    <2>3. CASE s \notin audited'
      <3>1. audited' = audited
        BY <1>2, <2>3, <1>6 DEF EntryMoves
      <3> QED
        BY <1>5, <2>1, <3>1
    <2> QED
      BY <2>2, <2>3
  <1>7. CASE ~(LedgerMoney(s)' = LedgerMoney(s) /\ (Noted(s)' <=> Noted(s)))
    <2>1. audited' = audited
      BY <1>2, <1>7 DEF EntryMoves
    <2>2. CASE LedgerMoney(s)' = LedgerMoney(s) /\ Noted(s)'
      BY <1>2, <1>3, <1>4, <1>5, <1>7, <2>1, <2>2 DEF EntryMoves, Ledger!Note
    <2>3. CASE LedgerMoney(s)' = LedgerMoney(s) /\ ~Noted(s)'
      BY <1>2, <1>3, <1>4, <1>5, <1>7, <2>1, <2>3 DEF EntryMoves, Ledger!Forget
    <2>4. CASE LedgerMoney(s)' # LedgerMoney(s)
      <3>1. noted' = noted
        BY <1>2, <1>3, <2>4 DEF EntryMoves
      <3> QED
        BY <1>2, <1>3, <1>5, <2>1, <2>4, <3>1
        DEF EntryMoves, Ledger!TakeBet, Ledger!Pay, Ledger!GiveBack, Ledger!Grant
    <2> QED
      BY <2>2, <2>3, <2>4
  <1> QED
    BY <1>6, <1>7

\* The entry of the spin a step belongs to.
LEMMA SpinMovesEntry ==
    ASSUME TypeInv, NEW s \in Session, MoneyOf(s), AuditEnabled,
           Begin(s) \/ HandlerStep(s) \/ ModulePanics(s) \/ ClearSpinState(s)
    PROVE  EntryMoves(s)
  <1> USE DEF TypeInv, TypeOK, KindMatches, MoneyOf, MoneyAt, MoneyAfter,
              Untouched, Normal, Free, PaidWin, Goto, handler, redis, wallet,
              reward, logs, EntryMoves, LedgerMoney, Noted
  <1>1. CASE Begin(s)
    BY <1>1 DEF Begin
  <1>2. CASE GetPlayerState(s)
    BY <1>2 DEF GetPlayerState
  <1>3. CASE PreSaveAndChoose(s)
    BY <1>3 DEF PreSaveAndChoose, FreeSpinOf, Spin
  <1>4. CASE SaveSpinState(s)
    BY <1>4 DEF SaveSpinState, TakesEffect, Reply
  <1>5. CASE PlaceBets(s)
    BY <1>5 DEF PlaceBets, TakesEffect, Reply
  <1>6. CASE PlayNormalSpin(s)
    BY <1>6 DEF PlayNormalSpin, Spin
  <1>7. CASE Refund(s)
    BY <1>7 DEF Refund, TakesEffect, Reply
  <1>8. CASE SaveSpinOutcome(s)
    BY <1>8 DEF SaveSpinOutcome, TakesEffect, Reply, SpinStatus
  <1>9. CASE ContributeToJackpot(s)
    BY <1>9 DEF ContributeToJackpot
  <1>10. CASE FreeSpinSave(s)
    BY <1>10 DEF FreeSpinSave
  <1>11. CASE Claim(s)
    BY <1>11 DEF Claim
  <1>12. CASE GetWinFails(s)
    BY <1>12 DEF GetWinFails
  <1>13. CASE ModulePanics(s)
    BY <1>13 DEF ModulePanics
  <1>14. CASE SettleBets(s)
    BY <1>14 DEF SettleBets, TakesEffect, Reply
  <1>15. CASE LogSpin(s)
    BY <1>15 DEF LogSpin
  <1>16. CASE SavePlayerState(s)
    BY <1>16 DEF SavePlayerState, LoggedSession
  <1>17. CASE FailSpin(s)
    BY <1>17 DEF FailSpin
  <1>18. CASE ClearSpinState(s)
    BY <1>18 DEF ClearSpinState
  <1> QED
    BY <1>1, <1>2, <1>3, <1>4, <1>5, <1>6, <1>7, <1>8, <1>9,
       <1>10, <1>11, <1>12, <1>13, <1>14, <1>15, <1>16, <1>17, <1>18
    DEF HandlerStep

\* So every step of the service is one, a crash included, which moves no money.
LEMMA LedgerStep ==
    ASSUME TypeInv, MoneyInv, AuditEnabled, [Next]_vars
    PROVE  [Ledger!LedgerNext]_(Ledger!ledgerVars)
  <1>1. TypeOK /\ TypeOK'
    BY TypeStep DEF TypeInv
  <1>2. ASSUME NEW s \in Session,
               Begin(s) \/ HandlerStep(s) \/ ModulePanics(s) \/ ClearSpinState(s)
        PROVE  [Ledger!LedgerNext]_(Ledger!ledgerVars)
    <2>1. EntryMoves(s)
      BY <1>2, SpinMovesEntry, MoneyInvSplit
    <2>2. \A t \in Session \ {s} : SameFor(t)
      BY <1>1, <1>2, OneSpinMoves
    <2> QED
      BY <1>1, <2>1, <2>2, EntryMovesLift
  <1>3. CASE Crash \/ UNCHANGED vars
    BY <1>3 DEF Crash, vars, handler, redis, wallet, reward, logs,
                Ledger!ledgerVars, LedgerMoney, Free, PaidWin
  <1> QED
    BY <1>2, <1>3 DEF Next

\* With the audit log wired, whatever fails, every behaviour of the service is
\* a behaviour of the ledger: bets are noted before they are taken, paid or
\* given back once, and no open bet is forgotten.
THEOREM Implements == AuditEnabled => (Spec => ImplementsLedger)
  <1> SUFFICES ASSUME AuditEnabled PROVE Spec => ImplementsLedger
    OBVIOUS
  <1>1. Init => Ledger!LedgerInit
    BY DEF Init, Ledger!LedgerInit, LedgerMoney, Free, NoSpin
  <1>2. TypeInv /\ MoneyInv /\ [Next]_vars
            => [Ledger!LedgerNext]_(Ledger!ledgerVars)
    BY LedgerStep
  <1> QED
    BY <1>1, <1>2, MoneyCorrect, PTL DEF Spec, ImplementsLedger, Ledger!LedgerSpec

-----------------------------------------------------------------------------
(***************************************************************************)
(* The order in which free spins are paid.  A player state, in Redis or in *)
(* the copy of any handler, counts as played only free spins that were     *)
(* paid.                                                                   *)
(***************************************************************************)

PlayedArePaid(ps) ==
    \A i \in 1..ps.playedFreeSpin :
        \E t \in Session : /\ Free(t) /\ PaidWin(t)
                           /\ spin[t].trigger = ps.trigger
                           /\ spin[t].index = i

\* What a handler plays is the next free spin of its copy.
PlaysNext ==
    \A s \in Session :
        Free(s) /\ pc[s] \in {"freeSave", "claim", "place", "settle"} =>
            /\ spin[s].trigger = mem[s].trigger
            /\ spin[s].index = mem[s].playedFreeSpin + 1

OrderInv ==
    /\ PlayedArePaid(db)
    /\ \A s \in Session : PlayedArePaid(mem[s])
    /\ PlaysNext
    /\ FreeSpinsPaidInOrder

\* A free spin once paid stays paid, and stays the spin it was.
LEMMA PaidStays ==
    ASSUME TypeInv, \A s \in Session : MoneyOf(s), [Next]_vars,
           NEW t \in Session, PaidWin(t)
    PROVE  PaidWin(t)' /\ spin'[t] = spin[t]
  <1> USE DEF TypeInv, TypeOK, PaidWin, MoneyOf, MoneyAt, Untouched
  <1>1. ASSUME NEW s \in Session, PreSaveAndChoose(s)
        PROVE  PaidWin(t)' /\ spin'[t] = spin[t]
    BY <1>1 DEF PreSaveAndChoose, wallet
  <1>2. ASSUME NEW s \in Session, PlayNormalSpin(s)
        PROVE  PaidWin(t)' /\ spin'[t] = spin[t]
    BY <1>2 DEF PlayNormalSpin, wallet
  <1>3. ASSUME NEW s \in Session, Refund(s) \/ SettleBets(s)
        PROVE  PaidWin(t)' /\ spin'[t] = spin[t]
    BY <1>3 DEF Refund, SettleBets
  <1>4. CASE UNCHANGED <<spin, settled>>
    BY <1>4
  <1>5. \/ \E s \in Session : \/ PreSaveAndChoose(s) \/ PlayNormalSpin(s)
                              \/ Refund(s) \/ SettleBets(s)
        \/ UNCHANGED <<spin, settled>>
    BY DEF Next, vars, HandlerStep, Begin, GetPlayerState, SaveSpinState,
           PlaceBets, SaveSpinOutcome, ContributeToJackpot, FreeSpinSave, Claim,
           GetWinFails, LogSpin, SavePlayerState, FailSpin, ModulePanics,
           ClearSpinState, Crash, handler, wallet
  <1> QED
    BY <1>1, <1>2, <1>3, <1>4, <1>5

\* Only SettleBets pays.
LEMMA WhoPays ==
    ASSUME TypeInv, [Next]_vars, NEW s \in Session, ~PaidWin(s), PaidWin(s)'
    PROVE  SettleBets(s)
  <1> USE DEF TypeInv, TypeOK, PaidWin
  <1>1. ASSUME NEW t \in Session, Refund(t) PROVE FALSE
    BY <1>1 DEF Refund
  <1>2. ASSUME NEW t \in Session, SettleBets(t), t # s PROVE FALSE
    BY <1>2 DEF SettleBets
  <1>3. (\E t \in Session : Refund(t) \/ SettleBets(t)) \/ UNCHANGED settled
    BY DEF Next, vars, HandlerStep, Begin, GetPlayerState, PreSaveAndChoose,
           SaveSpinState, PlaceBets, PlayNormalSpin, SaveSpinOutcome,
           ContributeToJackpot, FreeSpinSave, Claim, GetWinFails, LogSpin,
           SavePlayerState, FailSpin, ModulePanics, ClearSpinState, Crash,
           wallet
  <1> QED
    BY <1>1, <1>2, <1>3

\* So what a player state counts as played stays paid.
LEMMA PlayedStays ==
    ASSUME TypeInv, \A s \in Session : MoneyOf(s), [Next]_vars,
           NEW ps, PlayedArePaid(ps), NEW i \in 1..ps.playedFreeSpin
    PROVE  \E t \in Session : /\ Free(t)' /\ PaidWin(t)'
                              /\ spin'[t].trigger = ps.trigger
                              /\ spin'[t].index = i
  <1>1. PICK t \in Session : /\ Free(t) /\ PaidWin(t)
                             /\ spin[t].trigger = ps.trigger
                             /\ spin[t].index = i
    BY DEF PlayedArePaid
  <1>2. PaidWin(t)' /\ spin'[t] = spin[t]
    BY <1>1, PaidStays
  <1> QED
    BY <1>1, <1>2 DEF Free

\* The player states after a step: copies of those before it, states of which
\* nothing is played, and the one that a free spin has moved on.
StatesMove ==
    /\ db' \in {db} \cup {mem[s] : s \in Session}
    /\ \A s \in Session :
         \/ \E ps \in {db, mem[s]} :
               /\ mem'[s].playedFreeSpin = ps.playedFreeSpin
               /\ mem'[s].trigger = ps.trigger
         \/ mem'[s].playedFreeSpin = 0
         \/ /\ Free(s)' /\ PaidWin(s)'
            /\ spin'[s].trigger = mem'[s].trigger
            /\ spin'[s].index = mem'[s].playedFreeSpin
            /\ mem'[s].trigger = mem[s].trigger
            /\ mem'[s].playedFreeSpin = mem[s].playedFreeSpin + 1

\* Every step moves the player states so.
LEMMA StatesStep ==
    ASSUME TypeInv, PlaysNext, [Next]_vars
    PROVE  StatesMove
  <1> USE DEF StatesMove, TypeInv, TypeOK, handler, redis
  <1>1. ASSUME NEW s \in Session, GetPlayerState(s) PROVE StatesMove
    BY <1>1 DEF GetPlayerState, NewPlayerState
  <1>2. ASSUME NEW s \in Session, PreSaveAndChoose(s) PROVE StatesMove
    BY <1>2 DEF PreSaveAndChoose
  <1>3. ASSUME NEW s \in Session, FreeSpinSave(s) PROVE StatesMove
    <2> DEFINE more == [mem[s] EXCEPT !.remainingFreeSpin =
                            @ + spin[s].result.resultFreeSpin]
    <2>1. more.trigger = mem[s].trigger /\ more.playedFreeSpin = mem[s].playedFreeSpin
      BY DEF PlayerState
    <2>2. /\ mem' \in {mem, [mem EXCEPT ![s] = more]}
          /\ db' \in {db, mem[s]}
      BY <1>3 DEF FreeSpinSave
    <2> HIDE DEF more
    <2> QED
      BY <2>1, <2>2
  <1>4. ASSUME NEW s \in Session, SettleBets(s) PROVE StatesMove
    <2> DEFINE after == IF Normal(s) THEN AfterNormalSpin(s, mem[s])
                                     ELSE AfterFreeSpin(mem[s])
    <2>1. Normal(s) => \/ after.playedFreeSpin = 0
                       \/ after = mem[s]
      BY DEF AfterNormalSpin, FreeSpinsWon, Reset, PlayerState
    <2>2. Free(s) => /\ after.trigger = mem[s].trigger
                     /\ after.playedFreeSpin = mem[s].playedFreeSpin + 1
      BY DEF AfterFreeSpin, PlayerState, Normal, Free
    <2>3. /\ \/ mem' = mem
             \/ mem' = [mem EXCEPT ![s] = after] /\ PaidWin(s)'
          /\ db' = db /\ spin' = spin
      BY <1>4 DEF SettleBets, PaidWin, TakesEffect, Reply, Normal
    <2>4. /\ Normal(s) \/ Free(s)
          /\ Free(s) => /\ spin[s].trigger = mem[s].trigger
                        /\ spin[s].index = mem[s].playedFreeSpin + 1
      BY <1>4 DEF SettleBets, KindMatches, PlaysNext
    <2> HIDE DEF after
    <2> QED
      BY <2>1, <2>2, <2>3, <2>4 DEF Free
  <1>5. ASSUME NEW s \in Session, SavePlayerState(s) PROVE StatesMove
    BY <1>5 DEF SavePlayerState
  <1>6. CASE UNCHANGED <<db, mem>>
    BY <1>6
  <1>7. \/ \E s \in Session : \/ GetPlayerState(s) \/ PreSaveAndChoose(s)
                              \/ FreeSpinSave(s) \/ SettleBets(s)
                              \/ SavePlayerState(s)
        \/ UNCHANGED <<db, mem>>
    BY DEF Next, vars, HandlerStep, Begin, SaveSpinState, PlaceBets,
           PlayNormalSpin, Refund, SaveSpinOutcome, ContributeToJackpot,
           Claim, GetWinFails, LogSpin, FailSpin, ModulePanics,
           ClearSpinState, Crash
  <1> QED
    BY <1>1, <1>2, <1>3, <1>4, <1>5, <1>6, <1>7

\* Nothing is played when the service starts.
LEMMA OrderInit == Init => OrderInv
  BY DEF Init, OrderInv, PlayedArePaid, PlaysNext, FreeSpinsPaidInOrder,
         NewPlayerState, NoSpin, Free

\* A handler takes the next free spin of its copy and keeps both until the
\* spin is settled.
LEMMA PlaysNextStep ==
    ASSUME TypeInv, PlaysNext, [Next]_vars
    PROVE  PlaysNext'
  <1> USE DEF TypeInv, TypeOK, PlaysNext, KindMatches, Normal, Free, Goto, handler
  <1>1. ASSUME NEW s \in Session, Begin(s) \/ GetPlayerState(s) PROVE PlaysNext'
    BY <1>1 DEF Begin, GetPlayerState
  <1>2. ASSUME NEW s \in Session, PreSaveAndChoose(s) PROVE PlaysNext'
    <2>1. /\ mem' = mem /\ pc'[s] \in {"error", "trace", "fail", "freeSave"}
          /\ pc'[s] = "freeSave" => spin'[s] = FreeSpinOf(mem[s])
          /\ \A t \in Session \ {s} : pc'[t] = pc[t] /\ spin'[t] = spin[t]
      BY <1>2 DEF PreSaveAndChoose
    <2>2. /\ FreeSpinOf(mem[s]).trigger = mem[s].trigger
          /\ FreeSpinOf(mem[s]).index = mem[s].playedFreeSpin + 1
      BY DEF FreeSpinOf
    <2> QED
      BY <2>1, <2>2
  <1>3. ASSUME NEW s \in Session,
               SaveSpinState(s) \/ PlaceBets(s) \/ SaveSpinOutcome(s) \/ Claim(s)
                   \/ ContributeToJackpot(s)
        PROVE  PlaysNext'
    BY <1>3 DEF SaveSpinState, PlaceBets, SaveSpinOutcome, Claim,
                ContributeToJackpot, AfterClaims
  <1>4. ASSUME NEW s \in Session, PlayNormalSpin(s) \/ Refund(s) PROVE PlaysNext'
    BY <1>4 DEF PlayNormalSpin, Refund
  <1>5. ASSUME NEW s \in Session, FreeSpinSave(s) PROVE PlaysNext'
    <2> DEFINE more == [mem[s] EXCEPT !.remainingFreeSpin =
                            @ + spin[s].result.resultFreeSpin]
    <2>1. more.trigger = mem[s].trigger /\ more.playedFreeSpin = mem[s].playedFreeSpin
      BY DEF PlayerState
    <2>2. /\ mem' \in {mem, [mem EXCEPT ![s] = more]}
          /\ spin' = spin /\ pc[s] = "freeSave"
          /\ \A t \in Session \ {s} : pc'[t] = pc[t]
      BY <1>5 DEF FreeSpinSave
    <2> HIDE DEF more
    <2> QED
      BY <2>1, <2>2
  <1>6. ASSUME NEW s \in Session, SettleBets(s) PROVE PlaysNext'
    <2>1. /\ \A t \in Session \ {s} : mem'[t] = mem[t] /\ pc'[t] = pc[t]
          /\ pc'[s] \in {"log", "fail"} /\ spin' = spin
      BY <1>6 DEF SettleBets
    <2> QED
      BY <2>1
  <1>7. ASSUME NEW s \in Session,
               LogSpin(s) \/ SavePlayerState(s) \/ FailSpin(s) \/ GetWinFails(s)
                   \/ ModulePanics(s) \/ ClearSpinState(s)
        PROVE  PlaysNext'
    BY <1>7 DEF LogSpin, SavePlayerState, FailSpin, GetWinFails, ModulePanics,
                ClearSpinState
  <1>8. CASE Crash
    BY <1>8 DEF Crash, Active
  <1>9. CASE UNCHANGED vars
    BY <1>9 DEF vars
  <1> QED
    BY <1>1, <1>2, <1>3, <1>4, <1>5, <1>6, <1>7, <1>8, <1>9
    DEF Next, HandlerStep

\* The free spin a step pays was the next of a copy of the player state, whose
\* last one played has been paid already.
LEMMA OrderStep ==
    ASSUME TypeInv, \A s \in Session : MoneyOf(s), OrderInv, [Next]_vars
    PROVE  OrderInv'
  <1> USE DEF OrderInv
  <1>1. StatesMove
    BY StatesStep
  <1>2. ASSUME NEW s \in Session PROVE PlayedArePaid(mem[s])'
    <2>1. ASSUME NEW ps \in {db, mem[s]},
                 mem'[s].playedFreeSpin = ps.playedFreeSpin,
                 mem'[s].trigger = ps.trigger
          PROVE  PlayedArePaid(mem[s])'
      BY <2>1, PlayedStays DEF PlayedArePaid
    <2>2. CASE mem'[s].playedFreeSpin = 0
      BY <2>2 DEF PlayedArePaid
    <2>3. CASE /\ Free(s)' /\ PaidWin(s)'
               /\ spin'[s].trigger = mem'[s].trigger
               /\ spin'[s].index = mem'[s].playedFreeSpin
               /\ mem'[s].trigger = mem[s].trigger
               /\ mem'[s].playedFreeSpin = mem[s].playedFreeSpin + 1
      <3> SUFFICES ASSUME NEW i \in 1..mem'[s].playedFreeSpin
                   PROVE  \E t \in Session : /\ Free(t)' /\ PaidWin(t)'
                                             /\ spin'[t].trigger = mem'[s].trigger
                                             /\ spin'[t].index = i
        BY DEF PlayedArePaid, Free, PaidWin
      <3>1. mem[s].playedFreeSpin \in Nat
        BY DEF TypeInv, TypeOK, PlayerState
      <3>2. CASE i = mem'[s].playedFreeSpin
        BY <2>3, <3>2
      <3>3. CASE i \in 1..mem[s].playedFreeSpin
        BY <2>3, <3>3, PlayedStays
      <3> QED
        BY <2>3, <3>1, <3>2, <3>3
    <2> QED
      BY <1>1, <2>1, <2>2, <2>3 DEF StatesMove
  <1>3. PlayedArePaid(db)'
    <2>1. PICK ps \in {db} \cup {mem[s] : s \in Session} : db' = ps
      BY <1>1 DEF StatesMove
    <2>2. PlayedArePaid(ps)
      BY <2>1
    <2> QED
      BY <2>1, <2>2, PlayedStays DEF PlayedArePaid
  <1>4. PlaysNext'
    BY PlaysNextStep
  <1>5. FreeSpinsPaidInOrder'
    <2> SUFFICES ASSUME NEW s \in Session, Free(s)', PaidWin(s)', spin'[s].index > 1
                 PROVE  \E t \in Session : /\ Free(t)' /\ PaidWin(t)'
                                           /\ spin'[t].trigger = spin'[s].trigger
                                           /\ spin'[t].index + 1 = spin'[s].index
      BY DEF FreeSpinsPaidInOrder, Free, PaidWin
    <2>1. CASE PaidWin(s)
      <3>1. spin'[s] = spin[s]
        BY <2>1, PaidStays
      <3>2. PICK t \in Session : /\ Free(t) /\ PaidWin(t)
                                 /\ spin[t].trigger = spin[s].trigger
                                 /\ spin[t].index + 1 = spin[s].index
        BY <2>1, <3>1 DEF FreeSpinsPaidInOrder, Free
      <3> QED
        BY <3>1, <3>2, PaidStays DEF Free
    <2>2. CASE ~PaidWin(s)
      <3>1. SettleBets(s) /\ spin' = spin
        BY <2>2, WhoPays DEF SettleBets
      <3>2. /\ spin[s].trigger = mem[s].trigger
            /\ spin[s].index = mem[s].playedFreeSpin + 1
            /\ mem[s].playedFreeSpin \in Nat
        BY <3>1 DEF SettleBets, PlaysNext, Free, TypeInv, TypeOK, PlayerState
      <3>3. PICK t \in Session : /\ Free(t) /\ PaidWin(t)
                                 /\ spin[t].trigger = mem[s].trigger
                                 /\ spin[t].index = mem[s].playedFreeSpin
        BY <3>1, <3>2 DEF PlayedArePaid
      <3> QED
        BY <3>1, <3>2, <3>3, PaidStays DEF Free
    <2> QED
      BY <2>1, <2>2
  <1> QED
    BY <1>2, <1>3, <1>4, <1>5

\* The free spins of a list are paid in its order and none is skipped, however
\* many connections play them at once and whatever fails: a handler plays what
\* follows the last one its copy counts as played, and only a paid spin counts.
THEOREM FreeSpinsInOrder == Spec => []FreeSpinsPaidInOrder
  <1>1. Init => TypeInv /\ MoneyInv /\ OrderInv
    BY TypeInit, MoneyInit, OrderInit
  <1>2. TypeInv /\ MoneyInv /\ OrderInv /\ [Next]_vars
            => (TypeInv /\ MoneyInv /\ OrderInv)'
    BY TypeStep, MoneyStep, OrderStep, MoneyInvSplit
  <1>3. OrderInv => FreeSpinsPaidInOrder
    BY DEF OrderInv
  <1> QED
    BY <1>1, <1>2, <1>3, PTL DEF Spec

-----------------------------------------------------------------------------
(***************************************************************************)
(* What the free spins after the n-th grant.  GrantedAfter is a recursive  *)
(* function on the positions of the list: that it is defined by its        *)
(* equation, and unique, is shown from the last position down, by the      *)
(* least distance to the end at which it would fail.                       *)
(***************************************************************************)

\* A set of naturals that is not empty has a least element.
Less == {ab \in Nat \X Nat : ab[1] < ab[2]}

LEMMA LeastNatural ==
    ASSUME NEW T \in SUBSET Nat, T # {}
    PROVE  \E m \in T : \A k \in T : m <= k
  <1>1. IsWellFoundedOn(Less, Nat)
    BY NatLessThanWellFounded, Zenon DEF OpToRel, Less
  <1>2. PICK m \in T : \A k \in T : ~(<<k, m>> \in Less)
    BY <1>1, WFMin
  <1>3. \A k \in T : ~(k < m)
    BY <1>2 DEF Less
  <1> QED
    BY <1>2, <1>3

GrantedIs(list, g) ==
    g = [i \in 0..Len(list) |->
            IF i = Len(list) THEN 0
            ELSE list[i + 1].resultFreeSpin + g[i + 1]]

LEMMA GrantedAfterDef ==
    ASSUME NEW list, NEW n
    PROVE  GrantedAfter(list, n) = (CHOOSE g : GrantedIs(list, g))[n]
  BY DEF GrantedAfter, GrantedIs

\* The sums from the last n positions on.
GrantedFrom(list, n, g) ==
    /\ g \in [(Len(list) - n)..Len(list) -> Nat]
    /\ g[Len(list)] = 0
    /\ \A i \in (Len(list) - n)..(Len(list) - 1) :
          g[i] = list[i + 1].resultFreeSpin + g[i + 1]

LEMMA GrantedExists ==
    ASSUME NEW list \in Seq(FreeResult)
    PROVE  \E g \in [0..Len(list) -> Nat] : GrantedIs(list, g)
  <1> DEFINE T == {n \in 0..Len(list) : ~\E g : GrantedFrom(list, n, g)}
  <1>1. T = {}
    <2> SUFFICES ASSUME T # {} PROVE FALSE
      OBVIOUS
    <2>1. PICK m \in T : \A k \in T : m <= k
      <3>1. T \in SUBSET Nat
        OBVIOUS
      <3> HIDE DEF T
      <3> QED
        BY <3>1, LeastNatural
    <2>2. m # 0
      <3>1. GrantedFrom(list, 0, [i \in {Len(list)} |-> 0])
        BY DEF GrantedFrom
      <3> QED
        BY <3>1
    <2>3. PICK g : GrantedFrom(list, m - 1, g)
      BY <2>1, <2>2
    <2> DEFINE p == Len(list) - m
               h == [i \in p..Len(list) |->
                        IF i = p THEN list[p + 1].resultFreeSpin + g[p + 1]
                        ELSE g[i]]
    <2>4. p \in Nat /\ p < Len(list) /\ p + 1 = Len(list) - (m - 1)
      BY <2>2
    <2>5. list[p + 1].resultFreeSpin \in Nat
      <3>1. list[p + 1] \in FreeResult
        BY <2>4
      <3> QED
        BY <3>1 DEF FreeResult
    <2>6. h \in [p..Len(list) -> Nat]
      <3>1. g \in [(p + 1)..Len(list) -> Nat]
        BY <2>3, <2>4 DEF GrantedFrom
      <3>2. \A i \in p..Len(list) : i # p => i \in (p + 1)..Len(list)
        <4> DEFINE size == Len(list)
        <4>1. p \in Nat /\ size \in Nat
          BY <2>4
        <4> HIDE DEF p, h, T, size
        <4>2. \A i \in p..size : i # p => i \in (p + 1)..size
          BY <4>1
        <4> QED
          BY <4>2 DEF size
      <3>3. g[p + 1] \in Nat
        BY <2>4, <3>1
      <3>4. list[p + 1].resultFreeSpin + g[p + 1] \in Nat
        BY <2>5, <3>3
      <3>5. ASSUME NEW i \in p..Len(list), i # p PROVE g[i] \in Nat
        BY <3>1, <3>2, <3>5
      <3> HIDE DEF p
      <3> QED
        BY <3>4, <3>5
    <2>7. GrantedFrom(list, m, h)
      BY <2>3, <2>4, <2>6 DEF GrantedFrom
    <2> QED
      BY <2>1, <2>7
  <1>2. Len(list) \in 0..Len(list)
    OBVIOUS
  <1>3. PICK g : GrantedFrom(list, Len(list), g)
    BY <1>1, <1>2
  <1> QED
    BY <1>3 DEF GrantedFrom, GrantedIs

LEMMA GrantedUnique ==
    ASSUME NEW list \in Seq(FreeResult), NEW f, GrantedIs(list, f),
           NEW g, GrantedIs(list, g)
    PROVE  f = g
  <1> DEFINE T == {n \in 0..Len(list) : f[Len(list) - n] # g[Len(list) - n]}
  <1>1. T = {}
    <2> SUFFICES ASSUME T # {} PROVE FALSE
      OBVIOUS
    <2>1. PICK m \in T : \A k \in T : m <= k
      <3>1. T \in SUBSET Nat
        OBVIOUS
      <3> HIDE DEF T
      <3> QED
        BY <3>1, LeastNatural
    <2>2. m # 0
      BY <2>1 DEF GrantedIs
    <2>3. f[Len(list) - (m - 1)] = g[Len(list) - (m - 1)]
      <3>1. m - 1 \in 0..Len(list) /\ ~(m <= m - 1)
        BY <2>1, <2>2
      <3>2. m - 1 \notin T
        <4> HIDE DEF T
        <4> QED
          BY <2>1, <3>1
      <3> QED
        BY <3>1, <3>2
    <2>4. /\ Len(list) - m \in 0..Len(list) /\ Len(list) - m # Len(list)
          /\ (Len(list) - m) + 1 = Len(list) - (m - 1)
      BY <2>1, <2>2
    <2>5. f[Len(list) - m] # g[Len(list) - m]
      BY <2>1
    <2> HIDE DEF T
    <2> QED
      BY <2>3, <2>4, <2>5 DEF GrantedIs
  <1>2. ASSUME NEW i \in 0..Len(list) PROVE f[i] = g[i]
    <2>1. Len(list) - i \in 0..Len(list) /\ Len(list) - (Len(list) - i) = i
      OBVIOUS
    <2> QED
      BY <1>1, <2>1
  <1> QED
    BY <1>2 DEF GrantedIs

\* What the free spins after the n-th grant, computed from the end of the list.
LEMMA GrantedStep ==
    ASSUME NEW list \in Seq(FreeResult), NEW n \in 0..Len(list)
    PROVE  /\ GrantedAfter(list, n) \in Nat
           /\ GrantedAfter(list, n) =
                IF n = Len(list) THEN 0
                ELSE list[n + 1].resultFreeSpin + GrantedAfter(list, n + 1)
  <1> DEFINE g == CHOOSE h : GrantedIs(list, h)
  <1>1. PICK h \in [0..Len(list) -> Nat] : GrantedIs(list, h)
    BY GrantedExists
  <1>2. GrantedIs(list, g)
    BY <1>1
  <1>3. \A i : GrantedAfter(list, i) = g[i]
    BY GrantedAfterDef
  <1> HIDE DEF g
  <1>4. g = h
    BY <1>1, <1>2, GrantedUnique
  <1>5. g[n] = IF n = Len(list) THEN 0 ELSE list[n + 1].resultFreeSpin + g[n + 1]
    BY <1>2 DEF GrantedIs
  <1> QED
    BY <1>3, <1>4, <1>5

-----------------------------------------------------------------------------
(***************************************************************************)
(* The counters of free spins.  Redis holds a state that adds up, and so   *)
(* does a handler's copy, except that a free spin being played has added   *)
(* its retrigger, which the list counts among those still to come.         *)
(***************************************************************************)

\* What the game module owes: the lists it returns hold the free spins that
\* their own retriggers grant.
AllListRetriggers ==
    \A result \in NormalResults :
        result.resultFreeSpin > 0 => ListsRetriggers(result)

AddsUp(ps, retriggered) ==
    /\ ps.playedFreeSpin <= Len(ps.freeSpins)
    /\ ps.isFreeSpin =>
          ps.remainingFreeSpin + ps.playedFreeSpin
              + GrantedAfter(ps.freeSpins, ps.playedFreeSpin)
              = Len(ps.freeSpins) + retriggered

\* The retrigger of the free spin a handler plays, once it is in the copy.
Retrigger(s) ==
    IF Free(s) /\ pc[s] \in {"claim", "place", "settle"}
    THEN spin[s].result.resultFreeSpin ELSE 0

\* A free spin that fails leaves its retrigger in a copy no one saves.
Saves(s) == ~(pc[s] \in {"fail", "error", "dead"})

\* The spin a handler plays is the next of a state in free spins.
NextListed(ps, sp) ==
    /\ ps.isFreeSpin
    /\ ps.playedFreeSpin < Len(ps.freeSpins)
    /\ sp.result.resultFreeSpin = ps.freeSpins[ps.playedFreeSpin + 1].resultFreeSpin

\* The result a handler plays is the one its copy lists next, or one of the
\* module's.
Listed(s) ==
    /\ pc[s] \in {"idle", "load", "presave"} => spin[s] = NoSpin
    /\ Free(s) /\ pc[s] \in {"freeSave", "claim", "place", "settle"}
          => NextListed(mem[s], spin[s])
    /\ Normal(s) => spin[s].result \in NormalResults \cup {NoResult}

CountInv ==
    /\ AddsUp(db, 0)
    /\ \A s \in Session : Saves(s) => AddsUp(mem[s], Retrigger(s))
    /\ \A s \in Session : Listed(s)

\* A fresh or a reset state has nothing to add up.
LEMMA NothingAddsUp ==
    /\ AddsUp(NewPlayerState, 0)
    /\ \A ps \in PlayerState : AddsUp(Reset(ps), 0)
  BY DEF AddsUp, NewPlayerState, Reset, PlayerState

\* So has a list of which nothing is played.
LEMMA AwardAddsUp ==
    ASSUME NEW s \in Session, spin[s].result \in NormalResult,
           ListsRetriggers(spin[s].result)
    PROVE  AddsUp(FreeSpinsWon(s), 0)
  <1> DEFINE result == spin[s].result
  <1>1. /\ result.resultFreeSpin \in Nat
        /\ result.freeSpinBets \in Seq(FreeResult)
        /\ GrantedAfter(result.freeSpinBets, 0) \in Nat
    BY GrantedStep DEF NormalResult
  <1> QED
    BY <1>1 DEF AddsUp, FreeSpinsWon, ListsRetriggers

\* A retrigger is counted before the free spin that grants it has been played.
LEMMA RetriggerAddsUp ==
    ASSUME NEW ps \in PlayerState, AddsUp(ps, 0), NEW r \in Nat
    PROVE  AddsUp([ps EXCEPT !.remainingFreeSpin = @ + r], r)
  <1>1. GrantedAfter(ps.freeSpins, ps.playedFreeSpin) \in Nat
    BY GrantedStep DEF AddsUp, PlayerState
  <1> QED
    BY <1>1 DEF AddsUp, PlayerState

\* A free spin counts for one, and its retrigger is no more among those the rest
\* of the list grants.
LEMMA PlayedLeaves ==
    ASSUME NEW ps \in PlayerState, ps.playedFreeSpin < Len(ps.freeSpins),
           ps.isFreeSpin,
           AddsUp(ps, ps.freeSpins[ps.playedFreeSpin + 1].resultFreeSpin)
    PROVE  LET n == ps.playedFreeSpin + 1
           IN  /\ n \in 1..Len(ps.freeSpins)
               /\ GrantedAfter(ps.freeSpins, n) \in Nat
               /\ ps.remainingFreeSpin - 1 + n + GrantedAfter(ps.freeSpins, n)
                       = Len(ps.freeSpins)
  <1> DEFINE n == ps.playedFreeSpin
             list == ps.freeSpins
             granted == GrantedAfter(list, n)
             later == GrantedAfter(list, n + 1)
             more == list[n + 1].resultFreeSpin
  <1>1. /\ n \in Nat /\ n < Len(list) /\ list \in Seq(FreeResult)
        /\ ps.remainingFreeSpin \in Nat /\ Len(list) \in Nat
    BY DEF PlayerState
  <1>2. more \in Nat
    <2>1. list[n + 1] \in FreeResult
      BY <1>1
    <2> QED
      BY <2>1 DEF FreeResult
  <1>3. later \in Nat /\ granted = more + later
    <2>1. n \in 0..Len(list) /\ n + 1 \in 0..Len(list) /\ n # Len(list)
      BY <1>1
    <2> HIDE DEF n, list
    <2> QED
      BY <1>1, <2>1, GrantedStep
  <1>4. ps.remainingFreeSpin + n + granted = Len(list) + more
    BY DEF AddsUp
  <1>5. n + 1 \in 1..Len(list)
    BY <1>1
  <1>6. ps.remainingFreeSpin - 1 + (n + 1) + later = Len(list)
    <2> DEFINE remaining == ps.remainingFreeSpin
               size == Len(list)
    <2>1. remaining \in Nat /\ n \in Nat /\ size \in Nat /\ more \in Nat /\ later \in Nat
      BY <1>1, <1>2, <1>3
    <2>2. remaining + n + (more + later) = size + more
      BY <1>3, <1>4
    <2> HIDE DEF granted, later, more, n, list, remaining, size
    <2>3. remaining - 1 + (n + 1) + later = size
      BY <2>1, <2>2
    <2> QED
      BY <2>3 DEF remaining, size
  <1> QED
    BY <1>3, <1>5, <1>6

\* So a state that has played it adds up again.
LEMMA PlayedAddsUp ==
    ASSUME NEW ps \in PlayerState, ps.playedFreeSpin < Len(ps.freeSpins),
           ps.isFreeSpin,
           AddsUp(ps, ps.freeSpins[ps.playedFreeSpin + 1].resultFreeSpin)
    PROVE  AddsUp(AfterFreeSpin(ps), 0)
  <1> DEFINE next == AfterFreeSpin(ps)
             n == ps.playedFreeSpin + 1
             list == ps.freeSpins
             rem == ps.remainingFreeSpin - 1
             later == GrantedAfter(list, n)
  <1>1. /\ next.playedFreeSpin = n /\ next.freeSpins = list
        /\ next.remainingFreeSpin = rem
    BY DEF AfterFreeSpin, PlayerState
  <1>2. n \in 1..Len(list) /\ rem + n + later = Len(list)
    BY PlayedLeaves
  <1>3. n \in Nat /\ rem \in Int /\ Len(list) \in Nat
    BY DEF PlayerState
  <1>4. GrantedAfter(next.freeSpins, next.playedFreeSpin) = later
    BY <1>1
  <1> HIDE DEF next, n, list, rem, later
  <1>5. AddsUp(next, 0)
    BY <1>1, <1>2, <1>3, <1>4 DEF AddsUp
  <1> QED
    BY <1>5 DEF next

LEMMA CountInit == Init => CountInv
  <1> SUFFICES ASSUME Init PROVE CountInv
    OBVIOUS
  <1>1. \A s \in Session : /\ mem[s] = NewPlayerState /\ spin[s] = NoSpin
                           /\ pc[s] = "idle"
    BY DEF Init
  <1>2. db = NewPlayerState /\ NoSpin.type = "none"
    BY DEF Init, NoSpin
  <1> QED
    BY <1>1, <1>2, NothingAddsUp
    DEF CountInv, Listed, Retrigger, Free, Normal

\* What a step has to keep of each handler's copy, and of Redis.
CopyAddsUp(s) == Saves(s) => AddsUp(mem[s], Retrigger(s))

\* A step that leaves the copies keeps them adding up, if no handler comes to a
\* point where its copy should count a retrigger that it does not.
LEMMA CountFrame ==
    ASSUME TypeInv, CountInv, UNCHANGED mem,
           \A s \in Session : Saves(s)' => Saves(s) /\ Retrigger(s)' = Retrigger(s),
           db' \in {db} \cup {mem[s] : s \in {t \in Session : Saves(t) /\ Retrigger(t) = 0}}
    PROVE  AddsUp(db, 0)' /\ \A s \in Session : CopyAddsUp(s)'
  BY DEF CountInv, CopyAddsUp

LEMMA CountStep ==
    ASSUME TypeInv, AllListRetriggers, CountInv, [Next]_vars
    PROVE  AddsUp(db, 0)' /\ \A s \in Session : CopyAddsUp(s)'
  <1> DEFINE Goal == AddsUp(db, 0)' /\ \A s \in Session : CopyAddsUp(s)'
  <1> USE DEF TypeInv, TypeOK, KindMatches, Retrigger,
              Saves, Normal, Free, Goto, handler, redis
  <1>1. ASSUME NEW s \in Session, Begin(s) PROVE Goal
    BY <1>1, CountFrame DEF Begin
  <1>2. ASSUME NEW s \in Session, GetPlayerState(s) PROVE Goal
    <2>1. mem'[s] \in {db, NewPlayerState} \/ pc'[s] = "error"
      BY <1>2 DEF GetPlayerState
    <2>2. \A t \in Session \ {s} : mem'[t] = mem[t] /\ pc'[t] = pc[t]
      BY <1>2 DEF GetPlayerState
    <2>3. spin' = spin /\ db' = db /\ spin[s].type = "none"
      BY <1>2 DEF GetPlayerState
    <2> QED
      BY <2>1, <2>2, <2>3, NothingAddsUp DEF CountInv, CopyAddsUp
  <1>3. ASSUME NEW s \in Session, PreSaveAndChoose(s) PROVE Goal
    <2>1. /\ mem' = mem /\ db' \in {db, mem[s]} /\ pc[s] = "presave"
          /\ spin[s].type = "none"
          /\ pc'[s] \in {"error", "trace", "fail", "freeSave"}
          /\ \A t \in Session \ {s} : pc'[t] = pc[t] /\ spin'[t] = spin[t]
      BY <1>3 DEF PreSaveAndChoose
    <2> QED
      BY <2>1, CountFrame
  <1>4. ASSUME NEW s \in Session,
               \/ SaveSpinState(s) \/ PlaceBets(s) \/ SaveSpinOutcome(s) \/ Claim(s)
               \/ ContributeToJackpot(s) \/ Refund(s)
        PROVE  Goal
    <2>1. mem' = mem /\ db' = db /\ spin' = spin
      BY <1>4 DEF SaveSpinState, PlaceBets, SaveSpinOutcome, Claim, Refund,
                  ContributeToJackpot
    <2>2. \A t \in Session \ {s} : pc'[t] = pc[t]
      BY <1>4 DEF SaveSpinState, PlaceBets, SaveSpinOutcome, Claim, Refund,
                  ContributeToJackpot
    <2>3. \/ Normal(s) /\ pc[s] # "fail"
          \/ pc'[s] = "fail"
          \/ /\ pc[s] \in {"claim", "place"}
             /\ pc'[s] \in {"claim", "place", "settle"}
      BY <1>4 DEF SaveSpinState, PlaceBets, SaveSpinOutcome, Claim, Refund,
                  ContributeToJackpot, AfterClaims
    <2>4. pc[s] \notin {"fail", "error", "dead"}
      BY <1>4 DEF SaveSpinState, PlaceBets, SaveSpinOutcome, Claim, Refund,
                  ContributeToJackpot
    <2> QED
      BY <2>1, <2>2, <2>3, <2>4, CountFrame
  <1>5. ASSUME NEW s \in Session, PlayNormalSpin(s) PROVE Goal
    <2>1. /\ mem' = mem /\ db' = db /\ spin'[s].type = spin[s].type
          /\ pc[s] = "play" /\ pc'[s] \in {"tracePost", "refund"}
          /\ \A t \in Session \ {s} : pc'[t] = pc[t] /\ spin'[t] = spin[t]
      BY <1>5 DEF PlayNormalSpin, Spin
    <2> QED
      BY <2>1, CountFrame
  <1>6. ASSUME NEW s \in Session, FreeSpinSave(s) PROVE Goal
    <2> DEFINE r == spin[s].result.resultFreeSpin
               more == [mem[s] EXCEPT !.remainingFreeSpin = @ + r]
    <2>1. /\ pc[s] = "freeSave" /\ spin' = spin
          /\ db' \in {db, mem[s]}
          /\ \A t \in Session \ {s} : pc'[t] = pc[t] /\ mem'[t] = mem[t]
          /\ \/ pc'[s] = "fail"
             \/ pc'[s] \in {"claim", "place"} /\ mem'[s] = more
      BY <1>6 DEF FreeSpinSave, AfterClaims
    <2>2. r \in Nat
      BY DEF Spin, NormalResult
    <2>3. AddsUp(mem[s], 0)
      BY <2>1 DEF CountInv
    <2>4. AddsUp(more, r)
      BY <2>2, <2>3, RetriggerAddsUp
    <2> HIDE DEF more
    <2> QED
      BY <2>1, <2>3, <2>4 DEF CountInv, CopyAddsUp
  <1>7. ASSUME NEW s \in Session, SettleBets(s) PROVE Goal
    <2> DEFINE after == IF Normal(s) THEN AfterNormalSpin(s, mem[s])
                                     ELSE AfterFreeSpin(mem[s])
    <2>1. /\ pc[s] = "settle" /\ spin' = spin /\ db' = db
          /\ \A t \in Session \ {s} : pc'[t] = pc[t] /\ mem'[t] = mem[t]
          /\ \/ pc'[s] = "fail"
             \/ pc'[s] = "log" /\ mem'[s] = after
      BY <1>7 DEF SettleBets
    <2>2. AddsUp(mem[s], IF Free(s) THEN spin[s].result.resultFreeSpin ELSE 0)
      BY <2>1 DEF CountInv
    <2>3. CASE Free(s)
      <3>1. AddsUp(AfterFreeSpin(mem[s]), 0)
        BY <2>1, <2>2, <2>3, PlayedAddsUp DEF CountInv, Listed, NextListed, FreeSpinLeft
      <3> HIDE DEF after
      <3> QED
        BY <2>1, <2>3, <3>1 DEF CountInv, CopyAddsUp, after
    <2>4. CASE Normal(s)
      <3>1. spin[s].result \in NormalResult
        BY DEF Spin
      <3>2. spin[s].result.resultFreeSpin > 0 => AddsUp(FreeSpinsWon(s), 0)
        BY <2>4, <3>1, AwardAddsUp DEF CountInv, Listed, AllListRetriggers, NoResult
      <3>3. AddsUp(AfterNormalSpin(s, mem[s]), 0)
        BY <2>2, <2>4, <3>2, NothingAddsUp DEF AfterNormalSpin
      <3> HIDE DEF after
      <3> QED
        BY <2>1, <2>4, <3>3 DEF CountInv, CopyAddsUp, after
    <2> QED
      BY <2>1, <2>3, <2>4
  <1>8. ASSUME NEW s \in Session,
               \/ LogSpin(s) \/ SavePlayerState(s) \/ FailSpin(s) \/ GetWinFails(s)
               \/ ModulePanics(s) \/ ClearSpinState(s)
        PROVE  Goal
    <2>1. /\ mem' = mem /\ spin' = spin
          /\ \A t \in Session \ {s} : pc'[t] = pc[t]
          /\ db' = db \/ (db' = mem[s] /\ pc[s] = "save")
      BY <1>8 DEF LogSpin, SavePlayerState, FailSpin, GetWinFails, ModulePanics,
                  ClearSpinState
    <2>2. \/ pc'[s] = pc[s]
          \/ pc'[s] \in {"fail", "error", "dead"}
          \/ pc[s] = "log" /\ pc'[s] = "save"
          \/ pc[s] = "save" /\ pc'[s] = "ok"
      BY <1>8 DEF LogSpin, SavePlayerState, FailSpin, GetWinFails, ModulePanics,
                  ClearSpinState
    <2> QED
      BY <2>1, <2>2, CountFrame
  <1>9. CASE Crash
    BY <1>9, CountFrame DEF Crash, Active
  <1>10. CASE UNCHANGED vars
    BY <1>10, CountFrame DEF vars
  <1> QED
    BY <1>1, <1>2, <1>3, <1>4, <1>5, <1>6, <1>7, <1>8, <1>9, <1>10
    DEF Next, HandlerStep

\* The free spin a handler plays stays the one its copy lists next.
LEMMA ListedStep ==
    ASSUME TypeInv, \A s \in Session : Listed(s), [Next]_vars
    PROVE  \A s \in Session : Listed(s)'
  <1> DEFINE Goal == \A s \in Session : Listed(s)'
  <1> USE DEF TypeInv, TypeOK, KindMatches, Listed, Normal, Free, Goto, handler
  <1>1. ASSUME NEW s \in Session, Begin(s) \/ GetPlayerState(s) PROVE Goal
    BY <1>1 DEF Begin, GetPlayerState, NoSpin
  <1>2. ASSUME NEW s \in Session, PreSaveAndChoose(s) PROVE Goal
    <2>1. spin[s] = NoSpin
      BY <1>2 DEF PreSaveAndChoose
    <2>2. /\ pc[s] = "presave" /\ mem' = mem
          /\ \A t \in Session \ {s} : pc'[t] = pc[t] /\ spin'[t] = spin[t]
          /\ \/ pc'[s] = "error" /\ spin'[s] = NoSpin
             \/ /\ pc'[s] = "trace" /\ spin'[s].type = "normal"
                /\ spin'[s].result = NoResult
             \/ pc'[s] = "fail" /\ spin'[s].type = "free"
             \/ /\ pc'[s] = "freeSave" /\ spin'[s] = FreeSpinOf(mem[s])
                /\ IsFreeSpin(mem[s]) /\ ~NoMoreFreeSpins(mem[s])
      BY <1>2, <2>1 DEF PreSaveAndChoose, NoSpin
    <2>3. IsFreeSpin(mem[s]) /\ ~NoMoreFreeSpins(mem[s])
              => NextListed(mem[s], FreeSpinOf(mem[s])) /\ FreeSpinOf(mem[s]).type = "free"
      BY DEF IsFreeSpin, NoMoreFreeSpins, NextListed, FreeSpinOf, PlayerState
    <2>4. NoSpin.type = "none"
      BY DEF NoSpin
    <2> QED
      BY <2>2, <2>3, <2>4
  <1>3. ASSUME NEW s \in Session,
               \/ SaveSpinState(s) \/ PlaceBets(s) \/ SaveSpinOutcome(s) \/ Claim(s)
               \/ ContributeToJackpot(s) \/ Refund(s)
        PROVE  Goal
    <2>1. mem' = mem /\ spin' = spin /\ \A t \in Session \ {s} : pc'[t] = pc[t]
      BY <1>3 DEF SaveSpinState, PlaceBets, SaveSpinOutcome, Claim, Refund,
                  ContributeToJackpot
    <2>2. /\ pc'[s] \notin {"idle", "load", "presave"}
          /\ Normal(s) \/ pc[s] \in {"claim", "place"}
      BY <1>3 DEF SaveSpinState, PlaceBets, SaveSpinOutcome, Claim, Refund,
                  ContributeToJackpot, AfterClaims
    <2> QED
      BY <2>1, <2>2
  <1>4. ASSUME NEW s \in Session, PlayNormalSpin(s) PROVE Goal
    <2>1. /\ mem' = mem /\ spin'[s].type = spin[s].type
          /\ spin'[s].result \in NormalResults \cup {spin[s].result}
          /\ pc[s] = "play" /\ pc'[s] \in {"tracePost", "refund"}
          /\ \A t \in Session \ {s} : pc'[t] = pc[t] /\ spin'[t] = spin[t]
      BY <1>4 DEF PlayNormalSpin, Spin
    <2> QED
      BY <2>1
  <1>5. ASSUME NEW s \in Session, FreeSpinSave(s) PROVE Goal
    <2> DEFINE more == [mem[s] EXCEPT !.remainingFreeSpin =
                            @ + spin[s].result.resultFreeSpin]
    <2>1. /\ pc[s] = "freeSave" /\ pc'[s] \notin {"idle", "load", "presave"}
          /\ spin' = spin
          /\ \A t \in Session \ {s} : pc'[t] = pc[t] /\ mem'[t] = mem[t]
          /\ mem'[s] \in {mem[s], more}
      BY <1>5 DEF FreeSpinSave, AfterClaims
    <2>2. NextListed(mem[s], spin[s]) => NextListed(more, spin[s])
      BY DEF NextListed, PlayerState
    <2> HIDE DEF more
    <2> QED
      BY <2>1, <2>2
  <1>6. ASSUME NEW s \in Session, SettleBets(s) PROVE Goal
    <2>1. /\ pc[s] = "settle" /\ spin' = spin /\ pc'[s] \in {"log", "fail"}
          /\ \A t \in Session \ {s} : pc'[t] = pc[t] /\ mem'[t] = mem[t]
      BY <1>6 DEF SettleBets
    <2> QED
      BY <2>1
  <1>7. ASSUME NEW s \in Session,
               \/ LogSpin(s) \/ SavePlayerState(s) \/ FailSpin(s) \/ GetWinFails(s)
               \/ ModulePanics(s) \/ ClearSpinState(s)
        PROVE  Goal
    BY <1>7 DEF LogSpin, SavePlayerState, FailSpin, GetWinFails, ModulePanics,
                ClearSpinState
  <1>8. CASE Crash
    BY <1>8 DEF Crash, Active
  <1>9. CASE UNCHANGED vars
    BY <1>9 DEF vars
  <1> QED
    BY <1>1, <1>2, <1>3, <1>4, <1>5, <1>6, <1>7, <1>8, <1>9
    DEF Next, HandlerStep

\* In free spins the counters saved in Redis and the saved list agree, however
\* many handlers save their copies over one another and whatever fails, if the
\* module lists the free spins its retriggers grant.
THEOREM FreeSpinCountsAddUp == AllListRetriggers => (Spec => []FreeSpinsAddUp)
  <1> SUFFICES ASSUME AllListRetriggers PROVE Spec => []FreeSpinsAddUp
    OBVIOUS
  <1>1. Init => TypeInv /\ CountInv
    BY TypeInit, CountInit
  <1>2. TypeInv /\ CountInv /\ [Next]_vars => (TypeInv /\ CountInv)'
    BY TypeStep, CountStep, ListedStep DEF CountInv, CopyAddsUp
  <1>3. TypeInv /\ CountInv => FreeSpinsAddUp
    <2> SUFFICES ASSUME TypeInv, CountInv, db.isFreeSpin
                 PROVE  db.remainingFreeSpin + db.playedFreeSpin
                          + GrantedAfter(db.freeSpins, db.playedFreeSpin)
                          = Len(db.freeSpins)
      BY DEF FreeSpinsAddUp
    <2>1. Len(db.freeSpins) \in Nat
      BY DEF TypeInv, TypeOK, PlayerState
    <2> QED
      BY <2>1 DEF CountInv, AddsUp
  <1> QED
    BY <1>1, <1>2, <1>3, PTL DEF Spec

-----------------------------------------------------------------------------
(***************************************************************************)
(* Spins that do not overlap.                                              *)
(***************************************************************************)

\* The spins all arrive on one connection, whose spinMu keeps them apart.
Serial == \A s, t \in Session : ConnOf[s] = ConnOf[t]

OneActive == \A s, t \in Session : Active(s) /\ Active(t) => s = t

LEMMA OneActiveStep ==
    ASSUME Serial, TypeInv, OneActive, [Next]_vars
    PROVE  OneActive'
  <1> USE DEF TypeInv, TypeOK, OneActive, Active, Goto, handler
  <1>1. ASSUME NEW s \in Session, Begin(s) PROVE OneActive'
    BY <1>1 DEF Begin, Serial
  <1>2. ASSUME NEW s \in Session, HandlerStep(s) PROVE OneActive'
    <2>1. /\ pc[s] \in Running
          /\ \A t \in Session \ {s} : pc'[t] = pc[t]
      BY <1>2
      DEF HandlerStep, GetPlayerState, PreSaveAndChoose, SaveSpinState, PlaceBets,
          PlayNormalSpin, Refund, SaveSpinOutcome, ContributeToJackpot,
          FreeSpinSave, Claim, GetWinFails, SettleBets, LogSpin,
          SavePlayerState, FailSpin
    <2> QED
      BY <2>1
  <1>3. ASSUME NEW s \in Session, ModulePanics(s) \/ ClearSpinState(s)
        PROVE  OneActive'
    BY <1>3 DEF ModulePanics, ClearSpinState
  <1>4. CASE Crash
    BY <1>4 DEF Crash
  <1>5. CASE UNCHANGED vars
    BY <1>5 DEF vars
  <1> QED
    BY <1>1, <1>2, <1>3, <1>4, <1>5 DEF Next

\* The state a handler plays from is the saved one, or a fresh one after a
\* read error; a normal spin that did not lose the state found no free spins in it.
StillAt(s) ==
    /\ pc[s] = "presave" => \/ mem[s] = db
                            \/ s \in defaulted /\ mem[s] = NewPlayerState
    /\ Normal(s) /\ Active(s) => ~IsFreeSpin(db) \/ s \in defaulted
    /\ Free(s) /\ pc[s] \in {"freeSave", "claim", "place", "settle", "log", "save"}
          => mem[s].trigger = db.trigger

\* One handler at a time reads the state, plays from it and saves it.
LEMMA StillStep ==
    ASSUME TypeInv, OneActive, \A s \in Session : StillAt(s), [Next]_vars
    PROVE  \A s \in Session : StillAt(s)'
  <1> DEFINE Goal == \A s \in Session : StillAt(s)'
  <1> USE DEF TypeInv, TypeOK, KindMatches, StillAt, Normal, Free, Goto, handler, Active
  <1>0. ASSUME NEW s \in Session, Active(s), NEW t \in Session \ {s}
        PROVE  ~Active(t)
    BY <1>0 DEF OneActive
  <1>1. ASSUME NEW s \in Session, Begin(s) PROVE Goal
    BY <1>1 DEF Begin, redis
  <1>2. ASSUME NEW s \in Session, GetPlayerState(s) PROVE Goal
    BY <1>2 DEF GetPlayerState, redis
  <1>3. ASSUME NEW s \in Session, PreSaveAndChoose(s) PROVE Goal
    <2>1. Active(s) /\ pc[s] = "presave" /\ pc'[s] \in {"error", "trace", "fail", "freeSave"}
      BY <1>3 DEF PreSaveAndChoose
    <2>2. /\ mem' = mem /\ defaulted' = defaulted /\ db' \in {db, mem[s]}
          /\ \A t \in Session \ {s} : pc'[t] = pc[t] /\ spin'[t] = spin[t]
      BY <1>3 DEF PreSaveAndChoose
    <2>3. \/ pc'[s] \in {"error", "fail"}
          \/ pc'[s] = "trace" /\ spin'[s].type = "normal" /\ ~IsFreeSpin(mem[s])
          \/ pc'[s] = "freeSave" /\ spin'[s].type = "free" /\ IsFreeSpin(mem[s])
      BY <1>3 DEF PreSaveAndChoose, FreeSpinOf, Spin
    <2>4. spin'[s].type = "normal" => pc'[s] = "trace" \/ ~Active(s)'
      BY <1>3, <2>1 DEF PreSaveAndChoose, FreeSpinOf, Spin
    <2>5. ~IsFreeSpin(NewPlayerState)
      BY DEF IsFreeSpin, NewPlayerState
    <2>6. \A t \in Session \ {s} : ~Active(t)
      BY <1>0, <2>1
    <2> QED
      BY <2>1, <2>2, <2>3, <2>4, <2>5, <2>6
  <1>4. ASSUME NEW s \in Session,
               \/ SaveSpinState(s) \/ PlaceBets(s) \/ SaveSpinOutcome(s) \/ Claim(s)
               \/ ContributeToJackpot(s) \/ Refund(s)
        PROVE  Goal
    <2>1. /\ mem' = mem /\ spin' = spin /\ db' = db /\ defaulted' = defaulted
          /\ \A t \in Session \ {s} : pc'[t] = pc[t]
      BY <1>4 DEF SaveSpinState, PlaceBets, SaveSpinOutcome, Claim, Refund,
                  ContributeToJackpot, redis
    <2>2. /\ Active(s) /\ pc'[s] # "presave"
          /\ Normal(s) \/ pc[s] \in {"claim", "place"}
      BY <1>4 DEF SaveSpinState, PlaceBets, SaveSpinOutcome, Claim, Refund,
                  ContributeToJackpot, AfterClaims
    <2> QED
      BY <2>1, <2>2
  <1>5. ASSUME NEW s \in Session, PlayNormalSpin(s) PROVE Goal
    <2>1. /\ mem' = mem /\ spin'[s].type = spin[s].type /\ db' = db
          /\ defaulted' = defaulted
          /\ pc[s] = "play" /\ pc'[s] \in {"tracePost", "refund"}
          /\ \A t \in Session \ {s} : pc'[t] = pc[t] /\ spin'[t] = spin[t]
      BY <1>5 DEF PlayNormalSpin, Spin, redis
    <2> QED
      BY <2>1
  <1>6. ASSUME NEW s \in Session, FreeSpinSave(s) PROVE Goal
    <2> DEFINE more == [mem[s] EXCEPT !.remainingFreeSpin =
                            @ + spin[s].result.resultFreeSpin]
    <2>1. /\ pc[s] = "freeSave" /\ pc'[s] \in {"fail", "claim", "place", "settle"}
          /\ spin' = spin /\ defaulted' = defaulted /\ db' \in {db, mem[s]}
          /\ \A t \in Session \ {s} : pc'[t] = pc[t] /\ mem'[t] = mem[t]
          /\ mem'[s] \in {mem[s], more}
      BY <1>6 DEF FreeSpinSave, AfterClaims
    <2>2. more.trigger = mem[s].trigger
      BY DEF PlayerState
    <2>3. \A t \in Session \ {s} : ~Active(t)
      BY <1>0, <2>1
    <2> HIDE DEF more
    <2> QED
      BY <2>1, <2>2, <2>3
  <1>7. ASSUME NEW s \in Session, SettleBets(s) PROVE Goal
    <2>1. /\ pc[s] = "settle" /\ spin' = spin /\ pc'[s] \in {"log", "fail"}
          /\ db' = db /\ defaulted' = defaulted
          /\ \A t \in Session \ {s} : pc'[t] = pc[t] /\ mem'[t] = mem[t]
      BY <1>7 DEF SettleBets, redis
    <2>2. Free(s) => mem'[s].trigger = mem[s].trigger
      <3>1. AfterFreeSpin(mem[s]).trigger = mem[s].trigger
        BY DEF AfterFreeSpin, PlayerState
      <3>2. Free(s) => mem'[s] \in {mem[s], AfterFreeSpin(mem[s])}
        BY <1>7 DEF SettleBets
      <3> QED
        BY <3>1, <3>2
    <2> QED
      BY <2>1, <2>2
  <1>8. ASSUME NEW s \in Session, SavePlayerState(s) PROVE Goal
    <2>1. /\ pc[s] = "save" /\ pc'[s] \in {"ok", "error"} /\ spin' = spin
          /\ mem' = mem
          /\ \A t \in Session \ {s} : pc'[t] = pc[t]
      BY <1>8 DEF SavePlayerState
    <2>2. \A t \in Session \ {s} : ~Active(t)
      BY <1>0, <2>1
    <2> QED
      BY <2>1, <2>2
  <1>9. ASSUME NEW s \in Session,
               \/ LogSpin(s) \/ FailSpin(s) \/ GetWinFails(s)
               \/ ModulePanics(s) \/ ClearSpinState(s)
        PROVE  Goal
    <2>1. mem' = mem /\ spin' = spin /\ db' = db /\ defaulted' = defaulted
      BY <1>9 DEF LogSpin, FailSpin, GetWinFails, ModulePanics, ClearSpinState, redis
    <2>2. \/ pc' = pc
          \/ /\ \A t \in Session \ {s} : pc'[t] = pc[t]
             /\ \/ pc'[s] \in {"error", "dead"}
                \/ pc[s] = "claim" /\ pc'[s] = "fail"
                \/ pc[s] = "log" /\ pc'[s] = "save"
      BY <1>9 DEF LogSpin, FailSpin, GetWinFails, ModulePanics, ClearSpinState
    <2> QED
      BY <2>1, <2>2
  <1>10. CASE Crash
    BY <1>10 DEF Crash, redis
  <1>11. CASE UNCHANGED vars
    BY <1>11 DEF vars, redis
  <1> QED
    BY <1>1, <1>2, <1>3, <1>4, <1>5, <1>6, <1>7, <1>8, <1>9, <1>10, <1>11
    DEF Next, HandlerStep

SerialInv == OneActive /\ \A s \in Session : StillAt(s)

LEMMA SerialInit == Init => SerialInv
  BY DEF Init, SerialInv, OneActive, StillAt, Active, Normal, Free, NoSpin

\* With the spins of a player on one connection, a handler works on the saved
\* state as if it were alone.
LEMMA SerialKept ==
    ASSUME Serial, TypeInv, SerialInv, [Next]_vars
    PROVE  SerialInv'
  BY OneActiveStep, StillStep DEF SerialInv

\* On one connection no bet is taken while the saved state has free spins
\* left, unless the handler could not read it.
THEOREM NoBetInFreeSpins == Serial => (Spec => NoBetWhileFreeSpinsLeft)
  <1> SUFFICES ASSUME Serial PROVE Spec => NoBetWhileFreeSpinsLeft
    OBVIOUS
  <1> DEFINE NoBet == \A s \in placed' \ placed :
                          Normal(s) /\ IsFreeSpin(db) => s \in defaulted
  <1>1. Init => TypeInv /\ SerialInv
    BY TypeInit, SerialInit
  <1>2. TypeInv /\ SerialInv /\ [Next]_vars => (TypeInv /\ SerialInv)'
    BY TypeStep, SerialKept
  <1>3. TypeInv /\ SerialInv /\ [Next]_vars => [NoBet]_vars
    <2> SUFFICES ASSUME TypeInv, SerialInv, [Next]_vars, NEW s \in placed' \ placed,
                        Normal(s), IsFreeSpin(db)
                 PROVE  s \in defaulted
      OBVIOUS
    <2>1. (\E t \in Session : PlaceBets(t)) \/ UNCHANGED placed
      BY DEF Next, vars, HandlerStep, Begin, GetPlayerState, PreSaveAndChoose,
             SaveSpinState, PlayNormalSpin, Refund, SaveSpinOutcome,
             ContributeToJackpot, FreeSpinSave, Claim, GetWinFails, SettleBets,
             LogSpin, SavePlayerState, FailSpin, ModulePanics, ClearSpinState,
             Crash, wallet
    <2>2. s \in Session /\ pc[s] = "place"
      BY <2>1 DEF PlaceBets, TypeInv, TypeOK
    <2> QED
      BY <2>2 DEF SerialInv, StillAt, Active
  <1> QED
    BY <1>1, <1>2, <1>3, PTL DEF Spec, NoBetWhileFreeSpinsLeft

-----------------------------------------------------------------------------
(***************************************************************************)
(* Free spins answered with success are behind the saved state.            *)
(***************************************************************************)

\* Every free spin answered with success is one that the state counts as
\* played, or belongs to another list.
Beyond(ps) ==
    \A t \in Session :
        pc[t] = "ok" /\ Free(t) => \/ ps.trigger # spin[t].trigger
                                   \/ ps.playedFreeSpin >= spin[t].index

HasTrigger(ps) == ps.isFreeSpin => ps.trigger \in Session

\* The slot of a free spin belongs to a list that was paid for, and is the one
\* its copy moved on to.
OwnSlot(s) ==
    Free(s) =>
        /\ pc[s] \notin {"fail", "error", "dead"} =>
              spin[s].trigger \in Session /\ PaidWin(spin[s].trigger)
        /\ pc[s] \in {"log", "save"} =>
              /\ mem[s].trigger = spin[s].trigger
              /\ mem[s].playedFreeSpin = spin[s].index

SlotAt(s) ==
    /\ HasTrigger(mem[s])
    /\ Active(s) /\ pc[s] # "load" => Beyond(mem[s])
    /\ OwnSlot(s)

SlotInv ==
    /\ Beyond(db) /\ HasTrigger(db)
    /\ \A s \in Session : SlotAt(s)
    /\ FreeSpinPlayedOnce

\* No spin is answered when the service starts.
LEMMA SlotInit == Init => SlotInv
  BY DEF Init, SlotInv, SlotAt, OwnSlot, Beyond, HasTrigger, FreeSpinPlayedOnce,
         NewPlayerState, NoSpin, Free, SameSlot

\* A step that answers no spin with success leaves Beyond to the state itself.
LEMMA BeyondStays ==
    ASSUME TypeInv, \A s \in Session : MoneyOf(s), [Next]_vars, NEW ps, Beyond(ps),
           NEW qs, qs.trigger = ps.trigger, qs.playedFreeSpin >= ps.playedFreeSpin,
           qs.playedFreeSpin \in Nat, ps.playedFreeSpin \in Nat,
           \A t \in Session : pc'[t] = "ok" => pc[t] = "ok"
    PROVE  \A t \in Session :
              pc'[t] = "ok" /\ Free(t)' => \/ qs.trigger # spin'[t].trigger
                                           \/ qs.playedFreeSpin >= spin'[t].index
  <1> SUFFICES ASSUME NEW t \in Session, pc'[t] = "ok", Free(t)',
                      qs.trigger = spin'[t].trigger
               PROVE  qs.playedFreeSpin >= spin'[t].index
    OBVIOUS
  <1>1. pc[t] = "ok" /\ PaidWin(t)
    BY DEF MoneyOf, MoneyAt, PaidWin
  <1>2. spin'[t] = spin[t]
    BY <1>1, PaidStays
  <1>3. ps.playedFreeSpin >= spin[t].index
    BY <1>1, <1>2 DEF Beyond, Free
  <1>4. spin[t].index \in Nat
    BY DEF TypeInv, TypeOK, Spin
  <1> QED
    BY <1>2, <1>3, <1>4

\* Only the final save answers a spin with success.
LEMMA WhoSucceeds ==
    ASSUME TypeInv, [Next]_vars, NEW s \in Session, pc[s] # "ok", pc'[s] = "ok"
    PROVE  SavePlayerState(s)
  <1> USE DEF TypeInv, TypeOK, Goto
  <1>1. ASSUME NEW t \in Session, HandlerStep(t), ~SavePlayerState(t)
        PROVE  pc'[t] # "ok"
    BY <1>1
    DEF HandlerStep, GetPlayerState, PreSaveAndChoose, SaveSpinState, PlaceBets,
        PlayNormalSpin, Refund, SaveSpinOutcome, ContributeToJackpot, AfterClaims,
        FreeSpinSave, Claim, GetWinFails, SettleBets, LogSpin, FailSpin
  <1>2. ASSUME NEW t \in Session \ {s},
               Begin(t) \/ HandlerStep(t) \/ ModulePanics(t) \/ ClearSpinState(t)
        PROVE  FALSE
    BY <1>2, OneSpinMoves DEF SameFor
  <1>3. Begin(s) \/ ModulePanics(s) \/ ClearSpinState(s) => pc'[s] # "ok"
    BY DEF Begin, ModulePanics, ClearSpinState, handler
  <1>4. Crash \/ UNCHANGED vars => pc'[s] # "ok"
    BY DEF Crash, vars, handler
  <1> QED
    BY <1>1, <1>2, <1>3, <1>4 DEF Next

\* A free spin has a list it belongs to.
LEMMA TriggerStep ==
    ASSUME TypeInv, HasTrigger(db), \A s \in Session : HasTrigger(mem[s]), [Next]_vars
    PROVE  HasTrigger(db)' /\ \A s \in Session : HasTrigger(mem[s])'
  <1> DEFINE Goal == HasTrigger(db)' /\ \A s \in Session : HasTrigger(mem[s])'
  <1> USE DEF TypeInv, TypeOK, handler, redis
  <1>1. ASSUME NEW s \in Session, GetPlayerState(s) PROVE Goal
    <2>1. HasTrigger(NewPlayerState)
      BY DEF HasTrigger, NewPlayerState
    <2> QED
      BY <1>1, <2>1 DEF GetPlayerState
  <1>2. ASSUME NEW s \in Session, PreSaveAndChoose(s) \/ SavePlayerState(s) PROVE Goal
    BY <1>2 DEF PreSaveAndChoose, SavePlayerState
  <1>3. ASSUME NEW s \in Session, FreeSpinSave(s) PROVE Goal
    <2> DEFINE more == [mem[s] EXCEPT !.remainingFreeSpin =
                            @ + spin[s].result.resultFreeSpin]
    <2>1. HasTrigger(more)
      BY DEF HasTrigger, PlayerState
    <2>2. /\ mem' \in {mem, [mem EXCEPT ![s] = more]}
          /\ db' \in {db, mem[s]}
      BY <1>3 DEF FreeSpinSave
    <2> HIDE DEF more
    <2> QED
      BY <2>1, <2>2
  <1>4. ASSUME NEW s \in Session, SettleBets(s) PROVE Goal
    <2> DEFINE after == IF Normal(s) THEN AfterNormalSpin(s, mem[s])
                                     ELSE AfterFreeSpin(mem[s])
    <2>1. HasTrigger(after)
      BY DEF HasTrigger, AfterNormalSpin, FreeSpinsWon, Reset, AfterFreeSpin, PlayerState
    <2>2. mem' \in {mem, [mem EXCEPT ![s] = after]} /\ db' = db
      BY <1>4 DEF SettleBets, Normal
    <2> HIDE DEF after
    <2> QED
      BY <2>1, <2>2
  <1>5. CASE UNCHANGED <<db, mem>>
    BY <1>5
  <1>6. \/ \E s \in Session : \/ GetPlayerState(s) \/ PreSaveAndChoose(s)
                              \/ FreeSpinSave(s) \/ SettleBets(s)
                              \/ SavePlayerState(s)
        \/ UNCHANGED <<db, mem>>
    BY DEF Next, vars, HandlerStep, Begin, SaveSpinState, PlaceBets,
           PlayNormalSpin, Refund, SaveSpinOutcome, ContributeToJackpot,
           Claim, GetWinFails, LogSpin, FailSpin, ModulePanics,
           ClearSpinState, Crash
  <1> QED
    BY <1>1, <1>2, <1>3, <1>4, <1>5, <1>6

\* A handler's copy changes only where its own handler reads the state or
\* moves it on.
LEMMA CopyStays ==
    ASSUME TypeOK, [Next]_vars, NEW s \in Session,
           ~(GetPlayerState(s) \/ FreeSpinSave(s) \/ SettleBets(s))
    PROVE  mem'[s] = mem[s]
  <1> USE DEF TypeOK, Goto, handler
  <1>1. ASSUME NEW r \in Session, r # s,
               GetPlayerState(r) \/ FreeSpinSave(r) \/ SettleBets(r)
        PROVE  mem'[s] = mem[s]
    BY <1>1 DEF GetPlayerState, FreeSpinSave, SettleBets
  <1>2. ASSUME NEW r \in Session, HandlerStep(r),
               ~(GetPlayerState(r) \/ FreeSpinSave(r) \/ SettleBets(r))
        PROVE  mem' = mem
    BY <1>2 DEF HandlerStep, PreSaveAndChoose, SavePlayerState, SaveSpinState, PlaceBets,
           PlayNormalSpin, Refund, SaveSpinOutcome, ContributeToJackpot,
           Claim, GetWinFails, LogSpin, FailSpin
  <1>3. ASSUME NEW r \in Session, Begin(r) \/ ModulePanics(r) \/ ClearSpinState(r)
        PROVE  mem' = mem
    BY <1>3 DEF Begin, ModulePanics, ClearSpinState
  <1>4. CASE Crash \/ UNCHANGED vars
    BY <1>4 DEF Crash, vars
  <1> QED
    BY <1>1, <1>2, <1>3, <1>4 DEF Next

\* What is saved is the copy of the handler that saves it, once it has one.
LEMMA SavesOwnCopy ==
    ASSUME TypeOK, [Next]_vars
    PROVE  db' = db \/ \E s \in Session : Active(s) /\ pc[s] # "load" /\ db' = mem[s]
  <1>1. ASSUME NEW s \in Session,
               PreSaveAndChoose(s) \/ FreeSpinSave(s) \/ SavePlayerState(s)
        PROVE  Active(s) /\ pc[s] # "load" /\ db' \in {db, mem[s]}
    <2>1. CASE PreSaveAndChoose(s)
      BY <2>1 DEF PreSaveAndChoose, Active
    <2>2. CASE FreeSpinSave(s)
      BY <2>2 DEF FreeSpinSave, Active
    <2>3. CASE SavePlayerState(s)
      BY <2>3 DEF SavePlayerState, Active
    <2> QED
      BY <1>1, <2>1, <2>2, <2>3
  <1>2. ASSUME NEW s \in Session, HandlerStep(s),
               ~(PreSaveAndChoose(s) \/ FreeSpinSave(s) \/ SavePlayerState(s))
        PROVE  db' = db
    BY <1>2 DEF HandlerStep, GetPlayerState, SettleBets, SaveSpinState, PlaceBets,
           PlayNormalSpin, Refund, SaveSpinOutcome, ContributeToJackpot,
           Claim, GetWinFails, LogSpin, FailSpin, redis
  <1>3. ASSUME NEW s \in Session, Begin(s) \/ ModulePanics(s) \/ ClearSpinState(s)
        PROVE  db' = db
    BY <1>3 DEF Begin, ModulePanics, ClearSpinState, redis
  <1>4. CASE Crash \/ UNCHANGED vars
    BY <1>4 DEF Crash, vars, redis
  <1> QED
    BY <1>1, <1>2, <1>3, <1>4 DEF Next

\* Which spin a handler plays changes only where it is chosen and played.
LEMMA SpinStays ==
    ASSUME TypeOK, [Next]_vars, NEW s \in Session,
           ~(PreSaveAndChoose(s) \/ PlayNormalSpin(s))
    PROVE  spin'[s] = spin[s]
  <1>1. ASSUME NEW r \in Session, r # s,
               Begin(r) \/ HandlerStep(r) \/ ModulePanics(r) \/ ClearSpinState(r)
        PROVE  spin'[s] = spin[s]
    BY <1>1, OneSpinMoves DEF SameFor
  <1>2. CASE HandlerStep(s)
    BY <1>2 DEF HandlerStep, GetPlayerState, SettleBets, SaveSpinState, PlaceBets,
           FreeSpinSave, SavePlayerState, Refund, SaveSpinOutcome, ContributeToJackpot,
           Claim, GetWinFails, LogSpin, FailSpin, handler
  <1>3. CASE Begin(s) \/ ModulePanics(s) \/ ClearSpinState(s)
    BY <1>3 DEF Begin, ModulePanics, ClearSpinState, handler
  <1>4. CASE Crash \/ UNCHANGED vars
    BY <1>4 DEF Crash, vars, handler
  <1> QED
    BY <1>1, <1>2, <1>3, <1>4 DEF Next

\* While no spin is answered with success, what a handler plays is beyond the
\* free spins that were.
LEMMA SlotStepRunning ==
    ASSUME TypeInv, \A s \in Session : MoneyOf(s) /\ Listed(s), AwardsArePaid,
           PlaysNext, SlotInv, [Next]_vars,
           \A s \in Session : pc'[s] = "ok" => pc[s] = "ok"
    PROVE  /\ Beyond(db)'
           /\ \A s \in Session : Active(s)' /\ pc'[s] # "load" => Beyond(mem[s])'
           /\ FreeSpinPlayedOnce'
  <1> DEFINE Past(s) == Active(s) /\ pc[s] # "load"
  <1> USE DEF TypeInv, TypeOK, Active, Goto, SlotInv, handler, redis
  <1>1. \/ db' = db
        \/ \E s \in Session : Past(s) /\ db' = mem[s]
    BY SavesOwnCopy
  <1>2. ASSUME NEW s \in Session, Past(s)'
        PROVE  \/ \E ps \in {mem[s], db} :
                     /\ Beyond(ps)
                     /\ mem'[s].trigger = ps.trigger
                     /\ mem'[s].playedFreeSpin \in {ps.playedFreeSpin, ps.playedFreeSpin + 1}
               \/ mem'[s].trigger = NoSession
               \/ mem'[s].trigger = s /\ settled[s] = "no"
    <2>1. CASE GetPlayerState(s)
      BY <1>2, <2>1 DEF GetPlayerState, NewPlayerState
    <2>2. CASE FreeSpinSave(s)
      <3> DEFINE more == [mem[s] EXCEPT !.remainingFreeSpin =
                              @ + spin[s].result.resultFreeSpin]
      <3>1. more.trigger = mem[s].trigger /\ more.playedFreeSpin = mem[s].playedFreeSpin
        BY DEF PlayerState
      <3>2. mem'[s] \in {mem[s], more} /\ Beyond(mem[s])
        BY <2>2 DEF FreeSpinSave, SlotAt
      <3> HIDE DEF more
      <3> QED
        BY <3>1, <3>2
    <2>3. CASE SettleBets(s)
      <3> DEFINE after == IF Normal(s) THEN AfterNormalSpin(s, mem[s])
                                       ELSE AfterFreeSpin(mem[s])
      <3>1. pc[s] = "settle" /\ mem'[s] \in {mem[s], after} /\ Beyond(mem[s])
        BY <2>3 DEF SettleBets, Normal, SlotAt
      <3>2. Normal(s) => \/ after = mem[s]
                         \/ after.trigger \in {s, NoSession}
        BY DEF AfterNormalSpin, FreeSpinsWon, Reset, PlayerState
      <3>3. ~Normal(s) => /\ after.trigger = mem[s].trigger
                          /\ after.playedFreeSpin = mem[s].playedFreeSpin + 1
        BY DEF AfterFreeSpin, PlayerState
      <3>4. Normal(s) => settled[s] = "no"
        BY <3>1 DEF MoneyOf, MoneyAt
      <3> HIDE DEF after
      <3> QED
        BY <3>1, <3>2, <3>3, <3>4
    <2>4. CASE ~(GetPlayerState(s) \/ FreeSpinSave(s) \/ SettleBets(s))
      <3>1. mem'[s] = mem[s]
        BY <2>4, CopyStays
      <3>2. Past(s)
        <4>1. Begin(s) => pc'[s] = "load"
          BY DEF Begin
        <4>2. CASE HandlerStep(s)
          BY <2>4, <4>2 DEF HandlerStep, PreSaveAndChoose, SavePlayerState,
             SaveSpinState, PlaceBets, PlayNormalSpin, Refund, SaveSpinOutcome,
             ContributeToJackpot, Claim, GetWinFails, LogSpin, FailSpin
        <4>3. ModulePanics(s) \/ ClearSpinState(s) => pc'[s] \in {"dead", pc[s]}
          BY DEF ModulePanics, ClearSpinState
        <4>4. Crash \/ UNCHANGED vars => pc'[s] \in {"dead", pc[s]}
          BY DEF Crash, vars
        <4>5. ASSUME NEW t \in Session \ {s},
                     Begin(t) \/ HandlerStep(t) \/ ModulePanics(t) \/ ClearSpinState(t)
              PROVE  pc'[s] = pc[s]
          BY <4>5, OneSpinMoves DEF SameFor
        <4> QED
          BY <1>2, <4>1, <4>2, <4>3, <4>4, <4>5 DEF Next
      <3> QED
        BY <3>1, <3>2 DEF SlotAt
    <2> QED
      BY <2>1, <2>2, <2>3, <2>4
  <1>3. Beyond(db)'
    <2>1. PICK ps \in {db} \cup {mem[s] : s \in Session} : Beyond(ps) /\ db' = ps
      BY <1>1 DEF SlotAt
    <2>2. ps.playedFreeSpin \in Nat
      BY <2>1 DEF PlayerState
    <2> QED
      BY <2>1, <2>2, BeyondStays DEF Beyond
  <1>4. ASSUME NEW t \in Session, pc'[t] = "ok", Free(t)'
        PROVE  /\ spin'[t] = spin[t] /\ pc[t] = "ok" /\ Free(t)
               /\ spin[t].trigger \in Session /\ PaidWin(spin[t].trigger)
    <2>1. pc[t] = "ok" /\ PaidWin(t)
      BY <1>4 DEF MoneyOf, MoneyAt, PaidWin
    <2>2. spin'[t] = spin[t]
      BY <2>1, PaidStays
    <2> QED
      BY <1>4, <2>1, <2>2 DEF SlotAt, OwnSlot, Free
  <1>5. ASSUME NEW s \in Session, Past(s)' PROVE Beyond(mem[s])'
    <2>1. CASE \E ps \in {mem[s], db} :
                  /\ Beyond(ps)
                  /\ mem'[s].trigger = ps.trigger
                  /\ mem'[s].playedFreeSpin \in {ps.playedFreeSpin, ps.playedFreeSpin + 1}
      <3>1. PICK ps \in {mem[s], db} :
                  /\ Beyond(ps)
                  /\ mem'[s].trigger = ps.trigger
                  /\ mem'[s].playedFreeSpin \in {ps.playedFreeSpin, ps.playedFreeSpin + 1}
        BY <2>1
      <3>2. /\ ps.playedFreeSpin \in Nat /\ mem'[s].playedFreeSpin \in Nat
            /\ mem'[s].playedFreeSpin >= ps.playedFreeSpin
        BY <3>1 DEF PlayerState
      <3> QED
        BY <3>1, <3>2, BeyondStays DEF Beyond
    <2>2. CASE \/ mem'[s].trigger = NoSession
               \/ mem'[s].trigger = s /\ settled[s] = "no"
      BY <1>4, <2>2 DEF Beyond, PaidWin
    <2> QED
      BY <1>2, <1>5, <2>1, <2>2
  <1>6. FreeSpinPlayedOnce'
    <2> SUFFICES ASSUME NEW s \in Session, NEW t \in Session, s # t,
                        pc'[t] = "ok", Active(s)', SameSlot(s, t)'
                 PROVE  FALSE
      BY DEF FreeSpinPlayedOnce
    <2>1. /\ spin'[t] = spin[t] /\ pc[t] = "ok" /\ Free(t)
          /\ spin[t].trigger \in Session
      BY <1>4 DEF SameSlot, Free
    <2>2. CASE PreSaveAndChoose(s)
      <3>1. pc[s] = "presave" /\ Beyond(mem[s]) /\ spin[s] = NoSpin
        BY <2>2 DEF PreSaveAndChoose, SlotAt, Listed
      <3>2. \/ spin'[s] = FreeSpinOf(mem[s])
            \/ spin'[s].type = "normal"
            \/ spin'[s].trigger = NoSession
            \/ pc'[s] = "error"
        BY <2>2, <3>1 DEF PreSaveAndChoose, NoSpin
      <3>3. /\ FreeSpinOf(mem[s]).trigger = mem[s].trigger
            /\ FreeSpinOf(mem[s]).index = mem[s].playedFreeSpin + 1
            /\ mem[s].playedFreeSpin \in Nat
        BY DEF FreeSpinOf, PlayerState
      <3>4. spin[t].index \in Nat
        BY DEF Spin
      <3> QED
        BY <2>1, <3>1, <3>2, <3>3, <3>4 DEF Beyond, SameSlot, Free
    <2>3. CASE PlayNormalSpin(s)
      <3>1. spin'[s].type = "normal"
        BY <2>3 DEF PlayNormalSpin, KindMatches, Normal, Spin
      <3> QED
        BY <3>1 DEF SameSlot, Free
    <2>4. CASE ~(PreSaveAndChoose(s) \/ PlayNormalSpin(s))
      <3>1. spin'[s] = spin[s]
        BY <2>4, SpinStays
      <3>2. Active(s) \/ spin[s] = NoSpin
        <4>1. CASE Begin(s)
          BY <4>1 DEF Begin, Listed
        <4>2. CASE HandlerStep(s)
          BY <4>2 DEF HandlerStep, GetPlayerState, PreSaveAndChoose, SavePlayerState,
             SaveSpinState, PlaceBets, PlayNormalSpin, Refund, SaveSpinOutcome,
             ContributeToJackpot, Claim, GetWinFails, LogSpin, FailSpin, FreeSpinSave,
             SettleBets
        <4>3. ModulePanics(s) \/ ClearSpinState(s) => pc'[s] \in {"dead", pc[s]}
          BY DEF ModulePanics, ClearSpinState
        <4>4. Crash \/ UNCHANGED vars => pc'[s] \in {"dead", pc[s]}
          BY DEF Crash, vars
        <4>5. ASSUME NEW r \in Session \ {s},
                     Begin(r) \/ HandlerStep(r) \/ ModulePanics(r) \/ ClearSpinState(r)
              PROVE  pc'[s] = pc[s]
          BY <4>5, OneSpinMoves DEF SameFor
        <4> QED
          BY <4>1, <4>2, <4>3, <4>4, <4>5 DEF Next
      <3>3. CASE Active(s)
        BY <2>1, <3>1, <3>3 DEF FreeSpinPlayedOnce, SameSlot, Free
      <3>4. CASE spin[s] = NoSpin
        BY <3>1, <3>4 DEF SameSlot, Free, NoSpin
      <3> QED
        BY <3>2, <3>3, <3>4
    <2> QED
      BY <2>2, <2>3, <2>4
  <1> QED
    BY <1>3, <1>5, <1>6

\* The spin that is answered with success is behind the state it saved.
LEMMA SlotStepSaved ==
    ASSUME TypeInv, OneActive, SlotInv, NEW s \in Session, SavePlayerState(s),
           pc'[s] = "ok"
    PROVE  /\ Beyond(db)'
           /\ \A t \in Session : Active(t)' /\ pc'[t] # "load" => Beyond(mem[t])'
           /\ FreeSpinPlayedOnce'
  <1> USE DEF TypeInv, TypeOK, Active, Goto, SlotInv, handler, redis
  <1>1. /\ pc[s] = "save" /\ db' = mem[s] /\ spin' = spin /\ mem' = mem
        /\ pc' = [pc EXCEPT ![s] = "ok"]
    BY DEF SavePlayerState, TakesEffect
  <1>2. \A t \in Session : ~Active(t)'
    BY <1>1 DEF OneActive
  <1>3. Beyond(mem[s]) /\ SlotAt(s) /\ mem[s].playedFreeSpin \in Nat
    BY <1>1 DEF SlotAt, PlayerState
  <1>4. Beyond(db)'
    BY <1>1, <1>3 DEF Beyond, SlotAt, OwnSlot, Free
  <1> QED
    BY <1>2, <1>4 DEF FreeSpinPlayedOnce

\* The slot of a free spin is that of the copy it moved on, and its list has
\* been paid for.
LEMMA SlotOfStep ==
    ASSUME TypeInv, \A s \in Session : MoneyOf(s) /\ Listed(s), AwardsArePaid,
           PlaysNext, SlotInv, [Next]_vars, NEW s \in Session
    PROVE  OwnSlot(s)'
  <1> SUFFICES ASSUME Free(s)' PROVE OwnSlot(s)'
    BY DEF OwnSlot
  <1> USE DEF TypeInv, TypeOK, KindMatches, Normal, Goto, SlotInv, PaidWin, OwnSlot,
              handler
  <1>1. \A t \in Session : PaidWin(t) => PaidWin(t)'
    BY PaidStays
  <1>2. CASE PreSaveAndChoose(s)
    <2>1. /\ mem' = mem
          /\ \/ spin'[s] = FreeSpinOf(mem[s]) /\ IsFreeSpin(mem[s])
             \/ spin'[s].type # "free"
             \/ pc'[s] \in {"fail", "error"}
      BY <1>2 DEF PreSaveAndChoose, Spin
    <2>2. pc'[s] \notin {"log", "save"}
      BY <1>2 DEF PreSaveAndChoose
    <2>3. FreeSpinOf(mem[s]).trigger = mem[s].trigger
      BY DEF FreeSpinOf
    <2>4. IsFreeSpin(mem[s]) => mem[s].trigger \in Session /\ PaidWin(mem[s].trigger)
      BY DEF IsFreeSpin, SlotAt, HasTrigger, AwardsArePaid
    <2> QED
      BY <1>1, <2>1, <2>2, <2>3, <2>4 DEF Free
  <1>3. CASE SettleBets(s)
    <2>1. /\ pc[s] = "settle" /\ spin' = spin /\ pc'[s] \in {"log", "fail"}
          /\ pc'[s] = "log" /\ Free(s) => mem'[s] = AfterFreeSpin(mem[s])
      BY <1>3 DEF SettleBets, Free
    <2>2. /\ AfterFreeSpin(mem[s]).trigger = mem[s].trigger
          /\ AfterFreeSpin(mem[s]).playedFreeSpin = mem[s].playedFreeSpin + 1
      BY DEF AfterFreeSpin, PlayerState
    <2> QED
      BY <1>1, <2>1, <2>2 DEF SlotAt, PlaysNext, Free
  <1>4. CASE ~(PreSaveAndChoose(s) \/ SettleBets(s))
    <2>1. /\ spin'[s].type = spin[s].type
          /\ Free(s) => spin'[s] = spin[s]
      <3>1. CASE PlayNormalSpin(s)
        BY <3>1 DEF PlayNormalSpin, Spin, Free
      <3>2. CASE ~PlayNormalSpin(s)
        BY <1>4, <3>2, SpinStays
      <3> QED
        BY <3>1, <3>2
    <2>2. Free(s)
      BY <2>1 DEF Free
    <2>3. /\ pc'[s] \in {"fail", "error", "dead"} \/ pc[s] \notin {"fail", "error", "dead"}
          /\ pc'[s] \in {"log", "save"} => pc[s] \in {"log", "save"} /\ mem'[s] = mem[s]
      <3>1. CASE HandlerStep(s)
        BY <1>4, <3>1 DEF HandlerStep, GetPlayerState, PreSaveAndChoose, SavePlayerState,
             SaveSpinState, PlaceBets, PlayNormalSpin, Refund, SaveSpinOutcome,
             ContributeToJackpot, Claim, GetWinFails, LogSpin, FailSpin, FreeSpinSave,
             SettleBets, AfterClaims
      <3>2. CASE Begin(s) \/ ModulePanics(s) \/ ClearSpinState(s)
        BY <3>2 DEF Begin, ModulePanics, ClearSpinState
      <3>3. CASE Crash \/ UNCHANGED vars
        BY <3>3 DEF Crash, vars, Active
      <3>4. ASSUME NEW r \in Session \ {s},
                   Begin(r) \/ HandlerStep(r) \/ ModulePanics(r) \/ ClearSpinState(r)
            PROVE  pc'[s] = pc[s] /\ mem'[s] = mem[s]
        <4>1. pc'[s] = pc[s]
          BY <3>4, OneSpinMoves DEF SameFor
        <4>2. mem'[s] = mem[s]
          BY <3>4 DEF HandlerStep, Begin, GetPlayerState, FreeSpinSave, SavePlayerState,
             SaveSpinState, PlaceBets, PreSaveAndChoose, SettleBets,
             PlayNormalSpin, Refund, SaveSpinOutcome, ContributeToJackpot,
             Claim, GetWinFails, LogSpin, FailSpin, ModulePanics, ClearSpinState
        <4> QED
          BY <4>1, <4>2
      <3> QED
        BY <3>1, <3>2, <3>3, <3>4 DEF Next
    <2> QED
      BY <1>1, <2>1, <2>2, <2>3 DEF SlotAt
  <1> QED
    BY <1>2, <1>3, <1>4

\* Every step keeps the free spins answered with success behind the states
\* that are saved or played from.
LEMMA SlotStep ==
    ASSUME TypeInv, \A s \in Session : MoneyOf(s) /\ Listed(s), AwardsArePaid,
           PlaysNext, OneActive, SlotInv, [Next]_vars
    PROVE  SlotInv'
  <1>1. /\ Beyond(db)'
        /\ \A s \in Session : Active(s)' /\ pc'[s] # "load" => Beyond(mem[s])'
        /\ FreeSpinPlayedOnce'
    <2>1. CASE \A s \in Session : pc'[s] = "ok" => pc[s] = "ok"
      BY <2>1, SlotStepRunning
    <2>2. ASSUME NEW s \in Session, pc'[s] = "ok", pc[s] # "ok"
          PROVE  SavePlayerState(s)
      BY <2>2, WhoSucceeds
    <2> QED
      BY <2>1, <2>2, SlotStepSaved
  <1>2. HasTrigger(db)' /\ \A s \in Session : HasTrigger(mem[s])'
    BY TriggerStep DEF SlotInv, SlotAt
  <1>3. \A s \in Session : OwnSlot(s)'
    BY SlotOfStep
  <1>4. \A s \in Session : SlotAt(s)'
    BY <1>1, <1>2, <1>3 DEF SlotAt
  <1> QED
    BY <1>1, <1>2, <1>4 DEF SlotInv

\* What holds of the spins of one connection.
ServiceInv ==
    /\ TypeInv /\ MoneyInv /\ OrderInv /\ SerialInv /\ SlotInv
    /\ \A s \in Session : Listed(s)

LEMMA ServiceInvariant == Serial => (Spec => []ServiceInv)
  <1> SUFFICES ASSUME Serial PROVE Spec => []ServiceInv
    OBVIOUS
  <1>1. Init => ServiceInv
    BY TypeInit, MoneyInit, OrderInit, SerialInit, SlotInit, CountInit
    DEF ServiceInv, CountInv
  <1>2. ASSUME ServiceInv, [Next]_vars PROVE ServiceInv'
    BY <1>2, TypeStep, MoneyStep, MoneyInvSplit, OrderStep, SerialKept, ListedStep,
       SlotStep
    DEF ServiceInv, OrderInv, SerialInv
  <1> QED
    BY <1>1, <1>2, PTL DEF Spec

\* On one connection a free spin answered with success is never played again,
\* also when saves fail after taking effect and spins are retried.
THEOREM PlayedOnce == Serial => (Spec => []FreeSpinPlayedOnce)
  <1>1. ServiceInv => FreeSpinPlayedOnce
    BY DEF ServiceInv, SlotInv
  <1> QED
    BY <1>1, ServiceInvariant, PTL

-----------------------------------------------------------------------------
(***************************************************************************)
(* Free spins announced to the player.                                     *)
(***************************************************************************)

AllPlayable ==
    \A result \in NormalResults : result.resultFreeSpin > 0 => Playable(result)

\* A state in free spins has the list of the spin that won them, and leaves
\* free spins at the end of that list.
AwardIn(spins, ps) ==
    ps.trigger \in Session =>
        LET result == spins[ps.trigger].result
        IN  /\ result \in NormalResults /\ result.resultFreeSpin > 0
            /\ ps.freeSpins = result.freeSpinBets
            /\ ps.isFreeSpin <=> ps.playedFreeSpin < Len(ps.freeSpins)

Award(ps) == AwardIn(spin, ps)

AwardInv == Award(db) /\ \A s \in Session : Award(mem[s])

\* A list won is not empty.
LEMMA WonAward ==
    ASSUME NEW s \in Session, spin[s].result \in NormalResults,
           spin[s].result.resultFreeSpin > 0, Playable(spin[s].result)
    PROVE  Award(FreeSpinsWon(s))
  <1> DEFINE result == spin[s].result
             granted == GrantedAfter(result.freeSpinBets, 0)
             size == Len(result.freeSpinBets)
  <1>1. /\ result.resultFreeSpin \in Nat /\ result.freeSpinBets \in Seq(FreeResult)
        /\ granted \in Nat
    BY GrantedStep DEF NormalResult
  <1>2. size = result.resultFreeSpin + granted
    BY DEF Playable, ListsRetriggers
  <1>3. 0 < size
    <2> HIDE DEF granted, size
    <2> QED
      BY <1>1, <1>2
  <1> QED
    BY <1>3 DEF Award, AwardIn, FreeSpinsWon

\* A free spin ends the free spins when it is the last of its list, and only
\* then.
LEMMA PlayedAward ==
    ASSUME NEW ps \in PlayerState, Award(ps), AllPlayable, ps.isFreeSpin,
           ps.playedFreeSpin < Len(ps.freeSpins),
           AddsUp(ps, ps.freeSpins[ps.playedFreeSpin + 1].resultFreeSpin)
    PROVE  Award(AfterFreeSpin(ps))
  <1> SUFFICES ASSUME ps.trigger \in Session PROVE Award(AfterFreeSpin(ps))
    BY DEF Award, AwardIn, AfterFreeSpin, PlayerState
  <1> DEFINE n == ps.playedFreeSpin + 1
             list == ps.freeSpins
             size == Len(list)
             granted == GrantedAfter(list, n)
             left == ps.remainingFreeSpin - 1
  <1>1. n \in 1..size /\ granted \in Nat /\ left + n + granted = size
    BY PlayedLeaves
  <1>2. list \in Seq(FreeResult) /\ size \in Nat /\ left \in Int
    BY DEF PlayerState
  <1>3. n < size => n + granted < size
    <2>1. \A m \in 0..(size - 1) : m + GrantedAfter(list, m) < size
      BY DEF Award, AwardIn, AllPlayable, Playable
    <2> QED
      BY <1>1, <1>2, <2>1
  <1>4. n = size => granted = 0
    <2>1. n \in 0..Len(list)
      BY <1>1, <1>2
    <2> HIDE DEF n, list
    <2> QED
      BY <1>2, <2>1, GrantedStep
  <1>5. left # 0 <=> n < size
    <2> HIDE DEF n, size, granted, left
    <2> QED
      BY <1>1, <1>2, <1>3, <1>4
  <1>6. /\ AfterFreeSpin(ps).playedFreeSpin = n
        /\ AfterFreeSpin(ps).freeSpins = list
        /\ AfterFreeSpin(ps).trigger = ps.trigger
        /\ AfterFreeSpin(ps).isFreeSpin <=> left # 0
    BY DEF AfterFreeSpin, PlayerState
  <1> QED
    BY <1>5, <1>6 DEF Award, AwardIn

LEMMA AwardInit == Init => AwardInv
  BY DEF Init, AwardInv, Award, AwardIn, NewPlayerState

\* What a copy of the player state says of the spin that won its list stays
\* true, since that spin has been paid.
LEMMA AwardCopied ==
    ASSUME TypeInv, \A s \in Session : MoneyOf(s), [Next]_vars,
           NEW ps, Award(ps), ps.trigger \in Session => PaidWin(ps.trigger),
           NEW qs, qs.trigger = ps.trigger, qs.freeSpins = ps.freeSpins,
           qs.isFreeSpin = ps.isFreeSpin, qs.playedFreeSpin = ps.playedFreeSpin
    PROVE  AwardIn(spin', qs)
  <1>1. ps.trigger \in Session => spin'[ps.trigger] = spin[ps.trigger]
    BY PaidStays
  <1> QED
    BY <1>1 DEF Award, AwardIn

\* Every step keeps the saved list that of the spin that won it.
LEMMA AwardStep ==
    ASSUME TypeInv, \A s \in Session : MoneyOf(s), AwardsArePaid, CountInv,
           AllPlayable, AwardInv, [Next]_vars
    PROVE  AwardIn(spin', db') /\ \A s \in Session : AwardIn(spin', mem'[s])
  <1> DEFINE Goal == AwardIn(spin', db') /\ \A s \in Session : AwardIn(spin', mem'[s])
  <1> USE DEF TypeInv, TypeOK, AwardInv, handler, redis
  <1>1. /\ AwardIn(spin', db)
        /\ \A s \in Session : AwardIn(spin', mem[s])
    BY AwardCopied DEF AwardsArePaid
  <1>2. /\ AwardIn(spin', NewPlayerState)
        /\ \A ps \in PlayerState : AwardIn(spin', Reset(ps))
    BY DEF AwardIn, NewPlayerState, Reset, PlayerState
  <1>3. ASSUME NEW s \in Session, GetPlayerState(s) PROVE Goal
    BY <1>1, <1>2, <1>3 DEF GetPlayerState
  <1>4. ASSUME NEW s \in Session, PreSaveAndChoose(s) \/ SavePlayerState(s) PROVE Goal
    BY <1>1, <1>4 DEF PreSaveAndChoose, SavePlayerState
  <1>5. ASSUME NEW s \in Session, FreeSpinSave(s) PROVE Goal
    <2> DEFINE more == [mem[s] EXCEPT !.remainingFreeSpin =
                            @ + spin[s].result.resultFreeSpin]
    <2>1. AwardIn(spin', more)
      BY <1>1 DEF AwardIn, PlayerState
    <2>2. mem' \in {mem, [mem EXCEPT ![s] = more]} /\ db' \in {db, mem[s]}
      BY <1>5 DEF FreeSpinSave
    <2> HIDE DEF more
    <2> QED
      BY <1>1, <2>1, <2>2
  <1>6. ASSUME NEW s \in Session, SettleBets(s) PROVE Goal
    <2> DEFINE after == IF Normal(s) THEN AfterNormalSpin(s, mem[s])
                                     ELSE AfterFreeSpin(mem[s])
    <2>1. /\ mem' \in {mem, [mem EXCEPT ![s] = after]} /\ db' = db
          /\ spin' = spin /\ pc[s] = "settle"
      BY <1>6 DEF SettleBets, Normal
    <2>2. CASE Normal(s)
      <3>1. /\ spin[s].result \in NormalResults \cup {NoResult}
            /\ NoResult.resultFreeSpin = 0
        BY <2>2 DEF CountInv, Listed, NoResult
      <3>2. spin[s].result.resultFreeSpin > 0 => Award(FreeSpinsWon(s))
        BY <3>1, WonAward DEF AllPlayable
      <3>3. AwardIn(spin', AfterNormalSpin(s, mem[s]))
        BY <1>1, <1>2, <2>1, <3>2 DEF AfterNormalSpin, Award
      <3> HIDE DEF after
      <3> QED
        BY <1>1, <2>1, <2>2, <3>3 DEF after
    <2>3. CASE Free(s)
      <3>1. /\ NextListed(mem[s], spin[s])
            /\ AddsUp(mem[s], spin[s].result.resultFreeSpin)
        BY <2>1, <2>3 DEF CountInv, Listed, Saves, Retrigger
      <3>2. Award(AfterFreeSpin(mem[s]))
        BY <3>1, PlayedAward DEF NextListed
      <3>3. ~Normal(s)
        BY <2>3 DEF Free, Normal
      <3> HIDE DEF after
      <3> QED
        BY <1>1, <2>1, <3>2, <3>3 DEF after, Award
    <2> QED
      BY <2>1, <2>2, <2>3 DEF KindMatches
  <1>7. CASE UNCHANGED <<db, mem>>
    BY <1>1, <1>7
  <1>8. \/ \E s \in Session : \/ GetPlayerState(s) \/ PreSaveAndChoose(s)
                              \/ FreeSpinSave(s) \/ SettleBets(s)
                              \/ SavePlayerState(s)
        \/ UNCHANGED <<db, mem>>
    BY DEF Next, vars, HandlerStep, Begin, SaveSpinState, PlaceBets,
           PlayNormalSpin, Refund, SaveSpinOutcome, ContributeToJackpot,
           Claim, GetWinFails, LogSpin, FailSpin, ModulePanics,
           ClearSpinState, Crash
  <1> QED
    BY <1>3, <1>4, <1>5, <1>6, <1>7, <1>8

\* A spin that won free spins is about to save them.
KeptAt(s) ==
    Normal(s) /\ pc[s] \in {"log", "save"} /\ spin[s].result.resultFreeSpin > 0
        => mem[s].trigger = s

LEMMA KeptStep ==
    ASSUME TypeInv, NEW s \in Session, KeptAt(s), [Next]_vars
    PROVE  KeptAt(s)'
  <1> USE DEF TypeInv, TypeOK, KeptAt, Normal, Goto, handler
  <1>1. CASE SettleBets(s)
    <2>1. FreeSpinsWon(s).trigger = s
      BY DEF FreeSpinsWon
    <2>2. /\ spin' = spin
          /\ pc'[s] \in {"log", "save"} /\ Normal(s)
                => mem'[s] = AfterNormalSpin(s, mem[s])
      BY <1>1 DEF SettleBets
    <2> QED
      BY <2>1, <2>2 DEF AfterNormalSpin
  <1>2. CASE HandlerStep(s) /\ ~SettleBets(s)
    BY <1>2 DEF HandlerStep, GetPlayerState, PreSaveAndChoose, SavePlayerState,
         SaveSpinState, PlaceBets, PlayNormalSpin, Refund, SaveSpinOutcome,
         ContributeToJackpot, Claim, GetWinFails, LogSpin, FailSpin, FreeSpinSave,
         AfterClaims
  <1>3. CASE Begin(s) \/ ModulePanics(s) \/ ClearSpinState(s)
    BY <1>3 DEF Begin, ModulePanics, ClearSpinState
  <1>4. CASE Crash \/ UNCHANGED vars
    BY <1>4 DEF Crash, vars, Active
  <1>5. ASSUME NEW r \in Session \ {s},
               Begin(r) \/ HandlerStep(r) \/ ModulePanics(r) \/ ClearSpinState(r)
        PROVE  KeptAt(s)'
    <2>1. pc'[s] = pc[s] /\ spin'[s] = spin[s]
      BY <1>5, OneSpinMoves DEF SameFor
    <2>2. mem'[s] = mem[s]
      BY <1>5 DEF HandlerStep, Begin, GetPlayerState, FreeSpinSave, SavePlayerState,
         SaveSpinState, PlaceBets, PreSaveAndChoose, SettleBets,
         PlayNormalSpin, Refund, SaveSpinOutcome, ContributeToJackpot,
         Claim, GetWinFails, LogSpin, FailSpin, ModulePanics, ClearSpinState
    <2> QED
      BY <2>1, <2>2
  <1> QED
    BY <1>1, <1>2, <1>3, <1>4, <1>5 DEF Next

\* A saved state with no free spin left has all those of its list played.
LEMMA AwardEnds ==
    ASSUME TypeInv, AllPlayable, Award(db), AddsUp(db, 0), PlayedArePaid(db),
           NEW s \in Session, db.trigger = s, ~IsFreeSpin(db)
    PROVE  AllPlayed(s)
  <1> DEFINE list == spin[s].result.freeSpinBets
             played == db.playedFreeSpin
             granted == GrantedAfter(list, played)
  <1>1. /\ db.freeSpins = list /\ list \in Seq(FreeResult)
        /\ Playable(spin[s].result)
        /\ db.isFreeSpin <=> played < Len(list)
        /\ played \in Nat /\ Len(list) \in Nat /\ db.remainingFreeSpin \in Nat
    BY DEF Award, AwardIn, AllPlayable, TypeInv, TypeOK, PlayerState
  <1>2. ~(played < Len(list))
    <2> SUFFICES ASSUME played < Len(list) PROVE FALSE
      OBVIOUS
    <2>1. db.remainingFreeSpin = 0
      BY <1>1 DEF IsFreeSpin
    <2>2. played + granted = Len(list)
      <3>1. granted \in Nat
        <4> HIDE DEF list, played
        <4>1. played \in 0..Len(list)
          BY <1>1
        <4> QED
          BY <1>1, <4>1, GrantedStep
      <3>2. 0 + played + granted = Len(list) + 0
        BY <1>1, <2>1 DEF AddsUp
      <3> HIDE DEF list, played, granted
      <3> QED
        BY <1>1, <3>1, <3>2
    <2>3. played + granted < Len(list)
      <3>1. played \in 0..(Len(list) - 1)
        <4> HIDE DEF list, played
        <4> QED
          BY <1>1
      <3> QED
        BY <1>1, <3>1 DEF Playable
    <2> QED
      BY <1>1, <2>2, <2>3
  <1>3. \A i \in 1..Len(list) : i \in 1..played
    <2> HIDE DEF list, played
    <2> QED
      BY <1>1, <1>2
  <1> QED
    BY <1>3 DEF AllPlayed, PlayedArePaid

\* What AwardIsKept rests on.
KeepInv ==
    /\ ServiceInv /\ CountInv /\ AwardInv
    /\ \A s \in Session : KeptAt(s)
    /\ AwardIsKept

\* The saved list is replaced only by a handler that found no free spin left
\* in it, or that could not read it.
LEMMA AwardKeptStep ==
    ASSUME AllPlayable, KeepInv, [Next]_vars
    PROVE  AwardIsKept'
  <1> SUFFICES ASSUME NEW s \in Session, Normal(s)', pc'[s] = "ok",
                      spin'[s].result.resultFreeSpin > 0,
                      db'.trigger # s, defaulted' = {}
               PROVE  AllPlayed(s)'
    BY DEF AwardIsKept, Normal
  <1> USE DEF KeepInv, ServiceInv, TypeInv, TypeOK, handler, redis
  <1>1. \A r \in Session : MoneyOf(r)
    BY MoneyInvSplit
  <1>2. defaulted = {}
    BY DEF Next, vars, HandlerStep, Begin, GetPlayerState, PreSaveAndChoose,
           SaveSpinState, PlaceBets, PlayNormalSpin, Refund, SaveSpinOutcome,
           ContributeToJackpot, FreeSpinSave, Claim, GetWinFails, SettleBets,
           LogSpin, SavePlayerState, FailSpin, ModulePanics, ClearSpinState,
           Crash
  <1>3. pc[s] = "ok"
    <2> SUFFICES ASSUME pc[s] # "ok" PROVE FALSE
      OBVIOUS
    <2>1. SavePlayerState(s)
      BY WhoSucceeds
    <2>2. /\ pc[s] = "save" /\ db' = mem[s] /\ spin' = spin
      BY <2>1 DEF SavePlayerState, Goto, TakesEffect
    <2> QED
      BY <2>2 DEF KeptAt, Normal
  <1>4. spin'[s] = spin[s]
    BY <1>1, <1>3, PaidStays DEF MoneyOf, MoneyAt, PaidWin
  <1>5. db.trigger = s \/ AllPlayed(s)
    BY <1>2, <1>3, <1>4 DEF AwardIsKept, Normal
  <1>6. AllPlayed(s) => AllPlayed(s)'
    <2> SUFFICES ASSUME AllPlayed(s), NEW i \in 1..Len(spin[s].result.freeSpinBets)
                 PROVE  \E t \in Session : /\ Free(t)' /\ PaidWin(t)'
                                           /\ spin'[t].trigger = s
                                           /\ spin'[t].index = i
      BY <1>4 DEF AllPlayed, Free, PaidWin
    <2>1. PICK t \in Session : /\ Free(t) /\ PaidWin(t)
                               /\ spin[t].trigger = s /\ spin[t].index = i
      BY DEF AllPlayed
    <2>2. PaidWin(t)' /\ spin'[t] = spin[t]
      BY <1>1, <2>1, PaidStays
    <2> QED
      BY <2>1, <2>2 DEF Free
  <1>7. ASSUME db.trigger = s PROVE ~IsFreeSpin(db)
    <2>1. PICK u \in Session :
             \/ PreSaveAndChoose(u) /\ db' = mem[u]
             \/ FreeSpinSave(u) /\ db' = mem[u]
             \/ SavePlayerState(u) /\ db' = mem[u]
      BY <1>7 DEF Next, vars, HandlerStep, Begin, GetPlayerState, PreSaveAndChoose,
           SaveSpinState, PlaceBets, PlayNormalSpin, Refund, SaveSpinOutcome,
           ContributeToJackpot, FreeSpinSave, Claim, GetWinFails, SettleBets,
           LogSpin, SavePlayerState, FailSpin, ModulePanics, ClearSpinState,
           Crash
    <2>2. StillAt(u)
      BY DEF SerialInv
    <2>3. ~PreSaveAndChoose(u)
      BY <1>2, <1>7, <2>1, <2>2 DEF PreSaveAndChoose, StillAt
    <2>4. ~(Free(u) /\ pc[u] \in {"freeSave", "save"})
      BY <1>7, <2>1, <2>2 DEF StillAt
    <2>5. pc[u] \in {"freeSave", "save"}
      BY <2>1, <2>3 DEF FreeSpinSave, SavePlayerState
    <2>6. Normal(u) /\ Active(u)
      BY <2>4, <2>5 DEF KindMatches, Active
    <2> QED
      BY <1>2, <2>2, <2>6 DEF StillAt
  <1>8. ASSUME db.trigger = s PROVE AllPlayed(s)
    BY <1>7, <1>8, AwardEnds DEF AwardInv, CountInv, OrderInv
  <1> QED
    BY <1>5, <1>6, <1>8

\* On one connection, and with a game module whose lists can be played to
\* their end, free spins announced to the player are kept until the last one
\* is paid, unless a spin could not read the saved state and saved a fresh one.
THEOREM AwardKept == Serial /\ AllPlayable => (Spec => []AwardIsKept)
  <1> SUFFICES ASSUME Serial, AllPlayable PROVE Spec => []AwardIsKept
    OBVIOUS
  <1>1. AllListRetriggers
    BY DEF AllPlayable, AllListRetriggers, Playable
  <1>2. Init => CountInv /\ AwardInv /\ (\A s \in Session : KeptAt(s)) /\ AwardIsKept
    BY CountInit, AwardInit DEF Init, KeptAt, AwardIsKept, Normal, NoSpin
  <1>3. ServiceInv /\ Init => KeepInv
    BY <1>2 DEF KeepInv
  <1>4. ASSUME KeepInv, ServiceInv', [Next]_vars PROVE KeepInv'
    <2>1. TypeInv /\ MoneyInv /\ (\A s \in Session : MoneyOf(s)) /\ AwardsArePaid
      BY <1>4, MoneyInvSplit DEF KeepInv, ServiceInv, MoneyInv
    <2>2. CountInv'
      BY <1>1, <1>4, <2>1, CountStep DEF KeepInv, CountInv, CopyAddsUp, ServiceInv
    <2>3. AwardInv'
      BY <1>4, <2>1, AwardStep DEF KeepInv, AwardInv, Award
    <2>4. \A s \in Session : KeptAt(s)'
      BY <1>4, <2>1, KeptStep DEF KeepInv
    <2>5. AwardIsKept'
      BY <1>4, AwardKeptStep
    <2> QED
      BY <1>4, <2>2, <2>3, <2>4, <2>5 DEF KeepInv
  <1>5. KeepInv => AwardIsKept
    BY DEF KeepInv
  <1> QED
    BY <1>3, <1>4, <1>5, ServiceInvariant, PTL DEF Spec
=============================================================================

---------------------------- MODULE SpinService ----------------------------
(***************************************************************************)
(* The spin service: GameService.ExecuteSpinV2 of server/game_service.go,  *)
(* run for the spins of one player, currency and game.  A spin takes the   *)
(* bet from the tenant's wallet, asks the game module for a result, claims *)
(* jackpots from the reward service, settles the bet and saves the         *)
(* player's state; free spins are taken from a list saved earlier.  Every  *)
(* store or service is remote, so every call is a step of its own, may     *)
(* fail, and may fail after it has taken effect (a timeout).  The process  *)
(* may crash between any two steps.                                        *)
(***************************************************************************)
EXTENDS Naturals, Sequences

CONSTANTS
    Session,        \* the spins requested, each under its own session ID
    Conn,           \* websocket connections and HTTP requests
    ConnOf,         \* the connection or request each spin arrives on
    NormalResults,  \* the results PlayNormalSpin can return
    NoSession,      \* stands for a nil SpinResultTriggerFG or an empty session ID
    AuditEnabled    \* a log provider with a Kafka producer is wired

(***************************************************************************)
(* A pre-generated free spin: how many jackpots it wins and how many more  *)
(* free spins it grants.  A normal result adds the list FreeSpinBets.      *)
(***************************************************************************)
FreeResult == [jackpots : Nat, resultFreeSpin : Nat]
NormalResult == [jackpots : Nat, resultFreeSpin : Nat,
                 freeSpinBets : Seq(FreeResult)]

ASSUME SessionAssumption == NoSession \notin Session
ASSUME ConnAssumption == ConnOf \in [Session -> Conn]
ASSUME ResultsAssumption == NormalResults \subseteq NormalResult
ASSUME AuditAssumption == AuditEnabled \in BOOLEAN

VARIABLES
    pc,         \* where the handler of each spin stands
    mem,        \* the handler's copy of the player state
    spin,       \* what the handler plays: its type, result and free spin slot
    status,     \* spinState.Status in the handler's memory
    db,         \* Redis: the player state
    trace,      \* Redis: the status in each spin_state record, or "absent"
    placed,     \* wallet: sessions whose bet was taken
    settled,    \* wallet: how each session was settled
    claimed,    \* reward service: jackpots claimed for each session
    contributed,\* reward service: sessions whose contribution was recorded
    audited,    \* sessions whose event was handed to the audit log's producer
    clearing,   \* goroutines about to delete a spin_state record
    defaulted   \* history: spins that lost the saved state to a read error

handler == <<pc, mem, spin, status>>
redis == <<db, trace>>
wallet == <<placed, settled>>
reward == <<claimed, contributed>>
logs == <<audited, clearing>>
vars == <<handler, redis, wallet, reward, logs, defaulted>>

-----------------------------------------------------------------------------

PlayerState == [isFreeSpin : BOOLEAN, remainingFreeSpin : Nat,
                playedFreeSpin : Nat, freeSpins : Seq(FreeResult),
                isLastFreeSpin : BOOLEAN, trigger : Session \cup {NoSession}]

NewPlayerState == [isFreeSpin |-> FALSE, remainingFreeSpin |-> 0,
                   playedFreeSpin |-> 0, freeSpins |-> <<>>,
                   isLastFreeSpin |-> FALSE, trigger |-> NoSession]

(***************************************************************************)
(* The spin a handler is executing.  A free spin is identified by the spin *)
(* that won the list it is taken from and its position in that list.       *)
(***************************************************************************)
Spin == [type : {"none", "normal", "free"}, trigger : Session \cup {NoSession},
         index : Nat, result : NormalResult]

NoResult == [jackpots |-> 0, resultFreeSpin |-> 0, freeSpinBets |-> <<>>]

NoSpin == [type |-> "none", trigger |-> NoSession, index |-> 0,
           result |-> NoResult]

FreeSpinOf(ps) ==
    LET free == ps.freeSpins[ps.playedFreeSpin + 1]
    IN  [type |-> "free", trigger |-> ps.trigger,
         index |-> ps.playedFreeSpin + 1,
         result |-> [jackpots |-> free.jackpots,
                     resultFreeSpin |-> free.resultFreeSpin,
                     freeSpinBets |-> <<>>]]

SpinStatus == {"new", "spinError", "refunded", "paying", "completed"}

Ended == {"ok", "error", "dead"}
Running == {"load", "presave", "trace", "place", "play", "refund",
            "tracePost", "contribute", "claim", "settle", "freeSave",
            "log", "save", "fail"}
Active(s) == pc[s] \in Running

\* What a remote call can do: succeed, fail, or take effect and yet fail.
Reply == {"ok", "failed", "applied"}
TakesEffect(r) == r # "failed"

TypeOK ==
    /\ pc \in [Session -> {"idle"} \cup Running \cup Ended]
    /\ mem \in [Session -> PlayerState]
    /\ spin \in [Session -> Spin]
    /\ status \in [Session -> SpinStatus]
    /\ db \in PlayerState
    /\ trace \in [Session -> SpinStatus \cup {"absent"}]
    /\ placed \subseteq Session
    /\ settled \in [Session -> {"no", "win", "refund"}]
    /\ claimed \in [Session -> Nat]
    /\ contributed \subseteq Session
    /\ audited \subseteq Session
    /\ clearing \subseteq Session
    /\ defaulted \subseteq Session

Init ==
    /\ pc = [s \in Session |-> "idle"]
    /\ mem = [s \in Session |-> NewPlayerState]
    /\ spin = [s \in Session |-> NoSpin]
    /\ status = [s \in Session |-> "new"]
    /\ db = NewPlayerState
    /\ trace = [s \in Session |-> "absent"]
    /\ placed = {}
    /\ settled = [s \in Session |-> "no"]
    /\ claimed = [s \in Session |-> 0]
    /\ contributed = {}
    /\ audited = {}
    /\ clearing = {}
    /\ defaulted = {}

Goto(s, label) == pc' = [pc EXCEPT ![s] = label]

-----------------------------------------------------------------------------
(***************************************************************************)
(* The steps both kinds of spin begin with.                                *)
(***************************************************************************)

\* Mutant: the handler does not take spinMu.
BeginUnlocked(s) ==
    /\ pc[s] = "idle"
    /\ Goto(s, "load")
    /\ UNCHANGED <<mem, spin, status, redis, wallet, reward, logs, defaulted>>

\* The handler is entered.  spinMu keeps one spin at a time on a websocket
\* connection; spins on different connections, or over HTTP, are concurrent.
Begin(s) ==
    /\ pc[s] = "idle"
    /\ \A t \in Session : ConnOf[t] = ConnOf[s] => ~Active(t)
    /\ Goto(s, "load")
    /\ UNCHANGED <<mem, spin, status, redis, wallet, reward, logs, defaulted>>

\* StateProvider.GetPlayerState answers a Redis error with a fresh state.
GetPlayerState(s) ==
    /\ pc[s] = "load"
    /\ \/ /\ mem' = [mem EXCEPT ![s] = db]
          /\ Goto(s, "presave")
          /\ UNCHANGED defaulted
       \/ /\ mem' = [mem EXCEPT ![s] = NewPlayerState]
          /\ defaulted' = IF db = NewPlayerState THEN defaulted
                                                 ELSE defaulted \cup {s}
          /\ Goto(s, "presave")
       \/ /\ Goto(s, "error")
          /\ UNCHANGED <<mem, defaulted>>
    /\ UNCHANGED <<spin, status, redis, wallet, reward, logs>>

IsFreeSpin(ps) == ps.isFreeSpin /\ ps.remainingFreeSpin > 0
NoMoreFreeSpins(ps) == ps.playedFreeSpin >= Len(ps.freeSpins)

\* The state is saved with the bet settings of this request, and a failure of
\* that save is only logged.  GetTotalBet may fail; then the kind of spin is
\* chosen, from the handler's copy.
PreSaveAndChoose(s) ==
    /\ pc[s] = "presave"
    /\ db' \in {db, mem[s]}
    /\ \/ /\ Goto(s, "error")
          /\ UNCHANGED spin
       \/ /\ ~IsFreeSpin(mem[s])
          /\ Goto(s, "trace")
          /\ spin' = [spin EXCEPT ![s].type = "normal"]
       \/ /\ IsFreeSpin(mem[s])
          /\ NoMoreFreeSpins(mem[s])
          /\ Goto(s, "fail")
          /\ spin' = [spin EXCEPT ![s].type = "free"]
       \/ /\ IsFreeSpin(mem[s])
          /\ ~NoMoreFreeSpins(mem[s])
          /\ Goto(s, "freeSave")
          /\ spin' = [spin EXCEPT ![s] = FreeSpinOf(mem[s])]
    /\ UNCHANGED <<mem, status, trace, wallet, reward, logs, defaulted>>

-----------------------------------------------------------------------------
(***************************************************************************)
(* executeNormalSpin                                                       *)
(***************************************************************************)

\* Mutant: a failed write of the record is only logged.
SaveSpinStateIgnoringError(s) ==
    /\ pc[s] = "trace"
    /\ trace' \in {trace, [trace EXCEPT ![s] = status[s]]}
    /\ Goto(s, "place")
    /\ UNCHANGED <<mem, spin, status, db, wallet, reward, logs, defaulted>>

\* The spin_state record is written before the bet is taken.
SaveSpinState(s) ==
    /\ pc[s] = "trace"
    /\ \E r \in Reply :
          /\ trace' = IF TakesEffect(r) THEN [trace EXCEPT ![s] = status[s]]
                                        ELSE trace
          /\ Goto(s, IF r = "ok" THEN "place" ELSE "fail")
    /\ UNCHANGED <<mem, spin, status, db, wallet, reward, logs, defaulted>>

PlayNormalSpin(s) ==
    /\ pc[s] = "play"
    /\ \/ \E result \in NormalResults :
             /\ spin' = [spin EXCEPT ![s].result = result]
             /\ status' = [status EXCEPT ![s] = "paying"]
             /\ Goto(s, "tracePost")
       \/ /\ Goto(s, "refund")
          /\ UNCHANGED <<spin, status>>
    /\ UNCHANGED <<mem, redis, wallet, reward, logs, defaulted>>

\* Mutant: the refund is recorded whatever the wallet answers.
RefundAlwaysRecorded(s) ==
    /\ pc[s] = "refund"
    /\ settled' \in {settled, [settled EXCEPT ![s] = "refund"]}
    /\ status' = [status EXCEPT ![s] = "refunded"]
    /\ Goto(s, "tracePost")
    /\ UNCHANGED <<mem, spin, redis, placed, reward, logs, defaulted>>

\* The module failed: the bet is settled with a payout equal to the bet.
Refund(s) ==
    /\ pc[s] = "refund"
    /\ \E r \in Reply :
          /\ settled' = IF TakesEffect(r) THEN [settled EXCEPT ![s] = "refund"]
                                          ELSE settled
          /\ status' = [status EXCEPT ![s] = IF r = "ok" THEN "refunded"
                                                         ELSE "spinError"]
    /\ Goto(s, "tracePost")
    /\ UNCHANGED <<mem, spin, redis, placed, reward, logs, defaulted>>

\* Mutant: the module's error is forgotten once the outcome is saved.
SaveSpinOutcomeAndGoOn(s) ==
    /\ pc[s] = "tracePost"
    /\ \E r \in Reply :
          /\ trace' = IF TakesEffect(r) THEN [trace EXCEPT ![s] = status[s]]
                                        ELSE trace
          /\ Goto(s, IF r = "ok" THEN "contribute" ELSE "fail")
    /\ UNCHANGED <<mem, spin, status, db, wallet, reward, logs, defaulted>>

\* Mutant: a failed write of the outcome is only logged.
SaveSpinOutcomeUnchecked(s) ==
    /\ pc[s] = "tracePost"
    /\ trace' \in {trace, [trace EXCEPT ![s] = status[s]]}
    /\ Goto(s, IF status[s] = "paying" THEN "contribute" ELSE "fail")
    /\ UNCHANGED <<mem, spin, status, db, wallet, reward, logs, defaulted>>

\* The record is written again, and the module's error is returned after that.
SaveSpinOutcome(s) ==
    /\ pc[s] = "tracePost"
    /\ \E r \in Reply :
          /\ trace' = IF TakesEffect(r) THEN [trace EXCEPT ![s] = status[s]]
                                        ELSE trace
          /\ Goto(s, IF r = "ok" /\ status[s] = "paying" THEN "contribute"
                                                         ELSE "fail")
    /\ UNCHANGED <<mem, spin, status, db, wallet, reward, logs, defaulted>>

\* Mutant: the loop stops one win early.
AfterClaimsShort(s, n) ==
    IF n + 1 < spin[s].result.jackpots THEN "claim"
    ELSE IF spin[s].type = "normal" THEN "settle" ELSE "place"

\* Where the claim loop goes after n claims: to the next win, or on.
AfterClaims(s, n) ==
    IF n < spin[s].result.jackpots THEN "claim"
    ELSE IF spin[s].type = "normal" THEN "settle" ELSE "place"

\* Errors of GetContributions and of the reward service are ignored.
ContributeToJackpot(s) ==
    /\ pc[s] = "contribute"
    /\ contributed' \in {contributed, contributed \cup {s}}
    /\ Goto(s, AfterClaims(s, 0))
    /\ UNCHANGED <<mem, spin, status, redis, wallet, claimed, logs, defaulted>>

-----------------------------------------------------------------------------
(***************************************************************************)
(* executeFreeSpin                                                         *)
(***************************************************************************)

\* The state is saved again, then the retrigger is added to the handler's
\* copy.  No spin_state record is written for a free spin.
FreeSpinSave(s) ==
    /\ pc[s] = "freeSave"
    /\ status' = [status EXCEPT ![s] = "paying"]
    /\ \E r \in Reply :
          /\ db' = IF TakesEffect(r) THEN mem[s] ELSE db
          /\ IF r = "ok"
             THEN /\ mem' = [mem EXCEPT ![s].remainingFreeSpin =
                                @ + spin[s].result.resultFreeSpin]
                  /\ Goto(s, AfterClaims(s, 0))
             ELSE Goto(s, "fail") /\ UNCHANGED mem
    /\ UNCHANGED <<spin, trace, wallet, reward, logs, defaulted>>

-----------------------------------------------------------------------------
(***************************************************************************)
(* The calls both kinds of spin make.                                      *)
(***************************************************************************)

\* One round of processJackpotWin's loop over the wins.
Claim(s) ==
    /\ pc[s] = "claim"
    /\ \E r \in Reply :
          /\ claimed' = IF TakesEffect(r) THEN [claimed EXCEPT ![s] = @ + 1]
                                          ELSE claimed
          /\ Goto(s, IF r = "ok" THEN AfterClaims(s, claimed[s] + 1)
                                 ELSE "fail")
    /\ UNCHANGED <<mem, spin, status, redis, wallet, contributed, logs, defaulted>>

\* PlaceBets: the total bet of a normal spin, zero for a free spin.
PlaceBets(s) ==
    /\ pc[s] = "place"
    /\ \E r \in Reply :
          /\ placed' = IF TakesEffect(r) THEN placed \cup {s} ELSE placed
          /\ Goto(s, IF r # "ok" THEN "fail"
                     ELSE IF spin[s].type = "normal" THEN "play" ELSE "settle")
    /\ UNCHANGED <<mem, spin, status, redis, settled, reward, logs, defaulted>>

\* PlayerState.Reset, of the fields modelled.
Reset(ps) == [ps EXCEPT !.isFreeSpin = FALSE, !.remainingFreeSpin = 0,
                        !.playedFreeSpin = 0, !.freeSpins = <<>>,
                        !.isLastFreeSpin = FALSE, !.trigger = NoSession]

\* Mutant: the list is indexed from one.
FreeSpinsWonFromOne(s) ==
    LET result == spin[s].result
    IN  [isFreeSpin |-> TRUE, remainingFreeSpin |-> result.resultFreeSpin,
         playedFreeSpin |-> 1, freeSpins |-> result.freeSpinBets,
         isLastFreeSpin |-> FALSE, trigger |-> s]

\* Mutant: every listed result is counted, those of retriggers twice.
FreeSpinsWonByLength(s) ==
    LET result == spin[s].result
    IN  [isFreeSpin |-> TRUE, remainingFreeSpin |-> Len(result.freeSpinBets),
         playedFreeSpin |-> 0, freeSpins |-> result.freeSpinBets,
         isLastFreeSpin |-> FALSE, trigger |-> s]

\* The free spins a normal result won, none of them played.
FreeSpinsWon(s) ==
    LET result == spin[s].result
    IN  [isFreeSpin |-> TRUE, remainingFreeSpin |-> result.resultFreeSpin,
         playedFreeSpin |-> 0, freeSpins |-> result.freeSpinBets,
         isLastFreeSpin |-> FALSE, trigger |-> s]

\* Mutant: the reset comes after the free spins were given.
AfterNormalSpinResetLast(s, ps) ==
    IF ps.isFreeSpin /\ spin[s].result.resultFreeSpin > 0 THEN FreeSpinsWon(s)
    ELSE Reset(ps)

\* The player state after a settled normal spin: reset unless it is in free
\* spins, and given the free spins this result won.
AfterNormalSpin(s, ps) ==
    IF spin[s].result.resultFreeSpin > 0 THEN FreeSpinsWon(s)
    ELSE IF ps.isFreeSpin THEN ps ELSE Reset(ps)

\* Mutant: the position in the list does not move.
AfterFreeSpinInPlace(ps) ==
    LET left == ps.remainingFreeSpin - 1
    IN  [ps EXCEPT !.remainingFreeSpin = left,
                   !.isFreeSpin = @ /\ left # 0,
                   !.isLastFreeSpin = @ \/ left = 0]

\* Mutant: the spin is counted down twice.
AfterFreeSpinTwice(ps) ==
    LET left == ps.remainingFreeSpin - 2
    IN  [ps EXCEPT !.playedFreeSpin = @ + 1,
                   !.remainingFreeSpin = left,
                   !.isFreeSpin = @ /\ left # 0,
                   !.isLastFreeSpin = @ \/ left = 0]

\* The player state after a settled free spin: one more played, one fewer left.
AfterFreeSpin(ps) ==
    LET left == ps.remainingFreeSpin - 1
    IN  [ps EXCEPT !.playedFreeSpin = @ + 1,
                   !.remainingFreeSpin = left,
                   !.isFreeSpin = @ /\ left # 0,
                   !.isLastFreeSpin = @ \/ left = 0]

\* SettleBets pays the win together with the jackpots claimed; the handler's
\* copy of the state moves on only when the call succeeds.
SettleBets(s) ==
    /\ pc[s] = "settle"
    /\ \E r \in Reply :
          /\ settled' = IF TakesEffect(r) THEN [settled EXCEPT ![s] = "win"]
                                          ELSE settled
          /\ IF r = "ok"
             THEN /\ mem' = [mem EXCEPT ![s] =
                        IF spin[s].type = "normal" THEN AfterNormalSpin(s, @)
                                                   ELSE AfterFreeSpin(@)]
                  /\ status' = IF spin[s].type = "normal"
                               THEN [status EXCEPT ![s] = "completed"]
                               ELSE status
                  /\ Goto(s, "log")
             ELSE Goto(s, "fail") /\ UNCHANGED <<mem, status>>
    /\ UNCHANGED <<spin, redis, placed, reward, logs, defaulted>>

-----------------------------------------------------------------------------
(***************************************************************************)
(* The tails of ExecuteSpinV2, the goroutines it leaves and the crash.     *)
(***************************************************************************)

\* LogSpin, which hands the event to the Kafka producer's queue.
LogSpin(s) ==
    /\ pc[s] = "log"
    /\ audited' \in {audited, IF AuditEnabled THEN audited \cup {s} ELSE audited}
    /\ Goto(s, "save")
    /\ UNCHANGED <<mem, spin, status, redis, wallet, reward, clearing, defaulted>>

\* The session IDs the tail may go on with.  It takes the one the last log call
\* returned, which is empty once a log call failed: LogSpin, or the LogJackpot
\* that follows it for every jackpot and for every bonus prize.
LoggedSession(s) ==
    IF AuditEnabled THEN {NoSession} \cup ({s} \cap audited) ELSE {s}

\* The final save.  Its failure returns an error that leaves the spin_state
\* record; its success starts the goroutine that deletes the record.
SavePlayerState(s) ==
    /\ pc[s] = "save"
    /\ \E r \in Reply :
          /\ db' = IF TakesEffect(r) THEN mem[s] ELSE db
          /\ \E logged \in LoggedSession(s) :
                clearing' = IF r = "ok" THEN clearing \cup ({logged} \ {NoSession})
                                        ELSE clearing
          /\ Goto(s, IF r = "ok" THEN "ok" ELSE "error")
    /\ UNCHANGED <<mem, spin, status, trace, wallet, reward, audited, defaulted>>

\* Mutant: the record is deleted whether or not the error was logged.
FailSpinAlwaysClears(s) ==
    /\ pc[s] = "fail"
    /\ audited' \in {audited, IF AuditEnabled THEN audited \cup {s} ELSE audited}
    /\ clearing' = clearing \cup {s}
    /\ Goto(s, "error")
    /\ UNCHANGED <<mem, spin, status, redis, wallet, reward, defaulted>>

\* The error tail: logSpinError, and the record is deleted unless it failed.
\* Without a log provider logSpinError reports success and writes nothing.
FailSpin(s) ==
    /\ pc[s] = "fail"
    /\ \/ /\ audited' = IF AuditEnabled THEN audited \cup {s} ELSE audited
          /\ clearing' = clearing \cup {s}
       \/ /\ AuditEnabled
          /\ UNCHANGED logs
    /\ Goto(s, "error")
    /\ UNCHANGED <<mem, spin, status, redis, wallet, reward, defaulted>>

\* clearSpinStateAsync's goroutine; its failure is only logged.
ClearSpinState(s) ==
    /\ s \in clearing
    /\ clearing' = clearing \ {s}
    /\ trace' \in {trace, [trace EXCEPT ![s] = "absent"]}
    /\ UNCHANGED <<handler, db, wallet, reward, audited, defaulted>>

\* A panic in the game module ends this handler only: gin and the websocket
\* handler recover, and none of the spin's tails run.
ModulePanics(s) ==
    /\ \/ pc[s] \in {"play", "contribute"}
       \/ pc[s] = "claim" /\ claimed[s] = 0
    /\ Goto(s, "dead")
    /\ UNCHANGED <<mem, spin, status, redis, wallet, reward, logs, defaulted>>

\* GetWin or GetWins returned an error before the first claim.
GetWinFails(s) ==
    /\ pc[s] = "claim" /\ claimed[s] = 0
    /\ Goto(s, "fail")
    /\ UNCHANGED <<mem, spin, status, redis, wallet, reward, logs, defaulted>>

\* The process dies with its handlers and its goroutines, and starts again.
\* Nothing at startup reads the spin_state records.
Crash ==
    /\ clearing # {} \/ \E s \in Session : Active(s)
    /\ pc' = [s \in Session |-> IF Active(s) THEN "dead" ELSE pc[s]]
    /\ clearing' = {}
    /\ UNCHANGED <<mem, spin, status, redis, wallet, reward, audited, defaulted>>

\* A step of the handler of spin s, between two of its remote calls.
HandlerStep(s) ==
    \/ GetPlayerState(s) \/ PreSaveAndChoose(s)
    \/ SaveSpinState(s) \/ PlaceBets(s) \/ PlayNormalSpin(s) \/ Refund(s)
    \/ SaveSpinOutcome(s) \/ ContributeToJackpot(s)
    \/ FreeSpinSave(s)
    \/ Claim(s) \/ GetWinFails(s) \/ SettleBets(s)
    \/ LogSpin(s) \/ SavePlayerState(s) \/ FailSpin(s)

Next ==
    \/ \E s \in Session : \/ Begin(s) \/ HandlerStep(s) \/ ModulePanics(s)
                          \/ ClearSpinState(s)
    \/ Crash

Spec == Init /\ [][Next]_vars

-----------------------------------------------------------------------------
(***************************************************************************)
(* What the service promises, whatever fails.                              *)
(***************************************************************************)

Normal(s) == spin[s].type = "normal"
Free(s) == spin[s].type = "free"
PaidWin(s) == settled[s] = "win"
SameSlot(s, t) == /\ Free(s) /\ Free(t)
                  /\ spin[s].trigger = spin[t].trigger
                  /\ spin[s].index = spin[t].index

\* A normal spin whose bet was taken and which was not answered with success
\* can always be found again: it has a spin_state record, written before the
\* bet is taken, or an error event, handed to the log before the record goes.
UnfinishedSpinIsTraced ==
    AuditEnabled =>
        \A s \in placed : Normal(s) /\ pc[s] # "ok"
                             => trace[s] # "absent" \/ s \in audited

\* What a spin_state record says is true of the wallet and of the reward
\* service, at every point where a crash may leave it behind.
TraceIsAccurate ==
    \A s \in Session :
        /\ trace[s] = "new" => claimed[s] = 0 /\ ~PaidWin(s) /\ s \notin contributed
        /\ trace[s] = "refunded" => settled[s] = "refund"
        /\ trace[s] = "paying" => settled[s] # "refund"
        /\ trace[s] = "spinError" => claimed[s] = 0 /\ ~PaidWin(s)

\* A bet that is given back leaves nothing else behind: no jackpot claimed, no
\* contribution to a pool and no free spins, in Redis or about to be saved.
RefundLeavesNothing ==
    \A s \in Session :
        settled[s] = "refund" =>
            /\ claimed[s] = 0
            /\ s \notin contributed
            /\ db.trigger # s
            /\ \A t \in Session : mem[t].trigger # s

\* A spin answered with success was paid, and its jackpots were all claimed.
SuccessIsPaid ==
    \A s \in Session :
        pc[s] = "ok" => /\ PaidWin(s)
                        /\ s \in placed
                        /\ claimed[s] = spin[s].result.jackpots

\* Jackpots granted to a normal spin that was not paid, as when the claim of one
\* fails after that of another, can be found again: its spin_state record says
\* that it was being paid, or the log was handed its error event.
ClaimsAreTraced ==
    AuditEnabled =>
        \A s \in Session : Normal(s) /\ claimed[s] > 0 /\ ~PaidWin(s)
                              => trace[s] = "paying" \/ s \in audited

\* The free spins of a list are paid in the order of the list, none skipped,
\* also when several connections play them at once.
FreeSpinsPaidInOrder ==
    \A s \in Session :
        Free(s) /\ PaidWin(s) /\ spin[s].index > 1 =>
            \E t \in Session : /\ Free(t) /\ PaidWin(t)
                               /\ spin[t].trigger = spin[s].trigger
                               /\ spin[t].index + 1 = spin[s].index

\* The free spins that those after the first n of a list still grant.
GrantedAfter(list, n) ==
    LET granted[i \in 0..Len(list)] ==
            IF i = Len(list) THEN 0
            ELSE list[i + 1].resultFreeSpin + granted[i + 1]
    IN  granted[n]

\* In free spins, the saved counters and the saved list agree: a free spin is
\* left for each result not played yet, less those that retriggers will add.
FreeSpinsAddUp ==
    db.isFreeSpin =>
        db.remainingFreeSpin + db.playedFreeSpin
            + GrantedAfter(db.freeSpins, db.playedFreeSpin) = Len(db.freeSpins)

\* What FreeSpinsAddUp asks of the game module: FreeSpinBets holds a result
\* for every free spin granted, those granted by its own retriggers included.
ListsRetriggers(result) ==
    Len(result.freeSpinBets) =
        result.resultFreeSpin + GrantedAfter(result.freeSpinBets, 0)

\* What AwardIsKept asks of it besides: until the list ends, the free spins
\* granted so far are not all played.
Playable(result) ==
    /\ ListsRetriggers(result)
    /\ \A n \in 0..(Len(result.freeSpinBets) - 1) :
          n + GrantedAfter(result.freeSpinBets, n) < Len(result.freeSpinBets)

-----------------------------------------------------------------------------
(***************************************************************************)
(* What the service promises a player whose spins do not overlap, which    *)
(* spinMu ensures when they all arrive on one connection.                  *)
(***************************************************************************)

\* A free spin answered with success is never played a second time.
FreeSpinPlayedOnce ==
    \A s, t \in Session :
        s # t /\ pc[t] = "ok" /\ Active(s) => ~SameSlot(s, t)

AllPlayed(s) ==
    \A i \in 1..Len(spin[s].result.freeSpinBets) :
        \E t \in Session : /\ Free(t) /\ PaidWin(t)
                           /\ spin[t].trigger = s /\ spin[t].index = i

\* Free spins announced to the player are kept until the last is paid, unless
\* a spin could not read the saved state and went on from a fresh one.
AwardIsKept ==
    \A s \in Session :
        Normal(s) /\ pc[s] = "ok" /\ spin[s].result.resultFreeSpin > 0 =>
            db.trigger = s \/ AllPlayed(s) \/ defaulted # {}

\* No bet is taken from a player who has free spins left, with that exception.
NoBetWhileFreeSpinsLeft ==
    [][\A s \in placed' \ placed :
          Normal(s) /\ IsFreeSpin(db) => s \in defaulted]_vars

-----------------------------------------------------------------------------
(***************************************************************************)
(* The ledger the service implements, when the audit log is wired.         *)
(***************************************************************************)

LedgerMoney(s) ==
    IF Free(s) THEN IF PaidWin(s) THEN "granted" ELSE "idle"
    ELSE IF s \notin placed THEN "idle"
    ELSE IF settled[s] = "no" THEN "open"
    ELSE IF settled[s] = "win" THEN "paid" ELSE "refunded"

Ledger == INSTANCE SpinLedger WITH
              Round <- Session,
              money <- [s \in Session |-> LedgerMoney(s)],
              noted <- {s \in Session : trace[s] # "absent"},
              reported <- audited

\* Every step of the service is a step of the ledger or leaves it unchanged.
ImplementsLedger == Ledger!LedgerSpec

=============================================================================

# Verification of the slot game module

TLA+ models of `github.com/Digital-Creators-Team/slot-game-module`, the Go
framework that a slot game links to become a game server. The repository's
sources are under `src/`; every definition below is read from them, and
`PROJECT.json` gives its file and lines.

- [The system](#the-system)
- [The modules](#the-modules)
- [What is checked](#what-is-checked)
- [What is proved](#what-is-proved)
- [Where the code and its documents differ](#where-the-code-and-its-documents-differ)
- [What is not modelled](#what-is-not-modelled)
- [Plan](#plan)

## The system

A game server process runs one game. Clients reach it over HTTP or over a
websocket; it keeps nothing durable itself, and calls remote services for all
that lasts.

| component | state it keeps | operations | what makes it hard |
|---|---|---|---|
| Spin service (`server/game_service.go`, `game/types.go`) | none between spins; a copy of the player state during one | `ExecuteSpinV2`: load the state, record the spin, take the bet, ask the game module, contribute to pools, claim jackpots, settle, log, save | five remote services in a row, each of which may fail or take effect and time out; a crash between any two; spins of one player that overlap |
| Player state and `spin_state` records (`provider/state_provider.go`) | Redis: a player's free spins; a record for each normal spin under way | `GetPlayerState`, `SavePlayerState`, `SaveSpinState`, `ClearSpinState` | the state is read, used and written whole; a read error looks like a new player |
| Wallet, reward and log providers (`provider/*_provider.go`) | remote: bets, pools, events | `PlaceBets`, `SettleBets`, `Contribute`, `Claim`, `GetPool`, `LogSpin`, `LogError` | timeouts after the effect; no idempotency keys for claims |
| Jackpot service (`pkg/jackpot/service.go`) | the latest update of each pool, a flush timer, a token channel | startup, `HandleKafkaUpdate`, refresh, flush loop, lookups | late, repeated and undated events race with slow reads; a timer whose callback is in flight when it is stopped |
| Broadcaster (`pkg/jackpot/broadcast.go`) | the listeners' channels | `Listen`, `Send` | sends outside the lock to channels another goroutine closes; signals dropped when a channel is full |
| Jackpot streams (`server/jackpot_handler.go`) | what each client was last sent | `streamUpdates`, `sendInitialPools`, `sendSnapshot` | an update between registration and the first read; messages that cannot be sent |
| Websocket sessions (`server/events_ws_handler.go`, `server/ws_conn_manager.go`) | connections of a node; the player's session key in Redis; jackpot subscriptions | `Stream` and its deferred cleanup, Acquire/Touch/Release session, kicks by Redis publish/subscribe, `subscribeJackpot`, `KickTenantPlayersCallback` | connections of one player on several nodes, and clean-ups that come after their successors; publish/subscribe that delivers at most once; overlapping subscriptions |
| Requests on a connection (`server/events_ws_handler.go`) | a goroutine for each request, `spinMu`, the queue of 256 frames | `handleMessage`, `dispatch`, `writeReply`, `writePump`, `replyPong`, `CloseWithReason` | a full queue, a reply after the close, two writers of one socket, panics in three kinds of goroutine |
| Game and tenant providers (`provider/game_provider.go`, `tenant_provider.go`, `pkg/cache/map.go`) | cached games and tenants with a time to live | `Get`, invalidation events, disable callbacks; the checks of every handler | fetched values cached after the event that made them stale; events compared with a cache that has expired; connections that register after the kick |
| Log provider and Kafka producer (`provider/log_provider.go`, `events/kafka/producer.go`) | a queue of 100 messages, workers with retries | `LogSpin`, `LogJackpot`, `LogError`, `SendMessage`, `Close`; bet history | a full queue, close against send, what a crash loses, rounds kept apart or not |
| Kafka consumer and pool feed (`events/kafka/consumer.go`, `server/server.go`, `main.go` of the template) | the offset, the subscriber's channel, the feed, its goroutines | `consume`, `handleMessage`, `Subscribe`, `Unsubscribe`, `Stop`, `AttachJackpotUpdateFeed` | a channel closed by another goroutine than the sender, drops, repeated events, two feeders at once |
| Timeout middleware (`middleware/timeout.go`) | the answer of a request | `Timeout` (no caller in the repository) | two writers of one answer |
| CloudFront signing (`pkg/cfsign`, `AssetsToken`) | none | `signPrefixAt` | bucket boundaries, parts of a second |

How they interact. A spin arrives over HTTP (`game_handler.go`) or on a
websocket, where `spinMu` lets one spin run at a time for that connection and
for that connection only. It calls the providers one after another. Its error
tail hands an event to the log's Kafka producer and only then deletes the
`spin_state` record. The jackpot service hears of pools from Kafka through the
feed the application attaches after startup has read the pools, and from its own
refresh; its loop tells the streams with a flush signal that carries no amount,
and each stream then reads the buffer. A websocket connection registers at its
node, takes the player's session key in Redis, and publishes a kick for the
connection that had it. The game and tenant providers hear of changes from Redis
and are asked by every handler; an event that withdraws a game closes the tenant's
connections. At shutdown the handlers that `main` registers unsubscribe the feed,
stop the consumer and close the producer while requests are still served.

What makes each correct, in a sentence:

- *Spin service*: money that was taken is paid, given back, or can be found
  again, whatever fails; what the records say is true; free spins that were won
  are played once each, in order, and no bet is taken while they last.
- *Jackpot service and streams*: no late event or slow read replaces an amount by an
  older one; an update that
  reached the buffer reaches every stream, although signals are dropped and merged.
- *Websocket sessions*: a player's replaced connection is closed, whichever node
  it is on, and cleaning up never harms the connection that replaced it.
- *Requests*: spins of a connection run one at a time, whatever is asked on an
  open connection is answered, and a closed connection leaves nothing running.
- *Providers*: who may no longer play is kicked, and a change of the records is
  served after a while, although events are lost and fetches are slow.
- *Audit log*: what was handed to the log is written or was given up after its
  attempts; a bet history shows each round under its number.
- *Pool feed*: only an event that met a full channel or no subscription is lost,
  order is kept, no closed channel is offered anything, and stopping ends.
- *Asset tokens*: a token lasts as long as it should, and no bucket longer.

`PROJECT.json` lists every component with its status and, under `hazards`, each
thing that can go wrong at its line with the properties that would notice.

## The modules

### SpinService, SpinLedger

`SpinService` models `ExecuteSpinV2` for the spins of one player, currency and
game. The states of one handler are the points between its remote calls:

| `pc[s]` | the code is about to | action |
|---|---|---|
| `idle` | enter `handleMessage` or the HTTP handler | `Begin` |
| `load`, `presave` | read the state; save it with the bet settings, compute the bet and choose the kind of spin | `GetPlayerState`, `PreSaveAndChoose` |
| `trace`, `place`, `play` | write the record, take the bet, ask the module | `SaveSpinState`, `PlaceBets`, `PlayNormalSpin` |
| `refund`, `tracePost` | settle the bet with itself after a module error; write the outcome | `Refund`, `SaveSpinOutcome` |
| `contribute`, `claim`, `settle` | contribute, claim each jackpot, settle | `ContributeToJackpot`, `Claim`, `SettleBets` |
| `freeSave` | save the state before a free spin | `FreeSpinSave` |
| `log`, `save` | the success tail | `LogSpin`, `SavePlayerState` |
| `fail` | the error tail | `FailSpin` |
| `ok`, `error`, `dead` | answered, or ended by a panic or crash | |

`db` and `trace` are Redis, `placed` and `settled` the wallet, `claimed` and
`contributed` the reward service, `audited` the events handed to the log, and
`clearing` the goroutines of `clearSpinStateAsync`. Each remote call answers
`ok`, `failed` (no effect) or `applied` (it took effect and the caller sees an
error). `ModulePanics` and `Crash` end handlers at any point where the code can.
`defaulted` is history only: the spins whose read of the state failed and was
taken for a new player (`state_provider.go:36`).

A spin's result is the number of its jackpots and of the free spins it grants,
with the list of pre-generated free spins; amounts are left out, and a free spin
is identified by the spin that won it and its place in that list.

`SpinLedger` is what a reader of the wallet's books expects: a bet is taken only
in a round noted before, is paid or given back once, and the note goes only when
the round is paid or reported. `SpinService` implements it (`ImplementsLedger`)
under the mapping `LedgerMoney`: `noted` is "has a `spin_state` record" and
`reported` is "has an event in the log".

### JackpotService

The buffer (`latest`), the flush machinery (`dirty`, `timerSet`, `armed`,
`callbacks`, `flushChan`, `loop`), the broadcaster (`listeners`, `toSend`,
`queue`, `closed`), the two readers of the reward service (`todo`, `reading`:
startup and refresh, each of which reads without the lock and stores later) and
the streams (`stage`, `seen`, `missing`, `lastSent`). An amount is identified by
the time at which the reward service wrote it; an event without a timestamp is
stamped by the consumer. `SendFails` names the writes a client does not get. `HandleOtherUpdate` stands for updates of the game's other
pools, of which a stream sees only the flush. The flush timer is modelled to the point where its
callback, already running, survives `Stop`. `SendTo` on a closed channel panics,
in a goroutine that recovers nothing, and ends the process (`loop = "panicked"`).

### WSSessions

The connections of one player over several nodes. `stage[c]` follows `Stream`
through `Register`, `AcquireSession`, `PublishKick`, `AutoSubscribe`, the read
loop and the deferred `StopJackpot`, `Close`, `Unregister`, `ReleaseSession`, in
the code's order. `session` is the key in Redis; `kicks` are messages on their
way to the node that has the connection (other nodes ignore them); `missed` is a
ghost that names the connections a failure hides from a kick: a Redis error that
`Stream` ignores, a lost message, a key that expired under an open connection, a
crash between acquiring and kicking, a node whose subscriber never started.
`subStage`, `cancel` and `cancelled` follow `subscribeJackpot`, whose stop of the
old stream and note of the new cancel function are two critical sections.

The time to live of the key is not a clock: `Expire` may happen at any time, and
counts as a failure when the connection it named is still open, because writePump
touches the key three times in each period.

The streams are kept apart: `JackpotService` models what a stream shows and
`WSSessions` when it starts and ends; `SpinService` uses of a connection only its
lock (`ConnOf`).

### WSRequests

One connection between its registration and its cleanup: the read loop, a
goroutine for each request (`stage[r]` follows `handleMessage` and `dispatch`), the
queue of frames, and `writePump`. A reply is a frame with the request's ID; frames
of the jackpot stream (`Announce`) share the queue. `expired` is the token's
expiry, which `dispatch` checks each time. The websocket library is external and is
modelled by what its one buffer and its unsynchronised flag do to two writers
(`Fill`, `Enter`, `Leave`, `Panics`): `replyPong` writes from the read loop while
`writePump` writes, so that a frame may be spoilt (`garbled`), or either writer
panic. `writePump` recovers and closes the connection; the read loop does not
recover and unwinds `Stream`.

### GameAccess

Who may play one game of one tenant. `service` is what the tenant and game services
hold, `events` what they published, `cache` the two maps, whose items expire and
stay. `Get` is a hit, or a `Fetch` and later a `Fill`, between which an event may
be handled. The handler of a game event compares the new record with the cached
one, expired or not, and kicks (`Kicks`, `ListByTenant`, `CloseListed`) before it
stores the new one (`SetGame`). `todo[p]` lists the checks that a client has still
to pass: a new connection checks the tenant and the game, an HTTP spin the game and
the tenant, a websocket spin only the tenant. The ghost `unseen` names the open
connections that no kick could reach, and the actions that add to it are the three
ways in which that happens.

### AuditLog

The events of a spin on their way to Kafka and back into a bet history: the tail of
`ExecuteSpinV2` (`Finish`, `Fail`), the queue, the workers with their attempts, and
the shutdown, which closes the queue while handlers still send (`SendPanics`).
`LogSpin` chooses between one event for the whole spin and an `event_list` of its
rounds; `Entries`, `Asked` and `Bet` are what the log service and `GetBetHistory`
make of it. Of `SpinService` it is the part behind its `audited`, which there is the
set of events handed over.

### PoolFeed

An update's way from the topic to `HandleKafkaUpdate`: the consumer's loop, the
read lock that `handleMessage` holds while it offers, the subscription's channel
(which drops), the copying goroutine and the feed (which wait), and the goroutines
of `AttachJackpotUpdateFeed`, of which a cancelled one may still take one event.
`Rejoin` starts the topic again from the last commit. A waiting writer of Go's
RWMutex keeps new readers out, hence the guard of `Lock`. What it delivers are the
`events` of `JackpotService`, which may lose, repeat and reorder them: more than
this module lets happen.

### AssetToken

The expiry arithmetic of a signed prefix as operators, with time in parts of a
second; it has no state, and its three theorems, in `GameAccessProofs`, are proved
rather than checked.

### MC modules

`MCSpinService`, `MCJackpotService`, `MCWSSessions`, `MCWSRequests`,
`MCGameAccess`, `MCAuditLog` and `MCPoolFeed` define the constants and constraints
of the runs; definitions whose comment begins with `Mutant:` are changed copies of
an action, used to see that a property notices the change.

## What is checked

Run any of them with `tlc -config X.cfg M`.

| run | instance | properties |
|---|---|---|
| `spin_serial` | 3 spins on 1 connection; results: a free spin with a jackpot, a free spin that retriggers | `TypeOK`, `FreeSpinPlayedOnce`, `AwardIsKept`, `NoBetWhileFreeSpinsLeft` |
| `spin_concurrent` | 3 spins on 2 connections, results with a retrigger, at most one spin that fails or dies | `UnfinishedSpinIsTraced`, `TraceIsAccurate`, `RefundLeavesNothing`, `FreeSpinsPaidInOrder`, `FreeSpinsAddUp` |
| `spin_refinement` | 2 spins on 2 connections, each with two jackpots or a free spin, every failure | `SuccessIsPaid`, `ClaimsAreTraced`, `ImplementsLedger` |
| `jackpot_feed` | 1 registered pool and others, 1 stream that stays, dated and undated events, time up to 3, one timer callback at a time | `DirtyIsFlushed`, `OnlyUndatedGoesBack`, `StreamsCatchUp` |
| `jackpot_streams` | 1 unregistered pool and others, 2 streams that join in turn, of which one may leave or miss a message, time up to 2, the loop woken by its ticker | `TypeOK`, `UpdatesReachStreams` |
| `ws_sessions` | 2 connections on 2 nodes, 2 subscriptions of one of them | `TypeOK`, `SupersededIsKicked`, `SupersededIsClosed`, `NoStreamOutlivesConn` |
| `ws_requests` | 2 spins, one of them with an ID, and a query, a queue of 1, 1 ping | `TypeOK`, `SpinsInTurn`, `LateIsRefused`, `RequestsAreAnswered`, `ClosedIsGone` |
| `game_access` | 1 connection and 1 request of one player, 4 records of the game, 2 changes | `TypeOK`, `RevokedIsKicked`, `ServedAsConfigured` |
| `audit_log` | 2 spins of 3 shapes, 2 workers, a queue of 1, 2 attempts | `TypeOK`, `TakenIsWritten`, `HistoryShowsRounds`, `EverySendEnds` |
| `pool_feed` | 3 events of which 2 are the game's, a channel of 1, a feed of 2, 2 feeders, 1 rejoin | `TypeOK`, `NeverOffersToClosed`, `LostOnlyUnheard`, `KeepsOrder`, `StopEnds`, `TakenArrives` |

Two more runs are in [a section of their own](#where-the-code-and-its-documents-differ).

What they show. *Serial spins*: without overlap a free spin is never played
twice, no award is lost before it is played, and no bet is taken in free spins,
with one exception that the properties name: a spin that took a Redis error for a
new player. *Concurrent spins* do lose and repeat free spins, because the state
is saved whole (`BeginUnlocked` is the mutant that shows it); what still holds is
everything about money, and that lists are paid in order and counters agree with
them. *Jackpots*: a spin answered with success has all of its jackpots, and when the
claim loop stops half way, or the payment after it fails, what was granted can be found
with the spin's record or an error event. *The feed*: no late, repeated or slow update
brings back an older amount, with the one exception of an event that carries no
timestamp; no interleaving of timer, callback, token, ticker and updates
leaves a change without a flush, and no dropped signal leaves a stream behind
for good. *Sessions*: a connection that lost the session key is kicked and
closed, except as `missed` says, and no jackpot stream outlives its connection.
*Requests*: spins take turns, each request with an ID gets its reply unless the
queue was full or a pong spoilt it, and closing leaves no goroutine behind,
whichever writer panics. *Access*: every connection whose player was refused is
kicked but for the three gaps of `unseen`, and stale records heal with their time
to live. *The audit log*: a shutdown loses no event that the queue took, however it
falls between a handler and a worker; handlers that come later panic, and are not
stuck. *The feed of updates*: events are lost at the subscription's channel and
nowhere else, and `Unsubscribe` never closes a channel under a sender.

**Bounds.** Three spins are the least in which one spin wins free spins, a second
plays one, and a third overlaps or follows; two free spins in a list show order
and retriggers; two jackpots, in `spin_refinement`, show a claim loop that stops half way. Two pools
never interact in the jackpot service but through the flush, so one is enough,
registered in one run and not in the other; a channel of one place is full after
one signal, which is what a place count matters for; the code's 128 only
make the case rarer. `MaxClock` bounds the writes to pools: two writes after the first
value are enough for a late event and a newer one. Two connections
are a player's old and new one; a third, which replaces the connection that
published a kick, multiplies the states, and `SupersededKicked` is proved for any
number instead. Two spins and a query show what waits for what; a queue, a channel
or a feed of one or two places is full and empty in turn; one ping writes beside
`writePump`. Four records of a game are one for each way a record refuses or
permits, and two changes let one overtake the fetch of the other (each may be of
the game or of the tenant). Three shapes of a spin are a whole one with a jackpot,
one of several rounds, and the boundary of one round kept apart; two attempts and
two workers let one retry while the other goes on. A topic with two events of the
game around one of another's has order, a drop and a filter; one rejoin repeats
what one commit was behind. The state
constraints are named in `MCSpinService` and `MCJackpotService`. `OneFailure` cuts
behaviours in which several spins fail; `FewCallbacks` those with several timer
callbacks held up at once; `TickerOnly` those in which the timer wakes the loop as
well as the ticker (a token and a tick do the same to the streams, and
`jackpot_feed` has both); `OneJoins` those in which two streams make their first
read together (they share nothing but the buffer, which the read leaves alone);
`OneLeaves` those in which neither stream is left that the property speaks of;
`NoneLeaves`, in `jackpot_feed`, those in which its only stream is gone.
The other runs have no constraint. `MaxClock`, `MaxPings`, `MaxChanges` and
`MaxRejoins` bound the environment only, and the theorems below hold for all their
values. Symmetry is used in runs without liveness only.
Deadlock is not checked anywhere: a finite number of spins, writes or connections
comes to its end and the system rests.

**Fairness.** `SpinService` has none, and states safety only: that each of its calls
ends, by the answer or the client's timeout, would have to be assumed, and what a spin
that waits for another needs besides, that `spinMu` is released, is checked in
`WSRequests`. `JackpotService`: the loop's wake-up (its ticker
fires whatever else happens), the copying of listeners and the sends, which never
block, and each stream's own steps, since a write has a deadline. Nothing is
assumed of Kafka, the timer, startup or the refresh: the ticker alone makes
`StreamsCatchUp` true. `WSSessions`: the goroutine of a connection (a closed
socket makes its read fail), a subscription's goroutine including its heartbeat,
and that a kick on its way is delivered or lost. `WSRequests`: a handler's steps,
since its calls end within the 60 seconds of its context, writePump, the read loop's
own steps, and that a read of a closed socket fails; nothing is assumed of the
client. `GameAccess`: items expire, the two subscriptions' goroutines handle what
has arrived, and a `Get` ends with its HTTP timeout; events may be lost and the
services need not change. `AuditLog`: workers, whose writes end within their ten
seconds, handlers, and the wait of `Close`; neither a shutdown nor a crash is
forced. `PoolFeed`: the consumer, the copying goroutine, each feeder's take and
hand-over, and the steps of a shutdown once it has begun. Weak fairness is enough
for what waits for a lock: `Unsubscribe` stays possible once the reader has let go,
since a waiting writer keeps new readers out, and each spin holds `spinMu` once.

`TypeOK` bounds what a wrong step would break: a free spin counter that goes
below zero, a channel with more signals or events than places, a nil cancel
function called, a tenant's record in the map of games.

## What is proved

All proofs are checked by TLAPS, for all values of the constants: any number of
spins, connections, nodes, pools, streams, requests and records, any capacities, and
any results of the game module, except where a hypothesis of the theorem says
otherwise. The assumptions are the named `ASSUME`s of the modules, which say of which
sets the constants are, that capacities are positive, that the producer has a worker
and that `None` is no value.

*Spin service* (`SpinServiceProofs`; assumptions: the four on constants in
`SpinService`).

- `TypeCorrect`: `Spec => []TypeOK`. `TypeOK` is not inductive: that
  `RemainingFreeSpin` stays a natural number needs `FreeSpinLeft` (a free spin
  that is being played still counts) and `KindMatches` (which kind of spin
  reaches which step).
- `MoneyCorrect`: the inductive invariant behind all promises about money.
  `MoneyAt` says, for each point of the handler, what the wallet, the reward
  service and the record have seen; `MoneyAfter` says it of ended spins;
  `TraceIsAccurate` and `AwardsArePaid` (free spins, in Redis or in any copy, come
  from a paid spin) complete it. The step lemma uses that a step moves one spin
  (`OneSpinMoves`), that what is said of a spin reads only that spin's state
  (`MoneyFrame`), and the crash case by itself.
- `UnfinishedTraced`, `TraceAccurate`, `RefundClean`, `SuccessPaid`, `ClaimsTraced`:
  what `spin_concurrent` and `spin_refinement` check about money and jackpots, from that
  invariant.
- `Implements`: with the audit log wired, `Spec` implements the ledger. A step
  moves the entry of its spin in one of seven ways (`EntryMoves`), and each is a
  step of the ledger or none (`EntryMovesLift`).
- `FreeSpinsInOrder`, of spins that overlap in any way. Its invariant reads every
  player state there is, in Redis and in the copies of the handlers: what a state
  counts as played has been paid (`PlayedArePaid`), and a handler in a free spin
  plays the one after those (`PlaysNext`).
- `FreeSpinCountsAddUp`, also of spins that overlap. What it assumes of the game
  module, `AllListRetriggers`, is what the property is about (see
  [below](#where-the-code-and-its-documents-differ)). Each copy adds up (`AddsUp`), but for
  the retrigger of the free spin that is being played. The sum `GrantedAfter` is a recursive
  function, and that it obeys its equation at every place of a list is proved by a least
  counterexample, since the library's rule for recursive definitions has an operator
  as a parameter.
- `NoBetInFreeSpins`, `PlayedOnce` and `AwardKept`, of spins that all arrive on one
  connection (`Serial`; overlapping spins do violate all three). `OneActive` says that `spinMu`
  then lets one handler run. The handler's copy and Redis agree as far as the
  handler's point allows (`StillAt`), Redis and the copy count every successful
  free spin of their list as played (`Beyond`), so that no two get the same place.
  `AwardKept` needs one thing more of the game module, `AllPlayable`: a list must not
  grant its free spins so late that they run out on the way. `AwardInv` then says
  that Redis and the copies are in free spins exactly while their lists have places left.

*Ledger* (`SpinLedgerProofs`): `OpenBetKnown`, an open bet is always noted or
reported.

*Websocket sessions* (`WSSessionsProofs`): `SupersededKicked`. The invariant needs
that an open or registered connection is known to the connection manager, since a
kick that finds no connection is dropped; that is why `Stream` has to register
before it acquires the session. `TypeCorrect` is a part of it.

*Requests* (`WSRequestsProofs`): `TypeCorrect`; `InTurn`, from `TurnHoldsMutex`: a
spin past `Lock` and before its unlocking is the one `spinMu` names, so two of them
are one; `LateRefused`, since only `Dispatch` makes a request work and it looks at
the expiry.

*Pool feed* (`PoolFeedProofs`): `TypeCorrect`, with `HasEvent`: between `Lock` and
`UnlockAndCommit` there is an event of the game's. `OpenWhenOffered`: whoever closes the
subscription needs the lock that an offering consumer holds. `OnlyUnheardIsLost`, from
`NothingLost`: `handleMessage` lets go of an event only when it is in one of the places
`Beyond`, which no step takes it from but into another of them. `OrderKept`, from `Line` and `HandsOK`: as long as
Kafka repeats nothing the events stand in line (the feed, what is being copied, the
channel, what is being offered), each place increasing and before the next, and
all that was handed over comes before the line; a feeder alone then hands over the
line's head.

*Jackpot service* (`JackpotServiceProofs`): `TypeCorrect`, in three parts that
different actions move. `DirtyFlushed`: `DirtyIsFlushed` is inductive with the types.
`OnlyUndatedGoBack`: stores compare times where the property speaks of amounts, so its
invariant relates the two. By `AmountsOK` no event, reader or buffer has a newer amount
than the reward service; by `StampsOK` a dated event and what a refresh read carry the
time of their amount, and what is buffered carries that time or, when it was undated or
is the initial value of a failed read, a later one. The store of startup compares
nothing, and comes before any event. `UpdatesReach`: `AmountsOK`, `StreamsOK` (no stream starts before startup has
ended, and a stream is a listener until it is cancelled) and `StreamsUpToDate`, which
extends the property to a stream in the middle of a read: a live
stream for which no signal is queued, being sent, or owed by the loop or by a dirty
buffer has seen what the buffer holds. One lemma for each kind of step: feed, loop,
stream, others.

*Access* (`GameAccessProofs`): `TypeCorrect`, with `PlansOK`: what a client has fetched is
a record of the kind that its next check is about. `RevokedKicked`, from `KickOK`,
which extends the property to connections that have passed their checks and are not
registered yet, and to an event that is about to be stored; its centre is `KicksWhenRevoked`: an event that the handler does not kick for takes the
permission from nobody whom the record before permitted.

*Audit log* (`AuditLogProofs`): `TypeCorrect`. `TakenWritten`, from `Drained`: while the
queue is open all workers serve it, and a worker leaves only once the queue is closed
and empty, so that `Close`, which waits for the workers, returns when nothing is
left. It needs at least one worker, and without a configured number the producer starts
ten. `HistoryRounds`, from `ToldInv`: what was sent, taken or written of a spin
tells the shape the spin has (`TellsOf`), which is chosen when it is logged and does not
change; that the history of such an event is right is a case analysis over the shapes,
the event and the conversion.

*Asset tokens* (in `GameAccessProofs`): `TokenLasts`, `TokenIsBounded`, `OneTokenPerBucket`, from the
two bounds that define a quotient (`DivBounds`).

Of the hypotheses, `Serial` is the instance of `spin_serial`; `MCSpinService` assumes of
the results of the runs what `AllListRetriggers` and `AllPlayable` ask, so that TLC checks
the properties under the conditions of the proofs. All other theorems have no
hypothesis but `AuditEnabled` for `Implements`.

Only model-checked: everything that says "eventually" (`StreamsCatchUp`, `SupersededIsClosed`, `NoStreamOutlivesConn`,
`RequestsAreAnswered`, `ClosedIsGone`, `ServedAsConfigured`, `EverySendEnds`, `StopEnds`,
`TakenArrives`), which the prover cannot do: it has no rule for fairness or ENABLED.
Every invariant and every action property of the runs above is stated by a theorem.

## Where the code and its documents differ

Each is a run that TLC is expected to refute.

| run | what the code does |
|---|---|
| `doc_send_never_panics` | `Send` may send on a channel that `Listen` has closed; the panic ends the process. |
| `doc_refresh_is_accurate` | A pool that startup could not read is stamped with the time of the failure and no refresh replaces it until it is written again. |

Seen while modelling, and not runs of their own:

- Of spins. Every free spin is settled with its own win, where `DIAGRAMS.md` shows one
  deposit, and a reset, at the last. Contributions are made for every normal spin,
  where `game/interface.go` says that they are asked for when no jackpot was won. A
  retrigger adds to `RemainingFreeSpin` and not to `FreeSpins`, so that a module that
  makes its list as the template does leaves a player in free spins with none to
  play; `FreeSpinsAddUp` states what a module must do instead (`ListsRetriggers`). A
  retried free spin claims its jackpot again, and as a free spin has no `spin_state`
  record, a jackpot granted to one whose process then dies leaves no trace. A failed log call loses the session ID
  and leaves a `spin_state` record.
- Of the log. A bet history of free spins is always empty: `LogSpin` logs every spin
  as "normal" (`LogSpin` of `AuditLog`). The balancer of the Kafka writer ignores the
  key of a message, so that a session's events are in no order.
- Of access. A websocket spin checks the tenant and not the game; the game provider
  takes its timeout from the wallet's settings; `ErrTenantGameNotFound` is compared
  with and never returned, so that an expired record is compared with the event,
  which is what lets a kick happen after the time to live.
- Of streams and sockets. A snapshot that could not be sent is not sent again although
  the message logged says that the stream stops. Two overlapping subscriptions leave a
  stream that only its connection's end stops. A node whose first `SetRedisClient` got
  a nil client never receives kicks. A pong is written from a second goroutine, on both
  kinds of socket, and the standalone jackpot socket's has no recover.
- Of pools. An event without a timestamp is stamped with its arrival, so that a late one
  replaces a newer amount by an older one, and a refresh does not undo it until the pool is
  written again. A game's pools are recognised by a prefix of its code, so that a game whose
  code begins with another's is taken for it. The consumer starts before the
  subscription is made, and what it reads in between reaches nobody.

## What is not modelled

- Amounts of money, reels, wins and bet levels: the game module is outside the
  repository and its results are an input.
- `ExecuteSpin`, the first version, and what nothing calls: `Broadcaster.SendWithTimeout`
  and `SendBatch`, `Service.Stop`, `Contribute` and `ContributeAndApply`, the
  producer's `SendMessageSync` and `SendBatch`, subscriptions to one pool and the
  consumer's cache of pools, the connection manager's broadcasts, and the timeout
  middleware, which no route uses.
- Redis writes that land after their caller gave up and went on; times to live of
  player states and records (days).
- Pools of different types that the streams show under one name; the sockets of the
  standalone jackpot stream, where a client that left is noticed by a heartbeat that
  fails.
- The signature of `pkg/cfsign`.
- Routes, authentication, configuration, the HTTP and Redis clients, logging: wrappers
  of libraries without state of their own; their failures are in the answers of the
  remote calls. The code generator writes a project once and keeps no state; of its
  templates only `main`'s wiring of the feed and of the shutdown is modelled.

## Plan

Done: all components whose state outlives a call. What could still be added:

1. Proofs of the safety that the properties with "eventually" rest on: that a stream, a
   superseded connection or a sending handler always has a step that brings it on.
2. A composition of `PoolFeed` with `JackpotService` in one module, and of `AuditLog` with
   `SpinService`; today the upper module takes for its environment more than the
   lower one does.
3. The standalone jackpot socket and its pong goroutine, once a timeout for reads tells
   when a client has gone.
4. The timeout middleware, if a route comes to use it.

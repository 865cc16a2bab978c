-------------------------- MODULE JackpotService --------------------------
(***************************************************************************)
(* The jackpot feed of a game server: jackpot.Service (pkg/jackpot/        *)
(* service.go), its Broadcaster (broadcast.go) and the streams that show   *)
(* the pools to clients (server/jackpot_handler.go).  The service buffers  *)
(* the newest update of each pool, from Kafka and from a periodic read of  *)
(* the reward service, and a loop announces changes to the streams with a  *)
(* flush signal; a stream answers it with a snapshot of the buffer.        *)
(*                                                                         *)
(* An amount is identified by the time the reward service wrote it, and 0  *)
(* stands for the initial value of the game's configuration.               *)
(***************************************************************************)
EXTENDS Naturals, FiniteSets

CONSTANTS
    Pool,       \* the pools of this game that the streams show
    Other,      \* the other pools of this game
    Registered, \* those of Pool registered at startup, for the default tenant
    Stream,     \* calls of streamUpdates
    Buffer,     \* the capacity of a listener's channel
    Timed,      \* whether events carry a timestamp: a subset of BOOLEAN
    MaxClock,   \* bound on the time, that is on writes to the pools
    None        \* no update

ASSUME PoolAssumption == Registered \subseteq Pool
ASSUME BufferAssumption == Buffer \in Nat \ {0}
ASSUME TimedAssumption == Timed \subseteq BOOLEAN
ASSUME ClockAssumption == MaxClock \in Nat \ {0}

Update == [amount : Nat, at : Nat]
Event == [pool : Pool, amount : Nat, at : Nat, timed : BOOLEAN]
Reader == {"init", "refresh"}
Stage == {"off", "listening", "initial", "waiting", "signalled", "snapshot",
          "left"}

ASSUME NoneAssumption == None \notin Update \cup (Pool \X Update)

VARIABLES
    clock,      \* the last instant something happened
    pool,       \* reward service: what GetPool answers
    events,     \* Kafka: updates on their way
    latest,     \* the buffer: the latest update of each pool, or None
    dirty,      \* the buffer changed since the last flush
    timerSet,   \* flushTimerSet
    armed,      \* the flush timer is running
    callbacks,  \* timer callbacks that have started and not sent yet
    flushChan,  \* flushChan holds a token
    todo,       \* pools that startup and the refresh loop have yet to read
    reading,    \* what each of them has read and not stored yet
    loop,       \* where the flush loop stands
    toSend,     \* the copied listeners that Send has yet to signal
    listeners,  \* the streams registered with the broadcaster
    queue,      \* flush signals in each stream's channel
    cancelled,  \* streams whose context is done
    closed,     \* streams whose channel is closed
    stage,      \* where each stream stands
    seen,       \* what each stream is about to send
    missing,    \* pools it has yet to ask the reward service for
    lastSent,   \* what it believes the client was shown
    failed      \* streams with a message that could not be sent

source == <<clock, pool, events>>
flush == <<dirty, timerSet, armed>>
token == <<callbacks, flushChan>>
readers == <<todo, reading>>
sending == <<loop, toSend>>
lifetime == <<listeners, cancelled, closed>>
view == <<stage, seen, missing, lastSent, failed>>
vars == <<source, latest, flush, token, readers, sending, lifetime, queue, view>>

TypeOK ==
    /\ clock \in 0..MaxClock
    /\ pool \in [Pool -> Update]
    /\ events \subseteq Event
    /\ latest \in [Pool -> Update \cup {None}]
    /\ <<dirty, timerSet, armed, flushChan>> \in BOOLEAN \X BOOLEAN \X BOOLEAN \X BOOLEAN
    /\ callbacks \in Nat
    /\ todo \in [Reader -> SUBSET Registered]
    /\ reading \in [Reader -> (Pool \X Update) \cup {None}]
    /\ loop \in {"idle", "flushed", "sending", "panicked"}
    /\ toSend \subseteq Stream
    /\ listeners \subseteq Stream
    /\ cancelled \subseteq Stream
    /\ closed \subseteq Stream
    /\ queue \in [Stream -> 0..Buffer]
    /\ stage \in [Stream -> Stage]
    /\ seen \in [Stream -> [Pool -> Update \cup {None}]]
    /\ missing \in [Stream -> SUBSET Pool]
    /\ lastSent \in [Stream -> [Pool -> Update \cup {None}]]
    /\ failed \subseteq Stream

NoUpdates == [p \in Pool |-> None]

Init ==
    /\ clock = 1
    /\ pool = [p \in Pool |-> [amount |-> 1, at |-> 1]]
    /\ events = {}
    /\ latest = NoUpdates
    /\ dirty = FALSE /\ timerSet = FALSE /\ armed = FALSE
    /\ callbacks = 0 /\ flushChan = FALSE
    /\ todo = [r \in Reader |-> IF r = "init" THEN Registered ELSE {}]
    /\ reading = [r \in Reader |-> None]
    /\ loop = "idle" /\ toSend = {}
    /\ listeners = {} /\ cancelled = {} /\ closed = {}
    /\ queue = [l \in Stream |-> 0]
    /\ stage = [l \in Stream |-> "off"]
    /\ seen = [l \in Stream |-> NoUpdates]
    /\ missing = [l \in Stream |-> {}]
    /\ lastSent = [l \in Stream |-> NoUpdates]
    /\ failed = {}

\* A panic in the flush loop, which nothing recovers, ends the process.
Up == loop # "panicked"

\* RegisterGame has registered the default tenant's pools and initialized them.
Bootstrapped == todo["init"] = {} /\ reading["init"] = None

-----------------------------------------------------------------------------
(***************************************************************************)
(* The reward service and Kafka, outside this repository.                  *)
(***************************************************************************)

\* A contribution or a claim changes a pool and emits an event.
WritePool(p) ==
    /\ clock < MaxClock
    /\ clock' = clock + 1
    /\ pool' = [pool EXCEPT ![p] = [amount |-> clock', at |-> clock']]
    /\ \E timed \in Timed :
          events' = events \cup {[pool |-> p, amount |-> clock', at |-> clock',
                                  timed |-> timed]}
    /\ UNCHANGED <<latest, flush, token, readers, sending, lifetime, queue, view>>

\* An event is dropped, by Kafka or by a full subscriber channel.
LoseEvent(e) ==
    /\ events' = events \ {e}
    /\ UNCHANGED <<clock, pool, latest, flush, token, readers, sending, lifetime,
                   queue, view>>

-----------------------------------------------------------------------------
(***************************************************************************)
(* The buffer.                                                             *)
(***************************************************************************)

\* The buffer has changed: the flush timer is armed unless it is set.
MarkDirty ==
    /\ dirty' = TRUE
    /\ timerSet' = TRUE
    /\ armed' = (armed \/ ~timerSet)

Store(p, u) == latest' = [latest EXCEPT ![p] = u] /\ MarkDirty

\* HandleKafkaUpdate, of an event that may be delivered again.  The feed is
\* attached once RegisterGame has initialized the pools.
HandleKafkaUpdate(e) ==
    LET u == [amount |-> e.amount, at |-> IF e.timed THEN e.at ELSE clock]
    IN  /\ Up
        /\ Bootstrapped
        /\ events' \in {events, events \ {e}}
        /\ IF latest[e.pool] # None /\ u.at < latest[e.pool].at
           THEN UNCHANGED <<latest, flush>>
           ELSE Store(e.pool, u)
        /\ UNCHANGED <<clock, pool, token, readers, sending, lifetime, queue, view>>

\* The same of a pool that the streams do not show, whose update they see
\* only in the flush.
HandleOtherUpdate ==
    /\ Up
    /\ Other # {}
    /\ Bootstrapped
    /\ MarkDirty
    /\ UNCHANGED <<source, latest, token, readers, sending, lifetime, queue, view>>

\* GetPool, called without the lock by startup or by a refresh.  Startup goes
\* on from an error with the initial value, stamped with the time; a refresh
\* skips the pool.
ReadPool(r, p) ==
    /\ Up
    /\ p \in todo[r] /\ reading[r] = None
    /\ todo' = [todo EXCEPT ![r] = @ \ {p}]
    /\ \/ /\ reading' = [reading EXCEPT ![r] = <<p, pool[p]>>]
          /\ UNCHANGED clock
       \/ /\ r = "init" /\ clock < MaxClock
          /\ clock' = clock + 1
          /\ reading' = [reading EXCEPT ![r] = <<p, [amount |-> 0, at |-> clock']>>]
       \/ /\ r = "refresh"
          /\ UNCHANGED <<clock, reading>>
    /\ UNCHANGED <<pool, events, latest, flush, token, sending, lifetime, queue, view>>

\* InitializePoolsFromProvider overwrites what the buffer holds, and does not
\* announce it.
InitializePool ==
    /\ Up
    /\ reading["init"] # None
    /\ latest' = [latest EXCEPT ![reading["init"][1]] = reading["init"][2]]
    /\ reading' = [reading EXCEPT !["init"] = None]
    /\ UNCHANGED <<source, flush, token, todo, sending, lifetime, queue, view>>

\* The refresh ticker fires.
StartRefresh ==
    /\ Up
    /\ todo["refresh"] = {} /\ reading["refresh"] = None
    /\ todo' = [todo EXCEPT !["refresh"] = Registered]
    /\ UNCHANGED <<source, latest, flush, token, reading, sending, lifetime, queue, view>>

\* Mutant: what was read replaces the buffer's update whatever its time.
RefreshPoolAlways ==
    /\ Up
    /\ reading["refresh"] # None
    /\ Store(reading["refresh"][1], reading["refresh"][2])
    /\ reading' = [reading EXCEPT !["refresh"] = None]
    /\ UNCHANGED <<source, token, todo, sending, lifetime, queue, view>>

\* Mutant: the refreshed value is not announced.
RefreshPoolQuietly ==
    /\ Up
    /\ reading["refresh"] # None
    /\ latest' = [latest EXCEPT ![reading["refresh"][1]] = reading["refresh"][2]]
    /\ reading' = [reading EXCEPT !["refresh"] = None]
    /\ UNCHANGED <<source, flush, token, todo, sending, lifetime, queue, view>>

\* What the refresh read is stored if it is newer than the buffer's update.
RefreshPool ==
    LET p == reading["refresh"][1]
        u == reading["refresh"][2]
    IN  /\ Up
        /\ reading["refresh"] # None
        /\ IF latest[p] = None \/ u.at > latest[p].at
           THEN Store(p, u)
           ELSE UNCHANGED <<latest, flush>>
        /\ reading' = [reading EXCEPT !["refresh"] = None]
        /\ UNCHANGED <<source, token, todo, sending, lifetime, queue, view>>

-----------------------------------------------------------------------------
(***************************************************************************)
(* The flush timer, the flush loop and Broadcaster.Send.                   *)
(***************************************************************************)

\* The timer goes off; its callback runs in a goroutine of its own.
TimerFires ==
    /\ Up /\ armed
    /\ armed' = FALSE
    /\ callbacks' = callbacks + 1
    /\ UNCHANGED <<source, latest, dirty, timerSet, flushChan, readers, sending,
                   lifetime, queue, view>>

\* The callback sends a token, unless flushChan is full.
TimerCallback ==
    /\ Up /\ callbacks > 0
    /\ callbacks' = callbacks - 1
    /\ flushChan' = TRUE
    /\ UNCHANGED <<source, latest, flush, readers, sending, lifetime, queue, view>>

\* Mutant: flushTimerSet is not reset.
FlushIfDirtyKeepsTimer ==
    IF dirty THEN /\ dirty' = FALSE /\ armed' = FALSE
                  /\ loop' = "flushed"
                  /\ UNCHANGED timerSet
             ELSE UNCHANGED <<flush, loop>>

\* flushIfDirty, up to the unlock.  A callback already started is not stopped.
FlushIfDirty ==
    IF dirty THEN /\ dirty' = FALSE /\ timerSet' = FALSE /\ armed' = FALSE
                  /\ loop' = "flushed"
             ELSE UNCHANGED <<flush, loop>>

\* The loop wakes up, by its ticker or by a token in flushChan.
LoopWakes ==
    /\ loop = "idle"
    /\ flushChan' \in {flushChan, FALSE}
    /\ FlushIfDirty
    /\ UNCHANGED <<source, latest, callbacks, readers, toSend, lifetime, queue, view>>

\* Send copies the set of listeners under the lock.
CopyListeners ==
    /\ loop = "flushed"
    /\ toSend' = listeners
    /\ loop' = IF listeners = {} THEN "idle" ELSE "sending"
    /\ UNCHANGED <<source, latest, flush, token, readers, lifetime, queue, view>>

\* Mutant: Send gives up at the first listener that is slow.
SendToStopsWhenFull(l) ==
    /\ loop = "sending" /\ l \in toSend
    /\ toSend' = IF queue[l] < Buffer THEN toSend \ {l} ELSE {}
    /\ queue' = [queue EXCEPT ![l] = IF @ < Buffer THEN @ + 1 ELSE @]
    /\ loop' = IF toSend' = {} THEN "idle" ELSE "sending"
    /\ UNCHANGED <<source, latest, flush, token, readers, lifetime, view>>

\* Mutant: the channel is not bounded.
SendToUnbounded(l) ==
    /\ loop = "sending" /\ l \in toSend
    /\ toSend' = toSend \ {l}
    /\ queue' = [queue EXCEPT ![l] = @ + 1]
    /\ loop' = IF toSend' = {} THEN "idle" ELSE "sending"
    /\ UNCHANGED <<source, latest, flush, token, readers, lifetime, view>>

\* The non-blocking send to one listener of the copy, without the lock: the
\* signal is dropped if the channel is full, and a closed channel panics.
SendTo(l) ==
    /\ loop = "sending" /\ l \in toSend
    /\ IF l \in closed
       THEN loop' = "panicked" /\ UNCHANGED <<toSend, queue>>
       ELSE /\ toSend' = toSend \ {l}
            /\ queue' = [queue EXCEPT ![l] = IF @ < Buffer THEN @ + 1 ELSE @]
            /\ loop' = IF toSend' = {} THEN "idle" ELSE "sending"
    /\ UNCHANGED <<source, latest, flush, token, readers, lifetime, view>>

-----------------------------------------------------------------------------
(***************************************************************************)
(* The streams: Broadcaster.Listen and JackpotHandler.streamUpdates.       *)
(***************************************************************************)

streamFrame == <<source, latest, flush, token, readers, sending>>

Move(l, from, to) == stage[l] = from /\ stage' = [stage EXCEPT ![l] = to]

\* Listen registers the stream's channel.  The server accepts clients once the
\* pools are initialized.
Listen(l) ==
    /\ Up
    /\ Bootstrapped
    /\ Move(l, "off", "listening")
    /\ listeners' = listeners \cup {l}
    /\ UNCHANGED <<streamFrame, cancelled, closed, queue, seen, missing, lastSent, failed>>

\* GetPoolsByIDs begins with a copy of the buffer.
CopyBuffer(l) ==
    /\ Up
    /\ Move(l, "listening", "initial")
    /\ seen' = [seen EXCEPT ![l] = latest]
    /\ missing' = [missing EXCEPT ![l] = Pool]
    /\ UNCHANGED <<streamFrame, lifetime, queue, lastSent, failed>>

Fallback == [amount |-> 0, at |-> clock]

\* GetPoolsByIDs prefers the reward service, unless it fails or the buffered
\* update is newer by more than a second.  A pool that is not registered is
\* skipped when the game has no initial value for it.
LookUpPool(l, p) ==
    LET buffered == seen[l][p]
        answers == {pool[p]}
            \cup (IF buffered = None THEN {Fallback} ELSE {buffered})
            \cup (IF p \in Registered THEN {} ELSE {None})
    IN  /\ Up
        /\ stage[l] = "initial" /\ p \in missing[l]
        /\ missing' = [missing EXCEPT ![l] = @ \ {p}]
        /\ \E u \in answers : seen' = [seen EXCEPT ![l][p] = u]
        /\ UNCHANGED <<streamFrame, lifetime, queue, stage, lastSent, failed>>

\* The pools count as sent, also when this first message could not be sent,
\* which is only logged.
SendInitialPools(l) ==
    /\ Up
    /\ missing[l] = {}
    /\ Move(l, "initial", "waiting")
    /\ lastSent' = [lastSent EXCEPT ![l] = seen[l]]
    /\ seen' = [seen EXCEPT ![l] = NoUpdates]
    /\ UNCHANGED <<streamFrame, lifetime, queue, missing, failed>>

\* The stream receives a flush signal.
TakeSignal(l) ==
    /\ Up
    /\ queue[l] > 0
    /\ Move(l, "waiting", "signalled")
    /\ queue' = [queue EXCEPT ![l] = @ - 1]
    /\ UNCHANGED <<streamFrame, lifetime, seen, missing, lastSent, failed>>

\* GetLatestPoolsByIDs reads the buffer, in one piece.
ReadLatest(l) ==
    /\ Up
    /\ Move(l, "signalled", "snapshot")
    /\ seen' = [seen EXCEPT ![l] = latest]
    /\ missing' = [missing EXCEPT ![l] = {p \in Pool : latest[p] = None}]
    /\ UNCHANGED <<streamFrame, lifetime, queue, lastSent, failed>>

\* It then asks the reward service for the pools the buffer does not hold.
FetchPool(l, p) ==
    /\ Up
    /\ stage[l] = "snapshot" /\ p \in missing[l]
    /\ missing' = [missing EXCEPT ![l] = @ \ {p}]
    /\ \E u \in {pool[p], Fallback} : seen' = [seen EXCEPT ![l][p] = u]
    /\ UNCHANGED <<streamFrame, lifetime, queue, stage, lastSent, failed>>

\* The message of a stream does not reach its client: the connection is
\* closed, the queue of the websocket is full, or the deadline has passed.
SendFails(l) == failed' = failed \cup {l} /\ UNCHANGED lastSent

\* sendSnapshot sends the pools if one of them changed.  When that fails it
\* returns, and the stream goes on.
SendSnapshot(l) ==
    /\ Up
    /\ missing[l] = {}
    /\ Move(l, "snapshot", "waiting")
    /\ \/ /\ lastSent' = [lastSent EXCEPT ![l] = seen[l]]
          /\ UNCHANGED failed
       \/ seen[l] # lastSent[l] /\ SendFails(l)
    /\ seen' = [seen EXCEPT ![l] = NoUpdates]
    /\ UNCHANGED <<streamFrame, lifetime, queue, missing>>

\* The stream's context is done: the client left, or resubscribed.
Cancel(l) ==
    /\ Up
    /\ stage[l] # "off"
    /\ cancelled' = cancelled \cup {l}
    /\ UNCHANGED <<streamFrame, listeners, closed, queue, view>>

\* The stream returns, which cancels: its context is done, or the client is
\* gone, or a heartbeat could not be sent.
Leave(l) ==
    /\ Up
    /\ Move(l, "waiting", "left")
    /\ cancelled' = cancelled \cup {l}
    /\ lastSent' = [lastSent EXCEPT ![l] = NoUpdates]
    /\ UNCHANGED <<streamFrame, listeners, closed, queue, seen, missing, failed>>

\* Listen's goroutine takes the channel from the listeners and closes it then.
Unregister(l) ==
    /\ Up
    /\ l \in cancelled \cap listeners
    /\ listeners' = listeners \ {l}
    /\ UNCHANGED <<streamFrame, cancelled, closed, queue, view>>

CloseChannel(l) ==
    /\ Up
    /\ l \in cancelled \ (listeners \cup closed)
    /\ closed' = closed \cup {l}
    /\ UNCHANGED <<streamFrame, listeners, cancelled, queue, view>>

-----------------------------------------------------------------------------

Outside == \/ \E p \in Pool : WritePool(p)
           \/ \E e \in events : LoseEvent(e)

Feed == \/ \E e \in events : HandleKafkaUpdate(e)
        \/ HandleOtherUpdate
        \/ \E r \in Reader, p \in Registered : ReadPool(r, p)
        \/ InitializePool \/ StartRefresh \/ RefreshPool

Loop == \/ TimerFires \/ TimerCallback \/ LoopWakes \/ CopyListeners
        \/ \E l \in Stream : SendTo(l)

\* What the goroutine of a stream does by itself.
Streaming(l) ==
    \/ CopyBuffer(l) \/ SendInitialPools(l)
    \/ TakeSignal(l) \/ ReadLatest(l) \/ SendSnapshot(l)
    \/ \E p \in Pool : LookUpPool(l, p) \/ FetchPool(l, p)

Lifetime(l) == Listen(l) \/ Cancel(l) \/ Leave(l) \/ Unregister(l) \/ CloseChannel(l)

Next == \/ Outside \/ Feed \/ Loop
        \/ \E l \in Stream : Streaming(l) \/ Lifetime(l)

\* The flush loop's ticker keeps firing, a send never blocks, and writes to a
\* client end by their deadline.  Nothing is assumed of Kafka, of the reward
\* service or of the flush timer.
Fairness ==
    /\ WF_vars(LoopWakes) /\ WF_vars(CopyListeners)
    /\ \A l \in Stream : WF_vars(SendTo(l)) /\ WF_vars(Streaming(l))

Spec == Init /\ [][Next]_vars /\ Fairness

-----------------------------------------------------------------------------
(***************************************************************************)
(* What the feed promises, until a panic ends the process.                 *)
(***************************************************************************)

\* Something will make the stream read the buffer again.
Announced(l) ==
    \/ dirty
    \/ loop = "flushed" /\ l \in listeners
    \/ loop = "sending" /\ l \in toSend
    \/ queue[l] > 0
    \/ stage[l] \in {"listening", "signalled"}

\* The pool's update the stream's client has, or is about to be sent.
Shown(l, p) == IF stage[l] \in {"initial", "snapshot"} THEN seen[l][p]
                                                       ELSE lastSent[l][p]

\* The streams whose client is there and was sent every snapshot that followed
\* the first message, which counts as sent.
Live(l) == Up /\ stage[l] # "off" /\ l \notin cancelled \cup failed

\* A stream that does not show an update of the buffer has a flush signal on
\* its way: signals that are dropped, merged or sent early never lose one.
UpdatesReachStreams ==
    \A l \in Stream, p \in Pool :
        Live(l) /\ ~Announced(l) /\ p \notin missing[l]
        /\ Shown(l, p) # None /\ latest[p] # None
            => Shown(l, p).amount >= latest[p].amount

\* A change of the buffer is flushed after the shorter interval, without
\* waiting for the ticker: its timer, a callback or a token will wake the loop.
DirtyIsFlushed ==
    /\ dirty <=> timerSet
    /\ dirty => armed \/ callbacks > 0 \/ flushChan

\* HandleKafkaUpdate stores an event without a timestamp as if it were new.
TakesUndated(p) ==
    \E e \in events : /\ e.pool = p /\ ~e.timed
                      /\ latest'[p] = [amount |-> e.amount, at |-> clock]

\* Once the pools are initialized, late or repeated events and slow reads of
\* the reward service never replace an amount by an older one, with the single
\* exception of an event that has no timestamp.
OnlyUndatedGoesBack ==
    [][\A p \in Pool :
          Bootstrapped /\ latest[p] # None
              => latest'[p].amount >= latest[p].amount \/ TakesUndated(p)]_vars

\* The client was last sent an older amount than the buffer holds, or none.
Behind(l, p) ==
    /\ Live(l) /\ latest[p] # None
    /\ lastSent[l][p] = None \/ lastSent[l][p].amount < latest[p].amount

\* A stream that is behind the buffer catches up, also when signals were dropped
\* and when the flush timer was stopped or its token came early.
StreamsCatchUp ==
    \A l \in Stream, p \in Registered : Behind(l, p) ~> ~Behind(l, p)

-----------------------------------------------------------------------------
(***************************************************************************)
(* What comments of the code say and the code does not do.                 *)
(***************************************************************************)

\* broadcast.go: Send publishes to all listeners, without blocking, and drops.
SendNeverPanics == Up

\* service.go: a refresh gives clients accurate values although Kafka's updates
\* are missing.  Once a refresh has read every pool from the reward service and
\* stored it, the buffer holds no amount older than what was read.
RefreshIsAccurate ==
    [][reading["refresh"] # None /\ reading'["refresh"] = None =>
          latest'[reading["refresh"][1]].amount >= reading["refresh"][2].amount]_vars
=============================================================================

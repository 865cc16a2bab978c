----------------------------- MODULE AuditLog -----------------------------
(***************************************************************************)
(* The way of a spin into the audit log and back into a bet history: the   *)
(* tail of ExecuteSpinV2 (server/game_service.go), LogProvider             *)
(* (provider/log_provider.go), the Kafka producer's queue and workers      *)
(* (events/kafka/producer.go), and the shutdown of the process             *)
(* (App.shutdown and the handlers main registers).                         *)
(***************************************************************************)
EXTENDS Integers, Sequences, FiniteSets

CONSTANTS
    Spin,        \* sessions, each handled once
    Worker,      \* goroutines of the producer
    Shape,       \* what a spin may be: type, rounds, jackpots
    QueueCap,    \* capacity of the channel jobs, 100 in the code
    MaxAttempts, \* of the Kafka writer, 3 in the code
    None

ASSUME CapAssumption == QueueCap \in Nat \ {0} /\ MaxAttempts \in Nat \ {0}
ASSUME ShapeAssumption ==
    Shape \subseteq [free : BOOLEAN, split : BOOLEAN, rounds : Nat, jackpots : Nat]

\* An AuditEvent: its session, its action, and which of the session's
\* jackpots it tells of.
Action == {"normal", "event_list", "jackpot", "spin_error"}
Message == [spin : Spin, action : Action, index : Nat]
NoMessage == [msg |-> None, attempts |-> 0]

\* NewProducerWithConfig starts one worker at least.
ASSUME WorkerAssumption == Worker # {}
ASSUME NoneAssumption == None \notin Shape /\ None \notin Message

VARIABLES
    stage,    \* of the process
    pc,       \* of each spin's handler
    shape,    \* what its result is
    toSend,   \* the events it has still to hand over
    jobs,     \* the channel
    work,     \* what each worker is writing, and its attempts
    running,  \* workers that have not returned
    store,    \* events Kafka has, once or, after retries, more often
    dropped,  \* ghost: events a worker has given up
    sent      \* ghost: events SendMessage took

handlers == <<pc, shape, toSend, sent>>
producer == <<work, running, dropped>>
vars == <<stage, handlers, jobs, producer, store>>

TypeOK ==
    /\ stage \in {"running", "closing", "closed", "exited", "crashed"}
    /\ pc \in [Spin -> {"idle", "sending", "done", "unsaved", "failed", "panicked"}]
    /\ shape \in [Spin -> Shape \cup {None}]
    /\ toSend \in [Spin -> Seq(Message)]
    /\ jobs \in Seq(Message) /\ Len(jobs) <= QueueCap
    /\ work \in [Worker -> [msg : Message, attempts : 0..MaxAttempts] \cup {NoMessage}]
    /\ running \subseteq Worker
    /\ store \subseteq Message /\ dropped \subseteq Message /\ sent \subseteq Message

Init ==
    /\ stage = "running"
    /\ pc = [s \in Spin |-> "idle"]
    /\ shape = [s \in Spin |-> None]
    /\ toSend = [s \in Spin |-> <<>>]
    /\ jobs = <<>>
    /\ work = [w \in Worker |-> NoMessage]
    /\ running = Worker
    /\ store = {} /\ dropped = {} /\ sent = {}

---------------------------------------------------------------------------
(* What is logged.                                                         *)

Msg(s, a, i) == [spin |-> s, action |-> a, index |-> i]

\* A spin is "normal" in the log whatever its type.
LogSpin(s, sh) ==
    IF sh.split /\ sh.rounds > 1 THEN Msg(s, "event_list", 0) ELSE Msg(s, "normal", 0)

LogJackpots(s, sh) == [i \in 1..sh.jackpots |-> Msg(s, "jackpot", i)]

\* The tail of ExecuteSpinV2 logs the spin and then its jackpots; a spin
\* that failed logs its error.
Finish(s) ==
    /\ stage \notin {"exited", "crashed"}
    /\ pc[s] = "idle"
    /\ pc' = [pc EXCEPT ![s] = "sending"]
    /\ \E sh \in Shape :
        /\ shape' = [shape EXCEPT ![s] = sh]
        /\ toSend' = [toSend EXCEPT ![s] = <<LogSpin(s, sh)>> \o LogJackpots(s, sh)]
    /\ UNCHANGED <<stage, jobs, producer, store, sent>>

Fail(s) ==
    /\ stage \notin {"exited", "crashed"}
    /\ pc[s] = "idle"
    /\ pc' = [pc EXCEPT ![s] = "sending"]
    /\ toSend' = [toSend EXCEPT ![s] = <<Msg(s, "spin_error", 0)>>]
    /\ UNCHANGED <<stage, shape, jobs, producer, store, sent>>

Sending(s) == stage \notin {"exited", "crashed"} /\ pc[s] = "sending" /\ toSend[s] # <<>>

\* Mutant: the channel takes any number of events.
SendMessageUnbounded(s) ==
    /\ Sending(s) /\ stage = "running"
    /\ jobs' = Append(jobs, Head(toSend[s]))
    /\ sent' = sent \cup {Head(toSend[s])}
    /\ toSend' = [toSend EXCEPT ![s] = Tail(@)]
    /\ UNCHANGED <<stage, pc, shape, producer, store>>

\* SendMessage waits for a place in the channel.
SendMessage(s) ==
    /\ Sending(s) /\ stage = "running" /\ Len(jobs) < QueueCap
    /\ jobs' = Append(jobs, Head(toSend[s]))
    /\ sent' = sent \cup {Head(toSend[s])}
    /\ toSend' = [toSend EXCEPT ![s] = Tail(@)]
    /\ UNCHANGED <<stage, pc, shape, producer, store>>

\* Mutant: the producer is told to stop and its channel stays open.
SendWaits(s) ==
    /\ Sending(s) /\ stage # "running"
    /\ UNCHANGED vars

\* The channel is closed: the send, begun or not, panics. The handler's
\* recover answers; what follows, SavePlayerState too, does not happen.
SendPanics(s) ==
    /\ Sending(s) /\ stage # "running"
    /\ pc' = [pc EXCEPT ![s] = "panicked"]
    /\ UNCHANGED <<stage, shape, toSend, jobs, producer, store, sent>>

\* SavePlayerState, which fails once the Redis client is closed; after an
\* error, clearSpinStateAsync.
Answer(s) ==
    /\ stage \notin {"exited", "crashed"} /\ pc[s] = "sending" /\ toSend[s] = <<>>
    /\ \/ pc' = [pc EXCEPT ![s] = "failed"] /\ Msg(s, "spin_error", 0) \in sent
       \/ /\ Msg(s, "spin_error", 0) \notin sent
          /\ \/ pc' = [pc EXCEPT ![s] = "done"] /\ stage # "closed"
             \/ pc' = [pc EXCEPT ![s] = "unsaved"]
    /\ UNCHANGED <<stage, shape, toSend, jobs, producer, store, sent>>

---------------------------------------------------------------------------
(* The workers.                                                            *)

Alive(w) == stage \notin {"exited", "crashed"} /\ w \in running

Take(w) ==
    /\ Alive(w) /\ work[w] = NoMessage /\ jobs # <<>>
    /\ work' = [work EXCEPT ![w] = [msg |-> Head(jobs), attempts |-> 0]]
    /\ jobs' = Tail(jobs)
    /\ UNCHANGED <<stage, handlers, running, store, dropped>>

\* One attempt of WriteMessages: the brokers may take the event and the
\* answer still not come.
Attempt(w) ==
    /\ Alive(w) /\ work[w] # NoMessage /\ work[w].attempts < MaxAttempts
    /\ \E taken, acked \in BOOLEAN :
        /\ acked => taken
        /\ store' = IF taken THEN store \cup {work[w].msg} ELSE store
        /\ work' = IF acked THEN [work EXCEPT ![w] = NoMessage]
                            ELSE [work EXCEPT ![w].attempts = @ + 1]
    /\ UNCHANGED <<stage, handlers, jobs, running, dropped>>

\* No attempt is left, the ten seconds are over, or the writer panics, which
\* is recovered for this event only: the failure is logged.
GiveUp(w) ==
    /\ Alive(w) /\ work[w] # NoMessage
    /\ work' = [work EXCEPT ![w] = NoMessage]
    /\ dropped' = dropped \cup ({work[w].msg} \ store)
    /\ UNCHANGED <<stage, handlers, jobs, running, store>>

\* Mutant: a worker looks at a stop signal instead.
ReturnAtOnce(w) ==
    /\ Alive(w) /\ work[w] = NoMessage
    /\ stage = "closing"
    /\ running' = running \ {w}
    /\ UNCHANGED <<stage, handlers, jobs, work, store, dropped>>

\* The range over a closed channel ends when the channel is empty.
Return(w) ==
    /\ Alive(w) /\ work[w] = NoMessage
    /\ stage = "closing" /\ jobs = <<>>
    /\ running' = running \ {w}
    /\ UNCHANGED <<stage, handlers, jobs, work, store, dropped>>

---------------------------------------------------------------------------
(* The process. The handlers given to OnShutdown run before the HTTP       *)
(* server is told to stop, while it takes and handles requests.            *)

CloseJobs ==
    /\ stage = "running" /\ stage' = "closing"
    /\ UNCHANGED <<handlers, jobs, producer, store>>

\* wg.Wait; then the writer and the Redis client are closed.
AwaitWorkers ==
    /\ stage = "closing" /\ running = {}
    /\ stage' = "closed"
    /\ UNCHANGED <<handlers, jobs, producer, store>>

\* What was in memory is gone.
EndProcess ==
    /\ jobs' = <<>> /\ work' = [w \in Worker |-> NoMessage]
    /\ toSend' = [s \in Spin |-> <<>>] /\ running' = {}
    /\ UNCHANGED <<pc, shape, sent, store, dropped>>

\* Shutdown of the HTTP server ends, or its thirty seconds do.
Exit ==
    /\ stage = "closed" /\ stage' = "exited"
    /\ EndProcess

Crash ==
    /\ stage \notin {"exited", "crashed"} /\ stage' = "crashed"
    /\ EndProcess

---------------------------------------------------------------------------
(* The bet history. The log service (external) keeps the list of actions   *)
(* and details of an event_list as entries of their own.                   *)

\* An entry shows one of the spin's rounds or the spin as a whole.
Whole == -1
Entry(s, a, r) == [spin |-> s, action |-> a, round |-> r]

Entries(m) ==
    IF m.action = "event_list"
    THEN {Entry(m.spin, "normal", 0)} \cup {Entry(m.spin, "normal_round", i) : i \in 1..(shape[m.spin].rounds - 1)}
    ELSE {Entry(m.spin, m.action, m.index)}

\* The action GetBetHistory asks for, and for spins the action's rounds.
Asked(type) ==
    CASE type = "normal" -> {"normal", "normal_round"}
      [] type = "free_spin" -> {"free_spin", "free_spin_round"}
      [] OTHER -> {type}

\* Mutant: the first entry always shows the whole spin.
BetOfWhole(e) == [spin |-> e.spin, round |-> e.round,
                  shows |-> IF e.action = "normal_round" THEN e.round ELSE Whole]

\* convertToBet and convertToBetEachRound: a round's entry shows its round,
\* a whole spin that keeps its rounds apart shows the first of them.
Bet(e) == [spin |-> e.spin, round |-> e.round,
           shows |-> IF e.action = "normal_round" THEN e.round
                     ELSE IF e.action = "normal" /\ shape[e.spin].split /\ shape[e.spin].rounds > 0 THEN 0
                     ELSE Whole]

History(type, m) == {Bet(e) : e \in {x \in Entries(m) : x.action \in Asked(type)}}

---------------------------------------------------------------------------

Work(w) == Take(w) \/ Attempt(w) \/ GiveUp(w) \/ Return(w)
Handle(s) == SendMessage(s) \/ SendPanics(s) \/ Answer(s)

Next ==
    \/ \E s \in Spin : Finish(s) \/ Fail(s) \/ Handle(s)
    \/ \E w \in Worker : Work(w)
    \/ CloseJobs \/ AwaitWorkers \/ Exit \/ Crash

\* Goroutines run, and a write to Kafka ends within its context's time.
Fairness ==
    /\ \A w \in Worker : WF_vars(Work(w))
    /\ \A s \in Spin : WF_vars(Handle(s))
    /\ WF_vars(AwaitWorkers)

Spec == Init /\ [][Next]_vars /\ Fairness

---------------------------------------------------------------------------
(* Properties                                                              *)

Pending(m) == \/ \E i \in 1..Len(jobs) : jobs[i] = m
              \/ \E w \in running : work[w].msg = m

\* What SendMessage took is on its way, in Kafka, or was given up after
\* Kafka did not answer: the closing of the producer at shutdown leaves
\* nothing behind, only a crash does.
TakenIsWritten ==
    \A m \in sent : \/ m \in store \cup dropped
                    \/ stage \in {"running", "closing"} /\ Pending(m)
                    \/ stage = "crashed"

\* Of a spin in the log the history shows each round under its number, or
\* the spin as a whole when its rounds are not kept apart.
HistoryShowsRounds ==
    \A m \in store : m.action \in {"normal", "event_list"} =>
        History("normal", m) =
            IF shape[m.spin].split /\ shape[m.spin].rounds > 0
            THEN {[spin |-> m.spin, round |-> r, shows |-> r] : r \in 0..(shape[m.spin].rounds - 1)}
            ELSE {[spin |-> m.spin, round |-> 0, shows |-> Whole]}

\* However slow Kafka is and whenever the producer is closed, no handler
\* waits for a place in the queue for ever.
EverySendEnds ==
    \A s \in Spin : pc[s] = "sending" ~> pc[s] # "sending" \/ stage \in {"exited", "crashed"}

=============================================================================

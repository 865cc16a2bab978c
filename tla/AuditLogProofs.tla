--------------------------- MODULE AuditLogProofs ---------------------------
(***************************************************************************)
(* Theorems about AuditLog, for any number of spins, rounds, jackpots and  *)
(* workers and any capacity of the producer's queue.                       *)
(***************************************************************************)
EXTENDS AuditLog, SequenceTheorems, TLAPS

USE CapAssumption, ShapeAssumption, WorkerAssumption, NoneAssumption

-----------------------------------------------------------------------------
(***************************************************************************)
(* The queue.                                                              *)
(***************************************************************************)

\* Taking the first element of a sequence moves the others up by one.
LEMMA TailMoves ==
    ASSUME NEW T, NEW q \in Seq(T), q # <<>>
    PROVE  /\ Head(q) \in T /\ Head(q) = q[1] /\ 1 \in 1..Len(q)
           /\ Tail(q) \in Seq(T) /\ Len(Tail(q)) = Len(q) - 1
           /\ \A i \in 1..Len(Tail(q)) : Tail(q)[i] = q[i + 1] /\ i + 1 \in 1..Len(q)
           /\ \A i \in 1..Len(q) : i = 1 \/ (i - 1 \in 1..Len(Tail(q)) /\ q[i] = Tail(q)[i - 1])
  <1> DEFINE n == Len(q)
             rest == Tail(q)
  <1>1. n \in Nat \ {0} /\ Head(q) = q[1]
    OBVIOUS
  <1>2. /\ Head(q) \in T /\ rest \in Seq(T) /\ Len(rest) = n - 1
        /\ \A i \in 1..Len(rest) : rest[i] = q[i + 1]
    BY HeadTailProperties
  <1> HIDE DEF n, rest
  <1>3. /\ 1 \in 1..n
        /\ \A i \in 1..(n - 1) : i + 1 \in 1..n
        /\ \A i \in 1..n : i = 1 \/ (i - 1 \in 1..(n - 1) /\ (i - 1) + 1 = i)
    BY <1>1
  <1>4. \A i \in 1..n : i = 1 \/ (i - 1 \in 1..Len(rest) /\ q[i] = rest[i - 1])
    BY <1>2, <1>3
  <1>5. 1 \in 1..n /\ \A i \in 1..Len(rest) : i + 1 \in 1..n
    BY <1>2, <1>3
  <1> QED
    BY <1>1, <1>2, <1>4, <1>5 DEF n, rest

\* Appending one leaves them where they are.
LEMMA AppendKeeps ==
    ASSUME NEW T, NEW q \in Seq(T), NEW e \in T
    PROVE  /\ Append(q, e) \in Seq(T) /\ Len(Append(q, e)) = Len(q) + 1
           /\ \A i \in 1..Len(Append(q, e)) :
                 IF i = Len(q) + 1 THEN Append(q, e)[i] = e
                 ELSE i \in 1..Len(q) /\ Append(q, e)[i] = q[i]
           /\ \A i \in 1..Len(q) : i \in 1..Len(Append(q, e))
  OBVIOUS

\* What the tail of a spin hands over: the spin, then its jackpots.
LEMMA LoggedEvents ==
    ASSUME NEW s \in Spin, NEW sh \in Shape
    PROVE  /\ <<LogSpin(s, sh)>> \o LogJackpots(s, sh) \in Seq(Message)
           /\ \A i \in 1..Len(<<LogSpin(s, sh)>> \o LogJackpots(s, sh)) :
                 LET m == (<<LogSpin(s, sh)>> \o LogJackpots(s, sh))[i]
                 IN  m = LogSpin(s, sh) \/ m.action = "jackpot"
  <1> DEFINE jackpots == LogJackpots(s, sh)
             first == <<LogSpin(s, sh)>>
  <1>1. sh.jackpots \in Nat
    OBVIOUS
  <1>2. \A i \in 1..sh.jackpots : /\ Msg(s, "jackpot", i) \in Message
                                  /\ Msg(s, "jackpot", i).action = "jackpot"
    BY <1>1 DEF Msg, Message, Action
  <1>3. jackpots \in Seq(Message) /\ Len(jackpots) = sh.jackpots
    <2>1. jackpots \in [1..sh.jackpots -> Message]
      BY <1>2 DEF LogJackpots
    <2> HIDE DEF jackpots
    <2> QED
      BY <1>1, <2>1
  <1>4. \A i \in 1..Len(jackpots) : jackpots[i].action = "jackpot"
    BY <1>2, <1>3 DEF LogJackpots
  <1>5. LogSpin(s, sh) \in Message
    BY DEF LogSpin, Msg, Message, Action
  <1>6. first \in Seq(Message) /\ Len(first) = 1 /\ first[1] = LogSpin(s, sh)
    BY <1>5
  <1> HIDE DEF jackpots, first
  <1>7. /\ first \o jackpots \in Seq(Message)
        /\ Len(first \o jackpots) = 1 + Len(jackpots)
        /\ \A i \in 1..(1 + Len(jackpots)) :
              (first \o jackpots)[i] = IF i <= 1 THEN first[i] ELSE jackpots[i - 1]
    <2>1. /\ first \o jackpots \in Seq(Message)
          /\ Len(first \o jackpots) = Len(first) + Len(jackpots)
          /\ \A i \in 1..(Len(first) + Len(jackpots)) :
                (first \o jackpots)[i] = IF i <= Len(first) THEN first[i]
                                         ELSE jackpots[i - Len(first)]
      BY <1>3, <1>6, ConcatProperties
    <2> QED
      BY <1>6, <2>1
  <1>8. \A i \in 1..(1 + Len(jackpots)) :
           (i = 1 /\ i <= 1) \/ (~(i <= 1) /\ i - 1 \in 1..Len(jackpots))
    <2>1. Len(jackpots) \in Nat
      BY <1>3
    <2> QED
      BY <2>1
  <1>9. ASSUME NEW i \in 1..(1 + Len(jackpots))
        PROVE  \/ (first \o jackpots)[i] = LogSpin(s, sh)
               \/ (first \o jackpots)[i].action = "jackpot"
    BY <1>4, <1>6, <1>7, <1>8
  <1> QED
    BY <1>7, <1>9 DEF first, jackpots

-----------------------------------------------------------------------------
(***************************************************************************)
(* Type correctness.                                                       *)
(***************************************************************************)

LEMMA TypeInit == Init => TypeOK
  BY DEF Init, TypeOK

\* An attempt ends the work on an event that Kafka has, or counts.
LEMMA AttemptMoves ==
    ASSUME TypeOK, NEW w \in Worker, Attempt(w)
    PROVE  /\ work[w].msg \in Message /\ store' \in {store, store \cup {work[w].msg}}
           /\ \/ work' = [work EXCEPT ![w] = NoMessage] /\ work[w].msg \in store'
              \/ \E again \in [msg : Message, attempts : 0..MaxAttempts] :
                    again.msg = work[w].msg /\ work' = [work EXCEPT ![w] = again]
  <1> DEFINE again == [msg |-> work[w].msg, attempts |-> work[w].attempts + 1]
  <1>1. work[w] \in [msg : Message, attempts : 0..MaxAttempts] /\ work[w].attempts < MaxAttempts
    BY DEF TypeOK, Attempt
  <1>2. again \in [msg : Message, attempts : 0..MaxAttempts]
    BY <1>1
  <1>3. [work EXCEPT ![w].attempts = @ + 1] = [work EXCEPT ![w] = again]
    <2>1. [work[w] EXCEPT !.attempts = @ + 1] = again
      BY <1>1
    <2>2. [work EXCEPT ![w].attempts = @ + 1]
            = [work EXCEPT ![w] = [work[w] EXCEPT !.attempts = @ + 1]]
      OBVIOUS
    <2> QED
      BY <2>1, <2>2, Zenon
  <1>4. PICK taken, acked \in BOOLEAN :
          /\ acked => taken
          /\ store' = IF taken THEN store \cup {work[w].msg} ELSE store
          /\ work' = IF acked THEN [work EXCEPT ![w] = NoMessage]
                              ELSE [work EXCEPT ![w].attempts = @ + 1]
    BY Zenon DEF Attempt
  <1>5. again.msg = work[w].msg
    OBVIOUS
  <1> HIDE DEF again
  <1> QED
    BY <1>1, <1>2, <1>3, <1>4, <1>5

LEMMA TypeStep ==
    ASSUME TypeOK, [Next]_vars
    PROVE  TypeOK'
  <1> USE DEF TypeOK, handlers, producer
  <1>1. ASSUME NEW s \in Spin, Finish(s) PROVE TypeOK'
    <2>1. PICK sh \in Shape :
             /\ shape' = [shape EXCEPT ![s] = sh]
             /\ toSend' = [toSend EXCEPT ![s] = <<LogSpin(s, sh)>> \o LogJackpots(s, sh)]
      BY <1>1 DEF Finish
    <2>2. <<LogSpin(s, sh)>> \o LogJackpots(s, sh) \in Seq(Message)
      BY LoggedEvents
    <2> QED
      BY <1>1, <2>1, <2>2 DEF Finish
  <1>2. ASSUME NEW s \in Spin, Fail(s) PROVE TypeOK'
    <2>1. <<Msg(s, "spin_error", 0)>> \in Seq(Message)
      BY DEF Msg, Message, Action
    <2> QED
      BY <1>2, <2>1 DEF Fail
  <1>3. ASSUME NEW s \in Spin, SendMessage(s) PROVE TypeOK'
    <2>1. /\ toSend[s] \in Seq(Message) /\ toSend[s] # <<>>
          /\ Head(toSend[s]) \in Message /\ Tail(toSend[s]) \in Seq(Message)
      BY <1>3, TailMoves DEF SendMessage, Sending
    <2>2. /\ Append(jobs, Head(toSend[s])) \in Seq(Message)
          /\ Len(Append(jobs, Head(toSend[s]))) = Len(jobs) + 1
      BY <2>1, AppendKeeps
    <2>3. Len(jobs) + 1 <= QueueCap
      BY <1>3 DEF SendMessage
    <2> QED
      BY <1>3, <2>1, <2>2, <2>3 DEF SendMessage
  <1>4. ASSUME NEW s \in Spin, SendPanics(s) \/ Answer(s) PROVE TypeOK'
    BY <1>4 DEF SendPanics, Answer
  <1>5. ASSUME NEW w \in Worker, Take(w) PROVE TypeOK'
    <2>1. /\ Head(jobs) \in Message /\ Tail(jobs) \in Seq(Message)
          /\ Len(Tail(jobs)) = Len(jobs) - 1
      BY <1>5, TailMoves DEF Take
    <2>2. [msg |-> Head(jobs), attempts |-> 0] \in [msg : Message, attempts : 0..MaxAttempts]
      BY <2>1
    <2>3. Len(jobs) - 1 <= QueueCap
      OBVIOUS
    <2> QED
      BY <1>5, <2>1, <2>2, <2>3 DEF Take
  <1>6. ASSUME NEW w \in Worker, Attempt(w) PROVE TypeOK'
    <2>1. /\ store' \subseteq Message
          /\ \/ work' = [work EXCEPT ![w] = NoMessage]
             \/ \E again \in [msg : Message, attempts : 0..MaxAttempts] :
                   work' = [work EXCEPT ![w] = again]
      BY <1>6, AttemptMoves
    <2>2. UNCHANGED <<stage, handlers, jobs, running, dropped>>
      BY <1>6 DEF Attempt
    <2> QED
      BY <2>1, <2>2
  <1>7. ASSUME NEW w \in Worker, GiveUp(w) \/ Return(w) PROVE TypeOK'
    BY <1>7 DEF GiveUp, Return
  <1>8. CASE CloseJobs \/ AwaitWorkers
    BY <1>8 DEF CloseJobs, AwaitWorkers
  <1>9. CASE Exit \/ Crash
    <2>1. <<>> \in Seq(Message) /\ Len(<<>>) <= QueueCap
      OBVIOUS
    <2>2. CASE Exit
      BY <2>1, <2>2 DEF Exit, EndProcess
    <2>3. CASE Crash
      BY <2>1, <2>3 DEF Crash, EndProcess
    <2> QED
      BY <1>9, <2>2, <2>3
  <1>10. CASE UNCHANGED vars
    BY <1>10 DEF vars
  <1> QED
    BY <1>1, <1>2, <1>3, <1>4, <1>5, <1>6, <1>7, <1>8, <1>9, <1>10
    DEF Next, Handle, Work

\* The queue never holds more than its capacity, and what handlers, queue and
\* workers pass on are events (SendMessage waits for a place).
THEOREM TypeCorrect == Spec => []TypeOK
  BY TypeInit, TypeStep, PTL DEF Spec

-----------------------------------------------------------------------------
(***************************************************************************)
(* Nothing is left behind.                                                 *)
(***************************************************************************)

\* All workers serve the open channel, and one returns from the closed one
\* only when it is empty, from when on nothing is sent.
Drained ==
    /\ stage = "running" => running = Worker
    /\ stage = "closing" /\ running # Worker => jobs = <<>>

TakenInv == Drained /\ TakenIsWritten

LEMMA TakenInit == Init => TakenInv
  BY DEF Init, TakenInv, Drained, TakenIsWritten

LEMMA TakenStep ==
    ASSUME TypeOK, TakenInv, [Next]_vars
    PROVE  TakenInv'
  <1> USE DEF TypeOK, TakenInv, Drained, TakenIsWritten, handlers, producer
  <1>1. ASSUME NEW s \in Spin,
               Finish(s) \/ Fail(s) \/ SendPanics(s) \/ Answer(s)
        PROVE  TakenInv'
    BY <1>1 DEF Finish, Fail, SendPanics, Answer, Pending
  <1>2. ASSUME NEW s \in Spin, SendMessage(s) PROVE TakenInv'
    <2>0. PICK e : e = Head(toSend[s])
      OBVIOUS
    <2>1. /\ stage = "running" /\ stage' = "running" /\ jobs' = Append(jobs, e)
          /\ sent' = sent \cup {e} /\ UNCHANGED <<work, running, store, dropped>>
      BY <1>2, <2>0 DEF SendMessage
    <2>2. e \in Message
      BY <1>2, <2>0, TailMoves DEF SendMessage, Sending
    <2>3. Pending(e)'
      <3>1. Len(jobs) + 1 \in 1..Len(jobs') /\ jobs'[Len(jobs) + 1] = e
        BY <2>1, <2>2, AppendKeeps
      <3> QED
        BY <3>1 DEF Pending
    <2>4. \A m : Pending(m) => Pending(m)'
      <3>1. \A i \in 1..Len(jobs) : i \in 1..Len(jobs') /\ jobs'[i] = jobs[i]
        BY <2>1, <2>2, AppendKeeps
      <3> QED
        BY <2>1, <3>1 DEF Pending
    <2> QED
      BY <2>1, <2>3, <2>4
  <1>3. ASSUME NEW w \in Worker, Take(w) PROVE TakenInv'
    <2>1. /\ jobs # <<>> /\ jobs' = Tail(jobs) /\ w \in running
          /\ work[w] = NoMessage
          /\ work' = [work EXCEPT ![w] = [msg |-> Head(jobs), attempts |-> 0]]
          /\ UNCHANGED <<stage, running, store, dropped, sent>>
      BY <1>3 DEF Take, Alive
    <2>2. /\ Head(jobs) = jobs[1]
          /\ \A i \in 1..Len(jobs) : i = 1 \/ (i - 1 \in 1..Len(jobs') /\ jobs[i] = jobs'[i - 1])
      BY <2>1, TailMoves
    <2>3. \A m \in Message : Pending(m) => Pending(m)'
      <3> SUFFICES ASSUME NEW m \in Message, Pending(m) PROVE Pending(m)'
        OBVIOUS
      <3>1. CASE \E i \in 1..Len(jobs) : jobs[i] = m
        <4>1. PICK i \in 1..Len(jobs) : jobs[i] = m
          BY <3>1
        <4>2. CASE i = 1
          <5>1. work'[w].msg = m /\ w \in running'
            BY <2>1, <2>2, <4>1, <4>2
          <5> QED
            BY <5>1 DEF Pending
        <4>3. CASE i # 1
          <5>1. i - 1 \in 1..Len(jobs') /\ jobs'[i - 1] = m
            BY <2>2, <4>1, <4>3
          <5> QED
            BY <5>1 DEF Pending
        <4> QED
          BY <4>2, <4>3
      <3>2. CASE \E v \in running : work[v].msg = m
        <4>1. PICK v \in running : work[v].msg = m
          BY <3>2
        <4>2. v # w
          BY <2>1, <4>1 DEF NoMessage
        <4>3. work'[v] = work[v] /\ v \in running'
          BY <2>1, <4>2
        <4> QED
          BY <4>1, <4>3 DEF Pending
      <3> QED
        BY <3>1, <3>2 DEF Pending
    <2> QED
      BY <2>1, <2>3
  <1>4. ASSUME NEW w \in Worker, Attempt(w) PROVE TakenInv'
    <2>1. /\ UNCHANGED <<stage, jobs, running, dropped, sent>>
          /\ store \subseteq store'
          /\ work[w] # NoMessage
          /\ \A v \in Worker \ {w} : work'[v] = work[v]
      BY <1>4 DEF Attempt
    <2>2. work[w].msg \in store' \/ work'[w].msg = work[w].msg
      BY <1>4, <2>1 DEF Attempt
    <2>3. \A m : Pending(m) => Pending(m)' \/ m \in store'
      BY <2>1, <2>2 DEF Pending
    <2> QED
      BY <2>1, <2>3
  <1>5. ASSUME NEW w \in Worker, GiveUp(w) PROVE TakenInv'
    <2>1. /\ UNCHANGED <<stage, jobs, running, store, sent>>
          /\ dropped' = dropped \cup ({work[w].msg} \ store)
          /\ \A v \in Worker \ {w} : work'[v] = work[v]
      BY <1>5 DEF GiveUp
    <2>2. \A m : Pending(m) => Pending(m)' \/ m \in store' \cup dropped'
      BY <2>1 DEF Pending
    <2> QED
      BY <2>1, <2>2
  <1>6. ASSUME NEW w \in Worker, Return(w) PROVE TakenInv'
    <2>1. /\ UNCHANGED <<stage, jobs, work, store, dropped, sent>>
          /\ stage = "closing" /\ jobs = <<>> /\ work[w] = NoMessage
          /\ running' = running \ {w}
      BY <1>6 DEF Return
    <2>2. \A m \in Message : Pending(m) => Pending(m)'
      BY <2>1 DEF Pending, NoMessage
    <2> QED
      BY <2>1, <2>2
  <1>7. CASE CloseJobs
    <2>1. stage = "running" /\ stage' = "closing"
          /\ UNCHANGED <<jobs, work, running, store, dropped, sent>>
      BY <1>7 DEF CloseJobs
    <2>2. \A m : Pending(m)' <=> Pending(m)
      BY <2>1 DEF Pending
    <2> QED
      BY <2>1, <2>2
  <1>8. CASE AwaitWorkers
    <2>1. /\ stage = "closing" /\ running = {} /\ stage' = "closed"
          /\ UNCHANGED <<jobs, work, running, store, dropped, sent>>
      BY <1>8 DEF AwaitWorkers
    <2>2. \A m : ~Pending(m)
      BY <2>1 DEF Pending
    <2> QED
      BY <2>1, <2>2
  <1>9. CASE Exit \/ Crash
    BY <1>9 DEF Exit, Crash, EndProcess
  <1>10. CASE UNCHANGED vars
    BY <1>10 DEF vars, Pending
  <1> QED
    BY <1>1, <1>2, <1>3, <1>4, <1>5, <1>6, <1>7, <1>8, <1>9, <1>10
    DEF Next, Handle, Work

\* An event that SendMessage took is queued, held by a worker, in Kafka, or
\* was given up for want of an answer: when Producer.Close has waited for the
\* workers, which leave the closed channel only when it is empty, none is left.
THEOREM TakenWritten == Spec => []TakenIsWritten
  <1>1. Init => TypeOK /\ TakenInv
    BY TypeInit, TakenInit
  <1>2. TypeOK /\ TakenInv /\ [Next]_vars => (TypeOK /\ TakenInv)'
    BY TypeStep, TakenStep
  <1>3. TakenInv => TakenIsWritten
    BY DEF TakenInv
  <1> QED
    BY <1>1, <1>2, <1>3, PTL DEF Spec

-----------------------------------------------------------------------------
(***************************************************************************)
(* The history.                                                            *)
(***************************************************************************)

\* An event that tells of a spin is the one LogSpin makes of its result.
TellsOf(shapes, m) ==
    m.action \in {"normal", "event_list"} =>
        shapes[m.spin] \in Shape /\ m = LogSpin(m.spin, shapes[m.spin])

\* All events on their way and in Kafka, with the results given.
AllTell(shapes) ==
    /\ \A s \in Spin : \A i \in 1..Len(toSend[s]) : TellsOf(shapes, toSend[s][i])
    /\ \A i \in 1..Len(jobs) : TellsOf(shapes, jobs[i])
    /\ \A w \in Worker : work[w] # NoMessage => TellsOf(shapes, work[w].msg)
    /\ \A m \in store : TellsOf(shapes, m)

ToldInv ==
    /\ \A s \in Spin : pc[s] = "idle" => shape[s] = None
    /\ AllTell(shape)

LEMMA ToldInit == Init => ToldInv
  BY DEF Init, ToldInv, AllTell

\* A result is fixed when its spin is logged.
LEMMA ToldStep ==
    ASSUME TypeOK, ToldInv, [Next]_vars
    PROVE  ToldInv'
  <1> USE DEF TypeOK, ToldInv, handlers, producer
  <1>1. ASSUME NEW s \in Spin, Finish(s) PROVE ToldInv'
    <2>1. PICK sh \in Shape :
             /\ shape' = [shape EXCEPT ![s] = sh]
             /\ toSend' = [toSend EXCEPT ![s] = <<LogSpin(s, sh)>> \o LogJackpots(s, sh)]
      BY <1>1 DEF Finish
    <2> DEFINE events == <<LogSpin(s, sh)>> \o LogJackpots(s, sh)
    <2>2. shape[s] = None /\ UNCHANGED <<jobs, work, store>>
      BY <1>1 DEF Finish
    <2>3. \A m \in Message : TellsOf(shape, m) => TellsOf(shape', m)
      BY <2>1, <2>2 DEF TellsOf, Message
    <2>4. \A i \in 1..Len(events) : TellsOf(shape', events[i])
      <3> SUFFICES ASSUME NEW i \in 1..Len(events) PROVE TellsOf(shape', events[i])
        OBVIOUS
      <3>1. events[i] = LogSpin(s, sh) \/ events[i].action = "jackpot"
        BY LoggedEvents
      <3>2. LogSpin(s, sh).spin = s /\ shape'[s] = sh
        BY <2>1 DEF LogSpin, Msg
      <3> QED
        BY <3>1, <3>2 DEF TellsOf
    <2> HIDE DEF events
    <2>5. \A t \in Spin : \A i \in 1..Len(toSend'[t]) : TellsOf(shape', toSend'[t][i])
      <3> SUFFICES ASSUME NEW t \in Spin, NEW i \in 1..Len(toSend'[t])
                   PROVE  TellsOf(shape', toSend'[t][i])
        OBVIOUS
      <3>1. CASE t = s
        BY <2>1, <2>4, <3>1 DEF events
      <3>2. CASE t # s
        <4>1. toSend'[t] = toSend[t] /\ toSend[t][i] \in Message
          BY <2>1, <3>2
        <4> QED
          BY <2>3, <4>1 DEF AllTell
      <3> QED
        BY <3>1, <3>2
    <2>6. \A i \in 1..Len(jobs) : jobs[i] \in Message
      OBVIOUS
    <2>7. \A w \in Worker : work[w] # NoMessage => work[w].msg \in Message
      OBVIOUS
    <2>8. \A t \in Spin : pc'[t] = "idle" => shape'[t] = None
      BY <1>1, <2>1 DEF Finish
    <2> QED
      BY <2>2, <2>3, <2>5, <2>6, <2>7, <2>8 DEF AllTell
  <1>2. ASSUME NEW s \in Spin, Fail(s) PROVE ToldInv'
    <2>1. /\ toSend' = [toSend EXCEPT ![s] = <<Msg(s, "spin_error", 0)>>]
          /\ UNCHANGED <<shape, jobs, work, store>>
          /\ \A t \in Spin : pc'[t] = "idle" => pc[t] = "idle"
      BY <1>2 DEF Fail
    <2>2. TellsOf(shape, Msg(s, "spin_error", 0))
      BY DEF TellsOf, Msg
    <2> QED
      BY <2>1, <2>2 DEF AllTell
  <1>3. ASSUME NEW s \in Spin, SendMessage(s) PROVE ToldInv'
    <2> DEFINE e == Head(toSend[s])
    <2>1. /\ toSend[s] \in Seq(Message) /\ toSend[s] # <<>>
          /\ jobs' = Append(jobs, e)
          /\ toSend' = [toSend EXCEPT ![s] = Tail(toSend[s])]
          /\ UNCHANGED <<pc, shape, work, store>>
      BY <1>3 DEF SendMessage, Sending
    <2>2. e \in Message /\ TellsOf(shape, e)
      BY <2>1, TailMoves DEF AllTell
    <2>3. \A i \in 1..Len(Tail(toSend[s])) : TellsOf(shape, Tail(toSend[s])[i])
      BY <2>1, TailMoves DEF AllTell
    <2> HIDE DEF e
    <2>4. \A i \in 1..Len(jobs') : TellsOf(shape, jobs'[i])
      BY <2>1, <2>2, AppendKeeps DEF AllTell
    <2>5. \A t \in Spin : \A i \in 1..Len(toSend'[t]) : TellsOf(shape, toSend'[t][i])
      BY <2>1, <2>3 DEF AllTell
    <2> QED
      BY <2>1, <2>4, <2>5 DEF AllTell
  <1>4. ASSUME NEW s \in Spin, SendPanics(s) \/ Answer(s) PROVE ToldInv'
    BY <1>4 DEF SendPanics, Answer, AllTell
  <1>5. ASSUME NEW w \in Worker, Take(w) PROVE ToldInv'
    <2>1. /\ jobs # <<>> /\ jobs' = Tail(jobs)
          /\ work' = [work EXCEPT ![w] = [msg |-> Head(jobs), attempts |-> 0]]
          /\ UNCHANGED <<pc, shape, toSend, store>>
      BY <1>5 DEF Take
    <2>2. TellsOf(shape, Head(jobs))
      BY <2>1, TailMoves DEF AllTell
    <2>3. \A i \in 1..Len(jobs') : TellsOf(shape, jobs'[i])
      BY <2>1, TailMoves DEF AllTell
    <2>4. \A v \in Worker : work'[v] # NoMessage => TellsOf(shape, work'[v].msg)
      BY <2>1, <2>2 DEF AllTell
    <2> QED
      BY <2>1, <2>3, <2>4 DEF AllTell
  <1>6. ASSUME NEW w \in Worker, Attempt(w) PROVE ToldInv'
    <2>1. /\ UNCHANGED <<pc, shape, toSend, jobs>>
          /\ work[w] # NoMessage /\ store' \subseteq store \cup {work[w].msg}
          /\ \A v \in Worker \ {w} : work'[v] = work[v]
          /\ work'[w] = NoMessage \/ work'[w].msg = work[w].msg
      BY <1>6, AttemptMoves DEF Attempt
    <2> QED
      BY <2>1 DEF AllTell
  <1>7. ASSUME NEW w \in Worker, GiveUp(w) \/ Return(w) PROVE ToldInv'
    BY <1>7 DEF GiveUp, Return, AllTell
  <1>8. CASE CloseJobs \/ AwaitWorkers
    BY <1>8 DEF CloseJobs, AwaitWorkers, AllTell
  <1>9. CASE Exit \/ Crash
    BY <1>9 DEF Exit, Crash, EndProcess, AllTell
  <1>10. CASE UNCHANGED vars
    BY <1>10 DEF vars, AllTell
  <1> QED
    BY <1>1, <1>2, <1>3, <1>4, <1>5, <1>6, <1>7, <1>8, <1>9, <1>10
    DEF Next, Handle, Work

\* What GetBetHistory makes of the event of a spin, whatever its result.
LEMMA HistoryOf ==
    ASSUME NEW m \in Message, TellsOf(shape, m), m.action \in {"normal", "event_list"}
    PROVE  History("normal", m) =
             IF shape[m.spin].split /\ shape[m.spin].rounds > 0
             THEN {[spin |-> m.spin, round |-> r, shows |-> r] : r \in 0..(shape[m.spin].rounds - 1)}
             ELSE {[spin |-> m.spin, round |-> 0, shows |-> Whole]}
  <1> DEFINE s == m.spin
             sh == shape[s]
             n == sh.rounds
             round(r) == [spin |-> s, round |-> r, shows |-> r]
             whole == Entry(s, "normal", 0)
             part(i) == Entry(s, "normal_round", i)
  <1>1. /\ sh \in Shape /\ n \in Nat /\ sh.split \in BOOLEAN
        /\ m = LogSpin(s, sh)
    BY DEF TellsOf
  <1>2. Asked("normal") = {"normal", "normal_round"}
    BY DEF Asked
  <1>3. /\ whole.spin = s /\ whole.round = 0 /\ whole.action = "normal"
        /\ \A i : part(i).spin = s /\ part(i).round = i /\ part(i).action = "normal_round"
    BY DEF Entry
  <1>4. \A i : Bet(part(i)) = round(i)
    BY <1>3 DEF Bet
  <1>5. Bet(whole) = IF sh.split /\ n > 0 THEN round(0)
                     ELSE [spin |-> s, round |-> 0, shows |-> Whole]
    BY <1>3 DEF Bet
  <1>6. CASE sh.split /\ n > 1
    <2>1. m.action = "event_list"
      BY <1>1, <1>6 DEF LogSpin, Msg
    <2>2. Entries(m) = {whole} \cup {part(i) : i \in 1..(n - 1)}
      BY <2>1 DEF Entries
    <2> HIDE DEF whole, part, round
    <2>3. History("normal", m) = {Bet(e) : e \in {whole} \cup {part(i) : i \in 1..(n - 1)}}
      BY <1>2, <1>3, <2>2 DEF History
    <2>4. History("normal", m) = {round(0)} \cup {round(i) : i \in 1..(n - 1)}
      BY <1>4, <1>5, <1>6, <1>1, <2>3
    <2>5. {0} \cup 1..(n - 1) = 0..(n - 1)
      BY <1>1, <1>6
    <2>6. History("normal", m) = {round(i) : i \in 0..(n - 1)}
      BY <2>4, <2>5
    <2> QED
      BY <1>1, <1>6, <2>6 DEF round
  <1>7. CASE ~(sh.split /\ n > 1)
    <2>1. m.action = "normal" /\ m.index = 0
      BY <1>1, <1>7 DEF LogSpin, Msg
    <2>2. Entries(m) = {whole}
      BY <2>1 DEF Entries
    <2> HIDE DEF whole, part, round
    <2>3. History("normal", m) = {Bet(whole)}
      BY <1>2, <1>3, <2>2 DEF History
    <2>4. CASE sh.split /\ n > 0
      <3>1. 0..(n - 1) = {0}
        BY <1>1, <1>7, <2>4
      <3>2. {round(r) : r \in 0..(n - 1)} = {round(0)}
        BY <3>1
      <3> QED
        BY <1>5, <2>3, <2>4, <3>2 DEF round
    <2>5. CASE ~(sh.split /\ n > 0)
      BY <1>5, <2>3, <2>5
    <2> QED
      BY <2>4, <2>5
  <1> QED
    BY <1>6, <1>7

\* For every event of a spin that reached Kafka, the bet history shows each of
\* the spin's rounds once, under its own number, or the whole spin when its
\* rounds are not kept apart (LogSpin's event_list, convertToBetEachRound).
THEOREM HistoryRounds == Spec => []HistoryShowsRounds
  <1>1. Init => TypeOK /\ ToldInv
    BY TypeInit, ToldInit
  <1>2. TypeOK /\ ToldInv /\ [Next]_vars => (TypeOK /\ ToldInv)'
    BY TypeStep, ToldStep
  <1>3. TypeOK /\ ToldInv => HistoryShowsRounds
    BY HistoryOf DEF ToldInv, AllTell, HistoryShowsRounds, TypeOK
  <1> QED
    BY <1>1, <1>2, <1>3, PTL DEF Spec
=============================================================================

------------------------ MODULE JackpotServiceProofs ------------------------
(***************************************************************************)
(* Theorems about JackpotService, for any pools, streams and capacities,   *)
(* and any number of writes to the pools.                                  *)
(***************************************************************************)
EXTENDS JackpotService, TLAPS

USE PoolAssumption, BufferAssumption, TimedAssumption, ClockAssumption, NoneAssumption

-----------------------------------------------------------------------------
(* Types.                                                                  *)

LEMMA NoUpdatesType == NoUpdates \in [Pool -> Update \cup {None}]
  BY DEF NoUpdates

LEMMA TypeInit == Init => TypeOK
  <1> SUFFICES ASSUME Init PROVE TypeOK
    OBVIOUS
  <1>1. clock \in 0..MaxClock /\ pool \in [Pool -> Update] /\ events \subseteq Event
    BY DEF Init, Update
  <1>2. latest \in [Pool -> Update \cup {None}]
    BY NoUpdatesType DEF Init
  <1>3. <<dirty, timerSet, armed, flushChan>> \in BOOLEAN \X BOOLEAN \X BOOLEAN \X BOOLEAN
    BY DEF Init
  <1>4. /\ todo \in [Reader -> SUBSET Registered]
        /\ reading \in [Reader -> (Pool \X Update) \cup {None}]
    BY DEF Init, Reader
  <1>5. /\ seen \in [Stream -> [Pool -> Update \cup {None}]]
        /\ lastSent \in [Stream -> [Pool -> Update \cup {None}]]
    BY NoUpdatesType DEF Init
  <1>6. /\ queue \in [Stream -> 0..Buffer] /\ stage \in [Stream -> Stage]
        /\ missing \in [Stream -> SUBSET Pool]
    BY DEF Init, Stage
  <1>7. /\ callbacks \in Nat /\ loop \in {"idle", "flushed", "sending", "panicked"}
        /\ toSend \subseteq Stream /\ listeners \subseteq Stream
        /\ cancelled \subseteq Stream /\ closed \subseteq Stream /\ failed \subseteq Stream
    BY DEF Init
  <1> QED BY <1>1, <1>2, <1>3, <1>4, <1>5, <1>6, <1>7 DEF TypeOK

\* The flags, one by one.
Flags == dirty \in BOOLEAN /\ timerSet \in BOOLEAN /\ armed \in BOOLEAN /\ flushChan \in BOOLEAN

LEMMA FlagsType ==
    <<dirty, timerSet, armed, flushChan>> \in BOOLEAN \X BOOLEAN \X BOOLEAN \X BOOLEAN <=> Flags
  BY DEF Flags

LEMMA FlagsTypeNext ==
    <<dirty', timerSet', armed', flushChan'>> \in BOOLEAN \X BOOLEAN \X BOOLEAN \X BOOLEAN <=> Flags'
  BY DEF Flags

\* What the streams hold.
ViewOK ==
    /\ stage \in [Stream -> Stage]
    /\ seen \in [Stream -> [Pool -> Update \cup {None}]]
    /\ missing \in [Stream -> SUBSET Pool]
    /\ lastSent \in [Stream -> [Pool -> Update \cup {None}]]
    /\ failed \subseteq Stream
    /\ queue \in [Stream -> 0..Buffer]

\* What the process has beside the streams.
ServiceOK ==
    /\ clock \in 0..MaxClock
    /\ pool \in [Pool -> Update]
    /\ events \subseteq Event
    /\ latest \in [Pool -> Update \cup {None}]
    /\ Flags
    /\ callbacks \in Nat
    /\ todo \in [Reader -> SUBSET Registered]
    /\ reading \in [Reader -> (Pool \X Update) \cup {None}]

\* The loop and the listeners it serves.
ListenersOK ==
    /\ loop \in {"idle", "flushed", "sending", "panicked"}
    /\ toSend \subseteq Stream
    /\ listeners \subseteq Stream
    /\ cancelled \subseteq Stream
    /\ closed \subseteq Stream

LEMMA TypeParts == TypeOK <=> ServiceOK /\ ListenersOK /\ ViewOK
  BY FlagsType DEF TypeOK, ServiceOK, ListenersOK, ViewOK

LEMMA TypePartsNext == TypeOK' <=> ServiceOK' /\ ListenersOK' /\ ViewOK'
  BY FlagsTypeNext DEF TypeOK, ServiceOK, ListenersOK, ViewOK

-----------------------------------------------------------------------------

LEMMA StoreType ==
    ASSUME ServiceOK, NEW p \in Pool, NEW u \in Update, Store(p, u), UNCHANGED flushChan
    PROVE  latest' \in [Pool -> Update \cup {None}] /\ Flags'
  <1>1. latest' \in [Pool -> Update \cup {None}]
    BY DEF Store, ServiceOK
  <1>2. dirty' \in BOOLEAN /\ timerSet' \in BOOLEAN /\ flushChan' \in BOOLEAN
    BY DEF Store, MarkDirty, ServiceOK, Flags
  <1>3. armed' \in BOOLEAN
    BY DEF Store, MarkDirty
  <1> QED BY <1>1, <1>2, <1>3 DEF Flags

\* The reward service, the events, the buffer and its readers.
LEMMA ServiceStep ==
    ASSUME ServiceOK, [Next]_vars
    PROVE  ServiceOK'
  <1> USE DEF ServiceOK
  <1>1. ASSUME NEW p \in Pool, WritePool(p)
        PROVE  ServiceOK'
    <2>1. clock' \in 0..MaxClock /\ clock' \in Nat
      BY <1>1 DEF WritePool
    <2>2. pool' \in [Pool -> Update]
      BY <1>1, <2>1 DEF WritePool, Update
    <2>3. events' \subseteq Event
      BY <1>1, <2>1 DEF WritePool, Event
    <2> QED BY <1>1, <2>1, <2>2, <2>3 DEF WritePool, flush, token, readers, Flags
  <1>2. ASSUME NEW e \in events, LoseEvent(e)
        PROVE  ServiceOK'
    BY <1>2 DEF LoseEvent, flush, token, readers, Flags
  <1>3. ASSUME NEW e \in events, HandleKafkaUpdate(e)
        PROVE  ServiceOK'
    <2> DEFINE u == [amount |-> e.amount, at |-> IF e.timed THEN e.at ELSE clock]
    <2>1. e.pool \in Pool /\ u \in Update
      BY DEF Event, Update
    <2>2. Store(e.pool, u) \/ UNCHANGED <<latest, flush>>
      BY <1>3 DEF HandleKafkaUpdate
    <2>3. latest' \in [Pool -> Update \cup {None}] /\ Flags'
      <3>1. CASE Store(e.pool, u)
        <4>1. UNCHANGED flushChan
          BY <1>3 DEF HandleKafkaUpdate, token
        <4> HIDE DEF u
        <4> QED BY <2>1, <3>1, <4>1, StoreType
      <3>2. CASE UNCHANGED <<latest, flush>>
        BY <1>3, <3>2 DEF HandleKafkaUpdate, token, flush, Flags
      <3> QED BY <2>2, <3>1, <3>2
    <2>4. events' \subseteq Event
      BY <1>3 DEF HandleKafkaUpdate
    <2> QED BY <1>3, <2>3, <2>4 DEF HandleKafkaUpdate, token, readers
  <1>4. CASE HandleOtherUpdate
    <2>1. Flags'
      <3>1. dirty' \in BOOLEAN /\ timerSet' \in BOOLEAN /\ flushChan' \in BOOLEAN
        BY <1>4 DEF HandleOtherUpdate, MarkDirty, token, Flags
      <3>2. armed' \in BOOLEAN
        BY <1>4 DEF HandleOtherUpdate, MarkDirty
      <3> QED BY <3>1, <3>2 DEF Flags
    <2> QED BY <1>4, <2>1 DEF HandleOtherUpdate, source, token, readers
  <1>5. ASSUME NEW r \in Reader, NEW p \in Registered, ReadPool(r, p)
        PROVE  ServiceOK'
    <2>1. todo' \in [Reader -> SUBSET Registered]
      BY <1>5 DEF ReadPool
    <2>2. clock' \in 0..MaxClock
      BY <1>5 DEF ReadPool
    <2>3. <<p, pool[p]>> \in Pool \X Update /\ <<p, [amount |-> 0, at |-> clock']>> \in Pool \X Update
      BY <2>2 DEF Update
    <2>4. reading' \in [Reader -> (Pool \X Update) \cup {None}]
      BY <1>5, <2>3 DEF ReadPool
    <2> QED BY <1>5, <2>1, <2>2, <2>4 DEF ReadPool, flush, token, Flags
  <1>6. CASE InitializePool
    <2>1. "init" \in Reader /\ reading["init"] \in Pool \X Update
      BY <1>6 DEF InitializePool, Reader
    <2>2. latest' \in [Pool -> Update \cup {None}]
      BY <1>6, <2>1 DEF InitializePool
    <2>3. reading' \in [Reader -> (Pool \X Update) \cup {None}]
      BY <1>6, <2>1 DEF InitializePool
    <2> QED BY <1>6, <2>2, <2>3 DEF InitializePool, source, flush, token, Flags
  <1>7. CASE StartRefresh
    <2>1. todo' \in [Reader -> SUBSET Registered]
      BY <1>7 DEF StartRefresh, Reader
    <2> QED BY <1>7, <2>1 DEF StartRefresh, source, flush, token, Flags
  <1>8. CASE RefreshPool
    <2> DEFINE p == reading["refresh"][1]
               u == reading["refresh"][2]
    <2>1. "refresh" \in Reader /\ reading["refresh"] \in Pool \X Update
      BY <1>8 DEF RefreshPool, Reader
    <2>2. p \in Pool /\ u \in Update
      BY <2>1
    <2>3. latest' \in [Pool -> Update \cup {None}] /\ Flags'
      <3>1. CASE Store(p, u)
        <4>1. UNCHANGED flushChan
          BY <1>8 DEF RefreshPool, token
        <4> HIDE DEF p, u
        <4> QED BY <2>2, <3>1, <4>1, StoreType
      <3>2. CASE UNCHANGED <<latest, flush>>
        BY <1>8, <3>2 DEF RefreshPool, token, flush, Flags
      <3> QED BY <1>8, <3>1, <3>2 DEF RefreshPool
    <2>4. reading' \in [Reader -> (Pool \X Update) \cup {None}]
      BY <1>8, <2>1 DEF RefreshPool
    <2> QED BY <1>8, <2>3, <2>4 DEF RefreshPool, source, token
  <1>9. CASE TimerFires \/ TimerCallback
    <2>1. Flags'
      BY <1>9 DEF TimerFires, TimerCallback, flush, Flags
    <2>2. callbacks' \in Nat
      BY <1>9 DEF TimerFires, TimerCallback
    <2> QED BY <1>9, <2>1, <2>2 DEF TimerFires, TimerCallback, source, readers
  <1>10. CASE LoopWakes
    <2>1. Flags'
      BY <1>10 DEF LoopWakes, FlushIfDirty, flush, Flags
    <2> QED BY <1>10, <2>1 DEF LoopWakes, source, readers
  <1>11. CASE UNCHANGED <<source, latest, flush, token, readers>>
    BY <1>11 DEF source, flush, token, readers, Flags
  <1>12. ASSUME NEW l \in Stream, Streaming(l) \/ Lifetime(l)
         PROVE  ServiceOK'
    <2>1. UNCHANGED <<source, latest, flush, token, readers>>
      BY <1>12 DEF Streaming, Lifetime, streamFrame, Listen, CopyBuffer, LookUpPool,
           SendInitialPools, TakeSignal, ReadLatest, FetchPool, SendSnapshot, Cancel, Leave,
           Unregister, CloseChannel
    <2> QED BY <1>11, <2>1
  <1>13. CASE CopyListeners \/ \E l \in Stream : SendTo(l)
    <2>1. UNCHANGED <<source, latest, flush, token, readers>>
      BY <1>13 DEF CopyListeners, SendTo
    <2> QED BY <1>11, <2>1
  <1>14. CASE UNCHANGED vars
    <2>1. UNCHANGED <<source, latest, flush, token, readers>>
      BY <1>14 DEF vars
    <2> QED BY <1>11, <2>1
  <1> HIDE DEF ServiceOK
  <1>15. CASE Outside \/ Feed
    BY <1>1, <1>2, <1>3, <1>4, <1>5, <1>6, <1>7, <1>8, <1>15 DEF Outside, Feed
  <1>16. CASE Loop
    BY <1>9, <1>10, <1>13, <1>16 DEF Loop
  <1> QED
    BY <1>12, <1>14, <1>15, <1>16 DEF Next

LEMMA ListenersStep ==
    ASSUME ListenersOK, [Next]_vars
    PROVE  ListenersOK'
  <1> USE DEF ListenersOK
  <1>1. CASE LoopWakes
    BY <1>1 DEF LoopWakes, FlushIfDirty, lifetime
  <1>2. CASE CopyListeners
    BY <1>2 DEF CopyListeners, lifetime
  <1>3. ASSUME NEW l \in Stream, SendTo(l)
        PROVE  ListenersOK'
    BY <1>3 DEF SendTo, lifetime
  <1>4. ASSUME NEW l \in Stream, Lifetime(l)
        PROVE  ListenersOK'
    BY <1>4 DEF Lifetime, streamFrame, sending, Listen, Cancel, Leave, Unregister, CloseChannel
  <1>5. CASE UNCHANGED <<sending, lifetime>>
    BY <1>5 DEF sending, lifetime
  <1>6. ASSUME NEW l \in Stream, Streaming(l)
        PROVE  ListenersOK'
    <2>1. UNCHANGED <<sending, lifetime>>
      BY <1>6 DEF Streaming, streamFrame, CopyBuffer, LookUpPool, SendInitialPools, TakeSignal,
           ReadLatest, FetchPool, SendSnapshot
    <2> QED BY <1>5, <2>1
  <1>7. CASE Outside \/ Feed \/ TimerFires \/ TimerCallback \/ UNCHANGED vars
    <2>1. UNCHANGED <<sending, lifetime>>
      BY <1>7 DEF Outside, WritePool, LoseEvent, Feed, HandleKafkaUpdate, HandleOtherUpdate,
           ReadPool, InitializePool, StartRefresh, RefreshPool, TimerFires, TimerCallback, vars
    <2> QED BY <1>5, <2>1
  <1> HIDE DEF ListenersOK
  <1> QED BY <1>1, <1>2, <1>3, <1>4, <1>6, <1>7 DEF Next, Loop

\* A channel never holds more signals than it has places.
LEMMA ViewStep ==
    ASSUME ServiceOK, ViewOK, [Next]_vars
    PROVE  ViewOK'
  <1> USE DEF ViewOK
  <1>1. ASSUME NEW l \in Stream, SendTo(l)
        PROVE  ViewOK'
    <2>1. queue' \in [Stream -> 0..Buffer]
      BY <1>1 DEF SendTo
    <2> QED BY <1>1, <2>1 DEF SendTo, view
  <1>2. ASSUME NEW l \in Stream, Listen(l)
        PROVE  ViewOK'
    BY <1>2 DEF Listen, Move, Stage
  <1>3. ASSUME NEW l \in Stream, CopyBuffer(l)
        PROVE  ViewOK'
    BY <1>3 DEF CopyBuffer, Move, Stage, ServiceOK
  <1>4. ASSUME NEW l \in Stream, NEW p \in Pool, LookUpPool(l, p)
        PROVE  ViewOK'
    <2>1. PICK u \in {pool[p], Fallback, seen[l][p], None} : seen' = [seen EXCEPT ![l][p] = u]
      BY <1>4 DEF LookUpPool
    <2>2. u \in Update \cup {None}
      BY DEF ServiceOK, Fallback, Update
    <2>3. seen' \in [Stream -> [Pool -> Update \cup {None}]]
      BY <2>1, <2>2
    <2> QED BY <1>4, <2>3 DEF LookUpPool
  <1>5. ASSUME NEW l \in Stream, SendInitialPools(l)
        PROVE  ViewOK'
    BY <1>5, NoUpdatesType DEF SendInitialPools, Move, Stage
  <1>6. ASSUME NEW l \in Stream, TakeSignal(l)
        PROVE  ViewOK'
    <2>1. queue' \in [Stream -> 0..Buffer]
      BY <1>6 DEF TakeSignal
    <2> QED BY <1>6, <2>1 DEF TakeSignal, Move, Stage
  <1>7. ASSUME NEW l \in Stream, ReadLatest(l)
        PROVE  ViewOK'
    <2>1. {p \in Pool : latest[p] = None} \in SUBSET Pool
      OBVIOUS
    <2> QED BY <1>7, <2>1 DEF ReadLatest, Move, Stage, ServiceOK
  <1>8. ASSUME NEW l \in Stream, NEW p \in Pool, FetchPool(l, p)
        PROVE  ViewOK'
    <2>1. PICK u \in {pool[p], Fallback} : seen' = [seen EXCEPT ![l][p] = u]
      BY <1>8 DEF FetchPool
    <2>2. u \in Update
      BY DEF ServiceOK, Fallback, Update
    <2>3. seen' \in [Stream -> [Pool -> Update \cup {None}]]
      BY <2>1, <2>2
    <2> QED BY <1>8, <2>3 DEF FetchPool
  <1>9. ASSUME NEW l \in Stream, SendSnapshot(l)
        PROVE  ViewOK'
    BY <1>9, NoUpdatesType DEF SendSnapshot, SendFails, Move, Stage
  <1>10. ASSUME NEW l \in Stream, Leave(l)
         PROVE  ViewOK'
    BY <1>10, NoUpdatesType DEF Leave, Move, Stage
  <1>11. CASE UNCHANGED <<queue, view>>
    BY <1>11 DEF view
  <1>12. ASSUME NEW l \in Stream, Cancel(l) \/ Unregister(l) \/ CloseChannel(l)
         PROVE  ViewOK'
    BY <1>11, <1>12 DEF Cancel, Unregister, CloseChannel
  <1>13. CASE \/ Outside \/ Feed \/ TimerFires \/ TimerCallback
              \/ LoopWakes \/ CopyListeners \/ UNCHANGED vars
    <2>1. UNCHANGED <<queue, view>>
      BY <1>13 DEF Outside, WritePool, LoseEvent, Feed, HandleKafkaUpdate, HandleOtherUpdate,
           ReadPool, InitializePool, StartRefresh, RefreshPool, TimerFires, TimerCallback,
           LoopWakes, CopyListeners, vars
    <2> QED BY <1>11, <2>1
  <1> HIDE DEF ViewOK
  <1> QED
    BY <1>1, <1>2, <1>3, <1>4, <1>5, <1>6, <1>7, <1>8, <1>9, <1>10, <1>12, <1>13
       DEF Next, Loop, Streaming, Lifetime

LEMMA TypeStep == TypeOK /\ [Next]_vars => TypeOK'
  BY ServiceStep, ListenersStep, ViewStep, TypeParts, TypePartsNext

\* No channel holds more signals than it has places, and a stream is only
\* ever given updates of the pools.
THEOREM TypeCorrect == Spec => []TypeOK
  BY TypeInit, TypeStep, PTL DEF Spec

-----------------------------------------------------------------------------
(* The flush timer.                                                        *)

LEMMA DirtyStep ==
    ASSUME TypeOK, DirtyIsFlushed, [Next]_vars
    PROVE  DirtyIsFlushed'
  <1>0. Flags /\ callbacks \in Nat
    BY TypeParts DEF ServiceOK
  <1> USE DEF DirtyIsFlushed
  <1>1. ASSUME MarkDirty, UNCHANGED token
        PROVE  DirtyIsFlushed'
    BY <1>0, <1>1 DEF MarkDirty, token, Flags
  <1>2. CASE UNCHANGED <<flush, token>>
    BY <1>2 DEF flush, token
  <1>3. ASSUME NEW e \in events, HandleKafkaUpdate(e)
        PROVE  DirtyIsFlushed'
    BY <1>1, <1>2, <1>3 DEF HandleKafkaUpdate, Store
  <1>4. CASE HandleOtherUpdate \/ RefreshPool
    BY <1>1, <1>2, <1>4 DEF HandleOtherUpdate, RefreshPool, Store
  <1>5. CASE TimerFires
    BY <1>0, <1>5 DEF TimerFires
  <1>6. CASE TimerCallback
    BY <1>6 DEF TimerCallback, flush
  <1>7. CASE LoopWakes
    BY <1>0, <1>7 DEF LoopWakes, FlushIfDirty, flush, Flags
  <1>8. CASE CopyListeners \/ UNCHANGED vars \/ InitializePool \/ StartRefresh
    BY <1>2, <1>8 DEF CopyListeners, vars, InitializePool, StartRefresh
  <1>9. ASSUME \/ \E p \in Pool : WritePool(p)
               \/ \E e \in events : LoseEvent(e)
               \/ \E r \in Reader, p \in Registered : ReadPool(r, p)
        PROVE  DirtyIsFlushed'
    BY <1>2, <1>9 DEF WritePool, LoseEvent, ReadPool
  <1>10. ASSUME NEW l \in Stream, SendTo(l) \/ Streaming(l) \/ Lifetime(l)
         PROVE  DirtyIsFlushed'
    <2>1. UNCHANGED <<flush, token>>
      BY <1>10 DEF SendTo, Streaming, Lifetime, streamFrame, Listen, CopyBuffer, LookUpPool,
           SendInitialPools, TakeSignal, ReadLatest, FetchPool, SendSnapshot, Cancel, Leave,
           Unregister, CloseChannel
    <2> QED BY <1>2, <2>1
  <1> HIDE DEF DirtyIsFlushed
  <1> QED
    BY <1>3, <1>4, <1>5, <1>6, <1>7, <1>8, <1>9, <1>10 DEF Next, Outside, Feed, Loop

\* A change of the buffer is flushed after the shorter interval, without
\* waiting for the ticker: whatever the order of timer, callback and loop, one
\* of them is still to wake the loop.
THEOREM DirtyFlushed == Spec => []DirtyIsFlushed
  <1>1. Init => DirtyIsFlushed
    BY DEF Init, DirtyIsFlushed
  <1> QED BY TypeInit, TypeStep, DirtyStep, <1>1, PTL DEF Spec

-----------------------------------------------------------------------------
(* The buffer.                                                             *)

\* No amount in the process is newer than the reward service's.
AmountsOK ==
    /\ \A p \in Pool : pool[p].amount <= clock
    /\ \A e \in events : e.amount <= pool[e.pool].amount
    /\ \A p \in Pool : latest[p] # None => latest[p].amount <= pool[p].amount
    /\ \A r \in Reader : reading[r] # None =>
          reading[r][2].amount <= pool[reading[r][1]].amount

LEMMA AmountsInit == Init => AmountsOK
  BY DEF Init, AmountsOK, NoUpdates

LEMMA AmountsStep ==
    ASSUME TypeOK, AmountsOK, [Next]_vars
    PROVE  AmountsOK'
  <1>0. ServiceOK /\ ServiceOK'
    BY TypeParts, TypePartsNext, TypeStep
  <1> USE DEF AmountsOK
  <1>1. ASSUME NEW p \in Pool, WritePool(p)
        PROVE  AmountsOK'
    <2>1. clock \in Nat /\ clock' = clock + 1
      BY <1>0, <1>1 DEF WritePool, ServiceOK
    <2>2. \A q \in Pool : pool[q].amount \in Nat /\ pool'[q].amount \in Nat
      BY <1>0 DEF ServiceOK, Update
    <2>3. \A q \in Pool : pool[q].amount <= pool'[q].amount /\ pool'[q].amount <= clock'
      BY <1>0, <1>1, <2>1, <2>2 DEF WritePool, ServiceOK
    <2>4. \A e \in events' : e.amount <= pool'[e.pool].amount
      <3>1. ASSUME NEW e \in events
            PROVE  e.amount <= pool'[e.pool].amount
        <4>1. e.pool \in Pool /\ e.amount \in Nat
          BY <1>0 DEF ServiceOK, Event
        <4> QED BY <2>2, <2>3, <4>1
      <3>2. ASSUME NEW timed \in Timed
            PROVE  LET e == [pool |-> p, amount |-> clock', at |-> clock', timed |-> timed]
                   IN  e.amount <= pool'[e.pool].amount
        BY <1>0, <1>1, <2>1 DEF WritePool, ServiceOK
      <3> QED BY <1>1, <3>1, <3>2 DEF WritePool
    <2>5. \A q \in Pool : latest[q] # None => latest[q].amount <= pool'[q].amount
      BY <1>0, <2>2, <2>3 DEF ServiceOK, Update
    <2>6. \A r \in Reader : reading[r] # None =>
             reading[r][2].amount <= pool'[reading[r][1]].amount
      <3> SUFFICES ASSUME NEW r \in Reader, reading[r] # None
                   PROVE  reading[r][2].amount <= pool'[reading[r][1]].amount
        OBVIOUS
      <3>1. reading[r] \in Pool \X Update
        BY <1>0 DEF ServiceOK
      <3>2. reading[r][1] \in Pool /\ reading[r][2].amount \in Nat
        BY <3>1 DEF Update
      <3> QED BY <2>2, <2>3, <3>2
    <2> QED BY <1>1, <2>3, <2>4, <2>5, <2>6 DEF WritePool, readers
  <1>2. ASSUME NEW p \in Pool, NEW u \in Update, Store(p, u), u.amount <= pool[p].amount,
               UNCHANGED <<clock, pool>>, events' \subseteq events,
               \A r \in Reader : reading'[r] \in {reading[r], None}
        PROVE  AmountsOK'
    <2>1. \A q \in Pool : latest'[q] # None => latest'[q].amount <= pool'[q].amount
      BY <1>0, <1>2 DEF Store, ServiceOK
    <2>2. \A r \in Reader : reading'[r] # None =>
             reading'[r][2].amount <= pool'[reading'[r][1]].amount
      BY <1>2
    <2> QED BY <1>2, <2>1, <2>2
  <1>3. ASSUME UNCHANGED <<clock, pool, latest>>, events' \subseteq events,
               \A r \in Reader : reading'[r] \in {reading[r], None}
        PROVE  AmountsOK'
    BY <1>3
  <1>4. ASSUME NEW e \in events, HandleKafkaUpdate(e)
        PROVE  AmountsOK'
    <2> DEFINE u == [amount |-> e.amount, at |-> IF e.timed THEN e.at ELSE clock]
    <2>1. e.pool \in Pool /\ u \in Update /\ u.amount <= pool[e.pool].amount
      BY <1>0 DEF ServiceOK, Event, Update
    <2>2. /\ UNCHANGED <<clock, pool, reading>> /\ events' \subseteq events
          /\ Store(e.pool, u) \/ UNCHANGED latest
      BY <1>4 DEF HandleKafkaUpdate, readers
    <2> HIDE DEF u
    <2> QED BY <1>2, <1>3, <2>1, <2>2
  <1>5. CASE RefreshPool
    <2> DEFINE p == reading["refresh"][1]
               u == reading["refresh"][2]
    <2>1. "refresh" \in Reader /\ reading["refresh"] \in Pool \X Update
      BY <1>0, <1>5 DEF RefreshPool, ServiceOK, Reader
    <2>2. p \in Pool /\ u \in Update /\ u.amount <= pool[p].amount
      BY <1>5, <2>1 DEF RefreshPool
    <2>3. UNCHANGED <<clock, pool, events>> /\ (Store(p, u) \/ UNCHANGED latest)
      BY <1>5 DEF RefreshPool, source
    <2>4. \A r \in Reader : reading'[r] \in {reading[r], None}
      BY <1>0, <1>5 DEF RefreshPool, ServiceOK
    <2> HIDE DEF p, u
    <2> QED BY <1>2, <1>3, <2>2, <2>3, <2>4
  <1>6. CASE InitializePool
    <2>1. "init" \in Reader /\ reading["init"] \in Pool \X Update
      BY <1>0, <1>6 DEF InitializePool, ServiceOK, Reader
    <2>2. \A q \in Pool : latest'[q] # None => latest'[q].amount <= pool[q].amount
      BY <1>0, <1>6, <2>1 DEF InitializePool, ServiceOK
    <2>3. \A r \in Reader : reading'[r] \in {reading[r], None}
      BY <1>0, <1>6 DEF InitializePool, ServiceOK
    <2>4. \A r \in Reader : reading'[r] # None =>
             reading'[r][2].amount <= pool[reading'[r][1]].amount
      BY <2>3
    <2> QED BY <1>6, <2>2, <2>4 DEF InitializePool, source
  <1>7. ASSUME NEW r \in Reader, NEW p \in Registered, ReadPool(r, p)
        PROVE  AmountsOK'
    <2>1. p \in Pool /\ pool[p].amount \in Nat /\ clock \in Nat /\ clock' \in Nat /\ clock <= clock'
      BY <1>0, <1>7 DEF ReadPool, ServiceOK, Update
    <2>2. \A q \in Pool : pool[q].amount <= clock'
      BY <1>0, <2>1 DEF ServiceOK, Update
    <2>3. \A k \in Reader : \/ reading'[k] = reading[k]
                            \/ reading'[k] = <<p, pool[p]>>
                            \/ reading'[k] = <<p, [amount |-> 0, at |-> clock']>>
      BY <1>0, <1>7 DEF ReadPool, ServiceOK
    <2>4. \A k \in Reader : reading'[k] # None =>
             reading'[k][2].amount <= pool[reading'[k][1]].amount
      BY <2>1, <2>3
    <2> QED BY <1>7, <2>2, <2>4 DEF ReadPool
  <1>8. CASE \/ \E e \in events : LoseEvent(e)
             \/ HandleOtherUpdate \/ StartRefresh \/ TimerFires \/ TimerCallback
             \/ LoopWakes \/ CopyListeners \/ UNCHANGED vars
    <2>1. UNCHANGED <<clock, pool, latest, reading>> /\ events' \subseteq events
      BY <1>8 DEF LoseEvent, HandleOtherUpdate, StartRefresh, TimerFires, TimerCallback,
         LoopWakes, CopyListeners, vars, source, readers
    <2> QED BY <1>3, <2>1
  <1>9. ASSUME NEW l \in Stream, SendTo(l) \/ Streaming(l) \/ Lifetime(l)
        PROVE  AmountsOK'
    <2>1. UNCHANGED <<clock, pool, latest, reading, events>>
      BY <1>9 DEF SendTo, Streaming, Lifetime, streamFrame, Listen, CopyBuffer, LookUpPool,
         SendInitialPools, TakeSignal, ReadLatest, FetchPool, SendSnapshot, Cancel, Leave,
         Unregister, CloseChannel, source, readers
    <2> QED BY <1>3, <2>1
  <1> HIDE DEF AmountsOK
  <1> QED
    BY <1>1, <1>4, <1>5, <1>6, <1>7, <1>8, <1>9 DEF Next, Outside, Feed, Loop

(***************************************************************************)
(* Amounts against their times.  What the reward service wrote has its     *)
(* time; an undated event and the initial value of a failed read have a    *)
(* later one.                                                              *)
(***************************************************************************)
StampsOK ==
    /\ \A p \in Pool : pool[p].amount = pool[p].at
    /\ \A e \in events : e.amount = e.at
    /\ \A p \in Pool : latest[p] # None => latest[p].amount <= latest[p].at
    /\ \A r \in Reader : reading[r] # None => reading[r][2].amount <= reading[r][2].at
    /\ reading["refresh"] # None => reading["refresh"][2].amount = reading["refresh"][2].at

LEMMA StampsInit == Init => StampsOK
  BY DEF Init, StampsOK, NoUpdates, Reader

LEMMA StampsStep ==
    ASSUME TypeOK, AmountsOK, StampsOK, [Next]_vars
    PROVE  StampsOK'
  <1>0. ServiceOK
    BY TypeParts
  <1> USE DEF StampsOK
  <1>1. ASSUME NEW p \in Pool, WritePool(p)
        PROVE  StampsOK'
    <2>1. \A q \in Pool : pool'[q].amount = pool'[q].at
      BY <1>0, <1>1 DEF WritePool, ServiceOK
    <2>2. \A e \in events' : e.amount = e.at
      BY <1>1 DEF WritePool
    <2> QED BY <1>1, <2>1, <2>2 DEF WritePool, readers
  <1>2. ASSUME NEW p \in Pool, NEW u \in Update, Store(p, u), u.amount <= u.at,
               UNCHANGED pool, events' \subseteq events,
               \A r \in Reader : reading'[r] \in {reading[r], None}
        PROVE  StampsOK'
    <2>1. \A q \in Pool : latest'[q] # None => latest'[q].amount <= latest'[q].at
      BY <1>0, <1>2 DEF Store, ServiceOK
    <2> QED BY <1>2, <2>1 DEF Reader
  <1>3. ASSUME UNCHANGED <<pool, latest>>, events' \subseteq events,
               \A r \in Reader : reading'[r] \in {reading[r], None}
        PROVE  StampsOK'
    BY <1>3 DEF Reader
  <1>4. ASSUME NEW e \in events, HandleKafkaUpdate(e)
        PROVE  StampsOK'
    <2> DEFINE u == [amount |-> e.amount, at |-> IF e.timed THEN e.at ELSE clock]
    <2>1. /\ e.pool \in Pool /\ e.amount \in Nat /\ e.at \in Nat /\ clock \in Nat
          /\ pool[e.pool].amount \in Nat
      BY <1>0 DEF ServiceOK, Event, Update
    <2>2. e.amount = e.at /\ e.amount <= clock
      BY <2>1 DEF AmountsOK
    <2>3. u \in Update /\ u.amount <= u.at
      BY <2>1, <2>2 DEF Update
    <2>4. /\ UNCHANGED <<pool, reading>> /\ events' \subseteq events
          /\ Store(e.pool, u) \/ UNCHANGED latest
      BY <1>4 DEF HandleKafkaUpdate, readers
    <2> HIDE DEF u
    <2> QED BY <1>2, <1>3, <2>1, <2>3, <2>4
  <1>5. CASE RefreshPool
    <2> DEFINE p == reading["refresh"][1]
               u == reading["refresh"][2]
    <2>1. "refresh" \in Reader /\ reading["refresh"] \in Pool \X Update
      BY <1>0, <1>5 DEF RefreshPool, ServiceOK, Reader
    <2>2. p \in Pool /\ u \in Update /\ u.amount <= u.at
      BY <1>5, <2>1 DEF RefreshPool
    <2>3. UNCHANGED <<pool, events>> /\ (Store(p, u) \/ UNCHANGED latest)
      BY <1>5 DEF RefreshPool, source
    <2>4. \A r \in Reader : reading'[r] \in {reading[r], None}
      BY <1>0, <1>5 DEF RefreshPool, ServiceOK
    <2> HIDE DEF p, u
    <2> QED BY <1>2, <1>3, <2>2, <2>3, <2>4
  <1>6. CASE InitializePool
    <2>1. "init" \in Reader /\ reading["init"] \in Pool \X Update
      BY <1>0, <1>6 DEF InitializePool, ServiceOK, Reader
    <2>2. \A q \in Pool : latest'[q] # None => latest'[q].amount <= latest'[q].at
      BY <1>0, <1>6, <2>1 DEF InitializePool, ServiceOK
    <2>3. \A r \in Reader : reading'[r] \in {reading[r], None}
      BY <1>0, <1>6 DEF InitializePool, ServiceOK
    <2> QED BY <1>6, <2>2, <2>3 DEF InitializePool, source, Reader
  <1>7. ASSUME NEW r \in Reader, NEW p \in Registered, ReadPool(r, p)
        PROVE  StampsOK'
    <2>1. /\ p \in Pool /\ pool[p].amount = pool[p].at /\ pool[p].at \in Nat
          /\ clock' \in Nat
      BY <1>0, <1>7 DEF ReadPool, ServiceOK, Update
    <2>2. \A k \in Reader : \/ reading'[k] = reading[k]
                            \/ reading'[k] = <<p, pool[p]>>
                            \/ k = "init" /\ reading'[k] = <<p, [amount |-> 0, at |-> clock']>>
      BY <1>0, <1>7 DEF ReadPool, ServiceOK
    <2>3. \A k \in Reader : reading'[k] # None => reading'[k][2].amount <= reading'[k][2].at
      BY <2>1, <2>2
    <2>4. reading'["refresh"] # None =>
             reading'["refresh"][2].amount = reading'["refresh"][2].at
      BY <2>1, <2>2 DEF Reader
    <2> QED BY <1>7, <2>3, <2>4 DEF ReadPool
  <1>8. CASE \/ \E e \in events : LoseEvent(e)
             \/ HandleOtherUpdate \/ StartRefresh \/ TimerFires \/ TimerCallback
             \/ LoopWakes \/ CopyListeners \/ UNCHANGED vars
    <2>1. UNCHANGED <<pool, latest, reading>> /\ events' \subseteq events
      BY <1>8 DEF LoseEvent, HandleOtherUpdate, StartRefresh, TimerFires, TimerCallback,
         LoopWakes, CopyListeners, vars, source, readers
    <2> QED BY <1>3, <2>1
  <1>9. ASSUME NEW l \in Stream, SendTo(l) \/ Streaming(l) \/ Lifetime(l)
        PROVE  StampsOK'
    <2>1. UNCHANGED <<pool, latest, reading, events>>
      BY <1>9 DEF SendTo, Streaming, Lifetime, streamFrame, Listen, CopyBuffer, LookUpPool,
         SendInitialPools, TakeSignal, ReadLatest, FetchPool, SendSnapshot, Cancel, Leave,
         Unregister, CloseChannel, source, readers
    <2> QED BY <1>3, <2>1
  <1> HIDE DEF StampsOK
  <1> QED
    BY <1>1, <1>4, <1>5, <1>6, <1>7, <1>8, <1>9 DEF Next, Outside, Feed, Loop

\* A dated event and a refresh are stored for their time, which is that of
\* their amount.
LEMMA LatestStep ==
    ASSUME TypeOK, StampsOK, [Next]_vars, Bootstrapped, NEW p \in Pool, latest[p] # None
    PROVE  latest'[p].amount >= latest[p].amount \/ TakesUndated(p)
  <1> DEFINE Kept == latest'[p].amount >= latest[p].amount
  <1>0. ServiceOK
    BY TypeParts
  <1>1. /\ latest[p].amount \in Nat /\ latest[p].at \in Nat
        /\ latest[p].amount <= latest[p].at
    BY <1>0 DEF ServiceOK, Update, StampsOK
  <1>2. ASSUME NEW q \in Pool, NEW u \in Update, Store(q, u),
               q = p => u.amount >= latest[p].amount
        PROVE  Kept
    BY <1>0, <1>1, <1>2 DEF Store, ServiceOK
  <1>3. ASSUME UNCHANGED latest
        PROVE  Kept
    BY <1>1, <1>3
  <1>4. ASSUME NEW e \in events, HandleKafkaUpdate(e)
        PROVE  Kept \/ TakesUndated(p)
    <2> DEFINE u == [amount |-> e.amount, at |-> IF e.timed THEN e.at ELSE clock]
    <2>1. /\ e.pool \in Pool /\ e.amount \in Nat /\ e.amount = e.at /\ clock \in Nat
          /\ u \in Update
      BY <1>0 DEF ServiceOK, Event, Update, StampsOK
    <2>2. CASE latest[e.pool] # None /\ u.at < latest[e.pool].at
      BY <1>3, <1>4, <2>2 DEF HandleKafkaUpdate
    <2>3. CASE ~(latest[e.pool] # None /\ u.at < latest[e.pool].at)
      <3>1. Store(e.pool, u)
        BY <1>4, <2>3 DEF HandleKafkaUpdate
      <3>2. CASE e.timed \/ e.pool # p
        <4>1. e.pool = p => u.amount >= latest[p].amount
          BY <1>1, <2>1, <2>3, <3>2
        <4> HIDE DEF u
        <4> QED BY <1>2, <2>1, <3>1, <4>1
      <3>3. CASE ~e.timed /\ e.pool = p
        <4>1. latest'[p] = [amount |-> e.amount, at |-> clock]
          BY <1>0, <3>1, <3>3 DEF Store, ServiceOK
        <4> QED BY <3>3, <4>1 DEF TakesUndated
      <3> QED BY <3>2, <3>3
    <2> QED BY <2>2, <2>3
  <1>5. CASE RefreshPool
    <2> DEFINE q == reading["refresh"][1]
               u == reading["refresh"][2]
    <2>1. reading["refresh"] \in Pool \X Update
      BY <1>0, <1>5 DEF RefreshPool, ServiceOK, Reader
    <2>2. q \in Pool /\ u \in Update /\ u.at \in Nat /\ u.amount = u.at
      BY <1>5, <2>1 DEF Update, RefreshPool, StampsOK
    <2>3. CASE latest[q] = None \/ u.at > latest[q].at
      <3>1. Store(q, u)
        BY <1>5, <2>3 DEF RefreshPool
      <3>2. q = p => u.amount >= latest[p].amount
        BY <1>1, <2>2, <2>3
      <3> HIDE DEF q, u
      <3> QED BY <1>2, <2>2, <3>1, <3>2
    <2>4. CASE ~(latest[q] = None \/ u.at > latest[q].at)
      BY <1>3, <1>5, <2>4 DEF RefreshPool
    <2> QED BY <2>3, <2>4
  <1>6. CASE InitializePool
    BY <1>6 DEF InitializePool, Bootstrapped
  <1>7. CASE \/ HandleOtherUpdate \/ StartRefresh \/ TimerFires \/ TimerCallback
             \/ LoopWakes \/ CopyListeners \/ UNCHANGED vars
    BY <1>3, <1>7 DEF HandleOtherUpdate, StartRefresh, TimerFires, TimerCallback, LoopWakes,
       CopyListeners, vars
  <1>8. ASSUME \/ \E q \in Pool : WritePool(q)
               \/ \E e \in events : LoseEvent(e)
               \/ \E r \in Reader, q \in Registered : ReadPool(r, q)
        PROVE  Kept
    BY <1>3, <1>8 DEF WritePool, LoseEvent, ReadPool
  <1>9. ASSUME NEW l \in Stream, SendTo(l) \/ Streaming(l) \/ Lifetime(l)
        PROVE  Kept
    <2>1. UNCHANGED latest
      BY <1>9 DEF SendTo, Streaming, Lifetime, streamFrame, Listen, CopyBuffer, LookUpPool,
         SendInitialPools, TakeSignal, ReadLatest, FetchPool, SendSnapshot, Cancel, Leave,
         Unregister, CloseChannel
    <2> QED BY <1>3, <2>1
  <1> QED
    BY <1>4, <1>5, <1>6, <1>7, <1>8, <1>9 DEF Next, Outside, Feed, Loop

\* Once the pools are initialized, late or repeated events and slow reads of
\* the reward service never replace an amount by an older one, with the single
\* exception of an event that has no timestamp.
THEOREM OnlyUndatedGoBack == Spec => OnlyUndatedGoesBack
  <1>1. TypeOK /\ StampsOK /\ [Next]_vars =>
            [\A p \in Pool : Bootstrapped /\ latest[p] # None
                => latest'[p].amount >= latest[p].amount \/ TakesUndated(p)]_vars
    BY LatestStep
  <1> QED BY TypeInit, TypeStep, AmountsInit, AmountsStep, StampsInit, StampsStep, <1>1,
          PTL DEF Spec, OnlyUndatedGoesBack

-----------------------------------------------------------------------------
(* Streams.                                                                *)

\* Streams start when the pools are initialized, and are registered until
\* they are cancelled.
StreamsOK ==
    /\ ~Bootstrapped => \A l \in Stream : stage[l] = "off"
    /\ \A l \in Stream : stage[l] # "off" /\ l \notin cancelled => l \in listeners

LEMMA BootstrapStep ==
    ASSUME TypeOK, Bootstrapped, [Next]_vars
    PROVE  Bootstrapped'
  <1>0. todo \in [Reader -> SUBSET Registered] /\ reading \in [Reader -> (Pool \X Update) \cup {None}]
    BY DEF TypeOK
  <1>1. CASE UNCHANGED readers
    BY <1>1 DEF readers, Bootstrapped
  <1>2. ASSUME NEW r \in Reader, NEW p \in Registered, ReadPool(r, p)
        PROVE  Bootstrapped'
    BY <1>0, <1>2 DEF ReadPool, Bootstrapped, Reader
  <1>3. CASE InitializePool \/ StartRefresh \/ RefreshPool
    BY <1>0, <1>3 DEF InitializePool, StartRefresh, RefreshPool, Bootstrapped, Reader
  <1>4. CASE \/ \E p \in Pool : WritePool(p)
             \/ \E e \in events : LoseEvent(e) \/ HandleKafkaUpdate(e)
             \/ HandleOtherUpdate \/ Loop \/ UNCHANGED vars
    <2>1. UNCHANGED readers
      BY <1>4 DEF WritePool, LoseEvent, HandleKafkaUpdate, HandleOtherUpdate, Loop, TimerFires,
         TimerCallback, LoopWakes, CopyListeners, SendTo, vars
    <2> QED BY <1>1, <2>1
  <1>5. ASSUME NEW l \in Stream, Streaming(l) \/ Lifetime(l)
        PROVE  Bootstrapped'
    <2>1. UNCHANGED readers
      BY <1>5 DEF Streaming, Lifetime, streamFrame, Listen, CopyBuffer, LookUpPool,
         SendInitialPools, TakeSignal, ReadLatest, FetchPool, SendSnapshot, Cancel, Leave,
         Unregister, CloseChannel
    <2> QED BY <1>1, <2>1
  <1> QED BY <1>2, <1>3, <1>4, <1>5 DEF Next, Outside, Feed

LEMMA StreamsStep ==
    ASSUME TypeOK, StreamsOK, [Next]_vars
    PROVE  StreamsOK'
  <1>0. stage \in [Stream -> Stage]
    BY DEF TypeOK
  <1>1. ~Bootstrapped' => ~Bootstrapped
    BY BootstrapStep
  <1>2. CASE UNCHANGED <<stage, cancelled, listeners>>
    BY <1>1, <1>2 DEF StreamsOK
  <1>3. ASSUME NEW l \in Stream, Listen(l)
        PROVE  StreamsOK'
    <2>1. Bootstrapped'
      BY <1>3, BootstrapStep DEF Listen
    <2> QED BY <1>0, <1>3, <2>1 DEF Listen, Move, StreamsOK
  <1>4. ASSUME NEW l \in Stream, Streaming(l)
        PROVE  StreamsOK'
    <2>1. UNCHANGED <<cancelled, listeners>>
      BY <1>4 DEF Streaming, lifetime, CopyBuffer, LookUpPool, SendInitialPools, TakeSignal,
         ReadLatest, FetchPool, SendSnapshot
    <2>2. \A k \in Stream : stage[k] = "off" => stage'[k] = "off"
      BY <1>0, <1>4 DEF Streaming, CopyBuffer, LookUpPool, SendInitialPools, TakeSignal,
         ReadLatest, FetchPool, SendSnapshot, Move
    <2>3. \A k \in Stream : stage[k] # "off" => stage'[k] # "off"
      BY <1>0, <1>4 DEF Streaming, CopyBuffer, LookUpPool, SendInitialPools, TakeSignal,
         ReadLatest, FetchPool, SendSnapshot, Move
    <2> QED BY <1>1, <2>1, <2>2, <2>3 DEF StreamsOK
  <1>5. ASSUME NEW l \in Stream, Cancel(l) \/ Leave(l) \/ Unregister(l) \/ CloseChannel(l)
        PROVE  StreamsOK'
    <2>1. \A k \in Stream : stage[k] = "off" <=> stage'[k] = "off"
      BY <1>0, <1>5 DEF Cancel, Leave, Unregister, CloseChannel, Move, view
    <2>2. /\ cancelled \subseteq cancelled'
          /\ listeners \subseteq listeners' \cup cancelled
      BY <1>5 DEF Cancel, Leave, Unregister, CloseChannel
    <2> QED BY <1>1, <2>1, <2>2 DEF StreamsOK
  <1>6. CASE Outside \/ Feed \/ Loop \/ UNCHANGED vars
    <2>1. UNCHANGED <<stage, cancelled, listeners>>
      BY <1>6 DEF Outside, WritePool, LoseEvent, Feed, HandleKafkaUpdate, HandleOtherUpdate,
         ReadPool, InitializePool, StartRefresh, RefreshPool, Loop, TimerFires, TimerCallback,
         LoopWakes, CopyListeners, SendTo, vars, view, lifetime
    <2> QED BY <1>2, <2>1
  <1> QED BY <1>3, <1>4, <1>5, <1>6 DEF Next, Lifetime

\* What a stream shows, unless something will make it read the buffer again:
\* what it has looked up is as new as the buffer, and what it has yet to look
\* up is as it was when it copied the buffer.
UpToDate(l) ==
    \A p \in Pool :
        /\ p \notin missing[l] /\ Shown(l, p) # None /\ latest[p] # None
               => Shown(l, p).amount >= latest[p].amount
        /\ stage[l] = "initial" /\ p \in missing[l] => seen[l][p] = latest[p]
        /\ stage[l] = "snapshot" /\ p \in missing[l] => latest[p] = None

StreamsUpToDate == \A l \in Stream : Live(l) /\ ~Announced(l) => UpToDate(l)

LEMMA UpToDateInit == Init => StreamsOK /\ StreamsUpToDate
  BY DEF Init, StreamsOK, StreamsUpToDate, Live

\* A step that leaves the buffer and what the stream holds.
LEMMA UpToDateFrame ==
    ASSUME NEW l \in Stream, UpToDate(l), UNCHANGED latest,
           stage'[l] = stage[l], seen'[l] = seen[l], missing'[l] = missing[l],
           lastSent'[l] = lastSent[l]
    PROVE  UpToDate(l)'
  BY DEF UpToDate, Shown

\* A change of the buffer is announced.
LEMMA UpToDateFeed ==
    ASSUME TypeOK, StreamsOK, StreamsUpToDate, NEW l \in Stream,
           Outside \/ Feed \/ TimerFires \/ TimerCallback \/ UNCHANGED vars
    PROVE  Live(l)' /\ ~Announced(l)' => UpToDate(l)'
  <1> SUFFICES ASSUME Live(l)', ~Announced(l)'
               PROVE  UpToDate(l)'
    OBVIOUS
  <1>1. UNCHANGED <<sending, listeners, cancelled, queue, view>>
    BY DEF Outside, WritePool, LoseEvent, Feed, HandleKafkaUpdate, HandleOtherUpdate,
       ReadPool, InitializePool, StartRefresh, RefreshPool, TimerFires, TimerCallback, vars,
       lifetime
  <1>2. Live(l)
    BY <1>1 DEF Live, Up, sending, view
  <1>3. Bootstrapped
    BY <1>2 DEF StreamsOK, Live
  <1>4. ~dirty'
    BY DEF Announced
  <1>5. UNCHANGED latest /\ ~dirty
    <2>1. ASSUME NEW e \in events, HandleKafkaUpdate(e)
          PROVE  UNCHANGED latest /\ ~dirty
      BY <1>4, <2>1 DEF HandleKafkaUpdate, Store, MarkDirty, flush
    <2>2. CASE HandleOtherUpdate \/ RefreshPool
      BY <1>4, <2>2 DEF HandleOtherUpdate, RefreshPool, Store, MarkDirty, flush
    <2>3. CASE InitializePool
      BY <1>3, <2>3 DEF InitializePool, Bootstrapped
    <2>4. CASE \/ \E p \in Pool : WritePool(p)
               \/ \E e \in events : LoseEvent(e)
               \/ \E r \in Reader, p \in Registered : ReadPool(r, p)
               \/ StartRefresh \/ TimerFires \/ TimerCallback \/ UNCHANGED vars
      BY <1>4, <2>4 DEF WritePool, LoseEvent, ReadPool, StartRefresh, TimerFires, TimerCallback,
         vars, flush
    <2> QED BY <2>1, <2>2, <2>3, <2>4 DEF Outside, Feed
  <1>6. ~Announced(l)
    BY <1>1, <1>5 DEF Announced, sending, view
  <1> QED BY <1>1, <1>2, <1>5, <1>6, UpToDateFrame DEF StreamsUpToDate, view

\* A flush reaches every registered stream, or finds its channel full.
LEMMA UpToDateLoop ==
    ASSUME TypeOK, StreamsOK, StreamsUpToDate, NEW l \in Stream,
           LoopWakes \/ CopyListeners \/ \E k \in Stream : SendTo(k)
    PROVE  Live(l)' /\ ~Announced(l)' => UpToDate(l)'
  <1> SUFFICES ASSUME Live(l)', ~Announced(l)'
               PROVE  UpToDate(l)'
    OBVIOUS
  <1>1. UNCHANGED <<latest, listeners, cancelled, view>>
    BY DEF LoopWakes, CopyListeners, SendTo, lifetime
  <1>2. Live(l) /\ l \in listeners
    BY <1>1 DEF Live, Up, view, StreamsOK, LoopWakes, CopyListeners, SendTo
  <1>3. ~Announced(l)
    <2>1. CASE LoopWakes
      BY <1>1, <1>2, <2>1 DEF LoopWakes, FlushIfDirty, Announced, view, flush
    <2>2. CASE CopyListeners
      BY <1>1, <1>2, <2>2 DEF CopyListeners, Announced
    <2>3. ASSUME NEW k \in Stream, SendTo(k)
          PROVE  ~Announced(l)
      <3>1. /\ k \in toSend /\ loop = "sending" /\ UNCHANGED flush
            /\ toSend' = toSend \ {k} /\ loop' = IF toSend' = {} THEN "idle" ELSE "sending"
            /\ queue' = [queue EXCEPT ![k] = IF @ < Buffer THEN @ + 1 ELSE @]
        BY <2>3 DEF SendTo, Live, Up
      <3>2. l # k
        <4>1. queue[k] \in 0..Buffer
          BY DEF TypeOK
        <4>2. queue'[k] > 0
          BY <3>1, <4>1 DEF TypeOK
        <4> QED BY <4>2 DEF Announced
      <3>3. queue'[l] = queue[l] /\ stage' = stage /\ dirty' = dirty
        BY <1>1, <3>1, <3>2 DEF TypeOK, view, flush
      <3>4. l \notin toSend
        BY <3>1, <3>2 DEF Announced
      <3> QED BY <3>1, <3>3, <3>4 DEF Announced
    <2> QED BY <2>1, <2>2, <2>3
  <1> QED BY <1>1, <1>2, <1>3, UpToDateFrame DEF StreamsUpToDate, view

\* A step of another stream.
LEMMA UpToDateOther ==
    ASSUME TypeOK, StreamsUpToDate, NEW l \in Stream, NEW k \in Stream, k # l,
           Streaming(k) \/ Lifetime(k)
    PROVE  Live(l)' /\ ~Announced(l)' => UpToDate(l)'
  <1>1. /\ UNCHANGED <<latest, dirty, loop, toSend>>
        /\ l \in listeners <=> l \in listeners'
        /\ l \in cancelled <=> l \in cancelled'
        /\ l \in failed <=> l \in failed'
    BY DEF Streaming, CopyBuffer, LookUpPool, SendInitialPools, TakeSignal, ReadLatest,
       FetchPool, SendSnapshot, SendFails, Lifetime, Listen, Cancel, Leave, Unregister,
       CloseChannel, streamFrame, flush, sending, lifetime, view
  <1>2. queue'[l] = queue[l] /\ stage'[l] = stage[l]
    BY DEF Streaming, CopyBuffer, LookUpPool, SendInitialPools, TakeSignal, ReadLatest,
       FetchPool, SendSnapshot, Lifetime, Listen, Cancel, Leave, Unregister,
       CloseChannel, Move, view, TypeOK
  <1>3. seen'[l] = seen[l]
    BY DEF Streaming, CopyBuffer, LookUpPool, SendInitialPools, TakeSignal, ReadLatest,
       FetchPool, SendSnapshot, Lifetime, Listen, Cancel, Leave, Unregister,
       CloseChannel, view, TypeOK
  <1>4. missing'[l] = missing[l]
    BY DEF Streaming, CopyBuffer, LookUpPool, SendInitialPools, TakeSignal, ReadLatest,
       FetchPool, SendSnapshot, Lifetime, Listen, Cancel, Leave, Unregister,
       CloseChannel, view, TypeOK
  <1>5. lastSent'[l] = lastSent[l]
    BY DEF Streaming, CopyBuffer, LookUpPool, SendInitialPools, TakeSignal, ReadLatest,
       FetchPool, SendSnapshot, SendFails, Lifetime, Listen, Cancel, Leave, Unregister,
       CloseChannel, view, TypeOK
  <1>6. /\ Live(l)' => Live(l)
        /\ ~Announced(l)' => ~Announced(l)
    BY <1>1, <1>2 DEF Live, Up, Announced
  <1> QED BY <1>1, <1>2, <1>3, <1>4, <1>5, <1>6, UpToDateFrame DEF StreamsUpToDate

\* A step of the stream itself.
LEMMA UpToDateStreaming ==
    ASSUME TypeOK, AmountsOK, StreamsUpToDate, NEW l \in Stream, Streaming(l)
    PROVE  Live(l)' /\ ~Announced(l)' => UpToDate(l)'
  <1> SUFFICES ASSUME Live(l)', ~Announced(l)'
               PROVE  UpToDate(l)'
    OBVIOUS
  <1>0. /\ stage \in [Stream -> Stage] /\ missing \in [Stream -> SUBSET Pool]
        /\ seen \in [Stream -> [Pool -> Update \cup {None}]]
        /\ lastSent \in [Stream -> [Pool -> Update \cup {None}]]
        /\ queue \in [Stream -> 0..Buffer]
        /\ latest \in [Pool -> Update \cup {None}] /\ pool \in [Pool -> Update]
    BY DEF TypeOK
  <1>1. UNCHANGED <<latest, dirty, loop, toSend, listeners, cancelled>> /\ failed \subseteq failed'
    BY DEF Streaming, CopyBuffer, LookUpPool, SendInitialPools, TakeSignal, ReadLatest,
       FetchPool, SendSnapshot, SendFails, streamFrame, flush, sending, lifetime
  <1>2. \A p \in Pool : latest[p] # None => latest[p].amount \in Nat /\ pool[p].amount \in Nat
                                            /\ pool[p].amount >= latest[p].amount
    BY <1>0 DEF AmountsOK, Update
  <1>3. CASE CopyBuffer(l)
    BY <1>0, <1>1, <1>3 DEF CopyBuffer, Move, UpToDate
  <1>4. CASE ReadLatest(l)
    BY <1>0, <1>1, <1>2, <1>4 DEF ReadLatest, Move, UpToDate, Shown
  <1>5. CASE TakeSignal(l)
    BY <1>0, <1>5 DEF TakeSignal, Move, Announced
  <1>6. ASSUME SendInitialPools(l) \/ SendSnapshot(l)
               \/ \E p \in Pool : LookUpPool(l, p) \/ FetchPool(l, p)
        PROVE  Live(l) /\ ~Announced(l)
    <2>1. queue' = queue /\ stage[l] \in {"initial", "snapshot"}
      BY <1>6 DEF SendInitialPools, SendSnapshot, LookUpPool, FetchPool, Move
    <2> QED BY <1>1, <2>1 DEF Live, Up, Announced
  <1>7. CASE SendInitialPools(l)
    <2>1. UpToDate(l)
      BY <1>6, <1>7 DEF StreamsUpToDate
    <2>2. /\ stage[l] = "initial" /\ stage'[l] = "waiting"
          /\ missing' = missing /\ lastSent'[l] = seen[l]
      BY <1>0, <1>7 DEF SendInitialPools, Move
    <2> QED BY <1>1, <2>1, <2>2 DEF UpToDate, Shown
  <1>8. CASE SendSnapshot(l)
    <2>1. UpToDate(l)
      BY <1>6, <1>8 DEF StreamsUpToDate
    <2>2. stage[l] = "snapshot" /\ stage'[l] = "waiting" /\ missing' = missing
      BY <1>0, <1>8 DEF SendSnapshot, Move
    <2>3. lastSent'[l] = seen[l]
      <3>1. l \notin failed'
        BY DEF Live
      <3> QED BY <1>0, <1>8, <3>1 DEF SendSnapshot, SendFails
    <2> QED BY <1>1, <2>1, <2>2, <2>3 DEF UpToDate, Shown
  <1>9. ASSUME NEW p \in Pool, LookUpPool(l, p)
        PROVE  UpToDate(l)'
    <2>1. UpToDate(l) /\ stage[l] = "initial" /\ stage' = stage /\ p \in missing[l]
      BY <1>6, <1>9 DEF StreamsUpToDate, LookUpPool
    <2>2. PICK u : /\ seen' = [seen EXCEPT ![l][p] = u]
                   /\ u \in {pool[p], seen[l][p], None} \/ seen[l][p] = None
      BY <1>9 DEF LookUpPool
    <2>3. latest[p] # None => seen[l][p] = latest[p]
      BY <2>1 DEF UpToDate
    <2>4. seen'[l][p] = u /\ \A q \in Pool \ {p} : seen'[l][q] = seen[l][q]
      BY <1>0, <2>2
    <2>5. missing'[l] = missing[l] \ {p}
      BY <1>0, <1>9 DEF LookUpPool
    <2>6. u # None /\ latest[p] # None => u.amount >= latest[p].amount
      BY <1>2, <2>2, <2>3
    <2> QED BY <1>1, <2>1, <2>4, <2>5, <2>6 DEF UpToDate, Shown
  <1>10. ASSUME NEW p \in Pool, FetchPool(l, p)
         PROVE  UpToDate(l)'
    <2>1. UpToDate(l) /\ stage[l] = "snapshot" /\ stage' = stage /\ p \in missing[l]
      BY <1>6, <1>10 DEF StreamsUpToDate, FetchPool
    <2>2. \A q \in Pool \ {p} : seen'[l][q] = seen[l][q]
      BY <1>0, <1>10 DEF FetchPool
    <2>3. missing'[l] = missing[l] \ {p} /\ latest[p] = None
      BY <1>0, <1>10, <2>1 DEF FetchPool, UpToDate
    <2> QED BY <1>1, <2>1, <2>2, <2>3 DEF UpToDate, Shown
  <1> QED BY <1>3, <1>4, <1>5, <1>7, <1>8, <1>9, <1>10 DEF Streaming

LEMMA UpToDateStep ==
    ASSUME TypeOK, AmountsOK, StreamsOK, StreamsUpToDate, [Next]_vars
    PROVE  StreamsUpToDate'
  <1> SUFFICES ASSUME NEW l \in Stream
               PROVE  Live(l)' /\ ~Announced(l)' => UpToDate(l)'
    BY DEF StreamsUpToDate
  <1>1. CASE Outside \/ Feed \/ TimerFires \/ TimerCallback \/ UNCHANGED vars
    BY <1>1, UpToDateFeed
  <1>2. CASE LoopWakes \/ CopyListeners \/ \E k \in Stream : SendTo(k)
    BY <1>2, UpToDateLoop
  <1>3. ASSUME NEW k \in Stream, k # l, Streaming(k) \/ Lifetime(k)
        PROVE  Live(l)' /\ ~Announced(l)' => UpToDate(l)'
    BY <1>3, UpToDateOther
  <1>4. CASE Streaming(l)
    BY <1>4, UpToDateStreaming
  <1>5. CASE Listen(l)
    BY <1>5 DEF Listen, Move, Announced, TypeOK
  <1>6. CASE Cancel(l) \/ Leave(l) \/ Unregister(l) \/ CloseChannel(l)
    BY <1>6 DEF Cancel, Leave, Unregister, CloseChannel, Live
  <1> QED BY <1>1, <1>2, <1>3, <1>4, <1>5, <1>6 DEF Next, Loop, Lifetime

\* A stream that does not show an update of the buffer has a flush signal on
\* its way: signals that are dropped, merged or sent early never lose one.
THEOREM UpdatesReach == Spec => []UpdatesReachStreams
  <1>1. StreamsUpToDate => UpdatesReachStreams
    BY DEF StreamsUpToDate, UpToDate, UpdatesReachStreams
  <1>2. TypeOK /\ AmountsOK /\ StreamsOK /\ StreamsUpToDate /\ [Next]_vars
            => TypeOK' /\ AmountsOK' /\ StreamsOK' /\ StreamsUpToDate'
    BY TypeStep, AmountsStep, StreamsStep, UpToDateStep
  <1> QED BY TypeInit, AmountsInit, UpToDateInit, <1>1, <1>2, PTL DEF Spec
=============================================================================

--------------------------- MODULE WSRequestsProofs ---------------------------
(***************************************************************************)
(* Theorems about WSRequests, for any number of requests and spins, any    *)
(* capacity of the queue and any number of pings.                          *)
(***************************************************************************)
EXTENDS WSRequests, TLAPS

USE RequestAssumption, QueueCapAssumption, MaxPingsAssumption

\* A spin that has its turn, and has not panicked, holds the mutex; other
\* requests have nothing to do with it.
TurnHoldsMutex ==
    /\ \A s \in Spin : stage[s] \in {"locked", "working", "reply", "unlock"} => spinMu = s
    /\ \A r \in Request \ Spin : stage[r] \notin {"locked", "unlock"}

\* What one step of a handler does to the frames.
FramesTyped == lost \subseteq WithID /\ queue \in Seq(Frame) /\ Len(queue) <= QueueCap

LEMMA AppendFits ==
    ASSUME NEW q \in Seq(Frame), NEW f \in Frame, Len(q) < QueueCap
    PROVE  Append(q, f) \in Seq(Frame) /\ Len(Append(q, f)) <= QueueCap
  OBVIOUS

LEMMA TakenTyped ==
    ASSUME FramesTyped, NEW f \in Frame, Taken(f)
    PROVE  FramesTyped'
  BY AppendFits DEF FramesTyped, Taken

LEMMA SendTyped ==
    ASSUME FramesTyped, NEW r \in Request, Send(r)
    PROVE  FramesTyped'
  <1>1. FrameOf(r) \in Frame
    BY DEF FrameOf, Frame
  <1>2. CASE Taken(FrameOf(r))
    BY <1>1, <1>2, TakenTyped
  <1>3. CASE Refused(r)
    BY <1>3 DEF Refused, FramesTyped
  <1> QED BY <1>2, <1>3 DEF Send

LEMMA TypeInit == Init => TypeOK
  <1> SUFFICES ASSUME Init PROVE TypeOK
    OBVIOUS
  <1>1. queue \in Seq(Frame) /\ Len(queue) <= QueueCap
    BY DEF Init
  <1>2. writing \in [Writer -> {"idle", "filled", "flush"}] /\ 0 \in 0..MaxPings
    BY DEF Init
  <1> QED BY <1>1, <1>2 DEF Init, TypeOK, Frame

\* Every step keeps the types; the queue stays within its capacity since a frame
\* is only put where there is a place.
LEMMA TypeStep ==
    ASSUME TypeOK, [Next]_vars
    PROVE  TypeOK'
  <1> USE DEF TypeOK
  <1>0. FramesTyped
    BY DEF FramesTyped
  <1>1. CASE Expire
    BY <1>1 DEF Expire, requests, frames, reading, pumping, library, client
  <1>2. CASE CloseWithReason
    BY <1>2 DEF CloseWithReason, requests, frames, reading, pumping, library, client
  <1>3. ASSUME NEW r \in Request, Read(r) \/ Lock(r) \/ Dispatch(r) \/ SpinReturns(r)
                                  \/ QueryReturns(r) \/ Unlock(r) \/ Panic(r)
        PROVE  TypeOK'
    BY <1>3 DEF Read, Lock, Dispatch, SpinReturns, QueryReturns, Return, Unlock, Panic, Move,
                frames, reading, pumping, library, client
  <1>4. ASSUME NEW r \in Request, WriteReply(r)
        PROVE  TypeOK'
    <2>1. FramesTyped'
      <3>1. CASE r \in WithID
        BY <1>0, <1>4, <3>1, SendTyped DEF WriteReply
      <3>2. CASE r \notin WithID
        BY <1>0, <1>4, <3>2 DEF WriteReply, FramesTyped, frames
      <3> QED BY <3>1, <3>2
    <2> QED BY <1>4, <2>1 DEF WriteReply, Move, FramesTyped, reading, pumping, library, client
  <1>5. ASSUME NEW r \in Request, RecoverHandler(r)
        PROVE  TypeOK'
    <2>1. FramesTyped'
      BY <1>0, <1>5, SendTyped DEF RecoverHandler
    <2> QED BY <1>5, <2>1 DEF RecoverHandler, Move, FramesTyped, reading, pumping, library, client
  <1>6. CASE Announce
    <2>1. FramesTyped'
      BY <1>0, <1>6, TakenTyped DEF Announce, Frame
    <2> QED BY <1>6, <2>1 DEF Announce, FramesTyped, requests, reading, pumping, library, client
  <1>7. CASE TakeFrame
    <2>1. Head(queue) \in Frame /\ Tail(queue) \in Seq(Frame) /\ Len(Tail(queue)) <= QueueCap
      BY <1>7 DEF TakeFrame
    <2> QED BY <1>7, <2>1 DEF TakeFrame, Fill, At, Writer, requests, reading, client
  <1>8. ASSUME NEW w \in Writer, Enter(w)
        PROVE  TypeOK'
    BY <1>8 DEF Enter, At, requests, frames, reading, pumping, client
  <1>9. CASE PumpWrites
    BY <1>9 DEF PumpWrites, Leave, At, Writer, Frame, requests, frames, reading
  <1>10. CASE PumpEnds \/ PumpSeesClosed
    <2>1. CASE PumpEnds
      <3>1. /\ writing' \in [Writer -> {"idle", "filled", "flush"}]
            /\ spoilt' = spoilt /\ isWriting' \in BOOLEAN
        BY <2>1 DEF PumpEnds, Leave, Panics, At, Writer
      <3>2. pump' \in BOOLEAN /\ hand' \in Frame /\ closed' \in BOOLEAN
        BY <2>1 DEF PumpEnds, Frame
      <3>3. UNCHANGED <<requests, expired, frames, reading, client>>
        BY <2>1 DEF PumpEnds
      <3> QED BY <3>1, <3>2, <3>3 DEF requests, frames, reading, client
    <2>2. CASE PumpSeesClosed
      BY <2>2 DEF PumpSeesClosed, requests, frames, reading, library, client
    <2> QED BY <1>10, <2>1, <2>2
  <1>11. CASE Ping \/ ReadFails
    <2>1. CASE Ping
      <3>1. pings' \in 0..MaxPings
        BY <2>1 DEF Ping
      <3>2. writing' \in [Writer -> {"idle", "filled", "flush"}] /\ spoilt' \subseteq Writer
        BY <2>1 DEF Ping, Fill, At, Writer
      <3> QED BY <2>1, <3>1, <3>2 DEF Ping, Fill, requests, frames, pumping, client
    <2>2. CASE ReadFails
      BY <2>2 DEF ReadFails, requests, frames, pumping, library, client
    <2> QED BY <1>11, <2>1, <2>2
  <1>12. CASE PongReturns \/ PongPanics \/ Cleanup
    <2>1. CASE PongReturns
      BY <2>1 DEF PongReturns, Leave, At, Writer, requests, frames, reading, pumping, client
    <2>2. CASE PongPanics
      BY <2>2 DEF PongPanics, Panics, At, Writer, requests, frames, pumping, client
    <2>3. CASE Cleanup
      BY <2>3 DEF Cleanup, requests, frames, pumping, library, client
    <2> QED BY <1>12, <2>1, <2>2, <2>3
  <1>13. CASE UNCHANGED vars
    BY <1>13 DEF vars, requests, frames, reading, pumping, library, client
  <1> QED
    BY <1>1, <1>2, <1>3, <1>4, <1>5, <1>6, <1>7, <1>8, <1>9, <1>10, <1>11, <1>12, <1>13
       DEF Next, Handle, Pump, Loop, Writer

\* The queue to the client never holds more than its capacity, whoever sends
\* (events_ws_handler.go:117).
THEOREM TypeCorrect == Spec => []TypeOK
  <1>1. TypeOK /\ [Next]_vars => TypeOK'
    BY TypeStep
  <1> QED BY TypeInit, <1>1, PTL DEF Spec

-----------------------------------------------------------------------------
(* The spins of a connection.                                              *)

LEMMA TurnInit == Init => TurnHoldsMutex
  BY DEF Init, TurnHoldsMutex

\* Only the holder of the mutex goes on, and it gives the mutex up last, or with
\* a panic.
LEMMA TurnStep ==
    ASSUME TypeOK, TurnHoldsMutex, [Next]_vars
    PROVE  TurnHoldsMutex'
  <1> USE DEF TurnHoldsMutex
  <1> stage \in [Request -> {"off", "started", "locked", "working", "reply",
                             "panicked", "unlock", "done"}]
    BY DEF TypeOK
  <1>1. ASSUME NEW r \in Request, Read(r)
        PROVE  TurnHoldsMutex'
    BY <1>1 DEF Read, Move
  <1>2. ASSUME NEW r \in Request, Lock(r)
        PROVE  TurnHoldsMutex'
    BY <1>2 DEF Lock, Move
  <1>3. ASSUME NEW r \in Request, Dispatch(r) \/ WriteReply(r)
        PROVE  TurnHoldsMutex'
    BY <1>3 DEF Dispatch, WriteReply, Move
  <1>4. ASSUME NEW r \in Request, SpinReturns(r) \/ QueryReturns(r)
        PROVE  TurnHoldsMutex'
    BY <1>4 DEF SpinReturns, QueryReturns, Return, Move
  <1>5. ASSUME NEW r \in Request, Unlock(r) \/ Panic(r)
        PROVE  TurnHoldsMutex'
    <2>1. CASE Unlock(r)
      BY <2>1 DEF Unlock, Move
    <2>2. CASE Panic(r)
      BY <2>2 DEF Panic, Move
    <2> QED BY <1>5, <2>1, <2>2
  <1>6. ASSUME NEW r \in Request, RecoverHandler(r)
        PROVE  TurnHoldsMutex'
    BY <1>6 DEF RecoverHandler, Move
  <1>7. CASE UNCHANGED requests
    BY <1>7 DEF requests
  <1> QED
    BY <1>1, <1>2, <1>3, <1>4, <1>5, <1>6, <1>7
       DEF Next, Handle, Pump, Loop, vars, Expire, CloseWithReason, Announce, TakeFrame, Enter,
           PumpWrites, PumpEnds, PumpSeesClosed, Ping, ReadFails, PongReturns, PongPanics, Cleanup,
           requests

\* A spin is not played before the reply to the one before it was sent, unless
\* that one panicked (events_ws_handler.go:366).
THEOREM InTurn == Spec => []SpinsInTurn
  <1>1. TypeOK /\ TurnHoldsMutex /\ [Next]_vars => TurnHoldsMutex'
    BY TurnStep
  <1>2. TurnHoldsMutex => SpinsInTurn
    BY DEF TurnHoldsMutex, SpinsInTurn
  <1> QED BY TypeCorrect, TurnInit, <1>1, <1>2, PTL DEF Spec

\* A spin that waited while the token expired, or a request whose goroutine was
\* slow to start, is not served (events_ws_handler.go:387).
THEOREM LateRefused == Spec => LateIsRefused
  <1>1. TypeOK /\ [Next]_vars =>
            [\A r \in Request : expired /\ stage[r] # "working" => stage'[r] # "working"]_vars
    <2> SUFFICES ASSUME TypeOK, Next, NEW r \in Request, expired, stage[r] # "working"
                 PROVE  stage'[r] # "working"
      OBVIOUS
    <2> stage \in [Request -> {"off", "started", "locked", "working", "reply",
                               "panicked", "unlock", "done"}]
      BY DEF TypeOK
    <2>1. CASE stage' = stage
      BY <2>1
    <2>2. ASSUME NEW s \in Request, Read(s) \/ Handle(s)
          PROVE  stage'[r] # "working"
      BY <2>2 DEF Read, Handle, Lock, Dispatch, SpinReturns, QueryReturns, Return, WriteReply,
                  Unlock, Panic, RecoverHandler, Move
    <2> QED
      BY <2>1, <2>2
         DEF Next, Pump, Loop, Expire, CloseWithReason, Announce, TakeFrame, Enter,
             PumpWrites, PumpEnds, PumpSeesClosed, Ping, ReadFails, PongReturns, PongPanics, Cleanup,
             requests
  <1> QED BY <1>1, TypeCorrect, PTL DEF Spec, LateIsRefused
=============================================================================

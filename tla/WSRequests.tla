----------------------------- MODULE WSRequests -----------------------------
(***************************************************************************)
(* The requests on one websocket connection (server/events_ws_handler.go): *)
(* the read loop that starts a goroutine for each and answers pings itself,*)
(* handleMessage and dispatch, the queue of frames to the client, writePump*)
(* that empties it, and CloseWithReason, which anybody may call.  What a   *)
(* spin does is SpinService's; the connection's registration and kicks, and*)
(* the jackpot subscriptions, are WSSessions'.                             *)
(***************************************************************************)
EXTENDS Naturals, SequencesExt

CONSTANTS
    Request,    \* requests the client sends, in any order, but subscriptions
    Spin,       \* of these, the spins
    WithID,     \* the requests that carry an ID
    QueueCap,   \* capacity of the channel send, 256 in the code
    MaxPings,   \* bound: pings the client sends
    None        \* no request

ASSUME RequestAssumption ==
    /\ Spin \subseteq Request /\ WithID \subseteq Request
    /\ None \notin Request
ASSUME QueueCapAssumption == QueueCap \in Nat \ {0}
ASSUME MaxPingsAssumption == MaxPings \in Nat

\* A frame is the ID of the request it replies to, or None when it has none, as
\* a frame of the jackpot stream.
Frame == WithID \cup {None}
FrameOf(r) == IF r \in WithID THEN r ELSE None
Writer == {"pump", "pong"}

VARIABLES
    stage,      \* where handleMessage stands for each request
    spinMu,     \* the spin that holds the connection's mutex
    expired,    \* whether the token has expired
    queue,      \* the channel send
    lost,       \* ghost: requests whose reply Send has refused
    reader,     \* where the read loop stands
    pings,      \* how many pings it has read
    closed,     \* whether CloseWithReason was called
    pump,       \* whether writePump runs
    hand,       \* the frame it writes
    writing,    \* websocket library: where each WriteMessage stands
    isWriting,  \* and its flag
    spoilt,     \* writers whose frame the other wrote over in the buffer
    answered,   \* requests whose reply was written
    garbled     \* ghost: requests whose reply was written over

requests == <<stage, spinMu>>
frames == <<queue, lost>>
reading == <<reader, pings>>
pumping == <<pump, hand>>
library == <<writing, isWriting, spoilt>>
client == <<answered, garbled>>
vars == <<requests, expired, frames, reading, closed, pumping, library, client>>

TypeOK ==
    /\ stage \in [Request -> {"off", "started", "locked", "working", "reply",
                              "panicked", "unlock", "done"}]
    /\ spinMu \in Spin \cup {None}
    /\ expired \in BOOLEAN
    /\ lost \subseteq WithID
    /\ queue \in Seq(Frame) /\ Len(queue) <= QueueCap
    /\ reader \in {"reading", "cleanup", "gone"} /\ pings \in 0..MaxPings
    /\ closed \in BOOLEAN
    /\ pump \in BOOLEAN /\ hand \in Frame
    /\ writing \in [Writer -> {"idle", "filled", "flush"}]
    /\ isWriting \in BOOLEAN /\ spoilt \subseteq Writer
    /\ answered \subseteq WithID /\ garbled \subseteq WithID

Init ==
    /\ stage = [r \in Request |-> "off"]
    /\ spinMu = None
    /\ expired = FALSE
    /\ lost = {}
    /\ queue = <<>>
    /\ reader = "reading" /\ pings = 0
    /\ closed = FALSE
    /\ pump = TRUE /\ hand = None
    /\ writing = [w \in Writer |-> "idle"]
    /\ isWriting = FALSE /\ spoilt = {}
    /\ answered = {} /\ garbled = {}

Move(r, from, to) == stage[r] = from /\ stage' = [stage EXCEPT ![r] = to]

-----------------------------------------------------------------------------
(***************************************************************************)
(* The token, and who else closes the connection.                          *)
(***************************************************************************)

\* The token that was valid when the connection was made expires.
Expire ==
    /\ ~expired
    /\ expired' = TRUE
    /\ UNCHANGED <<requests, frames, reading, closed, pumping, library, client>>

\* A kick, or the callback that closes the connections of a disabled game.
CloseWithReason ==
    /\ ~closed
    /\ closed' = TRUE
    /\ UNCHANGED <<requests, expired, frames, reading, pumping, library, client>>

-----------------------------------------------------------------------------
(***************************************************************************)
(* handleMessage, a goroutine for each request.                            *)
(***************************************************************************)

\* Send's select: a frame is taken when there is a place, refused when there
\* is none, and on a closed connection either may happen.
Taken(f) ==
    /\ Len(queue) < QueueCap
    /\ queue' = Append(queue, f)
    /\ UNCHANGED lost

Refused(r) ==
    /\ closed \/ Len(queue) = QueueCap
    /\ lost' = lost \cup ({r} \cap WithID)
    /\ UNCHANGED queue

\* Mutant: the queue takes any number of frames.
SendUnbounded(r) ==
    /\ queue' = Append(queue, FrameOf(r))
    /\ UNCHANGED lost

Send(r) == Taken(FrameOf(r)) \/ Refused(r)

\* The read loop starts the goroutine.
Read(r) ==
    /\ reader = "reading" /\ writing["pong"] = "idle"
    /\ Move(r, "off", "started")
    /\ UNCHANGED <<spinMu, expired, frames, reading, closed, pumping, library, client>>

Lock(r) ==
    /\ r \in Spin /\ spinMu = None
    /\ Move(r, "started", "locked")
    /\ spinMu' = r
    /\ UNCHANGED <<expired, frames, reading, closed, pumping, library, client>>

\* Mutant: the token is checked before the spin waits for its turn.
DispatchUnchecked(r) ==
    /\ Move(r, IF r \in Spin THEN "locked" ELSE "started",
               IF expired /\ r \notin Spin THEN "reply" ELSE "working")
    /\ UNCHANGED <<spinMu, expired, frames, reading, closed, pumping, library, client>>

\* dispatch checks the token's expiry and calls the handler of the type.
Dispatch(r) ==
    /\ Move(r, IF r \in Spin THEN "locked" ELSE "started",
               IF expired THEN "reply" ELSE "working")
    /\ UNCHANGED <<spinMu, expired, frames, reading, closed, pumping, library, client>>

Return(r) ==
    /\ Move(r, "working", "reply")
    /\ UNCHANGED <<expired, frames, reading, closed, pumping, library, client>>

\* Mutant: the mutex is held for the handler's call only.
SpinReturnsUnlocked(r) ==
    /\ r \in Spin /\ Return(r)
    /\ spinMu' = None

\* handleSpin returns a reply: the spin, an error or, when its 60 seconds are
\* over, a timeout.  Its context outlives the connection.
SpinReturns(r) ==
    /\ r \in Spin /\ Return(r)
    /\ UNCHANGED spinMu

\* handleAuthorize, handleGetState, handleBetHistory or, for a type nobody
\* knows, an error: these wait for no other request.
QueryReturns(r) ==
    /\ r \notin Spin /\ Return(r)
    /\ UNCHANGED spinMu

\* writeReply: a request without an ID gets none.
WriteReply(r) ==
    /\ Move(r, "reply", IF r \in Spin THEN "unlock" ELSE "done")
    /\ IF r \in WithID THEN Send(r) ELSE UNCHANGED frames
    /\ UNCHANGED <<spinMu, expired, reading, closed, pumping, library, client>>

Unlock(r) ==
    /\ Move(r, "unlock", "done")
    /\ spinMu' = None
    /\ UNCHANGED <<expired, frames, reading, closed, pumping, library, client>>

\* Mutant: the panic leaves the mutex locked.
PanicLocked(r) ==
    /\ Move(r, "working", "panicked")
    /\ UNCHANGED <<spinMu, expired, frames, reading, closed, pumping, library, client>>

\* A handler panics: the deferred Unlock comes first, and then recover.
Panic(r) ==
    /\ Move(r, "working", "panicked")
    /\ spinMu' = IF spinMu = r THEN None ELSE spinMu
    /\ UNCHANGED <<expired, frames, reading, closed, pumping, library, client>>

\* recover replies with an error, with or without an ID.
RecoverHandler(r) ==
    /\ Move(r, "panicked", "done")
    /\ Send(r)
    /\ UNCHANGED <<spinMu, expired, reading, closed, pumping, library, client>>

\* The jackpot stream sends updates and heartbeats while there is a place.
Announce ==
    /\ reader # "gone"
    /\ Taken(None)
    /\ UNCHANGED <<requests, expired, reading, closed, pumping, library, client>>

-----------------------------------------------------------------------------
(***************************************************************************)
(* The websocket library (external): WriteMessage copies a frame into the  *)
(* connection's only buffer, sets a flag for the time it writes the buffer *)
(* to the socket, and panics when it finds the flag set before or cleared  *)
(* after; it allows one writer.  The flag is not synchronised: the second  *)
(* of two writers may or may not see it.                                   *)
(***************************************************************************)

At(w, from, to) == writing[w] = from /\ writing' = [writing EXCEPT ![w] = to]

Fill(w) ==
    /\ At(w, "idle", "filled")
    /\ spoilt' = {v \in Writer \ {w} : writing[v] # "idle"}
    /\ UNCHANGED isWriting

Enter(w) ==
    /\ At(w, "filled", "flush")
    /\ isWriting' = TRUE
    /\ UNCHANGED <<spoilt, requests, expired, frames, reading, closed, pumping, client>>

\* The write to the socket is over: it went well, or failed, as it does once
\* the server has closed the socket.
Leave(w) ==
    /\ At(w, "flush", "idle")
    /\ isWriting' = FALSE
    /\ UNCHANGED spoilt

Panics(w) ==
    /\ \/ At(w, "filled", "idle") /\ isWriting
       \/ At(w, "flush", "idle") /\ ~isWriting
    /\ UNCHANGED <<isWriting, spoilt>>

-----------------------------------------------------------------------------
(***************************************************************************)
(* writePump.                                                              *)
(***************************************************************************)

\* The select of a closed connection may still choose the queue.
TakeFrame ==
    /\ pump /\ queue # <<>>
    /\ hand' = Head(queue)
    /\ queue' = Tail(queue)
    /\ Fill("pump")
    /\ UNCHANGED <<pump, requests, expired, lost, reading, closed, client>>

\* The frame is written to the socket, whole or not.
PumpWrites ==
    /\ ~closed /\ Leave("pump")
    /\ IF "pump" \in spoilt
       THEN garbled' = garbled \cup ({hand} \ {None}) /\ UNCHANGED answered
       ELSE answered' = answered \cup ({hand} \ {None}) /\ UNCHANGED garbled
    /\ hand' = None
    /\ UNCHANGED <<pump, requests, expired, frames, reading, closed>>

\* Mutant: a pump that failed or panicked leaves the connection open.
PumpEndsQuietly ==
    /\ Leave("pump") \/ Panics("pump")
    /\ pump' = FALSE /\ hand' = None
    /\ UNCHANGED <<requests, expired, frames, reading, closed, client>>

\* A failed write, or a panic that writePump recovers, closes the connection.
PumpEnds ==
    /\ Leave("pump") \/ Panics("pump")
    /\ pump' = FALSE /\ hand' = None
    /\ closed' = TRUE
    /\ UNCHANGED <<requests, expired, frames, reading, client>>

PumpSeesClosed ==
    /\ pump /\ closed /\ writing["pump"] = "idle"
    /\ pump' = FALSE
    /\ UNCHANGED <<hand, requests, expired, frames, reading, closed, library, client>>

-----------------------------------------------------------------------------
(***************************************************************************)
(* The read loop.                                                          *)
(***************************************************************************)

\* replyPong writes from the read loop.
Ping ==
    /\ reader = "reading" /\ pings < MaxPings
    /\ pings' = pings + 1
    /\ Fill("pong")
    /\ UNCHANGED <<reader, requests, expired, frames, closed, pumping, client>>

\* An error is logged.
PongReturns ==
    /\ Leave("pong")
    /\ UNCHANGED <<requests, expired, frames, reading, closed, pumping, client>>

\* The panic unwinds Stream.
PongPanics ==
    /\ Panics("pong")
    /\ reader' = "cleanup"
    /\ UNCHANGED <<pings, requests, expired, frames, closed, pumping, client>>

ReadFails ==
    /\ reader = "reading" /\ writing["pong"] = "idle"
    /\ reader' = "cleanup"
    /\ UNCHANGED <<pings, requests, expired, frames, closed, pumping, library, client>>

\* Stream's deferred cleanup.
Cleanup ==
    /\ reader = "cleanup"
    /\ reader' = "gone" /\ closed' = TRUE
    /\ UNCHANGED <<pings, requests, expired, frames, pumping, library, client>>

-----------------------------------------------------------------------------

Handle(r) ==
    \/ Lock(r) \/ Dispatch(r)
    \/ SpinReturns(r) \/ QueryReturns(r) \/ WriteReply(r) \/ Unlock(r)
    \/ Panic(r) \/ RecoverHandler(r)

Pump == TakeFrame \/ Enter("pump") \/ PumpWrites \/ PumpEnds \/ PumpSeesClosed
Loop == Enter("pong") \/ PongReturns \/ PongPanics \/ Cleanup

Next ==
    \/ Expire \/ CloseWithReason
    \/ \E r \in Request : Read(r) \/ Handle(r)
    \/ Announce
    \/ Pump
    \/ Ping \/ ReadFails \/ Loop

\* Goroutines run: a handler's calls end within the 60 seconds of its context,
\* a write within its deadline, and a read of a closed socket fails.
Fairness ==
    /\ \A r \in Request : WF_vars(Handle(r))
    /\ WF_vars(Pump)
    /\ WF_vars(Loop)
    /\ WF_vars(closed /\ ReadFails)

Spec == Init /\ [][Next]_vars /\ Fairness

-----------------------------------------------------------------------------
(***************************************************************************)
(* Properties.                                                             *)
(***************************************************************************)

\* A spin that was still waiting for the one before it when the token expired,
\* or a request whose goroutine was slow to start, is not served
\* (events_ws_handler.go:387).
LateIsRefused ==
    [][\A r \in Request : expired /\ stage[r] # "working" => stage'[r] # "working"]_vars

\* A spin is not played before the reply to the one before it was sent, unless
\* that one panicked (events_ws_handler.go:366).
SpinsInTurn ==
    \A r, s \in Spin :
        r # s /\ stage[r] = "working" => stage[s] \notin {"locked", "working", "reply"}

\* A request that carries an ID is answered, whatever its handler does, on a
\* connection that stays open: only a full queue drops its reply, and only a
\* pong written at the same time spoils it.
RequestsAreAnswered ==
    \A r \in WithID :
        stage[r] = "started" ~> closed \/ r \in answered \cup lost \cup garbled

\* A connection that is closed, or whose pump has died, is not left behind:
\* the read loop, the pump and the handlers of its requests end.
ClosedIsGone ==
    closed \/ ~pump ~> /\ reader = "gone" /\ ~pump
                       /\ \A r \in Request : stage[r] \in {"off", "done"}

=============================================================================

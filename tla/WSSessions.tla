---------------------------- MODULE WSSessions ----------------------------
(***************************************************************************)
(* The websocket connections of one player on one game: EventsWSHandler.   *)
(* Stream and its deferred cleanup (server/events_ws_handler.go), the      *)
(* connection manager of each node (ws_conn_manager.go), the session key   *)
(* in Redis that names the player's newest connection, the kicks published *)
(* to the connections it replaces, and the jackpot streams a connection    *)
(* subscribes to.                                                          *)
(***************************************************************************)
CONSTANTS
    Node,       \* processes of the game server
    Conn,       \* connections, each with a fresh ID
    NodeOf,     \* the node a connection is made to
    Sub,        \* calls of subscribeJackpot
    ConnOf,     \* the connection that makes the call
    None        \* no connection, no subscription

ASSUME NodeOfAssumption == NodeOf \in [Conn -> Node]
ASSUME ConnOfAssumption == ConnOf \in [Sub -> Conn]
ASSUME NoneAssumption == None \notin Conn \cup Sub

ConnStage == {"off", "registered", "kicking", "setup", "reading", "stopJackpot",
              "close", "unregister", "release", "gone", "dead"}
SubStage == {"off", "asked", "stopped", "set", "streaming", "ended"}

VARIABLES
    stage,      \* where Stream stands for each connection
    conns,      \* the registered connections, of all nodes
    closed,     \* connections whose socket the server has closed
    old,        \* the connection AcquireSession replaced
    session,    \* Redis: the connection the player's session key names
    kicks,      \* kicks on their way to the connection's node
    subStage,   \* where each subscription stands
    cancel,     \* jackpotCancel of each connection
    cancelled,  \* subscriptions whose context is cancelled
    missed      \* ghost: connections that a failure keeps from being kicked

registry == <<conns, closed>>
jackpot == <<subStage, cancel, cancelled>>
vars == <<stage, registry, old, session, kicks, jackpot, missed>>

TypeOK ==
    /\ stage \in [Conn -> ConnStage]
    /\ conns \subseteq Conn /\ closed \subseteq Conn
    /\ old \in [Conn -> Conn \cup {None}]
    /\ session \in Conn \cup {None}
    /\ kicks \subseteq Conn
    /\ subStage \in [Sub -> SubStage]
    /\ cancel \in [Conn -> Sub \cup {None}]
    /\ cancelled \subseteq Sub
    /\ missed \subseteq Conn

Init ==
    /\ stage = [c \in Conn |-> "off"]
    /\ conns = {} /\ closed = {}
    /\ old = [c \in Conn |-> None]
    /\ session = None
    /\ kicks = {}
    /\ subStage = [u \in Sub |-> "off"]
    /\ cancel = [c \in Conn |-> None]
    /\ cancelled = {}
    /\ missed = {}

Move(c, from, to) == stage[c] = from /\ stage' = [stage EXCEPT ![c] = to]

\* Connections past AcquireSession whose socket the server has not closed.
Open(c) == stage[c] \in {"kicking", "setup", "reading", "stopJackpot", "close"}
           /\ c \notin closed

\* A failure of Redis or of a node hides the connection from the next kick.
Miss(c) == missed' = missed \cup ({c} \ {None})

-----------------------------------------------------------------------------
(***************************************************************************)
(* Stream, until it reads requests.                                        *)
(***************************************************************************)

\* A token, tenant and game that pass validation, the upgrade, and Register.
Register(c) ==
    /\ Move(c, "off", "registered")
    /\ conns' = conns \cup {c}
    /\ UNCHANGED <<closed, old, session, kicks, jackpot, missed>>

\* AcquireSession swaps the session key in one script and Stream ignores its
\* error: the swap did not happen, or it did and its answer was lost.
AcquireSession(c) ==
    /\ \/ /\ session' = c
          /\ old' = [old EXCEPT ![c] = session]
          /\ UNCHANGED missed
       \/ /\ session' = c
          /\ Miss(session)
          /\ UNCHANGED old
       \/ /\ Miss(c)
          /\ UNCHANGED <<session, old>>
    /\ Move(c, "registered", IF old'[c] = None THEN "setup" ELSE "kicking")
    /\ UNCHANGED <<registry, kicks, jackpot>>

\* Mutant: a connection kicks the one it replaces when that has left.
PublishKickOnceGone(c) ==
    /\ old[c] \notin conns
    /\ Move(c, "kicking", "setup")
    /\ kicks' = kicks \cup {old[c]}
    /\ UNCHANGED <<registry, old, session, jackpot, missed>>

\* PublishKick, whose error Stream ignores.  Redis forgets a message that no
\* subscriber takes: a node's is not there yet, or never, because the client of
\* the first SetRedisClient was nil.
PublishKick(c) ==
    /\ Move(c, "kicking", "setup")
    /\ \/ /\ kicks' = kicks \cup {old[c]}
          /\ UNCHANGED missed
       \/ /\ Miss(old[c])
          /\ UNCHANGED kicks
    /\ UNCHANGED <<registry, old, session, jackpot>>

\* writePump starts, and autoSubscribeJackpot subscribes if the player's state
\* can be read and holds a bet multiplier.
AutoSubscribe(c) ==
    /\ Move(c, "setup", "reading")
    /\ \/ UNCHANGED <<subStage, cancel>>
       \/ \E u \in Sub :
             /\ ConnOf[u] = c /\ subStage[u] = "off"
             /\ subStage' = [subStage EXCEPT ![u] = "streaming"]
             /\ cancel' = [cancel EXCEPT ![c] = u]
    /\ UNCHANGED <<registry, old, session, kicks, cancelled, missed>>

-----------------------------------------------------------------------------
(***************************************************************************)
(* The deferred cleanup, in its order.                                     *)
(***************************************************************************)

\* The read fails: the client left or was silent for 70 seconds, or the server
\* closed the socket.
ReadFails(c) ==
    /\ Move(c, "reading", "stopJackpot")
    /\ UNCHANGED <<registry, old, session, kicks, jackpot, missed>>

\* Mutant: StopJackpot calls the cancel function also when there is none.
CancelAnything(c) ==
    /\ cancelled' = cancelled \cup {cancel[c]}
    /\ cancel' = [cancel EXCEPT ![c] = None]

\* StopJackpot takes the cancel function and calls it, if there is one.
CancelCurrent(c) ==
    /\ cancelled' = cancelled \cup ({cancel[c]} \ {None})
    /\ cancel' = [cancel EXCEPT ![c] = None]

StopJackpot(c) ==
    /\ Move(c, "stopJackpot", "close")
    /\ CancelCurrent(c)
    /\ UNCHANGED <<registry, old, session, kicks, subStage, missed>>

Close(c) ==
    /\ Move(c, "close", "unregister")
    /\ closed' = closed \cup {c}
    /\ UNCHANGED <<conns, old, session, kicks, jackpot, missed>>

Unregister(c) ==
    /\ Move(c, "unregister", "release")
    /\ conns' = conns \ {c}
    /\ UNCHANGED <<closed, old, session, kicks, jackpot, missed>>

\* Mutant: the key is deleted whichever connection it names.
ReleaseSessionOfAnyone(c) ==
    /\ Move(c, "release", "gone")
    /\ session' \in {session, None}
    /\ UNCHANGED <<registry, old, kicks, jackpot, missed>>

\* ReleaseSession deletes the key if it still names this connection.  Its error
\* is ignored, and the key is left to expire.
ReleaseSession(c) ==
    /\ Move(c, "release", "gone")
    /\ session' \in {session, IF session = c THEN None ELSE session}
    /\ UNCHANGED <<registry, old, kicks, jackpot, missed>>

-----------------------------------------------------------------------------
(***************************************************************************)
(* Redis, the subscriber, what else closes connections, and crashes.       *)
(***************************************************************************)

\* The key expires 60 seconds after the last TouchSession, which writePump does
\* every 20 seconds until the socket is closed.
Expire ==
    /\ session # None
    /\ session' = None
    /\ IF Open(session) THEN Miss(session) ELSE UNCHANGED missed
    /\ UNCHANGED <<stage, registry, old, kicks, jackpot>>

\* The subscriber of the connection's node takes a kick and closes the
\* connection if it is registered.
DeliverKick(c) ==
    /\ c \in kicks
    /\ kicks' = kicks \ {c}
    /\ closed' = IF c \in conns THEN closed \cup {c} ELSE closed
    /\ UNCHANGED <<stage, conns, old, session, jackpot, missed>>

\* Redis delivers at most once: a kick is lost while a subscriber reconnects.
LoseKick(c) ==
    /\ c \in kicks
    /\ kicks' = kicks \ {c}
    /\ Miss(c)
    /\ UNCHANGED <<stage, registry, old, session, jackpot>>

\* The server closes a connection: writePump cannot write to it, or
\* KickTenantPlayersCallback listed it before.  A listed connection that has
\* unregistered meanwhile is closed already.
ServerCloses(c) ==
    /\ c \in conns \ closed
    /\ closed' = closed \cup {c}
    /\ UNCHANGED <<stage, conns, old, session, kicks, jackpot, missed>>

Running(c) == stage[c] \notin {"off", "gone", "dead"}

\* The process dies, and starts again for other connections.
Crash(n) ==
    /\ \E c \in Conn : NodeOf[c] = n /\ Running(c)
    /\ stage' = [c \in Conn |-> IF NodeOf[c] = n /\ Running(c) THEN "dead"
                                                              ELSE stage[c]]
    /\ conns' = {c \in conns : NodeOf[c] # n}
    /\ kicks' = {c \in kicks : NodeOf[c] # n}
    /\ subStage' = [u \in Sub |-> IF NodeOf[ConnOf[u]] = n /\ subStage[u] # "off"
                                  THEN "ended" ELSE subStage[u]]
    /\ missed' = missed \cup {old[c] : c \in {d \in Conn : NodeOf[d] = n
                                                      /\ stage[d] = "kicking"}}
    /\ UNCHANGED <<closed, old, session, cancel, cancelled>>

-----------------------------------------------------------------------------
(***************************************************************************)
(* subscribeJackpot, in the goroutine of a request of the connection.      *)
(***************************************************************************)

subFrame == <<stage, registry, old, session, kicks, missed>>

MoveSub(u, from, to) == subStage[u] = from
                        /\ subStage' = [subStage EXCEPT ![u] = to]

Ask(u) ==
    /\ stage[ConnOf[u]] = "reading"
    /\ MoveSub(u, "off", "asked")
    /\ UNCHANGED <<subFrame, cancel, cancelled>>

\* It stops the current stream ...
StopCurrent(u) ==
    /\ MoveSub(u, "asked", "stopped")
    /\ CancelCurrent(ConnOf[u])
    /\ UNCHANGED subFrame

\* ... and notes its own cancel function in a second critical section, whatever
\* another request noted in between.
SetCancel(u) ==
    /\ MoveSub(u, "stopped", "set")
    /\ cancel' = [cancel EXCEPT ![ConnOf[u]] = u]
    /\ UNCHANGED <<subFrame, cancelled>>

\* The stream starts, unless the game module has no pool for it.
StartStream(u) ==
    /\ \/ MoveSub(u, "set", "streaming") /\ UNCHANGED cancelled
       \/ MoveSub(u, "set", "ended") /\ cancelled' = cancelled \cup {u}
    /\ UNCHANGED <<subFrame, cancel>>

\* Mutant: a heartbeat that cannot be sent does not stop the stream.
EndStreamIfCancelled(u) ==
    /\ u \in cancelled
    /\ MoveSub(u, "streaming", "ended")
    /\ UNCHANGED <<subFrame, cancel, cancelled>>

\* The stream sees that it is cancelled, or cannot queue a heartbeat for the
\* connection, which is closed.
EndStream(u) ==
    /\ u \in cancelled \/ ConnOf[u] \in closed
    /\ MoveSub(u, "streaming", "ended")
    /\ UNCHANGED <<subFrame, cancel, cancelled>>

\* It also ends when the send queue of an open connection is full.
QueueFull(u) ==
    /\ MoveSub(u, "streaming", "ended")
    /\ UNCHANGED <<subFrame, cancel, cancelled>>

-----------------------------------------------------------------------------

\* A step of the goroutine of Stream that no client has to cause.
Streaming(c) ==
    \/ AcquireSession(c) \/ PublishKick(c) \/ AutoSubscribe(c)
    \/ c \in closed /\ ReadFails(c)
    \/ StopJackpot(c) \/ Close(c) \/ Unregister(c) \/ ReleaseSession(c)

\* What the goroutine of a subscription does by itself.
Subscribing(u) == StopCurrent(u) \/ SetCancel(u) \/ StartStream(u) \/ EndStream(u)

Next ==
    \/ \E c \in Conn : \/ Register(c) \/ ReadFails(c) \/ Streaming(c)
                       \/ DeliverKick(c) \/ LoseKick(c)
                       \/ ServerCloses(c)
    \/ \E u \in Sub : Ask(u) \/ Subscribing(u) \/ QueueFull(u)
    \/ \E n \in Node : Crash(n)
    \/ Expire

\* Goroutines run, Redis calls and writes end by their deadlines, a kick is
\* delivered or lost, and a heartbeat is due every now and then.
Fairness ==
    /\ \A c \in Conn : WF_vars(Streaming(c)) /\ WF_vars(DeliverKick(c))
    /\ \A u \in Sub : WF_vars(Subscribing(u))

Spec == Init /\ [][Next]_vars /\ Fairness

-----------------------------------------------------------------------------
(***************************************************************************)
(* What the handler promises.                                              *)
(***************************************************************************)

\* An open connection that is not the player's newest is about to be kicked,
\* unless a failure of Redis or of a node hid it: a kick never comes before the
\* connection is registered, and no cleanup takes another's session away.
SupersededIsKicked ==
    \A c \in Conn :
        Open(c) /\ session # c /\ c \notin missed =>
            \/ c \in kicks
            \/ \E d \in Conn : stage[d] = "kicking" /\ old[d] = c

\* So, with those exceptions, only the player's newest connection stays open.
SupersededIsClosed ==
    \A c \in Conn :
        Open(c) /\ session # c
            ~> c \in closed \cup missed \/ stage[c] = "dead"

\* No jackpot stream outlives its connection for ever, also when a subscription
\* overlapped the cleanup or lost its cancel function to another one.
NoStreamOutlivesConn ==
    \A c \in {ConnOf[u] : u \in Sub} :
        stage[c] \in {"gone", "dead"}
            ~> \A u \in Sub : ConnOf[u] = c => subStage[u] \in {"off", "ended"}
=============================================================================

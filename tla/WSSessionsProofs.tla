------------------------- MODULE WSSessionsProofs -------------------------
(***************************************************************************)
(* Theorems about WSSessions, for any number of nodes, connections and     *)
(* subscriptions.                                                          *)
(***************************************************************************)
EXTENDS WSSessions, TLAPS

USE NodeOfAssumption, ConnOfAssumption, NoneAssumption

\* The connection manager knows a connection from before it acquires the
\* session until after its socket is closed.
OpenIsRegistered ==
    \A c \in Conn : stage[c] = "registered" \/ Open(c) => c \in conns

\* A connection about to kick has one to kick.
KicksSomeone == \A c \in Conn : stage[c] = "kicking" => old[c] # None

\* Inductive: a kick that finds its connection closes it, which is why an open
\* connection that lost the session needs one that is still to come.
KickInv == TypeOK /\ OpenIsRegistered /\ KicksSomeone /\ SupersededIsKicked

\* At the start no connection is open.
LEMMA KickInit == Init => KickInv
  BY DEF Init, KickInv, TypeOK, OpenIsRegistered, KicksSomeone,
         SupersededIsKicked, Open, ConnStage, SubStage

\* Every step keeps an open connection registered, and replaces the reason why
\* a superseded one will be kicked by the next.
LEMMA KickStep ==
    ASSUME KickInv, [Next]_vars
    PROVE  KickInv'
  <1> USE DEF KickInv, TypeOK, OpenIsRegistered, KicksSomeone,
              SupersededIsKicked, Open, Move, Miss, registry, jackpot
  <1>1. ASSUME NEW c \in Conn, Register(c) PROVE KickInv'
    BY <1>1 DEF Register, ConnStage
  <1>2. ASSUME NEW c \in Conn, AcquireSession(c) PROVE KickInv'
    <2>1. stage[c] = "registered"
      BY <1>2 DEF AcquireSession
    <2>2. TypeOK' /\ OpenIsRegistered' /\ KicksSomeone'
      <3>1. /\ old' \in [Conn -> Conn \cup {None}]
            /\ \A d \in Conn \ {c} : old'[d] = old[d]
            /\ session' \in Conn \cup {None}
            /\ missed' \subseteq Conn
        BY <1>2 DEF AcquireSession
      <3>2. \/ stage' = [stage EXCEPT ![c] = "setup"]
            \/ stage' = [stage EXCEPT ![c] = "kicking"] /\ old'[c] # None
        BY <1>2 DEF AcquireSession
      <3>3. UNCHANGED <<registry, kicks, jackpot>>
        BY <1>2 DEF AcquireSession
      <3>4. TypeOK'
        BY <3>1, <3>2, <3>3 DEF ConnStage
      <3>5. OpenIsRegistered'
        BY <2>1, <3>2, <3>3
      <3>6. KicksSomeone'
        BY <3>1, <3>2
      <3> QED
        BY <3>4, <3>5, <3>6
    <2>3. SupersededIsKicked'
      <3> SUFFICES ASSUME NEW d \in Conn, (Open(d) /\ session # d /\ d \notin missed)'
                   PROVE  d \in kicks' \/ \E e \in Conn : (stage[e] = "kicking" /\ old[e] = d)'
        OBVIOUS
      <3>1. d # c
        BY <1>2 DEF AcquireSession
      <3>2. CASE session = d
        BY <1>2, <3>1, <3>2 DEF AcquireSession
      <3>3. CASE session # d
        BY <1>2, <2>1, <3>1, <3>3 DEF AcquireSession
      <3> QED
        BY <3>2, <3>3
    <2> QED
      BY <2>2, <2>3
  <1>3. ASSUME NEW c \in Conn, PublishKick(c) PROVE KickInv'
    BY <1>3 DEF PublishKick, ConnStage
  <1>4. ASSUME NEW c \in Conn, AutoSubscribe(c) PROVE KickInv'
    BY <1>4 DEF AutoSubscribe, ConnStage, SubStage
  <1>5. ASSUME NEW c \in Conn, ReadFails(c) PROVE KickInv'
    BY <1>5 DEF ReadFails, ConnStage
  <1>6. ASSUME NEW c \in Conn, StopJackpot(c) PROVE KickInv'
    BY <1>6 DEF StopJackpot, CancelCurrent, ConnStage
  <1>7. ASSUME NEW c \in Conn, Close(c) \/ Unregister(c) PROVE KickInv'
    BY <1>7 DEF Close, Unregister, ConnStage
  <1>8. ASSUME NEW c \in Conn, ReleaseSession(c) PROVE KickInv'
    BY <1>8 DEF ReleaseSession, ConnStage
  <1>9. ASSUME NEW c \in Conn, DeliverKick(c) \/ LoseKick(c) \/ ServerCloses(c)
        PROVE  KickInv'
    BY <1>9 DEF DeliverKick, LoseKick, ServerCloses
  <1>10. ASSUME NEW u \in Sub, Ask(u) \/ Subscribing(u) \/ QueueFull(u)
         PROVE  KickInv'
    <2>1. UNCHANGED subFrame
      BY <1>10 DEF Ask, Subscribing, StopCurrent, SetCancel, StartStream,
                   EndStream, QueueFull, subFrame
    <2>2. /\ subStage' \in [Sub -> SubStage]
          /\ cancel' \in [Conn -> Sub \cup {None}]
          /\ cancelled' \subseteq Sub
      BY <1>10 DEF Ask, Subscribing, StopCurrent, SetCancel, StartStream,
                   EndStream, QueueFull, MoveSub, CancelCurrent, SubStage
    <2> QED
      BY <2>1, <2>2 DEF subFrame
  <1>11. ASSUME NEW n \in Node, Crash(n) PROVE KickInv'
    <2>1. TypeOK' /\ KicksSomeone'
      BY <1>11 DEF Crash, Running, ConnStage, SubStage
    <2>2. \A c \in Conn : stage'[c] = "registered" \/ Open(c)'
             => (stage[c] = "registered" \/ Open(c)) /\ NodeOf[c] # n
                /\ (Open(c)' => Open(c))
      BY <1>11 DEF Crash, Running
    <2>3. OpenIsRegistered'
      BY <1>11, <2>2 DEF Crash
    <2>4. SupersededIsKicked'
      <3> SUFFICES ASSUME NEW d \in Conn, (Open(d) /\ session # d /\ d \notin missed)'
                   PROVE  d \in kicks' \/ \E e \in Conn : (stage[e] = "kicking" /\ old[e] = d)'
        OBVIOUS
      <3>1. Open(d) /\ NodeOf[d] # n /\ session # d /\ d \notin missed
        BY <1>11, <2>2 DEF Crash
      <3>2. CASE d \in kicks
        BY <1>11, <3>1, <3>2 DEF Crash
      <3>3. ASSUME NEW e \in Conn, stage[e] = "kicking", old[e] = d
            PROVE  (stage[e] = "kicking" /\ old[e] = d)'
        BY <1>11, <3>3 DEF Crash
      <3> QED
        BY <3>1, <3>2, <3>3
    <2> QED
      BY <2>1, <2>3, <2>4
  <1>12. CASE Expire
    BY <1>12 DEF Expire
  <1>13. CASE UNCHANGED vars
    BY <1>13 DEF vars
  <1> QED
    BY <1>1, <1>2, <1>3, <1>4, <1>5, <1>6, <1>7, <1>8, <1>9, <1>10, <1>11,
       <1>12, <1>13
    DEF Next, Streaming

\* Whatever the interleaving of connections, cleanups, crashes and failures, an
\* open connection that lost the player's session key is about to be kicked,
\* unless a failure hid it (Stream registers before it acquires, and Redis
\* compares before it deletes).
THEOREM SupersededKicked == Spec => []SupersededIsKicked
  <1>1. KickInv => SupersededIsKicked
    BY DEF KickInv
  <1> QED
    BY <1>1, KickInit, KickStep, PTL DEF Spec

\* The stages of the connections and of their subscriptions, the session key
\* and the kicks on their way stay what they are declared to be, in particular
\* whatever a crash takes with it (Stream, Cleanup and kickClient).
THEOREM TypeCorrect == Spec => []TypeOK
  <1>1. KickInv => TypeOK
    BY DEF KickInv
  <1> QED
    BY <1>1, KickInit, KickStep, PTL DEF Spec
=============================================================================

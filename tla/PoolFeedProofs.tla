---------------------------- MODULE PoolFeedProofs ----------------------------
(***************************************************************************)
(* Theorems about PoolFeed, for any topic, any capacities of the channels, *)
(* and any number of rebalances and of feeds.                              *)
(***************************************************************************)
EXTENDS PoolFeed, TLAPS

USE PoolAssumption, CapAssumption, MaxRejoinsAssumption

-----------------------------------------------------------------------------
(* Channels.                                                               *)

Elems(s) == {s[i] : i \in 1..Len(s)}
Increasing(s) == \A i, j \in 1..Len(s) : i < j => s[i] < s[j]
Precede(S, T) == \A x \in S, y \in T : x < y

\* A send adds one element at the end.
LEMMA ElemsOfAppend ==
    ASSUME NEW s \in Seq(Offset), NEW e \in Offset
    PROVE  /\ Append(s, e) \in Seq(Offset)
           /\ Len(Append(s, e)) = Len(s) + 1
           /\ Elems(Append(s, e)) = Elems(s) \cup {e}
  <1>1. Append(s, e) \in Seq(Offset) /\ Len(Append(s, e)) = Len(s) + 1
    OBVIOUS
  <1>2. \A i \in 1..Len(s) : Append(s, e)[i] = s[i]
    OBVIOUS
  <1>3. Append(s, e)[Len(s) + 1] = e
    OBVIOUS
  <1>4. 1..(Len(s) + 1) = 1..Len(s) \cup {Len(s) + 1}
    OBVIOUS
  <1> QED BY <1>1, <1>2, <1>3, <1>4 DEF Elems

LEMMA IncreasingAppend ==
    ASSUME NEW s \in Seq(Offset), NEW e \in Offset, Increasing(s), Precede(Elems(s), {e})
    PROVE  Increasing(Append(s, e))
  <1>1. Len(Append(s, e)) = Len(s) + 1 /\ Append(s, e)[Len(s) + 1] = e
    OBVIOUS
  <1>2. \A i \in 1..Len(s) : Append(s, e)[i] = s[i] /\ s[i] < e
    BY DEF Precede, Elems
  <1> QED BY <1>1, <1>2 DEF Increasing

\* A receive takes the first.
LEMMA ElemsOfTail ==
    ASSUME NEW s \in Seq(Offset), s # <<>>
    PROVE  /\ Tail(s) \in Seq(Offset) /\ Head(s) \in Offset
           /\ Len(Tail(s)) = Len(s) - 1
           /\ Elems(s) = {Head(s)} \cup Elems(Tail(s))
  <1>1. /\ Tail(s) \in Seq(Offset) /\ Head(s) \in Offset /\ Head(s) = s[1]
        /\ Len(Tail(s)) = Len(s) - 1 /\ Len(s) \in Nat \ {0}
    OBVIOUS
  <1>2. \A i \in 1..(Len(s) - 1) : Tail(s)[i] = s[i + 1]
    OBVIOUS
  <1>3. \A i \in 1..Len(s) : i # 1 => i - 1 \in 1..(Len(s) - 1) /\ s[i] = Tail(s)[i - 1]
    BY <1>1, <1>2
  <1>4. Elems(s) \subseteq {Head(s)} \cup Elems(Tail(s))
    BY <1>1, <1>3 DEF Elems
  <1>5. {Head(s)} \cup Elems(Tail(s)) \subseteq Elems(s)
    <2>1. \A i \in 1..(Len(s) - 1) : i + 1 \in 1..Len(s)
      BY <1>1
    <2> QED BY <1>1, <1>2, <2>1 DEF Elems
  <1> QED BY <1>1, <1>4, <1>5

LEMMA IncreasingTail ==
    ASSUME NEW s \in Seq(Offset), s # <<>>, Increasing(s)
    PROVE  Increasing(Tail(s)) /\ Precede({Head(s)}, Elems(Tail(s)))
  <1>1. Head(s) = s[1] /\ Len(Tail(s)) = Len(s) - 1 /\ Len(s) \in Nat \ {0}
    OBVIOUS
  <1>2. \A i \in 1..(Len(s) - 1) : Tail(s)[i] = s[i + 1] /\ i + 1 \in 1..Len(s)
    OBVIOUS
  <1>3. Increasing(Tail(s))
    BY <1>1, <1>2 DEF Increasing
  <1>4. \A i \in 1..(Len(s) - 1) : s[1] < Tail(s)[i]
    BY <1>1, <1>2 DEF Increasing
  <1> QED BY <1>1, <1>3, <1>4 DEF Precede, Elems

-----------------------------------------------------------------------------
(* Types.                                                                  *)

\* handleMessage has an event to work on, and only then.
HasEvent ==
    /\ consumer \in {"lock", "offer"} => event # 0
    /\ consumer \in {"fetch", "returned"} => event = 0

LEMMA TypeInit == Init => TypeOK /\ HasEvent
  <1> SUFFICES ASSUME Init PROVE TypeOK /\ HasEvent
    OBVIOUS
  <1>0. MaxEvents \in Nat
    BY DEF MaxEvents
  <1>1. next \in 1..(MaxEvents + 1) /\ committed \in 1..next /\ rejoins \in 0..MaxRejoins
    BY <1>0 DEF Init
  <1>2. /\ chan \in Seq(Offset) /\ Len(chan) <= SubCap
        /\ feed \in Seq(Offset) /\ Len(feed) <= FeedCap
    BY DEF Init
  <1>3. hand \in [Feeder -> 0..MaxEvents] /\ newest \in [Pool -> 0..MaxEvents]
    BY <1>0 DEF Init
  <1>4. feeder \in [Feeder -> {"off", "attached", "cancelled", "returned"}]
    BY DEF Init
  <1>5. event \in 0..MaxEvents /\ copy \in 0..MaxEvents /\ HasEvent
    BY <1>0 DEF Init, HasEvent
  <1> QED BY <1>1, <1>2, <1>3, <1>4, <1>5 DEF Init, TypeOK

\* Every step keeps the types, and each channel within its capacity.
LEMMA TypeStep ==
    ASSUME TypeOK, HasEvent, [Next]_vars
    PROVE  TypeOK'
  <1> USE DEF TypeOK
  <1>0. MaxEvents \in Nat
    BY DEF MaxEvents
  <1>1. CASE Rejoin \/ FlushCommits
    <2>1. CASE Rejoin
      BY <1>0, <2>1 DEF Rejoin, handling, channels, copying, feeding
    <2>2. CASE FlushCommits
      BY <1>0, <2>2 DEF FlushCommits, handling, channels, copying, feeding
    <2> QED BY <1>1, <2>1, <2>2
  <1>2. CASE Fetch \/ ReturnFromConsume
    <2>1. CASE Fetch
      <3>1. next' \in 1..(MaxEvents + 1) /\ committed' \in 1..next' /\ next \in 0..MaxEvents
        BY <1>0, <2>1 DEF Fetch, Offset
      <3>2. event' \in 0..MaxEvents /\ consumer' \in {"fetch", "lock", "offer", "returned"}
        BY <2>1, <3>1 DEF Fetch, Goto
      <3> QED BY <2>1, <3>1, <3>2 DEF Fetch, channels, copying, feeding
    <2>2. CASE ReturnFromConsume
      BY <2>2 DEF ReturnFromConsume, Goto, kafka, channels, copying, feeding
    <2> QED BY <1>2, <2>1, <2>2
  <1>3. CASE Lock \/ UnlockAndCommit
    <2>1. CASE Lock
      <3>1. listed' \in BOOLEAN
        BY <2>1 DEF Lock
      <3>2. unheard' \subseteq Offset
        BY <1>0, <2>1 DEF Lock, Offset, HasEvent
      <3> QED BY <2>1, <3>1, <3>2 DEF Lock, Goto, kafka, channels, copying, feeding
    <2>2. CASE UnlockAndCommit
      BY <1>0, <2>2 DEF UnlockAndCommit, Goto, kafka, channels, copying, feeding
    <2> QED BY <1>3, <2>1, <2>2
  <1>4. CASE Offer
    <2>1. event \in Offset
      BY <1>0, <1>4 DEF Offer, Offset, HasEvent
    <2>2. CASE Len(chan) < SubCap
      <3>1. chan' \in Seq(Offset) /\ Len(chan') <= SubCap
        <4>1. chan' = Append(chan, event)
          BY <1>4, <2>2 DEF Offer
        <4>2. chan \in Seq(Offset) /\ Len(chan) \in Nat
          OBVIOUS
        <4> QED BY <2>1, <2>2, <4>1, <4>2, ElemsOfAppend
      <3> QED BY <1>4, <2>2, <3>1 DEF Offer, kafka, copying, feeding
    <2>3. CASE ~(Len(chan) < SubCap)
      BY <1>4, <2>1, <2>3 DEF Offer, kafka, copying, feeding
    <2> QED BY <2>2, <2>3
  <1>5. CASE Subscribe \/ Shutdown \/ Unsubscribe \/ CancelConsumer \/ StopReturns
    BY <1>5 DEF Subscribe, Shutdown, Unsubscribe, CancelConsumer, StopReturns,
                kafka, handling, channels, copying, feeding
  <1>6. CASE TakeCopy
    <2>1. /\ Head(chan) \in Offset
          /\ Tail(chan) \in Seq(Offset) /\ Len(Tail(chan)) <= SubCap
      BY <1>6, ElemsOfTail DEF TakeCopy, Offset
    <2>2. copy' \in 0..MaxEvents
      BY <1>0, <1>6, <2>1 DEF TakeCopy, Offset
    <2> QED BY <1>6, <2>1, <2>2 DEF TakeCopy, Offset, kafka, handling, feeding
  <1>7. CASE PutCopy
    <2>1. copy \in Offset
      BY <1>0, <1>7 DEF PutCopy, Offset
    <2>2. feed' \in Seq(Offset) /\ Len(feed') <= FeedCap
      BY <1>7, <2>1, ElemsOfAppend DEF PutCopy
    <2> QED BY <1>0, <1>7, <2>2 DEF PutCopy, kafka, handling, channels, feeding
  <1>8. ASSUME NEW f \in Feeder, Attach(f) \/ ReturnFromFeed(f)
        PROVE  TypeOK'
    BY <1>8 DEF Attach, ReturnFromFeed, Cancel, kafka, handling, channels, copying
  <1>9. CASE Detach
    BY <1>9 DEF Detach, Cancel, kafka, handling, channels, copying
  <1>10. ASSUME NEW f \in Feeder, TakeUpdate(f)
         PROVE  TypeOK'
    <2>1. /\ Head(feed) \in Offset
          /\ Tail(feed) \in Seq(Offset) /\ Len(Tail(feed)) <= FeedCap
      BY <1>10, ElemsOfTail DEF TakeUpdate, Offset
    <2>2. hand' \in [Feeder -> 0..MaxEvents]
      BY <1>0, <1>10, <2>1 DEF TakeUpdate, Offset
    <2>3. feed' = Tail(feed)
          /\ UNCHANGED <<kafka, handling, channels, copy, feeder, handled, newest, stage, unheard>>
      BY <1>10 DEF TakeUpdate
    <2> QED BY <2>1, <2>2, <2>3 DEF kafka, handling, channels
  <1>11. ASSUME NEW f \in Feeder, HandleKafkaUpdate(f)
         PROVE  TypeOK'
    <2>1. hand[f] \in Offset
      BY <1>0, <1>11 DEF HandleKafkaUpdate, Offset
    <2>2. /\ newest' \in [Pool -> 0..MaxEvents]
          /\ hand' \in [Feeder -> 0..MaxEvents]
          /\ handled' \subseteq Offset
      <3>1. Topic[hand[f]] \in Pool
        BY <2>1 DEF Offset, MaxEvents
      <3>2. hand[f] \in 0..MaxEvents /\ newest[Topic[hand[f]]] \in 0..MaxEvents
        BY <3>1
      <3>3. newest' = [newest EXCEPT ![Topic[hand[f]]] =
                          IF hand[f] > newest[Topic[hand[f]]] THEN hand[f]
                          ELSE newest[Topic[hand[f]]]]
        BY <1>11 DEF HandleKafkaUpdate
      <3>4. newest' \in [Pool -> 0..MaxEvents]
        BY <3>2, <3>3
      <3> QED BY <1>0, <1>11, <2>1, <3>4 DEF HandleKafkaUpdate
    <2> QED BY <1>11, <2>1, <2>2 DEF HandleKafkaUpdate, kafka, handling, channels, copying
  <1>12. CASE UNCHANGED vars
    BY <1>12 DEF vars, kafka, handling, channels, copying, feeding
  <1> QED
    BY <1>1, <1>2, <1>3, <1>4, <1>5, <1>6, <1>7, <1>8, <1>9, <1>10, <1>11, <1>12
       DEF Next, Consume, Copy, Feed

LEMMA HasEventStep ==
    ASSUME TypeOK, HasEvent, [Next]_vars
    PROVE  HasEvent'
  <1> USE DEF HasEvent
  <1>1. CASE Fetch
    BY <1>1 DEF Fetch, Goto, Offset
  <1>2. CASE ReturnFromConsume \/ Lock \/ Offer \/ UnlockAndCommit
    BY <1>2 DEF ReturnFromConsume, Lock, Offer, UnlockAndCommit, Goto
  <1>3. CASE UNCHANGED handling
    BY <1>3 DEF handling
  <1> QED
    BY <1>1, <1>2, <1>3
       DEF Next, Consume, Copy, Feed, vars, Rejoin, FlushCommits, Subscribe, Shutdown,
           Unsubscribe, CancelConsumer, StopReturns, TakeCopy, PutCopy, Attach, Detach,
           TakeUpdate, HandleKafkaUpdate, ReturnFromFeed

\* The channels never hold more than their capacities, and an offset that is
\* not in the topic is never delivered.
THEOREM TypeCorrect == Spec => []TypeOK
  <1>1. TypeOK /\ HasEvent /\ [Next]_vars => TypeOK' /\ HasEvent'
    BY TypeStep, HasEventStep
  <1> QED BY TypeInit, <1>1, PTL DEF Spec

-----------------------------------------------------------------------------
(* What is not lost.                                                       *)

LEMMA OpenInit == Init => NeverOffersToClosed
  BY DEF Init, NeverOffersToClosed

\* The list of subscribers is made and served under the lock that Unsubscribe
\* has to take.
LEMMA OpenStep ==
    ASSUME NeverOffersToClosed, [Next]_vars
    PROVE  NeverOffersToClosed'
  <1> USE DEF NeverOffersToClosed
  <1>1. CASE Fetch \/ ReturnFromConsume \/ Lock \/ Offer \/ UnlockAndCommit
    BY <1>1 DEF Fetch, ReturnFromConsume, Lock, Offer, UnlockAndCommit, Goto, channels
  <1>2. CASE Subscribe \/ Unsubscribe
    BY <1>2 DEF Subscribe, Unsubscribe, Locked, handling
  <1>3. CASE UNCHANGED <<handling, sub>>
    BY <1>3 DEF handling
  <1> QED
    BY <1>1, <1>2, <1>3
       DEF Next, Consume, Copy, Feed, vars, Rejoin, FlushCommits, Shutdown, channels,
           CancelConsumer, StopReturns, TakeCopy, PutCopy, Attach, Detach,
           TakeUpdate, HandleKafkaUpdate, ReturnFromFeed

\* Unsubscribe closes a channel while other goroutines deliver to it
\* (consumer.go:302): no event is offered to a closed channel.
THEOREM OpenWhenOffered == Spec => []NeverOffersToClosed
  <1>1. NeverOffersToClosed /\ [Next]_vars => NeverOffersToClosed'
    BY OpenStep
  <1> QED BY OpenInit, <1>1, PTL DEF Spec

\* Where an event may be when handleMessage has done with it.
Beyond == handled \cup unheard \cup {copy} \cup {hand[f] : f \in Feeder}
          \cup Elems(chan) \cup Elems(feed)

\* Inductive: handleMessage lets go of an event only after it was offered.
NothingLost ==
    /\ LostOnlyUnheard
    /\ consumer = "offer" /\ ~listed => event \in Beyond

LEMMA InFlightIsBeyond == InFlight \cup handled \cup unheard = Beyond \cup {event}
  BY DEF InFlight, Beyond, Elems

LEMMA LostInit == Init => NothingLost
  BY DEF Init, NothingLost, LostOnlyUnheard

\* What is beyond stays there, but for the offset 0, which is none.
LEMMA BeyondGrows ==
    ASSUME TypeOK, HasEvent, [Next]_vars
    PROVE  Beyond \ {0} \subseteq Beyond'
  <1> USE DEF TypeOK, Beyond
  <1>0. MaxEvents \in Nat
    BY DEF MaxEvents
  <1>1. CASE Lock
    BY <1>1 DEF Lock, channels, copying, feeding
  <1>2. CASE Offer
    <2>1. event \in Offset
      BY <1>0, <1>2 DEF Offer, Offset, HasEvent
    <2>2. Elems(chan) \subseteq Elems(chan') /\ unheard \subseteq unheard'
      BY <1>2, <2>1, ElemsOfAppend DEF Offer
    <2> QED BY <1>2, <2>2 DEF Offer, copying, feeding
  <1>3. CASE TakeCopy
    <2>1. Elems(chan) = {copy'} \cup Elems(chan')
      BY <1>3, ElemsOfTail DEF TakeCopy
    <2> QED BY <1>3, <2>1 DEF TakeCopy, feeding
  <1>4. CASE PutCopy
    <2>1. copy \in Offset
      BY <1>0, <1>4 DEF PutCopy, Offset
    <2>2. Elems(feed') = Elems(feed) \cup {copy}
      BY <1>4, <2>1, ElemsOfAppend DEF PutCopy
    <2> QED BY <1>4, <2>2 DEF PutCopy, channels, feeding
  <1>5. ASSUME NEW f \in Feeder, TakeUpdate(f)
        PROVE  Beyond \ {0} \subseteq Beyond'
    <2>1. Elems(feed) = {hand'[f]} \cup Elems(feed')
      BY <1>5, ElemsOfTail DEF TakeUpdate
    <2>2. \A g \in Feeder : hand[g] \in {hand'[g], 0}
      BY <1>5 DEF TakeUpdate
    <2>3. {hand[g] : g \in Feeder} \ {0} \subseteq {hand'[g] : g \in Feeder}
      BY <2>2
    <2> QED BY <1>5, <2>1, <2>3 DEF TakeUpdate, channels
  <1>6. ASSUME NEW f \in Feeder, HandleKafkaUpdate(f)
        PROVE  Beyond \ {0} \subseteq Beyond'
    <2>1. \A g \in Feeder : hand[g] = hand'[g] \/ hand[g] \in handled'
      BY <1>6 DEF HandleKafkaUpdate
    <2>2. {hand[g] : g \in Feeder} \subseteq {hand'[g] : g \in Feeder} \cup handled'
      BY <2>1
    <2>3. handled \subseteq handled'
      BY <1>6 DEF HandleKafkaUpdate
    <2> QED BY <1>6, <2>2, <2>3 DEF HandleKafkaUpdate, channels, copying
  <1>7. CASE UNCHANGED <<handled, unheard, copy, hand, chan, feed>>
    BY <1>7
  <1> QED
    BY <1>1, <1>2, <1>3, <1>4, <1>5, <1>6, <1>7
       DEF Next, Consume, Copy, Feed, vars, Rejoin, FlushCommits, Fetch, ReturnFromConsume,
           UnlockAndCommit, Subscribe, Shutdown, Unsubscribe, CancelConsumer, StopReturns,
           Attach, Detach, ReturnFromFeed, channels, copying, feeding

LEMMA LostStep ==
    ASSUME TypeOK, HasEvent, NothingLost, [Next]_vars
    PROVE  NothingLost'
  <1>0. MaxEvents \in Nat /\ event \in 0..MaxEvents /\ next \in 1..(MaxEvents + 1)
    BY DEF MaxEvents, TypeOK
  <1>1. Beyond \ {0} \subseteq Beyond'
    BY BeyondGrows
  <1>2. \A e \in 1..(next - 1) : Topic[e] \in Own => e \in Beyond \cup {event}
    BY InFlightIsBeyond DEF NothingLost, LostOnlyUnheard
  <1>3. SUFFICES /\ \A e \in 1..(next' - 1) : Topic[e] \in Own => e \in Beyond' \cup {event'}
                 /\ consumer' = "offer" /\ ~listed' => event' \in Beyond'
    <2>1. InFlight' \cup handled' \cup unheard' = Beyond' \cup {event'}
      BY DEF InFlight, Beyond, Elems
    <2> QED BY <2>1 DEF NothingLost, LostOnlyUnheard
  <1>4. CASE Rejoin
    <2>1. next \in Nat /\ next' \in Nat /\ next' <= next
      BY <1>0, <1>4 DEF Rejoin, TypeOK
    <2>2. event' = event /\ consumer' # "offer"
      BY <1>4 DEF Rejoin, handling
    <2>3. \A n \in Nat : n <= next => \A e \in 1..(n - 1) : e \in 1..(next - 1) /\ e # 0
      BY <2>1
    <2>4. \A e \in 1..(next' - 1) : e \in 1..(next - 1) /\ e # 0
      BY <2>1, <2>3
    <2> QED BY <1>1, <1>2, <2>2, <2>4
  <1>5. CASE Fetch
    <2>1. event = 0 /\ next' = next + 1 /\ consumer' # "offer"
      BY <1>5 DEF Fetch, HasEvent, Goto
    <2>2. Topic[next] \in Own => event' = next
      BY <1>5 DEF Fetch
    <2>3. \A e \in 1..(next' - 1) : e # 0 /\ (e = next \/ e \in 1..(next - 1))
      BY <1>0, <2>1
    <2> QED BY <1>1, <1>2, <2>1, <2>2, <2>3
  <1>6. CASE Lock
    <2>1. event # 0 /\ event' = event /\ next' = next
      BY <1>6 DEF Lock, HasEvent, kafka
    <2>2. ~listed' => event' \in Beyond'
      BY <1>6 DEF Lock, Beyond
    <2>3. \A e \in 1..(next - 1) : e # 0
      BY <1>0
    <2> QED BY <1>1, <1>2, <2>1, <2>2, <2>3
  <1>7. CASE Offer
    <2>1. event \in Offset /\ event' = event /\ next' = next
      BY <1>0, <1>7 DEF Offer, Offset, HasEvent, kafka
    <2>2. event' \in Beyond'
      <3>1. CASE Len(chan) < SubCap
        <4>1. event \in Elems(chan')
          <5>1. chan' = Append(chan, event) /\ chan \in Seq(Offset)
            BY <1>7, <3>1 DEF Offer, TypeOK
          <5> QED BY <2>1, <5>1, ElemsOfAppend
        <4> QED BY <2>1, <4>1 DEF Beyond
      <3>2. CASE ~(Len(chan) < SubCap)
        BY <1>7, <2>1, <3>2 DEF Offer, Beyond
      <3> QED BY <3>1, <3>2
    <2>3. \A e \in 1..(next - 1) : e # 0
      BY <1>0
    <2> QED BY <1>1, <1>2, <2>1, <2>2, <2>3
  <1>8. CASE UnlockAndCommit
    <2>1. event \in Beyond /\ event # 0 /\ next' = next /\ consumer' # "offer"
      BY <1>8 DEF UnlockAndCommit, NothingLost, HasEvent, Goto, kafka
    <2>2. \A e \in 1..(next - 1) : e # 0
      BY <1>0
    <2> QED BY <1>1, <1>2, <2>1, <2>2
  <1>9. CASE UNCHANGED <<next, handling>>
    <2>1. consumer = "offer" => event # 0
      BY DEF HasEvent
    <2>2. \A e \in 1..(next - 1) : e # 0
      BY <1>0
    <2> QED BY <1>1, <1>2, <1>9, <2>1, <2>2 DEF NothingLost, handling
  <1>10. CASE ReturnFromConsume
    <2>1. event' = event /\ next' = next /\ consumer' # "offer"
      BY <1>10 DEF ReturnFromConsume, Goto, kafka
    <2>2. \A e \in 1..(next - 1) : e # 0
      BY <1>0
    <2> QED BY <1>1, <1>2, <2>1, <2>2
  <1> QED
    BY <1>4, <1>5, <1>6, <1>7, <1>8, <1>9, <1>10
       DEF Next, Consume, Copy, Feed, vars, kafka, FlushCommits, Subscribe, Shutdown, Unsubscribe,
           CancelConsumer, StopReturns, TakeCopy, PutCopy, Attach, Detach, TakeUpdate,
           HandleKafkaUpdate, ReturnFromFeed

\* An update of the game's pools that was fetched is on its way, has reached the
\* jackpot service, or met a full channel or no subscription.
THEOREM OnlyUnheardIsLost == Spec => []LostOnlyUnheard
  <1>1. TypeOK /\ HasEvent /\ NothingLost /\ [Next]_vars
            => TypeOK' /\ HasEvent' /\ NothingLost'
    BY TypeStep, HasEventStep, LostStep
  <1>2. NothingLost => LostOnlyUnheard
    BY DEF NothingLost
  <1> QED BY TypeInit, LostInit, <1>1, <1>2, PTL DEF Spec

-----------------------------------------------------------------------------
(* Order.                                                                  *)

\* What handleMessage has still to offer, where the events are that have not
\* been taken from the feed, and those that have.
Upcoming == IF consumer = "lock" \/ (consumer = "offer" /\ listed) THEN {event} ELSE {}
Copying == {copy} \ {0}
Ahead == Elems(feed) \cup Copying \cup Elems(chan) \cup Upcoming
Past == {newest[p] : p \in Pool} \cup {hand[f] : f \in Feeder}

\* Inductive: as long as Kafka has repeated nothing, the events stand in line.
Line ==
    /\ Increasing(feed) /\ Increasing(chan)
    /\ Precede(Elems(feed), Copying \cup Elems(chan) \cup Upcoming)
    /\ Precede(Copying, Elems(chan) \cup Upcoming)
    /\ Precede(Elems(chan), Upcoming)
    /\ Precede(Past, Ahead)
    /\ Precede(Past \cup Ahead, {next})

InLine == rejoins = 0 => Line

\* Only a goroutine that was attached has an event, and one that is alone
\* has the newest.
Alone(f) == \A g \in Feeder \ {f} : feeder[g] = "off"

HandsOK ==
    /\ \A f \in Feeder : feeder[f] = "off" => hand[f] = 0
    /\ rejoins = 0 => \A f \in Feeder : hand[f] # 0 /\ Alone(f) => Precede({newest[p] : p \in Pool}, {hand[f]})

LEMMA LineInit == Init => InLine /\ HandsOK
  <1> SUFFICES ASSUME Init PROVE InLine /\ HandsOK
    OBVIOUS
  <1>1. Elems(feed) = {} /\ Elems(chan) = {} /\ Copying = {} /\ Upcoming = {}
    BY DEF Init, Elems, Copying, Upcoming
  <1>2. Past \subseteq {0}
    BY DEF Init, Past
  <1>3. Increasing(feed) /\ Increasing(chan)
    BY DEF Init, Increasing
  <1> QED BY <1>1, <1>2, <1>3 DEF Init, InLine, Line, Ahead, Precede, HandsOK

\* All that stands in line is an offset or, in Past, 0.
LEMMA LineType ==
    ASSUME TypeOK, HasEvent
    PROVE  /\ Elems(feed) \subseteq Offset /\ Elems(chan) \subseteq Offset
           /\ Copying \subseteq Offset /\ Upcoming \subseteq Offset
           /\ Past \subseteq 0..MaxEvents /\ next \in Nat /\ MaxEvents \in Nat
  <1>0. MaxEvents \in Nat
    BY DEF MaxEvents
  <1>1. Elems(feed) \subseteq Offset /\ Elems(chan) \subseteq Offset
    BY DEF TypeOK, Elems
  <1>2. Copying \subseteq Offset /\ Upcoming \subseteq Offset
    BY <1>0 DEF TypeOK, HasEvent, Copying, Upcoming, Offset
  <1>3. Past \subseteq 0..MaxEvents
    BY DEF TypeOK, Past
  <1>4. next \in Nat
    BY <1>0 DEF TypeOK
  <1> QED BY <1>0, <1>1, <1>2, <1>3, <1>4

\* What leaves the line does not disturb it.
LEMMA LineShrinks ==
    ASSUME Line, UNCHANGED <<next, feed, chan>>, Copying' \subseteq Copying,
           Upcoming' \subseteq Upcoming, Past' \subseteq Past
    PROVE  Line'
  <1>1. Elems(feed)' = Elems(feed) /\ Elems(chan)' = Elems(chan)
        /\ (Increasing(feed) <=> Increasing(feed)') /\ (Increasing(chan) <=> Increasing(chan)')
    BY DEF Elems, Increasing
  <1>2. Ahead' \subseteq Ahead
    BY <1>1 DEF Ahead
  <1> QED BY <1>1, <1>2 DEF Line, Precede

LEMMA LineStep ==
    ASSUME TypeOK, HasEvent, InLine, [Next]_vars
    PROVE  InLine'
  <1> SUFFICES ASSUME rejoins' = 0
               PROVE  Line'
    BY DEF InLine
  <1>0. rejoins = 0 /\ ~Rejoin
    BY DEF TypeOK, Next, Rejoin, FlushCommits, Consume, Fetch, ReturnFromConsume, Lock, Offer,
       UnlockAndCommit, Subscribe, Shutdown, Unsubscribe, CancelConsumer, StopReturns, Copy,
       TakeCopy, PutCopy, Attach, Feed, TakeUpdate, HandleKafkaUpdate, ReturnFromFeed, Detach,
       vars, kafka
  <1>1. Line
    BY <1>0 DEF InLine
  <1>2. /\ Elems(feed) \subseteq Offset /\ Elems(chan) \subseteq Offset
        /\ Copying \subseteq Offset /\ Upcoming \subseteq Offset
        /\ Past \subseteq 0..MaxEvents /\ next \in Nat /\ MaxEvents \in Nat
    BY LineType
  <1>3. CASE Fetch
    <2>1. /\ UNCHANGED <<chan, copy, feed, hand, newest>> /\ next' = next + 1 /\ Upcoming = {}
          /\ Upcoming' \in {{next}, {}}
      BY <1>3 DEF Fetch, Goto, Upcoming, channels, copying, feeding
    <2>2. /\ UNCHANGED <<Elems(feed), Elems(chan), Copying, Past>>
          /\ Increasing(feed)' /\ Increasing(chan)'
      BY <1>1, <2>1 DEF Elems, Copying, Past, Line, Increasing
    <2>3. Ahead' = Ahead \cup Upcoming'
      BY <2>1, <2>2 DEF Ahead
    <2>4. \A x \in Past \cup Ahead : x \in Nat /\ x < next
      BY <1>1, <1>2 DEF Line, Precede, Ahead, Offset
    <2>5. Precede(Past \cup Ahead, Upcoming') /\ Precede((Past \cup Ahead)', {next'})
      BY <1>2, <2>1, <2>2, <2>3, <2>4 DEF Precede
    <2> QED BY <1>1, <2>1, <2>2, <2>3, <2>5 DEF Line, Precede, Ahead
  <1>4. CASE Lock \/ ReturnFromConsume \/ UnlockAndCommit
    <2>1. UNCHANGED <<next, chan, copy, feed, hand, newest>>
      BY <1>4 DEF Lock, ReturnFromConsume, UnlockAndCommit, kafka, channels, copying, feeding
    <2>2. Upcoming' \subseteq Upcoming
      <3>1. CASE Lock
        <4>1. Upcoming = {event} /\ event' = event
          BY <3>1 DEF Lock, Upcoming
        <4>2. Upcoming' \in {{event'}, {}}
          BY DEF Upcoming
        <4> QED BY <4>1, <4>2
      <3>2. CASE ReturnFromConsume \/ UnlockAndCommit
        <4>1. Upcoming' = {}
          BY <3>2 DEF ReturnFromConsume, UnlockAndCommit, Goto, Upcoming
        <4> QED BY <4>1
      <3> QED BY <1>4, <3>1, <3>2
    <2>3. Copying' = Copying /\ Past' = Past
      BY <2>1 DEF Copying, Past
    <2> QED BY <1>1, <2>1, <2>2, <2>3, LineShrinks
  <1>5. CASE Offer
    <2>1. /\ UNCHANGED <<next, copy, feed, hand, newest>>
          /\ Upcoming = {event} /\ Upcoming' = {}
      BY <1>5 DEF Offer, Upcoming, kafka, copying, feeding
    <2>2. /\ UNCHANGED <<Elems(feed), Copying, Past>> /\ Increasing(feed)'
      BY <1>1, <2>1 DEF Elems, Copying, Past, Line, Increasing
    <2>3. CASE chan' = chan
      <3>1. Copying' \subseteq Copying /\ Past' \subseteq Past /\ Upcoming' \subseteq Upcoming
        BY <2>1, <2>2
      <3> QED BY <1>1, <2>1, <2>3, <3>1, LineShrinks
    <2>4. CASE chan' = Append(chan, event)
      <3>1. event \in Offset /\ chan \in Seq(Offset)
        BY <1>2, <2>1 DEF TypeOK
      <3>2. Elems(chan)' = Elems(chan) \cup {event}
        BY <2>4, <3>1, ElemsOfAppend DEF Elems
      <3>3. Increasing(chan)'
        <4>1. Increasing(chan) /\ Precede(Elems(chan), {event})
          BY <1>1, <2>1 DEF Line
        <4>2. Increasing(Append(chan, event))
          BY <3>1, <4>1, IncreasingAppend
        <4> QED BY <2>4, <4>2 DEF Increasing
      <3>4. Ahead' = Ahead
        BY <2>1, <2>2, <3>2 DEF Ahead
      <3> QED BY <1>1, <2>1, <2>2, <3>2, <3>3, <3>4 DEF Line, Precede
    <2> QED BY <1>5, <2>3, <2>4 DEF Offer
  <1>6. CASE TakeCopy
    <2>1. /\ UNCHANGED <<next, feed, hand, newest, consumer, listed, event>>
          /\ chan \in Seq(Offset) /\ chan # <<>> /\ chan' = Tail(chan) /\ copy' = Head(chan)
          /\ copy = 0
      BY <1>6 DEF TakeCopy, TypeOK, kafka, handling, feeding
    <2>2. /\ UNCHANGED <<Elems(feed), Upcoming, Past>> /\ Increasing(feed)'
      BY <1>1, <2>1 DEF Elems, Upcoming, Past, Line, Increasing
    <2>3. Elems(chan) = {copy'} \cup Elems(chan)'
      BY <2>1, ElemsOfTail DEF Elems
    <2>4. Increasing(chan)' /\ Precede({copy'}, Elems(chan)')
      <3>1. Increasing(Tail(chan)) /\ Precede({Head(chan)}, Elems(Tail(chan)))
        BY <1>1, <2>1, IncreasingTail DEF Line
      <3> QED BY <2>1, <3>1 DEF Increasing, Precede, Elems
    <2>5. Copying = {} /\ Copying' = {copy'}
      BY <1>2, <2>1, <2>3 DEF Copying, Offset
    <2>6. Ahead' = Ahead
      BY <2>2, <2>3, <2>5 DEF Ahead
    <2> QED BY <1>1, <2>1, <2>2, <2>3, <2>4, <2>5, <2>6 DEF Line, Precede
  <1>7. CASE PutCopy
    <2>1. /\ UNCHANGED <<next, chan, hand, newest, consumer, listed, event>>
          /\ feed \in Seq(Offset) /\ feed' = Append(feed, copy) /\ copy \in Offset
          /\ Copying = {copy} /\ Copying' = {}
      BY <1>2, <1>7 DEF PutCopy, TypeOK, Copying, kafka, handling, channels, feeding
    <2>2. /\ UNCHANGED <<Elems(chan), Upcoming, Past>> /\ Increasing(chan)'
      BY <1>1, <2>1 DEF Elems, Upcoming, Past, Line, Increasing
    <2>3. Elems(feed)' = Elems(feed) \cup {copy}
      BY <2>1, ElemsOfAppend DEF Elems
    <2>4. Increasing(feed)'
      <3>1. Increasing(feed) /\ Precede(Elems(feed), {copy})
        BY <1>1, <2>1 DEF Line, Precede
      <3>2. Increasing(Append(feed, copy))
        BY <2>1, <3>1, IncreasingAppend
      <3> QED BY <2>1, <3>2 DEF Increasing
    <2>5. Ahead' = Ahead
      BY <2>1, <2>2, <2>3 DEF Ahead
    <2> QED BY <1>1, <2>1, <2>2, <2>3, <2>4, <2>5 DEF Line, Precede
  <1>8. ASSUME NEW f \in Feeder, TakeUpdate(f)
        PROVE  Line'
    <2>1. /\ UNCHANGED <<next, chan, copy, newest, consumer, listed, event>>
          /\ feed \in Seq(Offset) /\ feed # <<>> /\ feed' = Tail(feed)
          /\ hand' = [hand EXCEPT ![f] = Head(feed)]
      BY <1>8 DEF TakeUpdate, TypeOK, kafka, handling, channels
    <2>2. /\ UNCHANGED <<Elems(chan), Upcoming, Copying>> /\ Increasing(chan)'
      BY <1>1, <2>1 DEF Elems, Upcoming, Copying, Line, Increasing
    <2>3. Elems(feed) = {Head(feed)} \cup Elems(feed)'
      BY <2>1, ElemsOfTail DEF Elems
    <2>4. Increasing(feed)' /\ Precede({Head(feed)}, Elems(feed)')
      <3>1. Increasing(Tail(feed)) /\ Precede({Head(feed)}, Elems(Tail(feed)))
        BY <1>1, <2>1, IncreasingTail DEF Line
      <3> QED BY <2>1, <3>1 DEF Increasing, Precede, Elems
    <2>5. Past' \subseteq Past \cup {Head(feed)}
      BY <2>1 DEF Past, TypeOK
    <2>6. Ahead' \subseteq Ahead /\ Head(feed) \in Ahead /\ Precede({Head(feed)}, Ahead')
      BY <1>1, <2>2, <2>3, <2>4 DEF Ahead, Line, Precede
    <2>7. Precede(Past', Ahead') /\ Precede(Past' \cup Ahead', {next'})
      BY <1>1, <2>1, <2>5, <2>6 DEF Line, Precede
    <2> QED BY <1>1, <2>1, <2>2, <2>3, <2>4, <2>7 DEF Line, Precede
  <1>9. ASSUME NEW f \in Feeder, HandleKafkaUpdate(f)
        PROVE  Line'
    <2>1. /\ UNCHANGED <<next, chan, feed, copy, consumer, listed, event>>
          /\ hand[f] # 0 /\ hand' = [hand EXCEPT ![f] = 0]
          /\ newest' = [newest EXCEPT ![Topic[hand[f]]] =
                            IF hand[f] > newest[Topic[hand[f]]] THEN hand[f]
                            ELSE newest[Topic[hand[f]]]]
      BY <1>9 DEF HandleKafkaUpdate, kafka, handling, channels, copying
    <2>2. Copying' = Copying /\ Upcoming' = Upcoming
      BY <2>1 DEF Copying, Upcoming
    <2>3. Past' \subseteq Past \cup {0}
      BY <2>1 DEF Past, TypeOK
    <2>4. \A x \in Ahead \cup {next} : 0 < x
      <3>1. Ahead \subseteq Offset /\ \A x \in Offset : 0 < x
        <4>1. \A x \in Offset : 0 < x
          BY <1>2 DEF Offset
        <4> QED BY <1>2, <4>1 DEF Ahead
      <3>2. 0 < next
        BY <1>2 DEF TypeOK
      <3> QED BY <3>1, <3>2
    <2>5. /\ UNCHANGED <<Elems(feed), Elems(chan), Ahead>>
          /\ Increasing(feed)' /\ Increasing(chan)'
      BY <1>1, <2>1, <2>2 DEF Elems, Ahead, Line, Increasing
    <2>6. Precede(Past', Ahead') /\ Precede(Past' \cup Ahead', {next'})
      BY <1>1, <2>1, <2>3, <2>4, <2>5 DEF Line, Precede
    <2> QED BY <1>1, <2>1, <2>2, <2>5, <2>6 DEF Line, Precede
  <1>10. CASE UNCHANGED <<next, consumer, event, listed, chan, copy, feed, hand, newest>>
    <2>1. Copying' = Copying /\ Upcoming' = Upcoming /\ Past' = Past
      BY <1>10 DEF Copying, Upcoming, Past
    <2> QED BY <1>1, <1>10, <2>1, LineShrinks
  <1> QED
    BY <1>0, <1>3, <1>4, <1>5, <1>6, <1>7, <1>8, <1>9, <1>10
       DEF Next, FlushCommits, Consume, Subscribe, Shutdown, Unsubscribe, CancelConsumer,
           StopReturns, Copy, Attach, Feed, ReturnFromFeed, Detach, vars, kafka, handling,
           channels, copying, feeding

LEMMA HandsStep ==
    ASSUME TypeOK, HasEvent, InLine, HandsOK, [Next]_vars
    PROVE  HandsOK'
  <1>1. ASSUME NEW f \in Feeder, TakeUpdate(f)
        PROVE  HandsOK'
    <2>1. /\ UNCHANGED <<feeder, newest, rejoins>> /\ feeder[f] # "off"
          /\ hand' = [hand EXCEPT ![f] = Head(feed)]
          /\ feed \in Seq(Offset) /\ feed # <<>>
      BY <1>1 DEF TakeUpdate, TypeOK, kafka
    <2>2. \A g \in Feeder \ {f} : hand'[g] = hand[g]
      BY <2>1 DEF TypeOK
    <2>3. rejoins = 0 => Precede({newest[p] : p \in Pool}, {hand'[f]})
      <3>1. Head(feed) \in Elems(feed) /\ hand'[f] = Head(feed)
        BY <2>1, ElemsOfTail DEF TypeOK
      <3> QED BY <3>1 DEF InLine, Line, Precede, Past, Ahead
    <2>4. ASSUME NEW g \in Feeder, feeder'[g] = "off" PROVE hand'[g] = 0
      BY <2>1, <2>2, <2>4 DEF HandsOK
    <2>5. ASSUME NEW g \in Feeder, hand'[g] # 0, Alone(g)', rejoins' = 0
          PROVE  Precede({newest[p] : p \in Pool}, {hand'[g]})
      BY <2>1, <2>2, <2>3, <2>5 DEF HandsOK, Alone
    <2> QED BY <2>1, <2>4, <2>5 DEF HandsOK, Precede
  <1>2. ASSUME NEW f \in Feeder, HandleKafkaUpdate(f)
        PROVE  HandsOK'
    <2>1. /\ UNCHANGED <<feeder, rejoins>> /\ hand[f] # 0
          /\ hand' = [hand EXCEPT ![f] = 0]
      BY <1>2 DEF HandleKafkaUpdate, kafka
    <2>2. hand'[f] = 0 /\ \A g \in Feeder \ {f} : hand'[g] = hand[g]
      BY <2>1 DEF TypeOK
    <2>3. \A g \in Feeder \ {f} : ~Alone(g)
      BY <2>1 DEF HandsOK, Alone
    <2> QED BY <2>1, <2>2, <2>3 DEF HandsOK, Alone
  <1>3. ASSUME UNCHANGED <<hand, newest>>, rejoins' = 0 => rejoins = 0,
               \A f \in Feeder : feeder'[f] = "off" => feeder[f] = "off"
        PROVE  HandsOK'
    BY <1>3 DEF HandsOK, Alone
  <1>4. ASSUME NEW f \in Feeder, Attach(f) \/ ReturnFromFeed(f) \/ Detach
        PROVE  HandsOK'
    <2>1. UNCHANGED <<hand, newest, rejoins>>
      BY <1>4 DEF Attach, ReturnFromFeed, Detach, kafka
    <2>2. \A g \in Feeder : feeder'[g] = "off" => feeder[g] = "off"
      BY <1>4 DEF Attach, ReturnFromFeed, Detach, Cancel, TypeOK
    <2> QED BY <1>3, <2>1, <2>2
  <1>5. CASE Rejoin
    <2>1. UNCHANGED feeding /\ rejoins' # 0
      BY <1>5 DEF Rejoin, TypeOK
    <2> QED BY <1>3, <2>1 DEF feeding
  <1>6. CASE UNCHANGED <<rejoins, feeding>>
    BY <1>3, <1>6 DEF feeding
  <1>7. Detach => \E f \in Feeder : feeder[f] = "attached"
    BY DEF Detach
  <1> QED
    BY <1>1, <1>2, <1>4, <1>5, <1>6, <1>7
       DEF Next, FlushCommits, Consume, Fetch, ReturnFromConsume, Lock, Offer, UnlockAndCommit,
           Subscribe, Shutdown, Unsubscribe, CancelConsumer, StopReturns, Copy, TakeCopy, PutCopy,
           Feed, vars, kafka

\* The updates of a pool reach the jackpot service in the order of the topic,
\* unless Kafka repeats them or two goroutines share the feed.
THEOREM OrderKept == Spec => KeepsOrder
  <1>1. TypeOK /\ InLine /\ HandsOK /\ [Next]_vars =>
            [\A f \in Feeder :
                hand[f] # 0 /\ hand'[f] = 0 /\ hand[f] < newest[Topic[hand[f]]] =>
                    rejoins > 0 \/ \E g \in Feeder \ {f} : feeder[g] # "off"]_vars
    <2> SUFFICES ASSUME TypeOK, HandsOK, NEW f \in Feeder, hand[f] # 0,
                        hand[f] < newest[Topic[hand[f]]], rejoins = 0
                 PROVE  ~Alone(f)
      BY DEF TypeOK, Alone
    <2>1. MaxEvents \in Nat /\ hand[f] \in 0..MaxEvents /\ newest \in [Pool -> 0..MaxEvents]
      BY DEF TypeOK, MaxEvents
    <2>2. Topic[hand[f]] \in Pool
      BY <2>1 DEF MaxEvents
    <2>3. ~(newest[Topic[hand[f]]] < hand[f])
      BY <2>1, <2>2
    <2> QED BY <2>2, <2>3 DEF HandsOK, Precede
  <1>2. TypeOK /\ HasEvent /\ InLine /\ HandsOK /\ [Next]_vars
            => TypeOK' /\ HasEvent' /\ InLine' /\ HandsOK'
    BY TypeStep, HasEventStep, LineStep, HandsStep
  <1> QED BY TypeInit, LineInit, <1>1, <1>2, PTL DEF Spec, KeepsOrder
=============================================================================

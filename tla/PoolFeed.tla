----------------------------- MODULE PoolFeed -----------------------------
(***************************************************************************)
(* The way of a pool update from Kafka to the jackpot service: the         *)
(* consumer and the one subscription made to it, to all pools              *)
(* (events/kafka/consumer.go), the goroutine that copies the subscription  *)
(* into the feed (the main of cmd/slotmodule/main.go), and the goroutine of *)
(* AttachJackpotUpdateFeed (server/server.go) that empties the feed. The   *)
(* events arrive at JackpotService.HandleKafkaUpdate.                      *)
(***************************************************************************)
EXTENDS Naturals, SequencesExt

CONSTANTS
    Pool,       \* pools whose updates are in the topic
    Own,        \* pools of this game, which the filter lets through
    Feeder,     \* calls of AttachJackpotUpdateFeed
    SubCap,     \* capacity of the subscription's channel, 10 in the code
    FeedCap,    \* capacity of the feed, 256 in the code
    Topic,      \* Kafka: the pool of each event the topic has or will have
    MaxRejoins  \* bound: times the consumer's group is formed anew

ASSUME PoolAssumption == Own \subseteq Pool /\ Topic \in Seq(Pool)
ASSUME CapAssumption == SubCap \in Nat \ {0} /\ FeedCap \in Nat \ {0}
ASSUME MaxRejoinsAssumption == MaxRejoins \in Nat

\* An event is its offset in the topic.
MaxEvents == Len(Topic)
Offset == 1..MaxEvents

VARIABLES
    next,       \* offset the consumer fetches next
    committed,  \* offset the group starts from when it is formed anew
    rejoins,    \* how often it was
    consumer,   \* where consume and handleMessage stand
    event,      \* the event handleMessage works on
    sub,        \* the subscription: not made yet, in the list, or removed
    listed,     \* whether the list of subscribers being served has it
    chan,       \* what its channel holds
    copy,       \* the event main's goroutine is copying, 0 for none
    feed,       \* the channel jackpotFeed
    feeder,     \* state of each AttachJackpotUpdateFeed goroutine
    hand,       \* the event it passes to HandleKafkaUpdate, 0 for none
    stage,      \* of the process
    handled,    \* ghost: the events HandleKafkaUpdate was called with
    newest,     \* ghost: of these, the newest of each pool
    unheard     \* ghost: events the channel could not take

kafka == <<next, committed, rejoins>>
handling == <<consumer, event, listed>>
channels == <<sub, chan>>
copying == <<copy, feed>>
feeding == <<feeder, hand, handled, newest>>
vars == <<kafka, handling, channels, copying, feeding, stage, unheard>>

TypeOK ==
    /\ next \in 1..(MaxEvents + 1) /\ committed \in 1..next /\ rejoins \in 0..MaxRejoins
    /\ consumer \in {"fetch", "lock", "offer", "returned"}
    /\ event \in 0..MaxEvents
    /\ sub \in {"none", "open", "closed"} /\ listed \in BOOLEAN
    /\ chan \in Seq(Offset) /\ Len(chan) <= SubCap
    /\ copy \in 0..MaxEvents
    /\ feed \in Seq(Offset) /\ Len(feed) <= FeedCap
    /\ feeder \in [Feeder -> {"off", "attached", "cancelled", "returned"}]
    /\ hand \in [Feeder -> 0..MaxEvents]
    /\ stage \in {"running", "shutdown", "unsubscribed", "stopping", "stopped"}
    /\ handled \subseteq Offset /\ unheard \subseteq Offset
    /\ newest \in [Pool -> 0..MaxEvents]

Init ==
    /\ next = 1 /\ committed = 1 /\ rejoins = 0
    /\ consumer = "fetch" /\ event = 0
    /\ sub = "none" /\ listed = FALSE /\ chan = <<>>
    /\ copy = 0 /\ feed = <<>>
    /\ feeder = [f \in Feeder |-> "off"]
    /\ hand = [f \in Feeder |-> 0]
    /\ stage = "running"
    /\ handled = {} /\ newest = [p \in Pool |-> 0] /\ unheard = {}

---------------------------------------------------------------------------
(* Kafka (external): one partition; a rebalance makes the reader start     *)
(* again from what was committed, which happens once a second. That the    *)
(* reader waits for an event is one more reason for it to take its time.   *)

Rejoin ==
    /\ rejoins < MaxRejoins /\ consumer = "fetch" /\ committed < next
    /\ rejoins' = rejoins + 1
    /\ next' = committed
    /\ UNCHANGED <<committed, handling, channels, copying, feeding, stage, unheard>>

FlushCommits ==
    /\ consumer = "fetch" /\ committed < next
    /\ committed' = next
    /\ UNCHANGED <<next, rejoins, handling, channels, copying, feeding, stage, unheard>>

---------------------------------------------------------------------------
(* The consumer's goroutine.                                               *)

Goto(pc) == consumer' = pc

\* An event of another game's pool is committed and no more.
Fetch ==
    /\ consumer = "fetch" /\ stage # "stopping" /\ next \in Offset
    /\ next' = next + 1
    /\ IF Topic[next] \in Own
       THEN Goto("lock") /\ event' = next
       ELSE UNCHANGED <<consumer, event>>
    /\ UNCHANGED <<committed, rejoins, listed, channels, copying, feeding, stage, unheard>>

\* Mutant: the fetch has a context of its own and waits for an event.
ReturnAfterEvent ==
    /\ consumer = "fetch" /\ stage = "stopping" /\ next \in Offset
    /\ Goto("returned")
    /\ UNCHANGED <<kafka, event, listed, channels, copying, feeding, stage, unheard>>

\* The select of consume, or FetchMessage, sees the cancelled context.
ReturnFromConsume ==
    /\ consumer = "fetch" /\ stage = "stopping"
    /\ Goto("returned")
    /\ UNCHANGED <<kafka, event, listed, channels, copying, feeding, stage, unheard>>

\* The pool cache, which nothing reads, is set; then RLock and the list of
\* subscribers. A goroutine that waits to write keeps readers out.
Lock ==
    /\ consumer = "lock" /\ stage # "shutdown"
    /\ listed' = (sub = "open")
    /\ unheard' = IF sub = "open" THEN unheard ELSE unheard \cup {event}
    /\ Goto("offer")
    /\ UNCHANGED <<kafka, event, channels, copying, feeding, stage>>

\* Mutant: the channel takes any number of events.
OfferUnbounded ==
    /\ consumer = "offer" /\ listed
    /\ listed' = FALSE
    /\ chan' = Append(chan, event)
    /\ UNCHANGED <<kafka, consumer, event, sub, copying, feeding, stage, unheard>>

\* A send that does not wait, with RLock held.
Offer ==
    /\ consumer = "offer" /\ listed
    /\ listed' = FALSE
    /\ IF Len(chan) < SubCap
       THEN chan' = Append(chan, event) /\ UNCHANGED unheard
       ELSE unheard' = unheard \cup {event} /\ UNCHANGED chan
    /\ UNCHANGED <<kafka, consumer, event, sub, copying, feeding, stage>>

\* RUnlock, and CommitMessages hands the offset to the reader.
UnlockAndCommit ==
    /\ consumer = "offer" /\ ~listed
    /\ event' = 0
    /\ Goto("fetch")
    /\ UNCHANGED <<kafka, listed, channels, copying, feeding, stage, unheard>>

---------------------------------------------------------------------------
(* Subscribe and Unsubscribe take the lock handleMessage holds for reading *)
(* while it offers an event.                                               *)

Locked == consumer = "offer"

\* The subscription is made after the consumer was started.
Subscribe ==
    /\ ~Locked /\ sub = "none"
    /\ sub' = "open"
    /\ UNCHANGED <<kafka, handling, chan, copying, feeding, stage, unheard>>

\* The signal: the first thing the shutdown does here is to ask for the lock.
Shutdown ==
    /\ stage = "running" /\ sub = "open"
    /\ stage' = "shutdown"
    /\ UNCHANGED <<kafka, handling, channels, copying, feeding, unheard>>

\* Mutant: the list is changed without the lock.
UnsubscribeUnlocked ==
    /\ stage = "shutdown"
    /\ sub' = "closed" /\ stage' = "unsubscribed"
    /\ UNCHANGED <<kafka, handling, chan, copying, feeding, unheard>>

Unsubscribe ==
    /\ ~Locked /\ stage = "shutdown"
    /\ sub' = "closed" /\ stage' = "unsubscribed"
    /\ UNCHANGED <<kafka, handling, chan, copying, feeding, unheard>>

\* Stop: cancel, wait for consume, close the reader.
CancelConsumer ==
    /\ stage = "unsubscribed" /\ stage' = "stopping"
    /\ UNCHANGED <<kafka, handling, channels, copying, feeding, unheard>>

StopReturns ==
    /\ stage = "stopping" /\ consumer = "returned"
    /\ stage' = "stopped"
    /\ UNCHANGED <<kafka, handling, channels, copying, feeding, unheard>>

---------------------------------------------------------------------------
(* From the subscription to the feed and out of it.                        *)

\* Mutant: the loop ends when the subscription does.
TakeCopyWhileOpen ==
    /\ copy = 0 /\ chan # <<>> /\ sub = "open"
    /\ copy' = Head(chan)
    /\ chan' = Tail(chan)
    /\ UNCHANGED <<kafka, handling, sub, feed, feeding, stage, unheard>>

\* The loop ends when the channel is closed and empty.
TakeCopy ==
    /\ copy = 0 /\ chan # <<>>
    /\ copy' = Head(chan)
    /\ chan' = Tail(chan)
    /\ UNCHANGED <<kafka, handling, sub, feed, feeding, stage, unheard>>

\* Mutant: what finds the feed full is dropped here, too.
PutCopyOrDrop ==
    /\ copy # 0
    /\ feed' = IF Len(feed) < FeedCap THEN Append(feed, copy) ELSE feed
    /\ copy' = 0
    /\ UNCHANGED <<kafka, handling, channels, feeding, stage, unheard>>

\* The send waits for a place in the feed.
PutCopy ==
    /\ copy # 0 /\ Len(feed) < FeedCap
    /\ feed' = Append(feed, copy)
    /\ copy' = 0
    /\ UNCHANGED <<kafka, handling, channels, feeding, stage, unheard>>

\* A new feed cancels the goroutine of the one before.
Cancel(fs) == [f \in Feeder |-> IF f \in fs /\ feeder[f] = "attached" THEN "cancelled" ELSE feeder[f]]

Attach(f) ==
    /\ feeder[f] = "off"
    /\ feeder' = [Cancel(Feeder) EXCEPT ![f] = "attached"]
    /\ UNCHANGED <<kafka, handling, channels, copying, hand, handled, newest, stage, unheard>>

\* The feed is nil.
Detach ==
    /\ \E f \in Feeder : feeder[f] = "attached"
    /\ feeder' = Cancel(Feeder)
    /\ UNCHANGED <<kafka, handling, channels, copying, hand, handled, newest, stage, unheard>>

\* Mutant: the newest update first.
TakeNewestUpdate(f) ==
    /\ feeder[f] \in {"attached", "cancelled"} /\ hand[f] = 0 /\ feed # <<>>
    /\ hand' = [hand EXCEPT ![f] = Last(feed)]
    /\ feed' = Front(feed)
    /\ UNCHANGED <<kafka, handling, channels, copy, feeder, handled, newest, stage, unheard>>

\* The select of a cancelled goroutine may still choose the feed.
TakeUpdate(f) ==
    /\ feeder[f] \in {"attached", "cancelled"} /\ hand[f] = 0 /\ feed # <<>>
    /\ hand' = [hand EXCEPT ![f] = Head(feed)]
    /\ feed' = Tail(feed)
    /\ UNCHANGED <<kafka, handling, channels, copy, feeder, handled, newest, stage, unheard>>

HandleKafkaUpdate(f) ==
    /\ hand[f] # 0
    /\ handled' = handled \cup {hand[f]}
    /\ newest' = [newest EXCEPT ![Topic[hand[f]]] = IF hand[f] > @ THEN hand[f] ELSE @]
    /\ hand' = [hand EXCEPT ![f] = 0]
    /\ UNCHANGED <<kafka, handling, channels, copying, feeder, stage, unheard>>

ReturnFromFeed(f) ==
    /\ feeder[f] = "cancelled" /\ hand[f] = 0
    /\ feeder' = [feeder EXCEPT ![f] = "returned"]
    /\ UNCHANGED <<kafka, handling, channels, copying, hand, handled, newest, stage, unheard>>

---------------------------------------------------------------------------

Consume == Fetch \/ ReturnFromConsume \/ Lock \/ Offer \/ UnlockAndCommit
Copy == TakeCopy \/ PutCopy
Feed(f) == TakeUpdate(f) \/ HandleKafkaUpdate(f)

Next ==
    \/ Rejoin \/ FlushCommits
    \/ Consume
    \/ Subscribe \/ Shutdown \/ Unsubscribe
    \/ CancelConsumer \/ StopReturns
    \/ Copy
    \/ \E f \in Feeder : Attach(f) \/ Feed(f) \/ ReturnFromFeed(f)
    \/ Detach

\* The goroutines run.
Fairness ==
    /\ WF_vars(Consume)
    /\ WF_vars(Copy)
    /\ \A f \in Feeder : WF_vars(Feed(f))
    /\ WF_vars(Unsubscribe) /\ WF_vars(CancelConsumer) /\ WF_vars(StopReturns)

Spec == Init /\ [][Next]_vars /\ Fairness

---------------------------------------------------------------------------
(* Properties                                                              *)

\* Unsubscribe closes a channel while other goroutines deliver to it
\* (consumer.go:302): no event is offered to a closed channel.
NeverOffersToClosed == consumer = "offer" /\ listed => sub = "open"

InFlight == {event, copy} \cup {hand[f] : f \in Feeder}
            \cup {chan[i] : i \in 1..Len(chan)} \cup {feed[i] : i \in 1..Len(feed)}

\* An update of the game's pools that was fetched is on its way, has
\* reached the jackpot service, or met a full channel or no subscription:
\* neither a slow service nor a change of feeds loses it.
LostOnlyUnheard ==
    \A e \in 1..(next - 1) : Topic[e] \in Own => e \in handled \cup unheard \cup InFlight

\* The updates of a pool reach the jackpot service in the order of the
\* topic, unless Kafka repeats them or two goroutines share the feed.
KeepsOrder ==
    [][\A f \in Feeder :
        hand[f] # 0 /\ hand'[f] = 0 /\ hand[f] < newest[Topic[hand[f]]] =>
            rejoins > 0 \/ \E g \in Feeder \ {f} : feeder[g] # "off"]_vars

\* A feed nobody empties does not keep the consumer from being stopped.
StopEnds == stage = "shutdown" ~> stage = "stopped"

\* As long as a feed is attached, what the subscription's channel has taken
\* arrives, also when the subscription is closed before.
TakenArrives ==
    chan # <<>> /\ Last(chan) = MaxEvents
        ~> MaxEvents \in handled \/ \A f \in Feeder : feeder[f] # "attached"

=============================================================================

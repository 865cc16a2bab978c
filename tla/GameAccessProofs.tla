-------------------------- MODULE GameAccessProofs --------------------------
(***************************************************************************)
(* Theorems about who may play and with what token: AssetToken, for any    *)
(* times and buckets, and GameAccess, for any players, connections,        *)
(* requests and records of the game.                                       *)
(***************************************************************************)
EXTENDS GameAccess, AssetToken, TLAPS

-----------------------------------------------------------------------------
(***************************************************************************)
(* The token of the game's assets.                                         *)
(***************************************************************************)

\* The quotient of a rounded number, as the two bounds that define it.
LEMMA DivBounds ==
    ASSUME NEW n \in Nat, NEW b \in Nat \ {0}
    PROVE  /\ n \div b \in Nat
           /\ (n \div b) * b <= n
           /\ n < (n \div b) * b + b
<1> DEFINE q == n \div b
           r == n % b
<1>1. q \in Nat /\ r \in 0..(b - 1) /\ n = b * q + r
  BY SMT
<1>2. b * q = q * b
  BY <1>1
<1> QED BY <1>1, <1>2

\* RoundUp never rounds down, and stays within one bucket.
LEMMA RoundUpBounds ==
    ASSUME NEW t \in Nat, NEW b \in Nat \ {0}
    PROVE  /\ RoundUp(t, b) \in Nat
           /\ t <= RoundUp(t, b)
           /\ RoundUp(t, b) < t + b
<1>1. t + b - 1 \in Nat
  OBVIOUS
<1> DEFINE q == (t + b - 1) \div b
<1>2. q \in Nat /\ q * b <= t + b - 1 /\ t + b - 1 < q * b + b
  BY <1>1, DivBounds
<1>3. q * b \in Nat
  BY <1>2
<1> QED BY <1>2, <1>3 DEF RoundUp

LEMMA BucketIsPositive ==
    ASSUME NEW bucket \in Nat, NEW second \in Nat \ {0}
    PROVE  BucketSeconds(bucket, second) \in Nat \ {0}
<1>1. bucket \div second \in Nat
  BY DivBounds
<1> QED BY <1>1 DEF BucketSeconds

\* A token is not short-lived: rounding to buckets (cfsign.go:81) never takes
\* time from it, but for the part of a second that Unix leaves out.
THEOREM TokenLasts ==
    ASSUME NEW signer, NEW now \in Nat, NEW ttl \in Nat, NEW bucket \in Nat,
           NEW second \in Nat \ {0}
    PROVE  now + ttl < SignPrefixAt(signer, now, ttl, bucket, second).expires * second + second
<1> DEFINE t == Target(now, ttl, second)
           b == BucketSeconds(bucket, second)
           e == RoundUp(t, b)
<1>1. t \in Nat /\ now + ttl < t * second + second
  BY DivBounds, now + ttl \in Nat DEF Target
<1>2. b \in Nat \ {0}
  BY BucketIsPositive
<1>3. e \in Nat /\ t <= e
  <2> HIDE DEF t, b
  <2> QED BY <1>1, <1>2, RoundUpBounds
<1>4. t * second <= e * second
  <2> HIDE DEF t, e
  <2> QED BY <1>1, <1>3
<1>5. t * second \in Nat /\ e * second \in Nat
  <2> HIDE DEF t, e
  <2> QED BY <1>1, <1>3
<1>6. now + ttl < e * second + second
  <2> HIDE DEF t, e
  <2> QED BY <1>1, <1>4, <1>5
<1> QED BY <1>6 DEF SignPrefixAt

\* Nor does it outlive its time by a whole bucket, however often it is asked
\* for.
THEOREM TokenIsBounded ==
    ASSUME NEW signer, NEW now \in Nat, NEW ttl \in Nat, NEW bucket \in Nat,
           NEW second \in Nat \ {0}
    PROVE  SignPrefixAt(signer, now, ttl, bucket, second).expires
               < Target(now, ttl, second) + BucketSeconds(bucket, second)
<1> DEFINE t == Target(now, ttl, second)
           b == BucketSeconds(bucket, second)
<1>1. t \in Nat
  BY DivBounds, now + ttl \in Nat DEF Target
<1>2. b \in Nat \ {0}
  BY BucketIsPositive
<1>3. RoundUp(t, b) < t + b
  <2> HIDE DEF t, b
  <2> QED BY <1>1, <1>2, RoundUpBounds
<1> QED BY <1>3 DEF SignPrefixAt

\* The requests of one bucket get the same token, which is what the rounding
\* is for: the client's asset URLs stay the same.
THEOREM OneTokenPerBucket ==
    ASSUME NEW signer, NEW second \in Nat \ {0}, NEW ttl \in Nat, NEW bucket \in Nat,
           NEW now1 \in Nat, NEW now2 \in Nat, NEW k \in Nat,
           \A now \in {now1, now2} :
               /\ k * BucketSeconds(bucket, second) < Target(now, ttl, second)
               /\ Target(now, ttl, second) <= (k + 1) * BucketSeconds(bucket, second)
    PROVE  SignPrefixAt(signer, now1, ttl, bucket, second)
               = SignPrefixAt(signer, now2, ttl, bucket, second)
<1> DEFINE b == BucketSeconds(bucket, second)
<1>1. b \in Nat \ {0}
  BY BucketIsPositive
<1>2. ASSUME NEW now \in {now1, now2}
      PROVE  RoundUp(Target(now, ttl, second), b) = (k + 1) * b
  <2> DEFINE t == Target(now, ttl, second)
             q == (t + b - 1) \div b
  <2>1. t \in Nat
    BY DivBounds, now + ttl \in Nat DEF Target
  <2>2. k * b < t /\ t <= (k + 1) * b
    OBVIOUS
  <2> HIDE DEF t, b
  <2>3. t + b - 1 \in Nat
    BY <1>1, <2>1
  <2>4. q \in Nat /\ q * b <= t + b - 1 /\ t + b - 1 < q * b + b
    BY <1>1, <2>3, DivBounds
  <2> HIDE DEF q
  <2>5. q * b + b = (q + 1) * b /\ (k + 1) * b = k * b + b
    BY <1>1, <2>4
  <2>6. k * b + b < q * b + b + 1 /\ q * b < (k + 2) * b
    <3>1. (k + 2) * b = k * b + b + b
      BY <1>1
    <3>2. q * b \in Nat /\ k * b \in Nat
      BY <1>1, <2>4
    <3> QED BY <1>1, <2>1, <2>2, <2>4, <2>5, <3>1, <3>2
  <2>7. q < k + 2
    BY <1>1, <2>4, <2>6
  <2>8. k < q
    <3>1. k * b < q * b
      <4>1. q * b \in Nat /\ k * b \in Nat
        BY <1>1, <2>4
      <4> QED BY <1>1, <2>1, <2>2, <2>4, <4>1
    <3> QED BY <1>1, <2>4, <3>1
  <2>9. q = k + 1
    BY <2>4, <2>7, <2>8
  <2> QED BY <2>9 DEF RoundUp, q, t
<1> QED BY <1>2 DEF SignPrefixAt

-----------------------------------------------------------------------------
(***************************************************************************)
(* Access to the game.                                                     *)
(***************************************************************************)

USE UserOfAssumption, ProcAssumption, GameAssumption, ChangesAssumption, NoneAssumption

-----------------------------------------------------------------------------
(* Plans.                                                                  *)

LEMMA PlanSteps ==
    ASSUME NEW q \in Plan, q # <<>>
    PROVE  /\ Tail(q) \in Plan
           /\ Head(q) \in {"game", "tenant", "info"}
           /\ Len(q) = 1 <=> Tail(q) = <<>>
  <1>1. \A a : Tail(<<a>>) = <<>> /\ Head(<<a>>) = a /\ Len(<<a>>) = 1
    OBVIOUS
  <1>2. \A a, b : Tail(<<a, b>>) = <<b>> /\ Head(<<a, b>>) = a /\ Len(<<a, b>>) = 2
                 /\ <<b>> # <<>>
    OBVIOUS
  <1>3. \A a, b, c : Tail(<<a, b, c>>) = <<b, c>> /\ Head(<<a, b, c>>) = a /\ Len(<<a, b, c>>) = 3
                    /\ <<b, c>> # <<>>
    OBVIOUS
  <1>4. CASE q = <<"game">>
    BY <1>1, <1>4 DEF Plan
  <1>5. CASE q = <<"tenant">>
    BY <1>1, <1>5 DEF Plan
  <1>6. CASE q = <<"game", "tenant">>
    BY <1>2, <1>6 DEF Plan
  <1>7. CASE q = <<"tenant", "game">>
    BY <1>2, <1>7 DEF Plan
  <1>8. CASE q = <<"info", "tenant">>
    BY <1>2, <1>8 DEF Plan
  <1>9. CASE q = <<"info", "game", "tenant">>
    BY <1>3, <1>9 DEF Plan
  <1> QED BY <1>4, <1>5, <1>6, <1>7, <1>8, <1>9 DEF Plan

LEMMA SourceIsCheck == \A k : Source(k) \in Check
  BY DEF Source, Check

\* A check that is under way has something left to pass, and what was fetched
\* for it is the record it asks for.
PlansOK ==
    /\ \A p \in Proc : at[p] = "checking" => todo[p] # <<>>
    /\ \A p \in Proc : got[p] # None =>
          at[p] = "checking" /\ got[p] \in Value(Source(Head(todo[p])))
    /\ sub \in {"list", "close", "set"} => decision \in Decision

LEMMA TypeInit == Init => TypeOK /\ PlansOK
  <1> SUFFICES ASSUME Init PROVE TypeOK /\ PlansOK
    OBVIOUS
  <1>1. service \in [game : Game, tenant : Tenant] /\ changes \in 0..MaxChanges
    <2>1. [enabled : {TRUE}] \subseteq Tenant
      BY DEF Tenant
    <2>2. service \in [game : Game, tenant : [enabled : {TRUE}]]
      BY DEF Init
    <2>3. service = [game |-> service.game, tenant |-> service.tenant]
      BY <2>2
    <2>4. service.game \in Game /\ service.tenant \in Tenant
      BY <2>1, <2>2
    <2> QED BY <2>3, <2>4 DEF Init
  <1>2. /\ events \in [Check -> Seq(Game \cup Tenant)]
        /\ \A k \in Check : events[k] \in Seq(Value(k))
    BY DEF Init
  <1>3. /\ cache \in [Check -> Cached("game") \cup Cached("tenant") \cup {None}]
        /\ \A k \in Check : cache[k] \in Cached(k) \cup {None}
    BY DEF Init
  <1>4. /\ at \in [Proc -> {"idle", "checking", "passed", "open", "closed"}]
        /\ todo \in [Proc -> Plan]
        /\ got \in [Proc -> Game \cup Tenant \cup {None}]
    BY DEF Init, Plan
  <1>5. /\ sub \in {"idle", "clear", "list", "close", "set"}
        /\ decision \in Decision \cup {None}
        /\ kickList \subseteq Conn /\ unseen \subseteq Conn
    BY DEF Init
  <1>6. PlansOK
    BY DEF Init, PlansOK
  <1> QED BY <1>1, <1>2, <1>3, <1>4, <1>5, <1>6 DEF TypeOK

\* An answer to a check moves one client on in its plan.
LEMMA DecideType ==
    ASSUME TypeOK, NEW p \in Proc, at[p] = "checking", todo[p] # <<>>, NEW v, Decide(p, v)
    PROVE  /\ at' \in [Proc -> {"idle", "checking", "passed", "open", "closed"}]
           /\ todo' \in [Proc -> Plan]
           /\ \A q \in Proc \ {p} : at'[q] = at[q] /\ todo'[q] = todo[q]
           /\ at'[p] = "checking" => todo'[p] # <<>>
  <1>1. /\ todo[p] \in Plan /\ todo \in [Proc -> Plan]
        /\ at \in [Proc -> {"idle", "checking", "passed", "open", "closed"}]
    BY DEF TypeOK
  <1>2. Tail(todo[p]) \in Plan /\ (Len(todo[p]) = 1 <=> Tail(todo[p]) = <<>>)
    BY <1>1, PlanSteps
  <1>3. <<>> \in Plan
    BY DEF Plan
  <1>4. /\ at' \in [Proc -> {"idle", "checking", "passed", "open", "closed"}]
        /\ \A q \in Proc \ {p} : at'[q] = at[q]
        /\ at'[p] = "checking" => Permits(Head(todo[p]), v, UserOf[p]) /\ Len(todo[p]) # 1
    BY <1>1 DEF Decide
  <1>5. todo' = [todo EXCEPT ![p] = IF Permits(Head(todo[p]), v, UserOf[p])
                                    THEN Tail(todo[p]) ELSE <<>>]
    BY DEF Decide
  <1> QED BY <1>1, <1>2, <1>3, <1>4, <1>5

\* The records of the services and the events that tell of them.
LEMMA RemoteStep ==
    ASSUME TypeOK, NEW k \in Check, Change(k) \/ Lose(k)
    PROVE  /\ service' \in [game : Game, tenant : Tenant] /\ changes' \in 0..MaxChanges
           /\ events' \in [Check -> Seq(Game \cup Tenant)]
           /\ \A j \in Check : events'[j] \in Seq(Value(j))
  <1>0. k = "game" \/ k = "tenant"
    BY DEF Check
  <1>1. Value(k) \subseteq Game \cup Tenant
    BY DEF Value
  <1>2. CASE Change(k)
    <2>1. PICK v \in Value(k) \ {service[k]} :
              /\ changes < MaxChanges /\ changes' = changes + 1
              /\ service' = [service EXCEPT ![k] = v]
              /\ events' = [events EXCEPT ![k] = Append(@, v)]
      BY <1>2 DEF Change
    <2>2. service' \in [game : Game, tenant : Tenant]
      BY <1>0, <2>1 DEF TypeOK, Value
    <2>3. Append(events[k], v) \in Seq(Value(k)) /\ Append(events[k], v) \in Seq(Game \cup Tenant)
      BY <1>1, <2>1 DEF TypeOK
    <2>4. changes' \in 0..MaxChanges
      BY <2>1 DEF TypeOK
    <2> QED BY <2>1, <2>2, <2>3, <2>4 DEF TypeOK
  <1>3. CASE Lose(k)
    <2>1. Tail(events[k]) \in Seq(Value(k)) /\ Tail(events[k]) \in Seq(Game \cup Tenant)
      BY <1>3 DEF Lose, TypeOK
    <2> QED BY <1>3, <2>1 DEF Lose, TypeOK, remote
  <1> QED BY <1>2, <1>3

CacheOK ==
    /\ cache \in [Check -> Cached("game") \cup Cached("tenant") \cup {None}]
    /\ \A k \in Check : cache[k] \in Cached(k) \cup {None}

\* Each map holds records of its own service only.
LEMMA CacheSet ==
    ASSUME CacheOK, NEW k \in Check, NEW v \in Cached(k) \cup {None},
           cache' = [cache EXCEPT ![k] = v]
    PROVE  CacheOK'
  <1>1. k = "game" \/ k = "tenant"
    BY DEF Check
  <1> QED BY <1>1 DEF CacheOK

\* The clients' steps, the subscriber's and those of the services.
LEMMA ClientStep ==
    ASSUME TypeOK, PlansOK, NEW p \in Proc, Get(p)
    PROVE  TypeOK' /\ PlansOK'
  <1> DEFINE k == Source(Head(todo[p]))
  <1>0. /\ k \in Check /\ at[p] = "checking" /\ todo[p] # <<>>
        /\ CacheOK
    BY SourceIsCheck DEF PlansOK, Get, CacheHit, Fetch, FetchFails, Fill, TypeOK, CacheOK
  <1>1. CASE CacheHit(p)
    <2>1. Decide(p, cache[k].value) /\ got[p] = None /\ got' = got
      BY <1>1 DEF CacheHit
    <2>2. /\ at' \in [Proc -> {"idle", "checking", "passed", "open", "closed"}]
          /\ todo' \in [Proc -> Plan]
          /\ \A q \in Proc \ {p} : at'[q] = at[q] /\ todo'[q] = todo[q]
          /\ at'[p] = "checking" => todo'[p] # <<>>
      BY <1>0, <2>1, DecideType
    <2>3. TypeOK'
      BY <1>1, <2>2 DEF CacheHit, TypeOK, remote, subscriber
    <2>4. PlansOK'
      BY <1>1, <2>1, <2>2 DEF CacheHit, PlansOK, subscriber
    <2> QED BY <2>3, <2>4
  <1>2. CASE Fetch(p)
    <2>1. service[k] \in Value(k) /\ Value(k) \subseteq Game \cup Tenant
      BY <1>0 DEF TypeOK, Check, Value
    <2>2. got' = [got EXCEPT ![p] = service[k]] /\ UNCHANGED <<at, todo, sub, decision>>
      BY <1>2 DEF Fetch, subscriber
    <2>3. TypeOK'
      BY <1>2, <2>1, <2>2 DEF Fetch, TypeOK, remote, subscriber
    <2>4. PlansOK'
      BY <1>0, <2>1, <2>2 DEF PlansOK, TypeOK
    <2> QED BY <2>3, <2>4
  <1>3. CASE FetchFails(p)
    <2>1. <<>> \in Plan /\ got[p] = None
      BY <1>3 DEF Plan, FetchFails
    <2>2. TypeOK'
      BY <1>3, <2>1 DEF FetchFails, TypeOK, remote, subscriber
    <2>3. PlansOK'
      BY <1>3, <2>1 DEF FetchFails, PlansOK, TypeOK, subscriber
    <2> QED BY <2>2, <2>3
  <1>4. CASE Fill(p)
    <2>1. /\ cache' = [cache EXCEPT ![k] = [value |-> got[p], fresh |-> TRUE]]
          /\ Decide(p, got[p]) /\ got' = [got EXCEPT ![p] = None]
          /\ UNCHANGED <<remote, events, subscriber>>
          /\ unseen' = IF k = "game" THEN unseen \cup Refused(got[p], Admitted) ELSE unseen
      BY <1>4 DEF Fill
    <2>2. [value |-> got[p], fresh |-> TRUE] \in Cached(k) \cup {None}
      BY <1>4 DEF Fill, PlansOK, Cached
    <2>3. CacheOK'
      BY <1>0, <2>1, <2>2, CacheSet
    <2>4. /\ at' \in [Proc -> {"idle", "checking", "passed", "open", "closed"}]
          /\ todo' \in [Proc -> Plan]
          /\ \A q \in Proc \ {p} : at'[q] = at[q] /\ todo'[q] = todo[q]
          /\ at'[p] = "checking" => todo'[p] # <<>>
      BY <1>0, <2>1, DecideType
    <2>5. /\ got' \in [Proc -> Game \cup Tenant \cup {None}]
          /\ \A q \in Proc : got'[q] # None => q # p /\ got'[q] = got[q]
      BY <2>1 DEF TypeOK
    <2>6. unseen' \subseteq Conn
      BY <2>1 DEF TypeOK, Refused, Admitted
    <2>7. TypeOK'
      BY <2>1, <2>3, <2>4, <2>5, <2>6 DEF TypeOK, CacheOK, remote, subscriber
    <2>8. PlansOK'
      BY <2>1, <2>4, <2>5 DEF PlansOK, subscriber
    <2> QED BY <2>7, <2>8
  <1> QED BY <1>1, <1>2, <1>3, <1>4 DEF Get

LEMMA SubscriberStep ==
    ASSUME TypeOK, PlansOK, HandleTenantEvent \/ Subscriber
    PROVE  TypeOK' /\ PlansOK'
  <1>0. "game" \in Check /\ "tenant" \in Check /\ CacheOK
    BY DEF Check, TypeOK, CacheOK
  <1>1. CASE HandleTenantEvent
    <2>1. CacheOK'
      BY <1>0, <1>1, CacheSet DEF HandleTenantEvent
    <2>2. /\ events' \in [Check -> Seq(Game \cup Tenant)]
          /\ \A k \in Check : events'[k] \in Seq(Value(k))
      <3>1. Tail(events["tenant"]) \in Seq(Value("tenant")) /\ Tail(events["tenant"]) \in Seq(Game \cup Tenant)
        BY <1>0, <1>1 DEF HandleTenantEvent, TypeOK
      <3> QED BY <1>0, <1>1, <3>1 DEF HandleTenantEvent, TypeOK
    <2>3. TypeOK'
      BY <1>1, <2>1, <2>2 DEF HandleTenantEvent, TypeOK, CacheOK, remote, subscriber, clients
    <2>4. PlansOK'
      BY <1>1 DEF HandleTenantEvent, PlansOK, subscriber, clients
    <2> QED BY <2>3, <2>4
  <1>2. CASE HandleGameEvent
    <2>1. /\ events' \in [Check -> Seq(Game \cup Tenant)]
          /\ \A k \in Check : events'[k] \in Seq(Value(k))
      <3>1. Tail(events["game"]) \in Seq(Value("game")) /\ Tail(events["game"]) \in Seq(Game \cup Tenant)
        BY <1>0, <1>2 DEF HandleGameEvent, TypeOK
      <3> QED BY <1>0, <1>2, <3>1 DEF HandleGameEvent, TypeOK
    <2>2. \/ sub' = "clear" /\ UNCHANGED decision
          \/ sub' \in {"list", "set"} /\ decision' \in Decision
      <3>1. Head(events["game"]) \in Game
        BY <1>0, <1>2 DEF HandleGameEvent, TypeOK, Value
      <3>2. Kicks(cache["game"].value, Head(events["game"])) \in BOOLEAN
        BY DEF Kicks
      <3> QED BY <1>2, <3>1, <3>2 DEF HandleGameEvent, Decision
    <2>3. TypeOK'
      BY <1>2, <2>1, <2>2 DEF HandleGameEvent, TypeOK, remote, clients
    <2>4. PlansOK'
      BY <1>2, <2>2 DEF HandleGameEvent, PlansOK, clients
    <2> QED BY <2>3, <2>4
  <1>3. CASE ClearGame
    <2>1. CacheOK'
      BY <1>0, <1>3, CacheSet DEF ClearGame
    <2> QED BY <1>3, <2>1 DEF ClearGame, TypeOK, CacheOK, PlansOK, remote, clients
  <1>4. CASE ListByTenant
    BY <1>4 DEF ListByTenant, TypeOK, PlansOK, remote, clients
  <1>5. ASSUME NEW c \in Conn, CloseListed(c)
        PROVE  TypeOK' /\ PlansOK'
    <2>1. c \in Proc
      BY DEF Proc
    <2>2. TypeOK'
      BY <1>5, <2>1 DEF CloseListed, TypeOK, remote, subscriber
    <2>3. PlansOK'
      BY <1>5, <2>1 DEF CloseListed, TypeOK, PlansOK, subscriber
    <2> QED BY <2>2, <2>3
  <1>6. CASE SetGame
    <2>1. decision \in Decision
      BY <1>6 DEF SetGame, PlansOK
    <2>2. [value |-> decision.updated, fresh |-> TRUE] \in Cached("game") \cup {None}
      BY <2>1 DEF Decision, Cached, Value
    <2>3. CacheOK'
      BY <1>0, <1>6, <2>2, CacheSet DEF SetGame
    <2>4. unseen' \subseteq Conn
      BY <1>6 DEF SetGame, TypeOK, Refused, Admitted
    <2>5. TypeOK'
      BY <1>6, <2>3, <2>4 DEF SetGame, TypeOK, CacheOK, remote, clients
    <2>6. PlansOK'
      BY <1>6 DEF SetGame, PlansOK, clients
    <2> QED BY <2>5, <2>6
  <1> QED BY <1>1, <1>2, <1>3, <1>4, <1>5, <1>6 DEF Subscriber

LEMMA TypeStep ==
    ASSUME TypeOK, PlansOK, [Next]_vars
    PROVE  TypeOK' /\ PlansOK'
  <1>1. ASSUME NEW k \in Check, Change(k) \/ Lose(k)
        PROVE  TypeOK' /\ PlansOK'
    <2>1. /\ service' \in [game : Game, tenant : Tenant] /\ changes' \in 0..MaxChanges
          /\ events' \in [Check -> Seq(Game \cup Tenant)]
          /\ \A j \in Check : events'[j] \in Seq(Value(j))
      BY <1>1, RemoteStep
    <2> QED BY <1>1, <2>1 DEF Change, Lose, TypeOK, PlansOK, remote, subscriber, clients
  <1>2. ASSUME NEW k \in Check, Expire(k)
        PROVE  TypeOK' /\ PlansOK'
    <2>1. CacheOK /\ cache[k] \in Cached(k)
      BY <1>2 DEF Expire, TypeOK, CacheOK
    <2>2. [cache[k] EXCEPT !.fresh = FALSE] \in Cached(k) \cup {None}
      BY <2>1 DEF Cached
    <2>3. cache' = [cache EXCEPT ![k] = [cache[k] EXCEPT !.fresh = FALSE]]
      BY <1>2 DEF Expire
    <2>4. CacheOK'
      BY <2>1, <2>2, <2>3, CacheSet
    <2> QED BY <1>2, <2>4 DEF Expire, TypeOK, CacheOK, PlansOK, remote, subscriber, clients
  <1>3. CASE HandleTenantEvent \/ Subscriber
    BY <1>3, SubscriberStep
  <1>4. ASSUME NEW p \in Proc, Get(p)
        PROVE  TypeOK' /\ PlansOK'
    BY <1>4, ClientStep
  <1>5. ASSUME NEW c \in Conn, Connect(c) \/ Register(c) \/ Leave(c)
        PROVE  TypeOK' /\ PlansOK'
    <2>1. c \in Proc /\ <<"tenant", "game">> \in Plan /\ <<"tenant", "game">> # <<>>
      BY DEF Proc, Plan
    <2>2. TypeOK'
      <3>1. CASE Connect(c)
        <4>1. /\ at' \in [Proc -> {"idle", "checking", "passed", "open", "closed"}]
              /\ unseen' \subseteq Conn
          BY <2>1, <3>1 DEF Connect, TypeOK
        <4>2. todo' \in [Proc -> Plan]
          BY <2>1, <3>1 DEF Connect, TypeOK
        <4> QED BY <3>1, <4>1, <4>2 DEF Connect, TypeOK, remote, subscriber
      <3>2. CASE Register(c) \/ Leave(c)
        BY <2>1, <3>2 DEF Register, Leave, TypeOK, remote, subscriber
      <3> QED BY <1>5, <3>1, <3>2
    <2>3. PlansOK'
      BY <1>5, <2>1 DEF Connect, Register, Leave, TypeOK, PlansOK, subscriber
    <2> QED BY <2>2, <2>3
  <1>6. ASSUME NEW r \in Request, Spin(r) \/ Authorize(r) \/ HandleSpin(r) \/ HandleAuthorize(r)
        PROVE  TypeOK' /\ PlansOK'
    <2>1. r \in Proc
      BY DEF Proc
    <2>2. PICK plan \in Plan : plan # <<>> /\ Ask(r, plan)
      <3>1. /\ {<<"game", "tenant">>, <<"info", "game", "tenant">>, <<"tenant">>,
                <<"info", "tenant">>} \subseteq Plan \ {<<>>}
        BY DEF Plan
      <3> QED BY <1>6, <3>1 DEF Spin, Authorize, HandleSpin, HandleAuthorize
    <2>3. TypeOK'
      BY <2>1, <2>2 DEF Ask, TypeOK, remote, subscriber
    <2>4. PlansOK'
      BY <2>1, <2>2 DEF Ask, TypeOK, PlansOK, subscriber
    <2> QED BY <2>3, <2>4
  <1>7. ASSUME NEW r \in Request, Answer(r)
        PROVE  TypeOK' /\ PlansOK'
    <2>1. r \in Proc
      BY DEF Proc
    <2>2. TypeOK'
      BY <1>7, <2>1 DEF Answer, TypeOK, remote, subscriber
    <2>3. PlansOK'
      BY <1>7, <2>1 DEF Answer, TypeOK, PlansOK, subscriber
    <2> QED BY <2>2, <2>3
  <1>8. CASE UNCHANGED vars
    BY <1>8 DEF vars, TypeOK, PlansOK, remote, subscriber, clients
  <1> QED BY <1>1, <1>2, <1>3, <1>4, <1>5, <1>6, <1>7, <1>8 DEF Next

\* A map holds records of its own service only, and what a request fetched
\* is put where it belongs.
THEOREM TypeCorrect == Spec => []TypeOK
  BY TypeInit, TypeStep, PTL DEF Spec

-----------------------------------------------------------------------------
(* Kicks.                                                                  *)

\* An event that kicks nobody takes no permission from who had it.
LEMMA KicksWhenRevoked ==
    ASSUME NEW old \in Game, NEW new \in Game, NEW u,
           ~Kicks(old, new), Permits("game", old, u)
    PROVE  Permits("game", new, u)
  <1>1. old \in GameRecord /\ new \in GameRecord
    OBVIOUS
  <1>2. /\ old.active \in BOOLEAN /\ new.active \in BOOLEAN
        /\ old.limit \in BOOLEAN /\ new.limit \in BOOLEAN
    BY <1>1 DEF GameRecord
  <1>3. old.active /\ (old.limit => u \in old.whitelist)
    BY DEF Permits, AllowUsername
  <1>4. new.active
    BY <1>2, <1>3 DEF Kicks
  <1>5. new.limit => old.limit /\ old.whitelist \subseteq new.whitelist
    BY <1>2 DEF Kicks, IsWhitelistUpdated
  <1> QED BY <1>3, <1>4, <1>5 DEF Permits, AllowUsername

\* Inductive: the kick list holds connections that have not been replaced; a
\* connection that has passed its checks was permitted by the cached record,
\* unless it was noted as unseen; and so was, when an event that kicks nobody
\* is about to be cached, who was connected when it came.
KickOK ==
    /\ \A c \in Conn : at[c] = "checking" => todo[c] \in {<<"tenant", "game">>, <<"game">>}
    /\ sub # "idle" => \A c \in kickList : at[c] \in {"open", "closed"}
    /\ sub = "idle" /\ cache["game"] # None => Refused(cache["game"].value, Admitted) \subseteq unseen
    /\ sub = "set" => Refused(decision.updated, kickList \cap Admitted) \subseteq unseen

LEMMA KickInit == Init => KickOK
  BY DEF Init, KickOK, Refused, Admitted, Proc

\* A connection whose last check is passed is permitted by what was checked.
LEMMA LastCheck ==
    ASSUME TypeOK, KickOK, NEW c \in Conn, at[c] = "checking", NEW v, Decide(c, v)
    PROVE  /\ at'[c] \in {"idle", "checking", "passed"}
           /\ at'[c] = "passed" => Head(todo[c]) = "game" /\ Permits("game", v, UserOf[c])
           /\ at'[c] = "checking" => todo'[c] \in {<<"tenant", "game">>, <<"game">>}
  <1>0. c \in Proc
    BY DEF Proc
  <1>1. \A a : Head(<<a>>) = a /\ Len(<<a>>) = 1
    OBVIOUS
  <1>2. \A a, b : Tail(<<a, b>>) = <<b>> /\ Len(<<a, b>>) = 2
    OBVIOUS
  <1>3. /\ at'[c] = IF ~Permits(Head(todo[c]), v, UserOf[c]) THEN "idle"
                    ELSE IF Len(todo[c]) = 1 THEN "passed" ELSE "checking"
        /\ todo'[c] = IF Permits(Head(todo[c]), v, UserOf[c]) THEN Tail(todo[c]) ELSE <<>>
    BY <1>0 DEF Decide, TypeOK
  <1>4. CASE todo[c] = <<"game">>
    <2>1. Head(todo[c]) = "game" /\ Len(todo[c]) = 1
      BY <1>1, <1>4
    <2> QED BY <1>3, <2>1
  <1>5. CASE todo[c] = <<"tenant", "game">>
    <2>1. Tail(todo[c]) = <<"game">> /\ Len(todo[c]) = 2
      BY <1>2, <1>5
    <2> QED BY <1>3, <2>1
  <1> QED BY <1>4, <1>5 DEF KickOK

LEMMA KickGet ==
    ASSUME TypeOK, PlansOK, KickOK, NEW p \in Proc, Get(p)
    PROVE  KickOK'
  <1>0. /\ at[p] = "checking" /\ todo[p] # <<>>
        /\ UNCHANGED <<sub, decision, kickList>> /\ unseen \subseteq unseen'
    BY DEF PlansOK, Get, CacheHit, Fetch, FetchFails, Fill, subscriber
  <1>1. \A q \in Proc \ {p} : at'[q] = at[q] /\ todo'[q] = todo[q]
    <2>1. CASE CacheHit(p) \/ Fill(p)
      <3>1. PICK v : Decide(p, v)
        BY <2>1 DEF CacheHit, Fill
      <3> QED BY <1>0, <3>1, DecideType
    <2>2. CASE Fetch(p) \/ FetchFails(p)
      BY <2>2 DEF Fetch, FetchFails, TypeOK
    <2> QED BY <2>1, <2>2 DEF Get
  <1>2. ASSUME p \in Conn
        PROVE  /\ at'[p] \in {"idle", "checking", "passed"}
               /\ at'[p] = "passed" =>
                     /\ cache'["game"] # None /\ Permits("game", cache'["game"].value, UserOf[p])
               /\ at'[p] = "checking" => todo'[p] \in {<<"tenant", "game">>, <<"game">>}
    <2>1. CASE CacheHit(p)
      <3>1. /\ Decide(p, cache[Source(Head(todo[p]))].value) /\ cache' = cache
            /\ cache[Source(Head(todo[p]))] # None
        BY <2>1 DEF CacheHit, Hit
      <3>2. Source("game") = "game"
        BY DEF Source
      <3> QED BY <1>0, <1>2, <3>1, <3>2, LastCheck
    <2>2. CASE Fetch(p) \/ FetchFails(p)
      BY <1>0, <1>2, <2>2 DEF Fetch, FetchFails, TypeOK, KickOK
    <2>3. CASE Fill(p)
      <3> DEFINE k == Source(Head(todo[p]))
      <3>1. Decide(p, got[p]) /\ cache' = [cache EXCEPT ![k] = [value |-> got[p], fresh |-> TRUE]]
        BY <2>3 DEF Fill
      <3>2. Head(todo[p]) = "game" =>
               cache'["game"] = [value |-> got[p], fresh |-> TRUE]
        BY <3>1 DEF TypeOK, Source, Check
      <3>3. at'[p] = "passed" => Head(todo[p]) = "game" /\ Permits("game", got[p], UserOf[p])
        BY <1>0, <1>2, <3>1, LastCheck
      <3>4. Head(todo[p]) = "game" => [value |-> got[p], fresh |-> TRUE] # None
        <4>1. got[p] \in Value(Source(Head(todo[p])))
          BY <2>3 DEF Fill, PlansOK
        <4>2. Source("game") = "game"
          BY DEF Source
        <4>3. \A v \in Value("game") : [value |-> v, fresh |-> TRUE] \in Cached("game")
          BY DEF Cached
        <4> QED BY <4>1, <4>2, <4>3
      <3> QED BY <1>0, <1>2, <3>1, <3>2, <3>3, <3>4, LastCheck
    <2> QED BY <2>1, <2>2, <2>3 DEF Get
  <1>3. \/ cache'["game"] = cache["game"]
        \/ cache'["game"].value = got[p] /\ Refused(got[p], Admitted) \subseteq unseen'
    BY DEF Get, CacheHit, Fetch, FetchFails, Fill, TypeOK, Check, Source
  <1>4. sub # "idle" => p \notin kickList
    BY <1>0 DEF KickOK
  <1>5. sub = "idle" /\ cache'["game"] # None =>
            Refused(cache'["game"].value, Admitted') \subseteq unseen'
    <2> SUFFICES ASSUME sub = "idle", cache'["game"] # None, NEW c \in Conn, c \in Admitted',
                        ~Permits("game", cache'["game"].value, UserOf[c])
                 PROVE  c \in unseen'
      BY DEF Refused, Admitted
    <2>1. c # p
      BY <1>2 DEF Admitted
    <2>2. c \in Admitted
      BY <1>1, <2>1 DEF Admitted, Proc
    <2> QED BY <1>0, <1>3, <2>2 DEF Refused, KickOK
  <1>6. sub = "set" => Refused(decision.updated, kickList \cap Admitted') \subseteq unseen'
    BY <1>0, <1>1, <1>4 DEF KickOK, Refused, Admitted, Proc
  <1>7. \A c \in Conn : at'[c] = "checking" => todo'[c] \in {<<"tenant", "game">>, <<"game">>}
    BY <1>1, <1>2 DEF KickOK, Proc
  <1>8. sub # "idle" => \A c \in kickList : at'[c] \in {"open", "closed"}
    BY <1>1, <1>4 DEF KickOK, TypeOK, Proc
  <1> QED BY <1>0, <1>5, <1>6, <1>7, <1>8 DEF KickOK, Refused

LEMMA KickSubscriber ==
    ASSUME TypeOK, PlansOK, KickOK, Subscriber
    PROVE  KickOK'
  <1>1. CASE HandleGameEvent
    <2>1. /\ UNCHANGED <<cache, at, todo, unseen>> /\ sub' # "idle" /\ sub = "idle"
          /\ kickList' = {c \in Conn : at[c] = "open"}
      BY <1>1 DEF HandleGameEvent, clients
    <2>2. sub' = "set" => Refused(decision'.updated, kickList' \cap Admitted) \subseteq unseen
      <3> SUFFICES ASSUME sub' = "set"
                   PROVE  Refused(decision'.updated, kickList' \cap Admitted) \subseteq unseen
        OBVIOUS
      <3> DEFINE old == cache["game"].value
                 new == Head(events["game"])
      <3>1. /\ cache["game"] # None /\ ~Kicks(old, new)
            /\ decision'.updated = new
        BY <1>1 DEF HandleGameEvent
      <3>2. old \in Game /\ new \in Game
        <4>1. "game" \in Check
          BY DEF Check
        <4>2. cache["game"] \in Cached("game")
          BY <3>1, <4>1 DEF TypeOK
        <4>3. events["game"] \in Seq(Game) /\ events["game"] # <<>>
          BY <1>1, <4>1 DEF TypeOK, HandleGameEvent, Value
        <4> QED BY <4>2, <4>3 DEF Cached, Value
      <3>3. Refused(old, Admitted) \subseteq unseen
        BY <2>1, <3>1 DEF KickOK
      <3> HIDE DEF old, new
      <3> QED BY <2>1, <3>1, <3>2, <3>3, KicksWhenRevoked DEF Refused, Admitted
    <2> QED BY <2>1, <2>2 DEF KickOK, Admitted, Refused
  <1>2. CASE ClearGame
    <2>1. /\ UNCHANGED <<at, todo, unseen>> /\ sub' = "idle" /\ cache'["game"] = None
      BY <1>2 DEF ClearGame, clients, TypeOK, Check
    <2> QED BY <2>1 DEF KickOK
  <1>3. CASE ListByTenant
    BY <1>3 DEF ListByTenant, KickOK, clients
  <1>4. ASSUME NEW c \in Conn, CloseListed(c)
        PROVE  KickOK'
    BY <1>4 DEF CloseListed, KickOK, TypeOK, Proc, subscriber
  <1>5. CASE SetGame
    <2>1. /\ UNCHANGED <<at, todo>> /\ sub' = "idle" /\ sub \in {"set", "close"}
          /\ unseen' = unseen \cup Refused(decision.updated, Admitted \ kickList)
          /\ cache'["game"].value = decision.updated
      BY <1>5 DEF SetGame, clients, TypeOK, Check
    <2>2. Refused(decision.updated, kickList \cap Admitted) \subseteq unseen
      <3>1. CASE sub = "set"
        BY <3>1 DEF KickOK
      <3>2. CASE sub = "close"
        <4>1. kickList \cap Admitted = {}
          BY <1>5, <3>2 DEF SetGame, KickOK, Admitted
        <4> QED BY <4>1 DEF Refused
      <3> QED BY <2>1, <3>1, <3>2
    <2>3. Refused(decision.updated, Admitted) \subseteq unseen'
      BY <2>1, <2>2 DEF Refused, Admitted
    <2> QED BY <2>1, <2>3 DEF KickOK, Admitted, Refused
  <1> QED BY <1>1, <1>2, <1>3, <1>4, <1>5 DEF Subscriber

\* What KickOK says of records, when none changes.
LEMMA KickFrame ==
    ASSUME KickOK, UNCHANGED <<sub, decision, kickList>>, cache'["game"] = cache["game"],
           NEW S, Admitted' \subseteq Admitted \ S, unseen \ S \subseteq unseen'
    PROVE  /\ sub' = "idle" /\ cache'["game"] # None =>
                 Refused(cache'["game"].value, Admitted') \subseteq unseen'
           /\ sub' = "set" => Refused(decision'.updated, kickList' \cap Admitted') \subseteq unseen'
  BY DEF KickOK, Refused

LEMMA KickStep ==
    ASSUME TypeOK, PlansOK, KickOK, [Next]_vars
    PROVE  KickOK'
  <1>1. CASE Subscriber
    BY <1>1, KickSubscriber
  <1>2. ASSUME NEW p \in Proc, Get(p)
        PROVE  KickOK'
    BY <1>2, KickGet
  <1>3. ASSUME NEW k \in Check, Change(k) \/ Lose(k)
        PROVE  KickOK'
    BY <1>3 DEF Change, Lose, KickOK, Refused, Admitted, subscriber, clients
  <1>4. ASSUME NEW k \in Check, Expire(k)
        PROVE  KickOK'
    <2>1. /\ UNCHANGED <<sub, decision, kickList, at, todo, unseen>>
          /\ cache'["game"] # None => cache["game"] # None /\ cache'["game"].value = cache["game"].value
      <3>1. cache' = [cache EXCEPT ![k] = [cache[k] EXCEPT !.fresh = FALSE]] /\ cache[k] # None
        BY <1>4 DEF Expire
      <3>2. cache[k] \in Cached(k)
        BY <3>1 DEF TypeOK
      <3>3. [cache[k] EXCEPT !.fresh = FALSE].value = cache[k].value
        BY <3>2 DEF Cached
      <3> QED BY <1>4, <3>1, <3>3 DEF Expire, TypeOK, Check, subscriber, clients
    <2> QED BY <2>1 DEF KickOK, Refused, Admitted
  <1>5. CASE HandleTenantEvent
    <2>1. cache'["game"] = cache["game"]
      BY <1>5 DEF HandleTenantEvent, TypeOK, Check
    <2> QED BY <1>5, <2>1 DEF HandleTenantEvent, KickOK, Refused, Admitted, subscriber, clients
  <1>6. ASSUME NEW c \in Conn, Connect(c)
        PROVE  KickOK'
    <2>1. /\ at'[c] = "checking" /\ todo'[c] = <<"tenant", "game">> /\ c \notin kickList
          /\ \A d \in Conn \ {c} : at'[d] = at[d] /\ todo'[d] = todo[d]
      BY <1>6 DEF Connect, TypeOK, Proc
    <2>2. Admitted' \subseteq Admitted \ {c}
      BY <2>1 DEF Admitted
    <2>3. unseen' = unseen \ {c} /\ UNCHANGED <<cache, subscriber>>
      BY <1>6 DEF Connect
    <2>4. UNCHANGED <<sub, decision, kickList>> /\ cache'["game"] = cache["game"]
      BY <2>3 DEF subscriber
    <2>5. unseen \ {c} \subseteq unseen'
      BY <2>3
    <2>6. /\ sub' = "idle" /\ cache'["game"] # None =>
                 Refused(cache'["game"].value, Admitted') \subseteq unseen'
          /\ sub' = "set" => Refused(decision'.updated, kickList' \cap Admitted') \subseteq unseen'
      BY <2>2, <2>4, <2>5, KickFrame
    <2>7. /\ \A d \in Conn : at'[d] = "checking" => todo'[d] \in {<<"tenant", "game">>, <<"game">>}
          /\ sub' # "idle" => \A d \in kickList' : at'[d] \in {"open", "closed"}
      BY <2>1, <2>4 DEF KickOK, TypeOK
    <2> QED BY <2>6, <2>7 DEF KickOK, Refused
  <1>7. ASSUME NEW c \in Conn, Register(c) \/ Leave(c)
        PROVE  KickOK'
    BY <1>7 DEF Register, Leave, KickOK, TypeOK, Refused, Admitted, Proc, subscriber
  <1>8. ASSUME NEW r \in Request,
               \/ Spin(r) \/ Authorize(r) \/ HandleSpin(r) \/ HandleAuthorize(r) \/ Answer(r)
        PROVE  KickOK'
    <2>1. \A c \in Conn : at'[c] = at[c] /\ todo'[c] = todo[c]
      BY <1>8 DEF Spin, Authorize, HandleSpin, HandleAuthorize, Ask, Answer, TypeOK, Proc
    <2>2. UNCHANGED <<cache, subscriber, unseen>>
      BY <1>8 DEF Spin, Authorize, HandleSpin, HandleAuthorize, Ask, Answer
    <2>3. Admitted' = Admitted
      BY <2>1 DEF Admitted
    <2>4. UNCHANGED <<sub, decision, kickList>> /\ cache'["game"] = cache["game"]
      BY <2>2 DEF subscriber
    <2>5. /\ sub' = "idle" /\ cache'["game"] # None =>
                 Refused(cache'["game"].value, Admitted') \subseteq unseen'
          /\ sub' = "set" => Refused(decision'.updated, kickList' \cap Admitted') \subseteq unseen'
      <3>1. Admitted' \subseteq Admitted \ {} /\ unseen \ {} \subseteq unseen'
        BY <2>2, <2>3
      <3> QED BY <2>4, <3>1, KickFrame
    <2>6. /\ \A d \in Conn : at'[d] = "checking" => todo'[d] \in {<<"tenant", "game">>, <<"game">>}
          /\ sub' # "idle" => \A d \in kickList' : at'[d] \in {"open", "closed"}
      BY <2>1, <2>4 DEF KickOK, TypeOK
    <2> QED BY <2>5, <2>6 DEF KickOK, Refused
  <1>9. CASE UNCHANGED vars
    BY <1>9 DEF vars, KickOK, Refused, Admitted, subscriber, clients
  <1> QED BY <1>1, <1>2, <1>3, <1>4, <1>5, <1>6, <1>7, <1>8, <1>9 DEF Next

\* "Kick all tenant players" (game_provider.go): whenever the game's cached
\* record does not permit the player of an open connection and no event is
\* being handled, no kick could have reached that connection.
THEOREM RevokedKicked == Spec => []RevokedIsKicked
  <1>1. KickOK => RevokedIsKicked
    BY DEF KickOK, RevokedIsKicked, Refused, Admitted
  <1>2. TypeOK /\ PlansOK /\ KickOK /\ [Next]_vars => TypeOK' /\ PlansOK' /\ KickOK'
    BY TypeStep, KickStep
  <1> QED BY TypeInit, KickInit, <1>1, <1>2, PTL DEF Spec
=============================================================================

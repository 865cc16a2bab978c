---------------------------- MODULE GameAccess ----------------------------
(***************************************************************************)
(* Who may play: the cached records of a tenant and of its game            *)
(* (provider/tenant_provider.go, provider/game_provider.go over            *)
(* pkg/cache/map.go), the events that tell of their changes, the checks of *)
(* the HTTP handlers and of the websocket handler, and the kick of the     *)
(* tenant's connections when the game is disabled. One process, one game   *)
(* and one tenant that the static lists of the configuration let through.  *)
(***************************************************************************)
EXTENDS Naturals, Sequences

CONSTANTS
    User,       \* usernames
    Conn,       \* websocket clients
    Request,    \* requests to play, over HTTP or on a connection
    UserOf,     \* who opens a connection or makes a request
    Game,       \* the records of the game the service may hold
    MaxChanges, \* bound: changes of the services' records
    None        \* nothing cached, nothing fetched, no decision

Proc == Conn \cup Request
Check == {"game", "tenant"}
GameRecord == [active : BOOLEAN, limit : BOOLEAN, whitelist : SUBSET User]

ASSUME UserOfAssumption == UserOf \in [Proc -> User]
ASSUME ProcAssumption == Conn \cap Request = {}
ASSUME GameAssumption == Game \subseteq GameRecord
ASSUME ChangesAssumption == MaxChanges \in Nat
\* Of a tenant, whether its wallet is enabled.
Tenant == [enabled : BOOLEAN]
Value(k) == IF k = "game" THEN Game ELSE Tenant

Cached(k) == [value : Value(k), fresh : BOOLEAN]

ASSUME NoneAssumption == None \notin Game \cup Tenant \cup Cached("game") \cup Cached("tenant")

Decision == [updated : Game, kick : BOOLEAN]

\* What a client has to pass: "info" only reads the tenant's record.
Plan == {<<>>, <<"game">>, <<"tenant">>, <<"game", "tenant">>, <<"tenant", "game">>,
         <<"info", "tenant">>, <<"info", "game", "tenant">>}

VARIABLES
    service,    \* what the tenant service and the game service hold
    changes,    \* how often that was changed
    events,     \* Redis: published records, on their way to this process
    cache,      \* the providers' maps
    sub,        \* where subscribeGameEvent stands
    decision,   \* the event it is handling and whether it kicks
    kickList,   \* connections KickTenantPlayersCallback has listed
    at,         \* where each connection and request stands
    todo,       \* the checks it still has to pass
    got,        \* what its provider fetched and has not cached yet
    unseen      \* ghost: open connections no kick could reach

remote == <<service, changes>>
subscriber == <<sub, decision, kickList>>
clients == <<at, todo, got>>
vars == <<remote, events, cache, subscriber, clients, unseen>>

TypeOK ==
    /\ service \in [game : Game, tenant : Tenant]
    /\ changes \in 0..MaxChanges
    /\ events \in [Check -> Seq(Game \cup Tenant)]
    /\ \A k \in Check : events[k] \in Seq(Value(k))
    /\ cache \in [Check -> Cached("game") \cup Cached("tenant") \cup {None}]
    /\ \A k \in Check : cache[k] \in Cached(k) \cup {None}
    /\ sub \in {"idle", "clear", "list", "close", "set"}
    /\ decision \in Decision \cup {None}
    /\ kickList \subseteq Conn
    /\ at \in [Proc -> {"idle", "checking", "passed", "open", "closed"}]
    /\ todo \in [Proc -> Plan]
    /\ got \in [Proc -> Game \cup Tenant \cup {None}]
    /\ unseen \subseteq Conn

Init ==
    /\ service \in [game : Game, tenant : [enabled : {TRUE}]]
    /\ changes = 0
    /\ events = [k \in Check |-> <<>>]
    /\ cache = [k \in Check |-> None]
    /\ sub = "idle" /\ decision = None /\ kickList = {}
    /\ at = [p \in Proc |-> "idle"]
    /\ todo = [p \in Proc |-> <<>>]
    /\ got = [p \in Proc |-> None]
    /\ unseen = {}

---------------------------------------------------------------------------
(* The records and what they permit.                                       *)

AllowUsername(g, u) == g.limit => u \in g.whitelist

Permits(k, v, u) ==
    CASE k = "game" -> v.active /\ AllowUsername(v, u)
      [] k = "tenant" -> v.enabled
      [] k = "info" -> TRUE

Source(k) == IF k = "game" THEN "game" ELSE "tenant"

\* Mutant: looks for names that are new.
IsWhitelistExtended(cached, updated) == ~(updated.whitelist \subseteq cached.whitelist)

\* isWhitelistUpdated: a name is gone.
IsWhitelistUpdated(cached, updated) == ~(cached.whitelist \subseteq updated.whitelist)

\* Whether an event's record closes the tenant's connections.  The status is
\* active or not: the code also acts on a change between two inactive statuses,
\* which permit nobody either, and then kicks more than this does.
Kicks(cached, updated) ==
    \/ updated.active # cached.active /\ ~updated.active
    \/ /\ updated.limit
       /\ updated.limit # cached.limit \/ IsWhitelistUpdated(cached, updated)

\* Connections that have passed their checks, registered or about to be.
Admitted == {c \in Conn : at[c] \in {"passed", "open"}}
Refused(v, cs) == {c \in cs : ~Permits("game", v, UserOf[c])}

---------------------------------------------------------------------------
(* The services (external): a change is published; Redis delivers in order *)
(* and at most once.                                                       *)

Change(k) == \E v \in Value(k) \ {service[k]} :
    /\ changes < MaxChanges
    /\ changes' = changes + 1
    /\ service' = [service EXCEPT ![k] = v]
    /\ events' = [events EXCEPT ![k] = Append(@, v)]
    /\ UNCHANGED <<cache, subscriber, clients, unseen>>

Lose(k) ==
    /\ events[k] # <<>>
    /\ events' = [events EXCEPT ![k] = Tail(@)]
    /\ UNCHANGED <<remote, cache, subscriber, clients, unseen>>

\* An item of a ttlMap outlives its time: it is kept and no longer a hit.
Expire(k) ==
    /\ cache[k] # None /\ cache[k].fresh
    /\ cache' = [cache EXCEPT ![k].fresh = FALSE]
    /\ UNCHANGED <<remote, events, subscriber, clients, unseen>>

---------------------------------------------------------------------------
(* The subscriptions.                                                      *)

HandleTenantEvent ==
    /\ events["tenant"] # <<>>
    /\ events' = [events EXCEPT !["tenant"] = Tail(@)]
    /\ cache' = [cache EXCEPT !["tenant"] = None]
    /\ UNCHANGED <<remote, subscriber, clients, unseen>>

\* Details that do not parse clear the cache. Get returns the value of an
\* expired item beside its error, which is not ErrTenantGameNotFound, so the
\* event is compared with it; who was connected then is noted in kickList.
HandleGameEvent ==
    /\ sub = "idle" /\ events["game"] # <<>>
    /\ events' = [events EXCEPT !["game"] = Tail(@)]
    /\ \/ /\ sub' = "clear"
          /\ UNCHANGED decision
       \/ /\ cache["game"] # None
          /\ LET updated == Head(events["game"])
                 kick == Kicks(cache["game"].value, updated)
             IN  /\ decision' = [updated |-> updated, kick |-> kick]
                 /\ sub' = IF kick THEN "list" ELSE "set"
    /\ kickList' = {c \in Conn : at[c] = "open"}
    /\ UNCHANGED <<remote, cache, clients, unseen>>

ClearGame ==
    /\ sub = "clear" /\ sub' = "idle"
    /\ cache' = [cache EXCEPT !["game"] = None]
    /\ kickList' = {}
    /\ UNCHANGED <<remote, events, decision, clients, unseen>>

\* ListByTenant, then one connection after the other.
ListByTenant ==
    /\ sub = "list" /\ sub' = "close"
    /\ kickList' = {c \in Conn : at[c] = "open"}
    /\ UNCHANGED <<remote, events, cache, decision, clients, unseen>>

CloseListed(c) ==
    /\ sub = "close" /\ c \in kickList /\ at[c] = "open"
    /\ at' = [at EXCEPT ![c] = "closed"]
    /\ UNCHANGED <<remote, events, cache, subscriber, todo, got, unseen>>

SetGame ==
    /\ \/ sub = "set"
       \/ sub = "close" /\ \A c \in kickList : at[c] # "open"
    /\ sub' = "idle" /\ decision' = None /\ kickList' = {}
    /\ cache' = [cache EXCEPT !["game"] = [value |-> decision.updated, fresh |-> TRUE]]
    /\ unseen' = unseen \cup Refused(decision.updated, Admitted \ kickList)
    /\ UNCHANGED <<remote, events, clients>>

---------------------------------------------------------------------------
(* The clients. A Get of a provider is a look at the cache, and when that  *)
(* misses a request, its answer, and the answer put into the cache.        *)

\* Stream: validateTenant and validateGame come before the upgrade.  A connection
\* that is about to be closed does not come again: its client's next connection
\* has another ID, and is another member of Conn.
Connect(c) ==
    /\ at[c] \in {"idle", "closed"} /\ c \notin kickList
    /\ at' = [at EXCEPT ![c] = "checking"]
    /\ todo' = [todo EXCEPT ![c] = <<"tenant", "game">>]
    /\ unseen' = unseen \ {c}
    /\ UNCHANGED <<remote, events, cache, subscriber, got>>

Ask(r, plan) ==
    /\ at[r] = "idle"
    /\ at' = [at EXCEPT ![r] = "checking"]
    /\ todo' = [todo EXCEPT ![r] = plan]
    /\ UNCHANGED <<remote, events, cache, subscriber, got, unseen>>

OnConnection(r) == \E c \in Conn : at[c] = "open" /\ UserOf[c] = UserOf[r]

\* The HTTP handlers check the game's status and then the tenant, in
\* WithTenant; the websocket handlers call WithTenant only.
Spin(r) == Ask(r, <<"game", "tenant">>)
Authorize(r) == Ask(r, <<"info", "game", "tenant">>)
HandleSpin(r) == OnConnection(r) /\ Ask(r, <<"tenant">>)
HandleAuthorize(r) == OnConnection(r) /\ Ask(r, <<"info", "tenant">>)

Decide(p, v) ==
    LET ok == Permits(Head(todo[p]), v, UserOf[p])
    IN  /\ todo' = [todo EXCEPT ![p] = IF ok THEN Tail(@) ELSE <<>>]
        /\ at' = [at EXCEPT ![p] = IF ~ok THEN "idle"
                                   ELSE IF Len(todo[p]) = 1 THEN "passed" ELSE @]

\* Mutant: what is cached is used, expired or not.
HitExpired(k) == cache[k] # None

Hit(k) == cache[k] # None /\ cache[k].fresh

CacheHit(p) ==
    /\ at[p] = "checking" /\ got[p] = None
    /\ Hit(Source(Head(todo[p])))
    /\ Decide(p, cache[Source(Head(todo[p]))].value)
    /\ UNCHANGED <<remote, events, cache, subscriber, got, unseen>>

Fetch(p) ==
    /\ at[p] = "checking" /\ got[p] = None
    /\ ~Hit(Source(Head(todo[p])))
    /\ got' = [got EXCEPT ![p] = service[Source(Head(todo[p]))]]
    /\ UNCHANGED <<remote, events, cache, subscriber, at, todo, unseen>>

\* The request fails or times out: an error answer, nothing is cached.
FetchFails(p) ==
    /\ at[p] = "checking" /\ got[p] = None
    /\ ~Hit(Source(Head(todo[p])))
    /\ at' = [at EXCEPT ![p] = "idle"]
    /\ todo' = [todo EXCEPT ![p] = <<>>]
    /\ UNCHANGED <<remote, events, cache, subscriber, got, unseen>>

\* Mutant: what was fetched of a tenant is put into the other provider's map.
FillGameOnly(p) ==
    /\ at[p] = "checking" /\ got[p] # None
    /\ cache' = [cache EXCEPT !["game"] = [value |-> got[p], fresh |-> TRUE]]
    /\ Decide(p, got[p])
    /\ got' = [got EXCEPT ![p] = None]
    /\ UNCHANGED <<remote, events, subscriber, unseen>>

Fill(p) == LET k == Source(Head(todo[p])) IN
    /\ at[p] = "checking" /\ got[p] # None
    /\ cache' = [cache EXCEPT ![k] = [value |-> got[p], fresh |-> TRUE]]
    /\ Decide(p, got[p])
    /\ got' = [got EXCEPT ![p] = None]
    /\ unseen' = IF k = "game" THEN unseen \cup Refused(got[p], Admitted) ELSE unseen
    /\ UNCHANGED <<remote, events, subscriber>>

Register(c) ==
    /\ at[c] = "passed"
    /\ at' = [at EXCEPT ![c] = "open"]
    /\ UNCHANGED <<remote, events, cache, subscriber, todo, got, unseen>>

Leave(c) ==
    /\ at[c] = "open"
    /\ at' = [at EXCEPT ![c] = "closed"]
    /\ UNCHANGED <<remote, events, cache, subscriber, todo, got, unseen>>

\* The spin service or the wallet has answered.
Answer(r) ==
    /\ at[r] = "passed"
    /\ at' = [at EXCEPT ![r] = "idle"]
    /\ UNCHANGED <<remote, events, cache, subscriber, todo, got, unseen>>

Get(p) == CacheHit(p) \/ Fetch(p) \/ FetchFails(p) \/ Fill(p)
Subscriber == HandleGameEvent \/ ClearGame \/ ListByTenant \/ SetGame \/ \E c \in Conn : CloseListed(c)

Next ==
    \/ \E k \in Check : Change(k) \/ Lose(k) \/ Expire(k)
    \/ HandleTenantEvent
    \/ Subscriber
    \/ \E p \in Proc : Get(p)
    \/ \E c \in Conn : Connect(c) \/ Register(c) \/ Leave(c)
    \/ \E r \in Request : \/ Spin(r) \/ Authorize(r)
                          \/ HandleSpin(r) \/ HandleAuthorize(r)
                          \/ Answer(r)

\* Time passes, HTTP requests end (the client's timeout), and the goroutines
\* of the subscriptions and of the handlers run.
Fairness ==
    /\ \A k \in Check : WF_vars(Expire(k))
    /\ WF_vars(HandleTenantEvent)
    /\ WF_vars(Subscriber)
    /\ \A p \in Proc : WF_vars(Get(p))

Spec == Init /\ [][Next]_vars /\ Fairness

---------------------------------------------------------------------------
(* Properties                                                              *)

\* "Kick all tenant players" (game_provider.go): whenever the game's cached
\* record does not permit the player of an open connection and no event is
\* being handled, no kick could have reached that connection. Either the
\* record came from a fetch that overtook its event, or the event found
\* nothing cached, or the connection was checked against the record before
\* and registered after the callback had listed the connections.
RevokedIsKicked ==
    sub = "idle" /\ cache["game"] # None =>
        Refused(cache["game"].value, {c \in Conn : at[c] = "open"}) \subseteq unseen

PassesCheck(p) == at[p] = "checking" /\ todo[p] # <<>> /\ todo'[p] = Tail(todo[p]) /\ at'[p] # "idle"

\* Lost events, fetches that an event overtakes and expired records only
\* delay a change: once the services' records stay as they are, from some
\* time on no check of a provider lets through who they do not permit.
ServedAsConfigured ==
    <>[][\A p \in Proc : PassesCheck(p) =>
            Permits(Head(todo[p]), service[Source(Head(todo[p]))], UserOf[p])]_vars

=============================================================================

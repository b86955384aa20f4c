------------------------- MODULE DatasourceGateways -------------------------
(***************************************************************************)
(* The gateways of the datasources: DataSourceRuntimeProvider              *)
(* (app/knowledge/execution.py) keeps a bounded, least-recently-used cache *)
(* of gateways behind an asyncio lock, and every gateway                   *)
(* (app/data/postgres.py) opens its connection pool on first use, caches   *)
(* the schema behind a lock of its own and is closed by eviction or at     *)
(* shutdown.  The steps between two awaits of a request are one action.    *)
(*                                                                         *)
(* A request looks its datasource up, obtains a gateway and then runs one  *)
(* or more statements (execute_readonly), each of which first needs the    *)
(* schema.  External: a pool of the driver refuses new connections from    *)
(* the moment its close begins, close waits for the connections in use,    *)
(* and a pool is as large as the requests that share it.                   *)
(***************************************************************************)
EXTENDS Naturals, Sequences, FiniteSets, SequencesExt

CONSTANTS
    Requests,     \* the requests, each handled once
    Sources,      \* datasource ids a request may name
    Registered,   \* the ids the registry knows
    Samplings,    \* values of sample_columns
    Asks,         \* what the requests may ask for, in [Requests -> Keys]
    MaxCached,    \* max_cached of the provider
    MaxCalls,     \* statements a request may run
    None          \* no request, no gateway, no pool

ASSUME ConstantsAssumption ==
    /\ Registered \subseteq Sources
    /\ Asks \subseteq [Requests -> Sources \X Samplings]
    /\ MaxCached \in Nat \ {0}
    /\ MaxCalls \in Nat \ {0}
    /\ None \notin Requests \cup Nat

VARIABLES
    lock,      \* holder of the provider's lock
    cache,     \* _gateways: indices of gateways, least recently used first
    gateways,  \* every gateway built, in order
    pools,     \* every pool created, in order
    req,       \* the requests
    up         \* FALSE once the provider was closed at shutdown

vars == <<lock, cache, gateways, pools, req, up>>

Keys == Sources \X Samplings

Gateway == [key : Keys, schema : BOOLEAN, slock : Requests \cup {None},
            pool : Nat \cup {None}, evicted : BOOLEAN]

Pool == [owner : Nat, state : {"open", "closing", "closed"},
         users : SUBSET Requests]

Steps == {"start", "enter", "closing", "call", "slock", "get", "creating",
          "query"}

Ends == {"answered", "unavailable", "rejected", "failed", "internal"}

Request == [pc : Steps \cup Ends, key : Keys, gw : Nat \cup {None},
            phase : {"schema", "execute"}, pool : Nat \cup {None},
            victim : Nat \cup {None}, calls : 0..MaxCalls]

TypeOK ==
    /\ lock \in Requests \cup {None}
    /\ cache \in Seq(1..Len(gateways))
    /\ gateways \in Seq(Gateway)
    /\ pools \in Seq(Pool)
    /\ req \in [Requests -> Request]
    /\ up \in BOOLEAN

Init ==
    /\ lock = None
    /\ cache = <<>>
    /\ gateways = <<>>
    /\ pools = <<>>
    /\ \E ask \in Asks :
         req = [r \in Requests |->
                  [pc |-> "start", key |-> ask[r], gw |-> None, phase |-> "schema",
                   pool |-> None, victim |-> None, calls |-> 0]]
    /\ up = TRUE

----------------------------------------------------------------------------
(* A request leaves the provider, or the service, in state pc.             *)
Goto(r, pc) == req' = [req EXCEPT ![r].pc = pc]

(* _require: the registry is asked before anything is locked.              *)
Require(r) ==
    /\ up
    /\ req[r].pc = "start"
    /\ Goto(r, IF req[r].key[1] \in Registered THEN "enter" ELSE "unavailable")
    /\ UNCHANGED <<lock, cache, gateways, pools, up>>

Cached_BySource(k) == {g \in Range(cache) : gateways[g].key[1] = k[1]}

(* The gateway under a key, if there is one.                               *)
Cached(k) == {g \in Range(cache) : gateways[g].key = k}

(* context_for, the key is cached: it becomes the most recently used.      *)
Hit(r) ==
    /\ req[r].pc = "enter"
    /\ lock = None
    /\ \E i \in DOMAIN cache :
         /\ cache[i] \in Cached(req[r].key)
         /\ cache' = Append(RemoveAt(cache, i), cache[i])
         /\ req' = [req EXCEPT ![r].pc = "call", ![r].gw = cache[i]]
    /\ UNCHANGED <<lock, gateways, pools, up>>

(* _build raises: the reference does not resolve or the gateway cannot be  *)
(* prepared.  Nothing was inserted.                                        *)
BuildFails(r) ==
    /\ req[r].pc = "enter"
    /\ lock = None
    /\ Cached(req[r].key) = {}
    /\ Goto(r, "unavailable")
    /\ UNCHANGED <<lock, cache, gateways, pools, up>>

New(k) == [key |-> k, schema |-> FALSE, slock |-> None, pool |-> None,
           evicted |-> FALSE]

Insert_OneTooMany(r) ==
    /\ req[r].pc = "enter"
    /\ lock = None
    /\ Cached(req[r].key) = {}
    /\ LET g == Len(gateways) + 1
           full == Append(cache, g)
           over == Len(cache) > MaxCached
       IN /\ gateways' = [x \in 1..g |->
                IF x = g THEN New(req[r].key)
                ELSE [gateways[x] EXCEPT
                        !.evicted = @ \/ (over /\ x = Head(full))]]
          /\ cache' = IF over THEN Tail(full) ELSE full
          /\ lock' = IF over THEN r ELSE None
          /\ req' = [req EXCEPT ![r].gw = g,
                                ![r].victim = IF over THEN Head(full) ELSE None,
                                ![r].pc = IF over THEN "closing" ELSE "call"]
    /\ UNCHANGED <<pools, up>>

(* _build succeeds: the gateway is inserted and, past the limit, the least *)
(* recently used one is popped.  Its close is awaited with the lock held.  *)
Insert(r) ==
    /\ req[r].pc = "enter"
    /\ lock = None
    /\ Cached(req[r].key) = {}
    /\ LET g == Len(gateways) + 1
           full == Append(cache, g)
           over == Len(full) > MaxCached
       IN /\ gateways' = [x \in 1..g |->
                IF x = g THEN New(req[r].key)
                ELSE [gateways[x] EXCEPT
                        !.evicted = @ \/ (over /\ x = Head(full))]]
          /\ cache' = IF over THEN Tail(full) ELSE full
          /\ lock' = IF over THEN r ELSE None
          /\ req' = [req EXCEPT ![r].gw = g,
                                ![r].victim = IF over THEN Head(full) ELSE None,
                                ![r].pc = IF over THEN "closing" ELSE "call"]
    /\ UNCHANGED <<pools, up>>

----------------------------------------------------------------------------
(* PostgresDatabaseGateway.close on the evicted gateway: its pool, if it   *)
(* has one, stops taking connections.                                      *)
CloseBegins(r) ==
    LET v == req[r].victim
        p == gateways[v].pool
    IN /\ req[r].pc = "closing"
       /\ req[r].pool = None
       /\ p # None
       /\ pools' = [pools EXCEPT ![p].state = IF @ = "open" THEN "closing" ELSE @]
       /\ req' = [req EXCEPT ![r].pool = p]
       /\ UNCHANGED <<lock, cache, gateways, up>>

(* The pool is closed once the last connection is back; _pool = None       *)
(* afterwards, whichever pool the gateway refers to by then.               *)
CloseEnds(r) ==
    LET v == req[r].victim
        p == req[r].pool
    IN /\ req[r].pc = "closing"
       /\ \/ /\ p = None
             /\ gateways[v].pool = None
             /\ UNCHANGED <<gateways, pools>>
          \/ /\ p # None
             /\ pools[p].users = {}
             /\ pools' = [pools EXCEPT ![p].state = "closed"]
             /\ gateways' = [gateways EXCEPT ![v].pool = None]
       /\ lock' = None
       /\ req' = [req EXCEPT ![r].pc = "call", ![r].pool = None,
                             ![r].victim = None]
       /\ UNCHANGED <<cache, up>>

(* The driver's close raises: _close_quietly swallows it, and the gateway  *)
(* keeps the terminated pool.                                              *)
CloseFails(r) ==
    LET p == req[r].pool
    IN /\ req[r].pc = "closing"
       /\ p # None
       /\ pools' = [pools EXCEPT ![p].state = "closed"]
       /\ lock' = None
       /\ req' = [req EXCEPT ![r].pc = "call", ![r].pool = None,
                             ![r].victim = None]
       /\ UNCHANGED <<cache, gateways, up>>

----------------------------------------------------------------------------
(* execute_readonly asks search_schema first: a valid cache is used as it  *)
(* is, otherwise the request queues for the schema lock.                   *)
Call(r) ==
    LET g == req[r].gw
    IN /\ req[r].pc = "call"
       /\ req' = [req EXCEPT ![r].pc = IF gateways[g].schema THEN "get" ELSE "slock",
                             ![r].phase = IF gateways[g].schema
                                          THEN "execute" ELSE "schema",
                             ![r].calls = @ + 1]
       /\ UNCHANGED <<lock, cache, gateways, pools, up>>

SchemaLock_Unchecked(r) ==
    LET g == req[r].gw
    IN /\ req[r].pc = "slock"
       /\ gateways' = [gateways EXCEPT ![g].slock = r]
       /\ req' = [req EXCEPT ![r].pc = "get", ![r].phase = "schema"]
       /\ UNCHANGED <<lock, cache, pools, up>>

(* The lock is granted and the cache checked again.                        *)
SchemaLock(r) ==
    LET g == req[r].gw
    IN /\ req[r].pc = "slock"
       /\ gateways[g].slock = None
       /\ gateways' = [gateways EXCEPT ![g].slock =
                         IF gateways[g].schema THEN None ELSE r]
       /\ req' = [req EXCEPT ![r].pc = "get",
                             ![r].phase = IF gateways[g].schema
                                          THEN "execute" ELSE "schema"]
       /\ UNCHANGED <<lock, cache, pools, up>>

(* The schema lock, if r holds it, is given back.                          *)
Unlocked(r, gs) ==
    [g \in DOMAIN gs |-> [gs[g] EXCEPT !.slock = IF @ = r THEN None ELSE @]]

(* SQLValidator refuses the statement before a connection is taken.        *)
Reject(r) ==
    /\ req[r].pc = "get"
    /\ req[r].phase = "execute"
    /\ Goto(r, "rejected")
    /\ UNCHANGED <<lock, cache, gateways, pools, up>>

(* _get_pool without a pool: the request starts creating one.              *)
CreateBegins(r) ==
    /\ req[r].pc = "get"
    /\ gateways[req[r].gw].pool = None
    /\ Goto(r, "creating")
    /\ UNCHANGED <<lock, cache, gateways, pools, up>>

(* The pool is created and assigned over whatever _pool is by then, and a  *)
(* connection of it is acquired.                                           *)
CreateEnds(r) ==
    LET g == req[r].gw
        p == Len(pools) + 1
    IN /\ req[r].pc = "creating"
       /\ pools' = Append(pools, [owner |-> g, state |-> "open", users |-> {r}])
       /\ gateways' = [gateways EXCEPT ![g].pool = p]
       /\ req' = [req EXCEPT ![r].pc = "query", ![r].pool = p]
       /\ UNCHANGED <<lock, cache, up>>

CreateFails_KeepsLock(r) ==
    /\ req[r].pc = "creating"
    /\ Goto(r, "failed")
    /\ UNCHANGED <<lock, cache, gateways, pools, up>>

(* No connection, or a role that may write: the request fails.             *)
CreateFails(r) ==
    /\ req[r].pc = "creating"
    /\ gateways' = Unlocked(r, gateways)
    /\ Goto(r, "failed")
    /\ UNCHANGED <<lock, cache, pools, up>>

(* _get_pool with a pool: a connection is acquired, or the closing pool    *)
(* refuses with an error that no except clause names.                      *)
Acquire(r) ==
    LET g == req[r].gw
        p == gateways[g].pool
    IN /\ req[r].pc = "get"
       /\ p # None
       /\ IF pools[p].state = "open"
            THEN /\ pools' = [pools EXCEPT ![p].users = @ \cup {r}]
                 /\ req' = [req EXCEPT ![r].pc = "query", ![r].pool = p]
                 /\ UNCHANGED gateways
            ELSE /\ gateways' = Unlocked(r, gateways)
                 /\ Goto(r, "internal")
                 /\ UNCHANGED pools
       /\ UNCHANGED <<lock, cache, up>>

Released(r) == [pools EXCEPT ![req[r].pool].users = @ \ {r}]

(* The schema is read: it is cached, the schema lock released, and the     *)
(* statement goes on.                                                      *)
Discovered(r) ==
    /\ req[r].pc = "query"
    /\ req[r].phase = "schema"
    /\ pools' = Released(r)
    /\ gateways' = [Unlocked(r, gateways) EXCEPT ![req[r].gw].schema = TRUE]
    /\ req' = [req EXCEPT ![r].pc = "get", ![r].phase = "execute",
                          ![r].pool = None]
    /\ UNCHANGED <<lock, cache, up>>

(* The statement's rows are read; the request answers or runs another one. *)
Executed(r) ==
    /\ req[r].pc = "query"
    /\ req[r].phase = "execute"
    /\ pools' = Released(r)
    /\ \E pc \in {"answered"} \cup
                 (IF req[r].calls < MaxCalls THEN {"call"} ELSE {}) :
         req' = [req EXCEPT ![r].pc = pc, ![r].pool = None]
    /\ UNCHANGED <<lock, cache, gateways, up>>

(* A query times out, is refused or loses its connection; the connection   *)
(* and the schema lock are given back either way.                          *)
QueryFails(r) ==
    /\ req[r].pc = "query"
    /\ pools' = Released(r)
    /\ gateways' = Unlocked(r, gateways)
    /\ req' = [req EXCEPT ![r].pc = "failed", ![r].pool = None]
    /\ UNCHANGED <<lock, cache, up>>

(* A schema cache passes its age limit.                                    *)
Expire(g) ==
    /\ gateways[g].schema
    /\ gateways' = [gateways EXCEPT ![g].schema = FALSE]
    /\ UNCHANGED <<lock, cache, pools, req, up>>

(* Shutdown: the server has drained its requests, then the provider clears *)
(* its cache and closes what was in it.                                    *)
Shutdown ==
    /\ up
    /\ lock = None
    /\ \A r \in Requests : req[r].pc \in Ends \cup {"start"}
    /\ up' = FALSE
    /\ cache' = <<>>
    /\ pools' = [p \in DOMAIN pools |->
                   IF \E g \in Range(cache) : gateways[g].pool = p
                     THEN [pools[p] EXCEPT !.state = "closed"] ELSE pools[p]]
    /\ gateways' = [g \in DOMAIN gateways |->
                      IF g \in Range(cache) THEN [gateways[g] EXCEPT !.pool = None]
                      ELSE gateways[g]]
    /\ UNCHANGED <<lock, req>>

Step(r) ==
    \/ Require(r) \/ Hit(r) \/ BuildFails(r) \/ Insert(r)
    \/ CloseBegins(r) \/ CloseEnds(r) \/ CloseFails(r)
    \/ Call(r) \/ SchemaLock(r) \/ Reject(r)
    \/ CreateBegins(r) \/ CreateEnds(r) \/ CreateFails(r) \/ Acquire(r)
    \/ Discovered(r) \/ Executed(r) \/ QueryFails(r)

Next ==
    \/ \E r \in Requests : Step(r)
    \/ \E g \in DOMAIN gateways : Expire(g)
    \/ Shutdown

(* Every await returns or raises within its timeout, asyncio's locks are   *)
(* first come first served, and an arrived request is handled.             *)
Fairness ==
    \A r \in Requests :
        /\ SF_vars(req[r].pc \in {"enter", "slock"} /\ Step(r))
        /\ WF_vars(req[r].pc # "start" /\ Step(r))

Spec == Init /\ [][Next]_vars /\ Fairness

----------------------------------------------------------------------------
(* A request reads the datasource it asked for, sampled as it asked, and   *)
(* is not refused there while its gateway is cached: the cache holds one   *)
(* gateway per key and no more than its limit, a gateway is out of it      *)
(* before its pool stops taking connections, and the gateway and pool a    *)
(* request uses are those of its key.                                      *)
CachedIsServing ==
    /\ Len(cache) <= MaxCached
    /\ \A i, j \in 1..Len(cache) :
         gateways[cache[i]].key = gateways[cache[j]].key => i = j
    /\ \A i \in 1..Len(cache) : LET p == gateways[cache[i]].pool IN
         p # None => pools[p].state = "open"
    /\ \A r \in Requests :
         /\ req[r].gw # None => gateways[req[r].gw].key = req[r].key
         /\ req[r].pc = "query" => /\ pools[req[r].pool].owner = req[r].gw
                                   /\ r \in pools[req[r].pool].users

Discovering(r) ==
    req[r].pc \in {"get", "creating", "query"} /\ req[r].phase = "schema"

(* Only eviction costs anything.  A gateway that was never evicted opens   *)
(* one pool at most, although _get_pool has no lock of its own and two     *)
(* requests may both find _pool None: whoever reads the schema is alone in *)
(* doing so, and whoever runs a statement finds a pool.  None of its       *)
(* requests meets a closing pool.                                          *)
UnevictedIsExact ==
    /\ \A r, s \in Requests :
         (Discovering(r) /\ Discovering(s) /\ req[r].gw = req[s].gw) => r = s
    /\ \A g \in DOMAIN gateways :
         ~ gateways[g].evicted =>
            /\ Cardinality({p \in DOMAIN pools : pools[p].owner = g}) <= 1
            /\ \A r \in Requests : req[r].gw = g => req[r].pc # "internal"

(* Every request that entered ends, although an eviction waits for other   *)
(* requests' connections with the provider's lock held.                    *)
RequestEnds ==
    \A r \in Requests : req[r].pc = "enter" ~> req[r].pc \in Ends

(***************************************************************************)
(* The inductive invariants: what the provider and the gateways may rely   *)
(* on between two steps, up to the shutdown.                               *)
(***************************************************************************)

(* A gateway is not evicted while it is in the cache.                      *)
CacheSound ==
    /\ Len(cache) <= MaxCached
    /\ \A i, j \in DOMAIN cache :
         gateways[cache[i]].key = gateways[cache[j]].key => i = j
    /\ \A i \in DOMAIN cache : ~ gateways[cache[i]].evicted
    /\ ~ up => cache = <<>>

(* A gateway refers to a pool of its own; unless it was evicted, it is the *)
(* only one it ever opened, and open.                                      *)
PoolsSound ==
    /\ \A g \in DOMAIN gateways : LET p == gateways[g].pool IN
         p # None => p \in DOMAIN pools /\ pools[p].owner = g
    /\ \A p \in DOMAIN pools : LET g == pools[p].owner IN
         /\ g \in DOMAIN gateways
         /\ up /\ ~ gateways[g].evicted =>
              pools[p].state = "open" /\ gateways[g].pool = p
    /\ \A p, q \in DOMAIN pools :
         pools[p].owner = pools[q].owner /\ ~ gateways[pools[p].owner].evicted => p = q
    /\ \A g \in DOMAIN gateways :
         up /\ ~ gateways[g].evicted /\ gateways[g].schema => gateways[g].pool # None

(* A request that still needs the provider or its gateway.                 *)
Served == Steps \ {"start"}

(* What a request holds: the provider's lock while it closes a victim, the *)
(* schema lock while it discovers, a connection while it queries.          *)
Holds(r) ==
    LET q == req[r]
    IN /\ lock = r <=> q.pc = "closing"
       /\ q.pc = "closing" =>
            /\ q.victim \in DOMAIN gateways
            /\ gateways[q.victim].evicted
            /\ q.pool # None => q.pool \in DOMAIN pools /\ pools[q.pool].owner = q.victim
       /\ Discovering(r) => gateways[q.gw].slock = r
       /\ q.pc = "query" =>
            /\ q.pool \in DOMAIN pools
            /\ pools[q.pool].owner = q.gw
            /\ r \in pools[q.pool].users
       /\ q.pc \notin {"closing", "query"} => q.pool = None

(* Which gateway it uses, whether it may run another statement on it and,  *)
(* unless the gateway was evicted, where its pool is.                      *)
Uses(r) ==
    LET q == req[r]
    IN /\ q.pc \in Served => up /\ (q.pc # "enter" => q.gw # None)
       /\ q.pc \in {"start", "enter", "closing", "call"} => q.calls < MaxCalls
       /\ q.gw # None => q.gw \in DOMAIN gateways /\ gateways[q.gw].key = q.key
       /\ q.gw # None /\ ~ gateways[q.gw].evicted =>
            /\ q.pc # "internal"
            /\ q.pc = "query" => gateways[q.gw].pool = q.pool
            /\ q.pc = "creating" => gateways[q.gw].pool = None /\ q.phase = "schema"
            /\ q.pc = "get" /\ q.phase = "execute" => gateways[q.gw].pool # None

IndInv ==
    /\ TypeOK
    /\ CacheSound
    /\ PoolsSound
    /\ \A r \in Requests : Holds(r) /\ Uses(r)

(***************************************************************************)
(* What the documentation says and the code does not do.                   *)
(***************************************************************************)

(* execution.py:21: "Gateways are pooled per datasource and closed         *)
(* together at shutdown."  A request that outlives the eviction of its     *)
(* gateway opens a new pool on it, which nothing ever closes.              *)
ClosedAtShutdown ==
    ~ up => \A p \in DOMAIN pools : pools[p].state = "closed"
=============================================================================

----------------------- MODULE DatasourceGatewaysProofs -----------------------
(***************************************************************************)
(* Proofs about DatasourceGateways, for any requests, any cache limit and  *)
(* any number of statements.  A step is taken by one request: what it does *)
(* to the cache and the pools is one lemma per action, what it leaves to   *)
(* the other requests is HoldsStays and UsesStays.                         *)
(***************************************************************************)
EXTENDS DatasourceGateways, SequenceTheorems, FiniteSetTheorems, TLAPS

\* A function on an initial segment is a sequence.
LEMMA FunctionIsSeq ==
    ASSUME NEW S, NEW n \in Nat, NEW f \in [1..n -> S]
    PROVE  f \in Seq(S) /\ Len(f) = n
  OBVIOUS

\* The lists as functions.
LEMMA Lists ==
    ASSUME TypeOK
    PROVE  /\ Len(gateways) \in Nat /\ DOMAIN gateways = 1..Len(gateways)
           /\ gateways \in [DOMAIN gateways -> Gateway]
           /\ Len(pools) \in Nat /\ DOMAIN pools = 1..Len(pools)
           /\ pools \in [DOMAIN pools -> Pool]
           /\ Len(cache) \in Nat /\ DOMAIN cache = 1..Len(cache)
           /\ cache \in [DOMAIN cache -> DOMAIN gateways]
<1>1. /\ Len(gateways) \in Nat /\ DOMAIN gateways = 1..Len(gateways)
      /\ gateways \in [1..Len(gateways) -> Gateway]
  BY LenProperties DEF TypeOK
<1>2. /\ Len(pools) \in Nat /\ DOMAIN pools = 1..Len(pools)
      /\ pools \in [1..Len(pools) -> Pool]
  BY LenProperties DEF TypeOK
<1>3. /\ Len(cache) \in Nat /\ DOMAIN cache = 1..Len(cache)
      /\ cache \in [1..Len(cache) -> 1..Len(gateways)]
  BY LenProperties DEF TypeOK
<1>. QED
  BY <1>1, <1>2, <1>3

\* Lists that keep their lengths keep their types.
LEMMA SameLengths ==
    ASSUME TypeOK, gateways' \in [DOMAIN gateways -> Gateway],
           pools' \in [DOMAIN pools -> Pool], UNCHANGED <<cache, up>>,
           req' \in [Requests -> Request], lock' \in Requests \cup {None}
    PROVE  TypeOK'
<1>1. gateways' \in Seq(Gateway) /\ Len(gateways') = Len(gateways)
  BY Lists, FunctionIsSeq
<1>2. pools' \in Seq(Pool)
  BY Lists, FunctionIsSeq
<1>. QED
  BY <1>1, <1>2 DEF TypeOK

\* No index and no request is None.
LEMMA NoneIsNot ==
    /\ None \notin Requests
    /\ TypeOK => None \notin DOMAIN gateways /\ None \notin DOMAIN pools
  BY ConstantsAssumption, Lists

\* What another request holds stays, if the step keeps it.
LEMMA HoldsStays ==
    ASSUME IndInv, NEW s \in Requests, req'[s] = req[s], lock' = s <=> lock = s,
           \A g \in DOMAIN gateways :
              /\ g \in DOMAIN gateways'
              /\ gateways[g].evicted => gateways'[g].evicted
              /\ gateways[g].slock = s => gateways'[g].slock = s,
           \A p \in DOMAIN pools :
              /\ p \in DOMAIN pools'
              /\ pools'[p].owner = pools[p].owner
              /\ s \in pools[p].users => s \in pools'[p].users
    PROVE  Holds(s)'
<1>1. Discovering(s) => req[s].gw \in DOMAIN gateways
  BY SMTT(60) DEF IndInv, Uses, Served, Steps, Discovering
<1>. QED
  BY <1>1 DEF IndInv, Holds, Discovering

\* And so does what it may rely on about its gateway.
LEMMA UsesStays ==
    ASSUME IndInv, NEW s \in Requests, req'[s] = req[s],
           req[s].pc \in Served => up',
           \A g \in DOMAIN gateways :
              /\ g \in DOMAIN gateways'
              /\ gateways'[g].key = gateways[g].key
              /\ gateways[g].evicted => gateways'[g].evicted
              /\ g = req[s].gw /\ req[s].pc \in {"query", "creating", "get"} =>
                   gateways'[g].pool = gateways[g].pool \/ gateways'[g].evicted
    PROVE  Uses(s)'
  BY DEF IndInv, Uses

\* A step that changes its own request only.
LEMMA OwnStep ==
    ASSUME IndInv, NEW r \in Requests, NEW q \in Request, req' = [req EXCEPT ![r] = q],
           UNCHANGED <<lock, cache, gateways, pools, up>>, Holds(r)', Uses(r)'
    PROVE  IndInv'
<1>1. req' \in [Requests -> Request] /\ req'[r] = q
  BY DEF IndInv, TypeOK
<1>2. TypeOK'
  BY <1>1 DEF IndInv, TypeOK
<1>3. ASSUME NEW s \in Requests, s # r PROVE Holds(s)' /\ Uses(s)'
  <2>1. req'[s] = req[s]
    BY <1>3 DEF IndInv, TypeOK
  <2>2. req[s].pc \in Served => up'
    BY DEF IndInv, Uses
  <2>. QED
    BY <2>1, <2>2, HoldsStays, UsesStays
<1>. QED
  BY <1>2, <1>3 DEF IndInv, CacheSound, PoolsSound

\* The first state.
LEMMA Begins == ASSUME Init PROVE IndInv
<1>1. PICK ask \in Asks : req = [r \in Requests |->
        [pc |-> "start", key |-> ask[r], gw |-> None, phase |-> "schema",
         pool |-> None, victim |-> None, calls |-> 0]]
  BY DEF Init
<1>2. req \in [Requests -> Request]
  <2>1. \A r \in Requests : ask[r] \in Keys
    BY ConstantsAssumption DEF Keys
  <2>. QED
    BY <1>1, <2>1, ConstantsAssumption DEF Request, Steps
<1>3. /\ gateways = <<>> /\ DOMAIN gateways = {} /\ pools = <<>> /\ DOMAIN pools = {}
      /\ cache = <<>> /\ DOMAIN cache = {} /\ Len(cache) = 0 /\ up = TRUE /\ lock = None
  BY DEF Init
<1>4. TypeOK
  BY <1>2, <1>3 DEF TypeOK
<1>5. ASSUME NEW r \in Requests PROVE Holds(r) /\ Uses(r)
  BY <1>1, <1>3, NoneIsNot, ConstantsAssumption DEF Holds, Uses, Discovering, Served, Steps
<1>. QED
  BY <1>3, <1>4, <1>5, ConstantsAssumption DEF IndInv, CacheSound, PoolsSound

\* The registry answers.
LEMMA RequireStep == ASSUME IndInv, NEW r \in Requests, Require(r) PROVE IndInv'
<1>. DEFINE q == [req[r] EXCEPT !.pc = IF req[r].key[1] \in Registered
                                         THEN "enter" ELSE "unavailable"]
<1>1. req[r] \in Request /\ req[r].pc = "start" /\ up
  BY DEF IndInv, TypeOK, Require
<1>2. q \in Request /\ req' = [req EXCEPT ![r] = q] /\ req'[r] = q
  BY <1>1, ZenonT(60) DEF IndInv, TypeOK, Require, Goto, Request, Steps, Ends
<1>3. Holds(r)'
  BY <1>1, <1>2 DEF IndInv, Holds, Discovering, Require
<1>4. Uses(r)'
  BY <1>1, <1>2 DEF IndInv, Uses, Served, Steps, Require
<1>. QED
  BY <1>2, <1>3, <1>4, OwnStep DEF Require

\* Nothing was built.
LEMMA BuildFailsStep == ASSUME IndInv, NEW r \in Requests, BuildFails(r) PROVE IndInv'
<1>. DEFINE q == [req[r] EXCEPT !.pc = "unavailable"]
<1>1. req[r] \in Request /\ req[r].pc = "enter"
  BY DEF IndInv, TypeOK, BuildFails
<1>2. q \in Request /\ req' = [req EXCEPT ![r] = q] /\ req'[r] = q
  BY <1>1 DEF IndInv, TypeOK, BuildFails, Goto, Request, Steps, Ends
<1>3. Holds(r)'
  BY <1>1, <1>2 DEF IndInv, Holds, Discovering, BuildFails
<1>4. Uses(r)'
  BY <1>1, <1>2 DEF IndInv, Uses, Served, Steps, BuildFails
<1>. QED
  BY <1>2, <1>3, <1>4, OwnStep DEF BuildFails

\* The validator refuses the statement.
LEMMA RejectStep == ASSUME IndInv, NEW r \in Requests, Reject(r) PROVE IndInv'
<1>. DEFINE q == [req[r] EXCEPT !.pc = "rejected"]
<1>1. req[r] \in Request /\ req[r].pc = "get"
  BY DEF IndInv, TypeOK, Reject
<1>2. q \in Request /\ req' = [req EXCEPT ![r] = q] /\ req'[r] = q
  BY <1>1 DEF IndInv, TypeOK, Reject, Goto, Request, Steps, Ends
<1>3. Holds(r)'
  BY <1>1, <1>2 DEF IndInv, Holds, Discovering, Reject
<1>4. Uses(r)'
  BY <1>1, <1>2 DEF IndInv, Uses, Served, Steps, Reject
<1>. QED
  BY <1>2, <1>3, <1>4, OwnStep DEF Reject

\* A request that finds no pool discovers, if its gateway was not evicted:
\* whoever runs a statement on it has a pool.
LEMMA CreateBeginsStep == ASSUME IndInv, NEW r \in Requests, CreateBegins(r) PROVE IndInv'
<1>. DEFINE q == [req[r] EXCEPT !.pc = "creating"]
<1>1. /\ req[r] \in Request /\ req[r].pc = "get"
      /\ gateways[req[r].gw].pool = None
      /\ UNCHANGED <<lock, cache, gateways, pools, up>>
  BY DEF IndInv, TypeOK, CreateBegins
<1>2. q \in Request /\ req' = [req EXCEPT ![r] = q] /\ req'[r] = q
  BY <1>1 DEF IndInv, TypeOK, CreateBegins, Goto, Request, Steps, Ends
<1>3. Holds(r)'
  BY <1>1, <1>2 DEF IndInv, Holds, Discovering
<1>4. Uses(r)'
  BY <1>1, <1>2 DEF IndInv, Uses, Served, Steps, Request
<1>. QED
  BY <1>1, <1>2, <1>3, <1>4, OwnStep

\* A cached schema was read through a pool.
LEMMA CallStep == ASSUME IndInv, NEW r \in Requests, Call(r) PROVE IndInv'
<1>. DEFINE g == req[r].gw
            q == [req[r] EXCEPT !.pc = IF gateways[g].schema THEN "get" ELSE "slock",
                                !.phase = IF gateways[g].schema
                                          THEN "execute" ELSE "schema",
                                !.calls = @ + 1]
<1>1. /\ req[r] \in Request /\ req[r].pc = "call" /\ req[r].calls < MaxCalls
      /\ g \in DOMAIN gateways /\ up
      /\ UNCHANGED <<lock, cache, gateways, pools, up>>
  BY DEF IndInv, TypeOK, Call, Uses, Served, Steps
<1>2. req[r].calls + 1 \in 0..MaxCalls
  BY <1>1, ConstantsAssumption, SMTT(60) DEF Request
<1>3. q \in Request /\ req' = [req EXCEPT ![r] = q] /\ req'[r] = q
  BY <1>1, <1>2, ZenonT(60) DEF IndInv, TypeOK, Call, Request, Steps, Ends
<1>4. gateways[g].schema /\ ~ gateways[g].evicted => gateways[g].pool # None
  BY <1>1, SMTT(60) DEF IndInv, PoolsSound
<1>5. /\ q.pc = IF gateways[g].schema THEN "get" ELSE "slock"
      /\ q.phase = IF gateways[g].schema THEN "execute" ELSE "schema"
      /\ q.gw = g /\ q.key = req[r].key /\ q.pool = req[r].pool
  BY <1>1 DEF Request
<1>. HIDE DEF q
<1>6. Holds(r)'
  BY <1>1, <1>3, <1>5 DEF IndInv, Holds, Discovering
<1>7. Uses(r)'
  BY <1>1, <1>3, <1>4, <1>5, SMTT(60) DEF IndInv, Uses, Served, Steps
<1>. QED
  BY <1>1, <1>3, <1>6, <1>7, OwnStep

\* A step of r on the gateways there are: it gives back only its own locks, and
\* only an evicted gateway loses its pool.
LeavesGateways(r) ==
    /\ gateways' \in [DOMAIN gateways -> Gateway]
    /\ \A g \in DOMAIN gateways :
         /\ gateways'[g].key = gateways[g].key
         /\ gateways'[g].evicted <=> gateways[g].evicted
         /\ gateways[g].slock \notin {r, None} => gateways'[g].slock = gateways[g].slock
         /\ gateways'[g].pool = gateways[g].pool
              \/ (gateways[g].evicted /\ gateways'[g].pool = None)
         /\ gateways'[g].schema => \/ gateways[g].schema
                                   \/ gateways[g].pool # None
                                   \/ gateways[g].evicted

\* A step of r on the pools there are: it gives back only its own connections,
\* and only an evicted gateway has its pool closed.
LeavesPools(r) ==
    /\ pools' \in [DOMAIN pools -> Pool]
    /\ \A p \in DOMAIN pools :
         /\ pools'[p].owner = pools[p].owner
         /\ \A s \in Requests \ {r} : s \in pools[p].users => s \in pools'[p].users
         /\ pools'[p].state = pools[p].state \/ gateways[pools[p].owner].evicted

\* Leaving them alone is such a step.
LEMMA LeftAlone ==
    ASSUME TypeOK, NEW r
    PROVE  /\ UNCHANGED gateways => LeavesGateways(r)
           /\ UNCHANGED pools => LeavesPools(r)
<1>1. gateways \in [DOMAIN gateways -> Gateway] /\ pools \in [DOMAIN pools -> Pool]
  BY Lists
<1>2. UNCHANGED gateways => LeavesGateways(r)
  BY <1>1 DEF LeavesGateways
<1>3. UNCHANGED pools => LeavesPools(r)
  BY <1>1 DEF LeavesPools
<1>. QED
  BY <1>2, <1>3

\* A step on gateways and pools that exist.
LEMMA SharedStep ==
    ASSUME IndInv, NEW r \in Requests, NEW q \in Request, req' = [req EXCEPT ![r] = q],
           UNCHANGED <<cache, up>>, (lock' = lock \/ (lock = r /\ lock' = None)),
           LeavesGateways(r), LeavesPools(r),
           Holds(r)', Uses(r)'
    PROVE  IndInv'
<1>0. None \notin Requests
  BY NoneIsNot
<1>1. req' \in [Requests -> Request] /\ req'[r] = q
  BY DEF IndInv, TypeOK
<1>2. lock' \in Requests \cup {None}
  BY DEF IndInv, TypeOK
<1>3. TypeOK'
  BY <1>1, <1>2, SameLengths DEF IndInv, LeavesGateways, LeavesPools
<1>4. DOMAIN gateways' = DOMAIN gateways /\ DOMAIN pools' = DOMAIN pools
  BY DEF LeavesGateways, LeavesPools
<1>5. CacheSound'
  <2>1. \A i \in DOMAIN cache : cache[i] \in DOMAIN gateways
    BY Lists DEF IndInv
  <2>. QED
    BY <2>1 DEF IndInv, CacheSound, LeavesGateways
<1>6. PoolsSound'
  BY <1>4, SMTT(60) DEF IndInv, PoolsSound, LeavesGateways, LeavesPools
<1>7. ASSUME NEW s \in Requests, s # r PROVE Holds(s)' /\ Uses(s)'
  <2>1. req'[s] = req[s]
    BY <1>7 DEF IndInv, TypeOK
  <2>2. req[s].pc \in Served => up'
    BY DEF IndInv, Uses
  <2>3. lock' = s <=> lock = s
    BY <1>0, <1>7
  <2>4. \A g \in DOMAIN gateways : gateways[g].slock = s => gateways'[g].slock = s
    BY <1>0, <1>7 DEF LeavesGateways
  <2>5. Holds(s)'
    BY <2>1, <2>3, <2>4, <1>4, <1>7, HoldsStays DEF LeavesGateways, LeavesPools
  <2>6. Uses(s)'
    BY <2>1, <2>2, <1>4, UsesStays DEF LeavesGateways
  <2>. QED
    BY <2>5, <2>6
<1>. QED
  BY <1>3, <1>5, <1>6, <1>7 DEF IndInv

\* The evicted gateway's pool stops taking connections.
LEMMA CloseBeginsStep == ASSUME IndInv, NEW r \in Requests, CloseBegins(r) PROVE IndInv'
<1>. DEFINE v == req[r].victim
            p == gateways[v].pool
            q == [req[r] EXCEPT !.pool = p]
<1>1. /\ req[r] \in Request /\ req[r].pc = "closing" /\ v \in DOMAIN gateways
      /\ gateways[v].evicted /\ p \in DOMAIN pools /\ pools[p].owner = v
      /\ UNCHANGED <<lock, cache, gateways, up>>
  BY SMTT(60) DEF IndInv, TypeOK, CloseBegins, Holds, PoolsSound
<1>2. gateways \in [DOMAIN gateways -> Gateway] /\ pools \in [DOMAIN pools -> Pool]
  BY Lists DEF IndInv
<1>3. q \in Request /\ req' = [req EXCEPT ![r] = q] /\ req'[r] = q
  BY <1>1, <1>2, ZenonT(60) DEF IndInv, TypeOK, CloseBegins, Request, Gateway
<1>4. /\ pools' \in [DOMAIN pools -> Pool]
      /\ \A x \in DOMAIN pools : /\ pools'[x].owner = pools[x].owner
                                 /\ pools'[x].users = pools[x].users
                                 /\ x # p => pools'[x].state = pools[x].state
  BY <1>1, <1>2, SMTT(60) DEF CloseBegins, Pool
<1>5. Holds(r)'
  BY <1>1, <1>3, <1>4, SMTT(60) DEF IndInv, Holds, Discovering
<1>6. Uses(r)'
  BY <1>1, <1>3 DEF IndInv, Uses
<1>7. LeavesGateways(r)
  BY <1>1, LeftAlone DEF IndInv
<1>8. LeavesPools(r)
  BY <1>1, <1>4 DEF LeavesPools
<1>. HIDE DEF q
<1>. QED
  BY <1>1, <1>3, <1>5, <1>6, <1>7, <1>8, SharedStep

\* The request a close leaves behind.
LEMMA CloseLeaves ==
    ASSUME IndInv, NEW r \in Requests, CloseEnds(r) \/ CloseFails(r)
    PROVE  /\ req[r].victim \in DOMAIN gateways /\ gateways[req[r].victim].evicted
           /\ req[r].pool # None =>
                req[r].pool \in DOMAIN pools /\ pools[req[r].pool].owner = req[r].victim
           /\ lock = r /\ lock' = None /\ UNCHANGED <<cache, up>>
           /\ req'[r] \in Request /\ req' = [req EXCEPT ![r] = req'[r]]
           /\ Holds(r)'
           /\ LeavesGateways(r) => Uses(r)'
<1>. DEFINE q == [req[r] EXCEPT !.pc = "call", !.pool = None, !.victim = None]
<1>1. /\ req[r] \in Request /\ req[r].pc = "closing" /\ lock = r
      /\ req[r].victim \in DOMAIN gateways /\ gateways[req[r].victim].evicted
      /\ req[r].pool # None =>
           req[r].pool \in DOMAIN pools /\ pools[req[r].pool].owner = req[r].victim
      /\ lock' = None /\ UNCHANGED <<cache, up>>
  BY DEF IndInv, TypeOK, CloseEnds, CloseFails, Holds
<1>2. q \in Request /\ req' = [req EXCEPT ![r] = q] /\ req'[r] = q
  BY <1>1, ZenonT(60) DEF IndInv, TypeOK, CloseEnds, CloseFails, Request, Steps
<1>3. q.pc = "call" /\ q.gw = req[r].gw /\ q.key = req[r].key /\ q.calls = req[r].calls
  BY <1>1 DEF Request
<1>4. q.pool = None
  BY <1>1 DEF Request
<1>. HIDE DEF q
<1>5. lock' # r
  BY <1>1, NoneIsNot
<1>6. Holds(r)'
  BY <1>2, <1>3, <1>4, <1>5, SMTT(60) DEF Holds, Discovering
<1>7. ASSUME LeavesGateways(r) PROVE Uses(r)'
  BY <1>1, <1>2, <1>3, <1>7 DEF IndInv, Uses, Served, Steps, LeavesGateways
<1>. QED
  BY <1>1, <1>2, <1>6, <1>7

\* Once its pool is closed the evicted gateway has none.
LEMMA CloseEndsStep == ASSUME IndInv, NEW r \in Requests, CloseEnds(r) PROVE IndInv'
<1>1. gateways \in [DOMAIN gateways -> Gateway] /\ pools \in [DOMAIN pools -> Pool]
  BY Lists DEF IndInv
<1>2. LeavesGateways(r)
  <2>1. CASE UNCHANGED gateways
    BY <2>1, LeftAlone, SMTT(60) DEF IndInv
  <2>2. CASE gateways' = [gateways EXCEPT ![req[r].victim].pool = None]
    <3>1. gateways' \in [DOMAIN gateways -> Gateway]
      BY <1>1, <2>2, CloseLeaves, SMTT(60) DEF Gateway
    <3>. QED
      BY <1>1, <2>2, <3>1, CloseLeaves DEF LeavesGateways, Gateway
  <2>. QED
    BY <2>1, <2>2 DEF CloseEnds
<1>3. LeavesPools(r)
  <2>1. CASE UNCHANGED pools
    BY <2>1, LeftAlone, SMTT(60) DEF IndInv
  <2>2. CASE req[r].pool # None /\ pools' = [pools EXCEPT ![req[r].pool].state = "closed"]
    <3>1. pools' \in [DOMAIN pools -> Pool]
      BY <1>1, <2>2, CloseLeaves, SMTT(60) DEF Pool
    <3>. QED
      BY <1>1, <2>2, <3>1, CloseLeaves DEF LeavesPools, Pool
  <2>. QED
    BY <2>1, <2>2 DEF CloseEnds
<1>. QED
  BY <1>2, <1>3, CloseLeaves, SharedStep, SMTT(60)

\* A close that raises ends as well.
LEMMA CloseFailsStep == ASSUME IndInv, NEW r \in Requests, CloseFails(r) PROVE IndInv'
<1>1. gateways \in [DOMAIN gateways -> Gateway] /\ pools \in [DOMAIN pools -> Pool]
  BY Lists DEF IndInv
<1>2. LeavesGateways(r)
  BY LeftAlone DEF IndInv, CloseFails
<1>3. LeavesPools(r)
  <2>1. req[r].pool # None /\ pools' = [pools EXCEPT ![req[r].pool].state = "closed"]
    BY DEF CloseFails
  <2>2. pools' \in [DOMAIN pools -> Pool]
    BY <1>1, <2>1, CloseLeaves, SMTT(60) DEF Pool
  <2>. QED
    BY <1>1, <2>1, <2>2, CloseLeaves DEF LeavesPools, Pool
<1>. QED
  BY <1>2, <1>3, CloseLeaves, SharedStep

\* The schema lock has one holder, and without it a schema was cached.
LEMMA SchemaLockStep == ASSUME IndInv, NEW r \in Requests, SchemaLock(r) PROVE IndInv'
<1>. DEFINE g == req[r].gw
            q == [req[r] EXCEPT !.pc = "get",
                                !.phase = IF gateways[g].schema
                                          THEN "execute" ELSE "schema"]
<1>1. /\ req[r] \in Request /\ req[r].pc = "slock" /\ g \in DOMAIN gateways
      /\ gateways[g].slock = None /\ up /\ UNCHANGED <<lock, cache, pools, up>>
  BY DEF IndInv, TypeOK, SchemaLock, Uses, Served, Steps
<1>2. gateways \in [DOMAIN gateways -> Gateway] /\ pools \in [DOMAIN pools -> Pool]
  BY Lists DEF IndInv
<1>3. q \in Request /\ req' = [req EXCEPT ![r] = q] /\ req'[r] = q
  BY <1>1, ZenonT(60) DEF IndInv, TypeOK, SchemaLock, Request, Steps
<1>4. /\ gateways' \in [DOMAIN gateways -> Gateway]
      /\ \A x \in DOMAIN gateways : /\ gateways'[x].key = gateways[x].key
                                    /\ gateways'[x].evicted = gateways[x].evicted
                                    /\ x # g => gateways'[x].slock = gateways[x].slock
                                    /\ gateways'[x].schema = gateways[x].schema
                                    /\ gateways'[x].pool = gateways[x].pool
      /\ ~ gateways[g].schema => gateways'[g].slock = r
  BY <1>1, <1>2 DEF SchemaLock, Gateway
<1>5. Holds(r)'
  BY <1>1, <1>3, <1>4 DEF IndInv, Holds, Discovering
<1>6. gateways[g].schema /\ ~ gateways[g].evicted => gateways[g].pool # None
  BY <1>1, SMTT(60) DEF IndInv, PoolsSound
<1>7. Uses(r)'
  BY <1>1, <1>3, <1>4, <1>6 DEF IndInv, Uses, Served, Steps
<1>. HIDE DEF q
<1>8. LeavesGateways(r)
  BY <1>1, <1>4 DEF LeavesGateways
<1>9. LeavesPools(r)
  BY <1>1, LeftAlone DEF IndInv
<1>. QED
  BY <1>1, <1>3, <1>5, <1>7, <1>8, <1>9, SharedStep

\* Giving the schema lock back changes nothing else.
LEMMA UnlockedIs ==
    ASSUME TypeOK, NEW r \in Requests, gateways' = Unlocked(r, gateways)
    PROVE  LeavesGateways(r)
<1>1. gateways \in [DOMAIN gateways -> Gateway]
  BY Lists
<1>2. gateways' \in [DOMAIN gateways -> Gateway]
  BY <1>1, SMTT(60) DEF Unlocked, Gateway
<1>. QED
  BY <1>1, <1>2 DEF Unlocked, LeavesGateways, Gateway

\* No pool was created.
LEMMA CreateFailsStep == ASSUME IndInv, NEW r \in Requests, CreateFails(r) PROVE IndInv'
<1>. DEFINE q == [req[r] EXCEPT !.pc = "failed"]
<1>1. /\ req[r] \in Request /\ req[r].pc = "creating"
      /\ gateways' = Unlocked(r, gateways) /\ UNCHANGED <<lock, cache, pools, up>>
  BY DEF IndInv, TypeOK, CreateFails
<1>2. LeavesGateways(r) /\ LeavesPools(r)
  BY <1>1, UnlockedIs, LeftAlone DEF IndInv
<1>3. q \in Request /\ req' = [req EXCEPT ![r] = q] /\ req'[r] = q
  BY <1>1 DEF IndInv, TypeOK, CreateFails, Goto, Request, Ends
<1>4. q.pc = "failed" /\ q.pool = None /\ q.gw = req[r].gw /\ q.key = req[r].key
  BY <1>1 DEF IndInv, Holds, Request
<1>. HIDE DEF q
<1>5. Holds(r)'
  BY <1>1, <1>3, <1>4 DEF IndInv, Holds, Discovering
<1>6. Uses(r)'
  BY <1>1, <1>2, <1>3, <1>4, SMTT(60) DEF IndInv, Uses, Served, Steps, LeavesGateways
<1>. QED
  BY <1>1, <1>2, <1>3, <1>5, <1>6, SharedStep

\* A request with its connection, and giving that back.
LEMMA ReleasedIs ==
    ASSUME IndInv, NEW r \in Requests, req[r].pc = "query", pools' = Released(r)
    PROVE  LeavesPools(r)
<1>1. pools \in [DOMAIN pools -> Pool] /\ req[r].pool \in DOMAIN pools
  BY Lists DEF IndInv, Holds
<1>2. pools' \in [DOMAIN pools -> Pool]
  BY <1>1 DEF Released, Pool
<1>. QED
  BY <1>1, <1>2 DEF Released, LeavesPools, Pool

\* A pool that takes no connection was evicted with its gateway.
LEMMA AcquireStep == ASSUME IndInv, NEW r \in Requests, Acquire(r) PROVE IndInv'
<1>. DEFINE g == req[r].gw
            p == gateways[g].pool
<1>1. /\ req[r] \in Request /\ req[r].pc = "get" /\ g \in DOMAIN gateways
      /\ p \in DOMAIN pools /\ pools[p].owner = g /\ up
      /\ (pools[p].state = "open" \/ gateways[g].evicted)
      /\ UNCHANGED <<lock, cache, up>>
  BY DEF IndInv, TypeOK, Acquire, Uses, Served, Steps, PoolsSound
<1>2. gateways \in [DOMAIN gateways -> Gateway] /\ pools \in [DOMAIN pools -> Pool]
  BY Lists DEF IndInv
<1>3. CASE pools[p].state = "open"
  <2>. DEFINE q == [req[r] EXCEPT !.pc = "query", !.pool = p]
  <2>1. /\ pools' = [pools EXCEPT ![p].users = @ \cup {r}]
        /\ req' = [req EXCEPT ![r] = q]
        /\ gateways' = gateways
    BY <1>1, <1>3 DEF Acquire, IndInv, TypeOK
  <2>2. q \in Request /\ req'[r] = q
    BY <1>1, <1>2, <2>1 DEF IndInv, TypeOK, Request, Steps, Gateway
  <2>3. /\ q.pc = "query" /\ q.pool = p /\ q.gw = g /\ q.key = req[r].key
        /\ q.phase = req[r].phase
    BY <1>1 DEF Request
  <2>. HIDE DEF q
  <2>4. pools' \in [DOMAIN pools -> Pool]
    BY <1>1, <1>2, <2>1, SMTT(60) DEF Pool
  <2>5. LeavesPools(r) /\ r \in pools'[p].users /\ pools'[p].owner = g
    BY <1>1, <1>2, <2>1, <2>4, SMTT(60) DEF LeavesPools, Pool
  <2>6. LeavesGateways(r)
    <3>1. TypeOK
      BY DEF IndInv
    <3>2. UNCHANGED gateways
      BY <2>1
    <3>. QED
      BY <3>1, <3>2, LeftAlone
  <2>7. Holds(r)'
    BY <1>1, <1>2, <2>1, <2>2, <2>3, <2>4, <2>5, SMTT(60) DEF IndInv, Holds, Discovering
  <2>8. Uses(r)'
    BY <1>1, <2>1, <2>2, <2>3 DEF IndInv, Uses, Served, Steps
  <2>. QED
    BY <1>1, <2>1, <2>2, <2>5, <2>6, <2>7, <2>8, SharedStep
<1>4. CASE pools[p].state # "open"
  <2>. DEFINE q == [req[r] EXCEPT !.pc = "internal"]
  <2>1. /\ pools' = pools
        /\ req' = [req EXCEPT ![r] = q]
        /\ gateways' = Unlocked(r, gateways)
    BY <1>1, <1>4 DEF Acquire, IndInv, TypeOK, Goto
  <2>2. q \in Request /\ req'[r] = q
    BY <1>1, <2>1 DEF IndInv, TypeOK, Request, Ends
  <2>3. q.pc = "internal" /\ q.pool = None /\ q.gw = g /\ q.key = req[r].key
    BY <1>1 DEF IndInv, Holds, Request
  <2>. HIDE DEF q
  <2>4. LeavesGateways(r) /\ LeavesPools(r)
    BY <2>1, UnlockedIs, LeftAlone DEF IndInv
  <2>5. Holds(r)'
    BY <1>1, <2>2, <2>3, SMTT(60) DEF IndInv, Holds, Discovering
  <2>6. Uses(r)'
    BY <1>1, <1>4, <2>2, <2>3, <2>4 DEF IndInv, Uses, Served, Steps, LeavesGateways
  <2>. QED
    BY <1>1, <2>1, <2>2, <2>4, <2>5, <2>6, SharedStep
<1>. QED
  BY <1>3, <1>4, SMTT(60)

\* The schema is cached by a request whose gateway has the pool it was read from.
LEMMA DiscoveredStep == ASSUME IndInv, NEW r \in Requests, Discovered(r) PROVE IndInv'
<1>. DEFINE g == req[r].gw
            q == [req[r] EXCEPT !.pc = "get", !.phase = "execute", !.pool = None]
<1>1. /\ req[r] \in Request /\ req[r].pc = "query" /\ g \in DOMAIN gateways /\ up
      /\ (gateways[g].evicted \/ gateways[g].pool # None)
      /\ UNCHANGED <<lock, cache, up>>
  BY NoneIsNot, SMTT(60) DEF IndInv, TypeOK, Discovered, Uses, Holds, Served, Steps
<1>2. gateways \in [DOMAIN gateways -> Gateway]
  BY Lists DEF IndInv
<1>3. q \in Request /\ req' = [req EXCEPT ![r] = q] /\ req'[r] = q
  BY <1>1 DEF IndInv, TypeOK, Discovered, Request, Steps
<1>4. q.phase = "execute" /\ q.pool = None
  BY <1>1 DEF Request
<1>5. q.pc = "get" /\ q.gw = g /\ q.key = req[r].key
  BY <1>1 DEF Request
<1>. HIDE DEF q
<1>6. LeavesPools(r)
  BY <1>1, ReleasedIs DEF Discovered
<1>7. LeavesGateways(r)
  <2>1. gateways' = [Unlocked(r, gateways) EXCEPT ![g].schema = TRUE]
    BY DEF Discovered
  <2>2. gateways' \in [DOMAIN gateways -> Gateway]
    <3>1. Unlocked(r, gateways) \in [DOMAIN gateways -> Gateway]
      BY <1>2 DEF Unlocked, Gateway
    <3>. QED
      BY <1>1, <2>1, <3>1, ZenonT(60) DEF Gateway
  <2>3. \A x \in DOMAIN gateways :
           /\ gateways'[x].key = gateways[x].key
           /\ gateways'[x].evicted = gateways[x].evicted
           /\ gateways'[x].pool = gateways[x].pool
           /\ gateways[x].slock # r => gateways'[x].slock = gateways[x].slock
           /\ x # g => gateways'[x].schema = gateways[x].schema
    BY <1>1, <1>2, <2>1, ZenonT(60) DEF Unlocked, Gateway
  <2>. QED
    BY <1>1, <2>2, <2>3 DEF LeavesGateways
<1>8. Holds(r)'
  BY <1>1, <1>3, <1>4, <1>5, SMTT(60) DEF IndInv, Holds, Discovering
<1>9. Uses(r)'
  BY <1>1, <1>3, <1>4, <1>5, <1>7 DEF IndInv, Uses, Served, Steps, LeavesGateways
<1>. QED
  BY <1>1, <1>3, <1>6, <1>7, <1>8, <1>9, SharedStep

\* A statement's rows are read.
LEMMA ExecutedStep == ASSUME IndInv, NEW r \in Requests, Executed(r) PROVE IndInv'
<1>1. PICK pc \in {"answered", "call"} :
        /\ pc = "call" => req[r].calls < MaxCalls
        /\ req' = [req EXCEPT ![r].pc = pc, ![r].pool = None]
  BY DEF Executed
<1>. DEFINE q == [req[r] EXCEPT !.pc = pc, !.pool = None]
<1>2. /\ req[r] \in Request /\ req[r].pc = "query" /\ req[r].gw \in DOMAIN gateways /\ up
      /\ UNCHANGED <<lock, cache, gateways, up>>
  BY DEF IndInv, TypeOK, Executed, Uses, Served, Steps
<1>3. q \in Request /\ req' = [req EXCEPT ![r] = q] /\ req'[r] = q
  BY <1>1, <1>2 DEF IndInv, TypeOK, Request, Steps, Ends
<1>4. /\ q.pc = pc /\ q.pool = None /\ q.gw = req[r].gw /\ q.key = req[r].key
      /\ q.calls = req[r].calls
  BY <1>2 DEF Request
<1>. HIDE DEF q
<1>5. LeavesPools(r) /\ LeavesGateways(r)
  BY <1>2, ReleasedIs, LeftAlone DEF Executed, IndInv
<1>6. Holds(r)'
  BY <1>1, <1>2, <1>3, <1>4, SMTT(60) DEF IndInv, Holds, Discovering
<1>7. Uses(r)'
  BY <1>1, <1>2, <1>3, <1>4 DEF IndInv, Uses, Served, Steps
<1>. QED
  BY <1>2, <1>3, <1>5, <1>6, <1>7, SharedStep

\* A query fails.
LEMMA QueryFailsStep == ASSUME IndInv, NEW r \in Requests, QueryFails(r) PROVE IndInv'
<1>. DEFINE q == [req[r] EXCEPT !.pc = "failed", !.pool = None]
<1>1. req[r] \in Request /\ req[r].pc = "query" /\ UNCHANGED <<lock, cache, up>>
  BY DEF IndInv, TypeOK, QueryFails
<1>2. q \in Request /\ req' = [req EXCEPT ![r] = q] /\ req'[r] = q
  BY <1>1 DEF IndInv, TypeOK, QueryFails, Request, Ends
<1>3. q.pc = "failed" /\ q.pool = None /\ q.gw = req[r].gw /\ q.key = req[r].key
  BY <1>1 DEF Request
<1>. HIDE DEF q
<1>4. LeavesPools(r) /\ LeavesGateways(r)
  BY <1>1, ReleasedIs, UnlockedIs DEF QueryFails, IndInv
<1>5. Holds(r)'
  BY <1>1, <1>2, <1>3 DEF IndInv, Holds, Discovering
<1>6. Uses(r)'
  BY <1>1, <1>2, <1>3, <1>4 DEF IndInv, Uses, Served, Steps, LeavesGateways
<1>. QED
  BY <1>1, <1>2, <1>4, <1>5, <1>6, SharedStep

\* A schema cache passes its age limit.
LEMMA ExpireStep == ASSUME IndInv, NEW g \in DOMAIN gateways, Expire(g) PROVE IndInv'
<1>1. /\ gateways \in [DOMAIN gateways -> Gateway] /\ pools \in [DOMAIN pools -> Pool]
      /\ gateways' = [gateways EXCEPT ![g].schema = FALSE]
      /\ UNCHANGED <<lock, cache, pools, req, up>>
  BY Lists DEF IndInv, Expire
<1>2. gateways' \in [DOMAIN gateways -> Gateway]
  BY <1>1, ZenonT(60) DEF Gateway
<1>3. \A x \in DOMAIN gateways :
         /\ gateways'[x].key = gateways[x].key
         /\ gateways'[x].evicted <=> gateways[x].evicted
         /\ gateways'[x].slock = gateways[x].slock
         /\ gateways'[x].pool = gateways[x].pool
         /\ gateways'[x].schema => gateways[x].schema
  BY <1>1 DEF Gateway
<1>4. TypeOK'
  BY <1>1, <1>2, SameLengths DEF IndInv, TypeOK
<1>5. DOMAIN gateways' = DOMAIN gateways
  BY <1>2
<1>6. CacheSound'
  <2>1. \A i \in DOMAIN cache : cache[i] \in DOMAIN gateways
    BY Lists DEF IndInv
  <2>. QED
    BY <1>1, <1>3, <2>1 DEF IndInv, CacheSound
<1>7. PoolsSound'
  BY <1>1, <1>3, <1>5 DEF IndInv, PoolsSound
<1>8. ASSUME NEW s \in Requests PROVE Holds(s)' /\ Uses(s)'
  <2>1. req[s].pc \in Served => up'
    BY <1>1 DEF IndInv, Uses
  <2>2. Holds(s)'
    BY <1>1, <1>3, <1>5, HoldsStays
  <2>3. Uses(s)'
    BY <1>1, <1>3, <1>5, <2>1, UsesStays
  <2>. QED
    BY <2>2, <2>3
<1>. QED
  BY <1>4, <1>6, <1>7, <1>8 DEF IndInv

\* A pool created for a gateway that was not evicted is its first: whoever else
\* uses the gateway waits for the schema this request is reading.
LEMMA CreateEndsStep == ASSUME IndInv, NEW r \in Requests, CreateEnds(r) PROVE IndInv'
<1>. DEFINE g == req[r].gw
            p == Len(pools) + 1
            q == [req[r] EXCEPT !.pc = "query", !.pool = p]
            new == [owner |-> g, state |-> "open", users |-> {r}]
<1>1. /\ req[r] \in Request /\ req[r].pc = "creating" /\ g \in DOMAIN gateways /\ up
      /\ pools' = Append(pools, new)
      /\ gateways' = [gateways EXCEPT ![g].pool = p]
      /\ UNCHANGED <<lock, cache, up>>
  BY DEF IndInv, TypeOK, CreateEnds, Uses, Served, Steps
<1>2. /\ gateways \in [DOMAIN gateways -> Gateway] /\ pools \in [DOMAIN pools -> Pool]
      /\ Len(pools) \in Nat /\ DOMAIN pools = 1..Len(pools) /\ pools \in Seq(Pool)
      /\ DOMAIN gateways = 1..Len(gateways) /\ Len(gateways) \in Nat
  BY Lists DEF IndInv, TypeOK
<1>3. p \in Nat /\ p \notin DOMAIN pools /\ p # None
  BY <1>2, ConstantsAssumption
<1>4. q \in Request /\ req' = [req EXCEPT ![r] = q] /\ req'[r] = q
  BY <1>1, <1>3 DEF IndInv, TypeOK, CreateEnds, Request, Steps
<1>5. /\ q.pc = "query" /\ q.pool = p /\ q.gw = g /\ q.key = req[r].key
      /\ q.phase = req[r].phase
  BY <1>1 DEF Request
<1>6. /\ pools' \in Seq(Pool) /\ DOMAIN pools' = 1..p
      /\ \A x \in DOMAIN pools : pools'[x] = pools[x]
      /\ pools'[p] = new
  <2>1. new \in Pool
    BY <1>1, <1>2 DEF Pool
  <2>. QED
    BY <1>1, <1>2, <2>1, AppendProperties
<1>7. gateways' \in [DOMAIN gateways -> Gateway]
  BY <1>1, <1>2, <1>3, ZenonT(60) DEF Gateway
<1>8. \A x \in DOMAIN gateways :
         /\ gateways'[x].key = gateways[x].key
         /\ gateways'[x].evicted <=> gateways[x].evicted
         /\ gateways'[x].slock = gateways[x].slock
         /\ gateways'[x].schema <=> gateways[x].schema
         /\ gateways'[x].pool = IF x = g THEN p ELSE gateways[x].pool
  BY <1>1, <1>2 DEF Gateway
<1>. HIDE DEF q, p
<1>9. pools'[p].owner = g /\ pools'[p].state = "open" /\ r \in pools'[p].users
  BY <1>6
<1>. HIDE DEF new
<1>10. ~ gateways[g].evicted =>
         /\ gateways[g].pool = None /\ req[r].phase = "schema"
         /\ \A x \in DOMAIN pools : pools[x].owner # g
  BY <1>1, NoneIsNot DEF IndInv, Uses, PoolsSound
<1>11. TypeOK'
  <2>1. gateways' \in Seq(Gateway) /\ Len(gateways') = Len(gateways)
    BY <1>2, <1>7, FunctionIsSeq
  <2>2. req' \in [Requests -> Request]
    BY <1>4 DEF IndInv, TypeOK
  <2>. QED
    BY <1>1, <1>6, <2>1, <2>2 DEF IndInv, TypeOK
<1>12. /\ DOMAIN gateways' = DOMAIN gateways
       /\ \A x \in DOMAIN pools' : x \in DOMAIN pools \/ x = p
       /\ DOMAIN pools \subseteq DOMAIN pools' /\ p \in DOMAIN pools'
  BY <1>2, <1>3, <1>6, <1>7 DEF p
<1>13. CacheSound'
  <2>1. \A i \in DOMAIN cache : cache[i] \in DOMAIN gateways
    BY Lists DEF IndInv
  <2>. QED
    BY <1>1, <1>8, <2>1 DEF IndInv, CacheSound
<1>14. PoolsSound'
  <2>1. \A x \in DOMAIN gateways' : LET y == gateways'[x].pool IN
          y # None => y \in DOMAIN pools' /\ pools'[y].owner = x
    BY <1>6, <1>8, <1>9, <1>12 DEF IndInv, PoolsSound
  <2>2. \A y \in DOMAIN pools' : LET x == pools'[y].owner IN
          /\ x \in DOMAIN gateways'
          /\ up' /\ ~ gateways'[x].evicted =>
               pools'[y].state = "open" /\ gateways'[x].pool = y
    BY <1>1, <1>6, <1>8, <1>9, <1>10, <1>12 DEF IndInv, PoolsSound
  <2>3. \A x \in DOMAIN gateways' :
          up' /\ ~ gateways'[x].evicted /\ gateways'[x].schema => gateways'[x].pool # None
    BY <1>1, <1>3, <1>8, <1>12 DEF IndInv, PoolsSound
  <2>4. up'
    BY <1>1, SMTT(60)
  <2>. QED
    BY <2>1, <2>2, <2>3, <2>4 DEF PoolsSound
<1>15. Holds(r)'
  BY <1>1, <1>4, <1>5, <1>8, <1>9, <1>12, SMTT(60) DEF IndInv, Holds, Discovering
<1>16. Uses(r)'
  BY <1>1, <1>4, <1>5, <1>8, <1>12 DEF IndInv, Uses, Served, Steps
<1>17. ASSUME NEW s \in Requests, s # r PROVE Holds(s)' /\ Uses(s)'
  <2>1. req'[s] = req[s]
    BY <1>4, <1>17 DEF IndInv, TypeOK
  <2>2. req[s].pc \in Served => up'
    BY <1>1 DEF IndInv, Uses
  <2>3. ASSUME req[s].pc \in {"query", "creating", "get"}, req[s].gw = g
        PROVE  gateways[g].evicted
    <3>. SUFFICES ASSUME ~ gateways[g].evicted PROVE FALSE
      OBVIOUS
    <3>1. gateways[g].slock = r
      BY <1>1, <1>10 DEF IndInv, Holds, Discovering
    <3>2. ~ Discovering(s)
      BY <1>17, <2>3, <3>1 DEF IndInv, Holds
    <3>3. req[s] \in Request
      BY DEF IndInv, TypeOK
    <3>4. req[s].pc = "query" => req[s].pool # None
      BY NoneIsNot DEF IndInv, Holds
    <3>5. req[s].phase = "execute"
      BY <2>3, <3>2, <3>3 DEF Discovering, Request
    <3>6. /\ req[s].pc = "query" => gateways[g].pool = req[s].pool
          /\ req[s].pc = "creating" => req[s].phase = "schema"
          /\ req[s].pc = "get" => gateways[g].pool # None
      BY <1>1, <2>3, <3>5, NoneIsNot DEF IndInv, Uses
    <3>. QED
      BY <1>10, <2>3, <3>4, <3>5, <3>6
  <2>4. Holds(s)'
    BY <1>1, <1>6, <1>8, <1>12, <2>1, HoldsStays
  <2>5. Uses(s)'
    BY <1>1, <1>8, <1>12, <2>1, <2>2, <2>3, UsesStays
  <2>. QED
    BY <2>4, <2>5
<1>. QED
  BY <1>11, <1>13, <1>14, <1>15, <1>16, <1>17 DEF IndInv

\* Nobody is served when the provider closes what is cached.
LEMMA ShutdownStep == ASSUME IndInv, Shutdown PROVE IndInv'
<1>1. /\ gateways \in [DOMAIN gateways -> Gateway] /\ pools \in [DOMAIN pools -> Pool]
      /\ UNCHANGED <<lock, req>> /\ up' = FALSE /\ cache' = <<>> /\ lock = None
      /\ \A r \in Requests : req[r].pc \in Ends \cup {"start"}
  BY Lists DEF IndInv, Shutdown
<1>2. /\ gateways' \in [DOMAIN gateways -> Gateway]
      /\ \A x \in DOMAIN gateways :
           /\ gateways'[x].key = gateways[x].key
           /\ gateways'[x].evicted <=> gateways[x].evicted
           /\ gateways'[x].slock = gateways[x].slock
           /\ (gateways'[x].pool = gateways[x].pool \/ gateways'[x].pool = None)
  BY <1>1, SMTT(60) DEF Shutdown, Gateway
<1>3. /\ pools' \in [DOMAIN pools -> Pool]
      /\ \A x \in DOMAIN pools : /\ pools'[x].owner = pools[x].owner
                                 /\ pools'[x].users = pools[x].users
  BY <1>1, ZenonT(60) DEF Shutdown, Pool
<1>4. TypeOK'
  <2>1. gateways' \in Seq(Gateway) /\ Len(gateways') = Len(gateways) /\ pools' \in Seq(Pool)
    BY <1>2, <1>3, Lists, FunctionIsSeq DEF IndInv
  <2>2. cache' \in Seq(1..Len(gateways'))
    BY <1>1
  <2>. QED
    BY <1>1, <2>1, <2>2 DEF IndInv, TypeOK
<1>5. CacheSound'
  BY <1>1, ConstantsAssumption DEF CacheSound
<1>6. DOMAIN gateways' = DOMAIN gateways /\ DOMAIN pools' = DOMAIN pools
  BY <1>2, <1>3
<1>7. PoolsSound'
  BY <1>1, <1>2, <1>3, <1>6, SMTT(60) DEF IndInv, PoolsSound
<1>8. ASSUME NEW s \in Requests PROVE Holds(s)' /\ Uses(s)'
  <2>1. req[s].pc \notin Served
    BY <1>1 DEF Ends, Served, Steps
  <2>2. req[s].pc \notin {"query", "creating", "get"}
    BY <2>1 DEF Served, Steps
  <2>3. Holds(s)'
    BY <1>1, <1>2, <1>3, <1>6, HoldsStays
  <2>4. Uses(s)'
    BY <1>1, <1>2, <1>6, <2>1, <2>2, UsesStays
  <2>. QED
    BY <2>3, <2>4
<1>. QED
  BY <1>4, <1>5, <1>7, <1>8 DEF IndInv

\* Removing an element shifts the ones behind it.
LEMMA RemoveAtIs ==
    ASSUME NEW S, NEW s \in Seq(S), NEW i \in 1..Len(s)
    PROVE  /\ RemoveAt(s, i) \in Seq(S) /\ Len(RemoveAt(s, i)) = Len(s) - 1
           /\ \A j \in 1..(Len(s) - 1) :
                RemoveAt(s, i)[j] = IF j < i THEN s[j] ELSE s[j + 1]
<1>. DEFINE a == SubSeq(s, 1, i - 1)
            b == SubSeq(s, i + 1, Len(s))
<1>1. Len(s) \in Nat /\ i \in Nat /\ 1 =< i /\ i =< Len(s) /\ \A j \in 1..Len(s) : s[j] \in S
  BY LenProperties
<1>2. a \in Seq(S) /\ Len(a) = i - 1 /\ \A j \in 1..(i - 1) : a[j] = s[j]
  BY <1>1, SubSeqProperties
<1>3. /\ b \in Seq(S) /\ Len(b) = Len(s) - i
      /\ \A j \in 1..(Len(s) - i) : b[j] = s[i + j]
  BY <1>1, SubSeqProperties
<1>. HIDE DEF a, b
<1>4. /\ a \o b \in Seq(S) /\ Len(a \o b) = Len(s) - 1
      /\ \A j \in 1..(Len(s) - 1) : (a \o b)[j] = IF j =< i - 1 THEN a[j] ELSE b[j - (i - 1)]
  BY <1>1, <1>2, <1>3, ConcatProperties, SMTT(60)
<1>5. ASSUME NEW j \in 1..(Len(s) - 1)
      PROVE  (a \o b)[j] = IF j < i THEN s[j] ELSE s[j + 1]
  <2>1. CASE j < i
    BY <1>1, <1>2, <1>4, <2>1
  <2>2. CASE ~ (j < i)
    <3>1. j - (i - 1) \in 1..(Len(s) - i) /\ i + (j - (i - 1)) = j + 1
      BY <1>1, <2>2
    <3>. QED
      BY <1>1, <1>3, <1>4, <2>2, <3>1, SMTT(60)
  <2>. QED
    BY <2>1, <2>2
<1>. QED
  BY <1>4, <1>5 DEF RemoveAt, a, b

\* Moving an element to the end reorders the list.
LEMMA MovedToEnd ==
    ASSUME NEW S, NEW s \in Seq(S), NEW i \in 1..Len(s),
           NEW t, t = Append(RemoveAt(s, i), s[i])
    PROVE  /\ t \in Seq(S) /\ Len(t) = Len(s)
           /\ \A j \in 1..Len(s) :
                t[j] = s[IF j < i THEN j ELSE IF j < Len(s) THEN j + 1 ELSE i]
<1>. DEFINE w == RemoveAt(s, i)
<1>1. Len(s) \in Nat /\ i \in Nat /\ 1 =< i /\ i =< Len(s) /\ s[i] \in S
  BY LenProperties
<1>2. /\ w \in Seq(S) /\ Len(w) = Len(s) - 1
      /\ \A j \in 1..(Len(s) - 1) : w[j] = IF j < i THEN s[j] ELSE s[j + 1]
  BY RemoveAtIs
<1>3. t = Append(w, s[i])
  OBVIOUS
<1>. HIDE DEF w
<1>4. /\ t \in Seq(S) /\ Len(t) = Len(w) + 1 /\ t[Len(w) + 1] = s[i]
      /\ \A j \in 1..Len(w) : t[j] = w[j]
  BY <1>1, <1>2, <1>3, AppendProperties
<1>5. ASSUME NEW j \in 1..Len(s)
      PROVE  t[j] = s[IF j < i THEN j ELSE IF j < Len(s) THEN j + 1 ELSE i]
  <2>1. CASE j < Len(s)
    <3>1. j \in 1..(Len(s) - 1) /\ j \in 1..Len(w)
      BY <1>1, <1>2, <2>1
    <3>. QED
      BY <1>2, <1>4, <2>1, <3>1
  <2>2. CASE j = Len(s)
    <3>1. Len(w) + 1 = j /\ ~ (j < i) /\ ~ (j < Len(s))
      BY <1>1, <1>2, <2>2
    <3>. QED
      BY <1>4, <3>1
  <2>3. j < Len(s) \/ j = Len(s)
    BY <1>1
  <2>. QED
    BY <2>1, <2>2, <2>3
<1>. QED
  BY <1>1, <1>2, <1>4, <1>5

\* The most recently used gateway moves to the end: the cache is in another
\* order.
LEMMA HitStep == ASSUME IndInv, NEW r \in Requests, Hit(r) PROVE IndInv'
<1>. DEFINE n == Len(cache)
<1>1. PICK i \in DOMAIN cache :
        /\ cache[i] \in Cached(req[r].key)
        /\ cache' = Append(RemoveAt(cache, i), cache[i])
        /\ req' = [req EXCEPT ![r].pc = "call", ![r].gw = cache[i]]
  BY DEF Hit
<1>. DEFINE q == [req[r] EXCEPT !.pc = "call", !.gw = cache[i]]
            f == [j \in 1..n |-> IF j < i THEN j ELSE IF j < n THEN j + 1 ELSE i]
<1>2. /\ req[r] \in Request /\ req[r].pc = "enter"
      /\ UNCHANGED <<lock, gateways, pools, up>>
  BY DEF IndInv, TypeOK, Hit
<1>3. /\ n \in Nat /\ DOMAIN cache = 1..n /\ i \in 1..n
      /\ cache \in Seq(DOMAIN gateways)
      /\ cache[i] \in DOMAIN gateways /\ cache[i] \in Nat
      /\ DOMAIN gateways = 1..Len(gateways) /\ Len(gateways) \in Nat
      /\ gateways \in [DOMAIN gateways -> Gateway] /\ pools \in [DOMAIN pools -> Pool]
  BY Lists DEF IndInv, TypeOK
<1>4. gateways[cache[i]].key = req[r].key
  BY <1>1 DEF Cached
<1>5. q \in Request /\ req' = [req EXCEPT ![r] = q] /\ req'[r] = q
  BY <1>1, <1>2, <1>3 DEF IndInv, TypeOK, Request, Steps
<1>6. /\ q.pc = "call" /\ q.gw = cache[i] /\ q.key = req[r].key /\ q.pool = None
      /\ q.calls = req[r].calls
  BY <1>2 DEF IndInv, Holds, Request
<1>. HIDE DEF q
<1>7. cache' \in Seq(DOMAIN gateways) /\ Len(cache') = n /\ \A j \in 1..n : cache'[j] = cache[f[j]]
  <2>1. PICK G, s, t : G = DOMAIN gateways /\ s = cache /\ t = cache'
    OBVIOUS
  <2>2. s \in Seq(G) /\ i \in 1..Len(s)
    BY <1>3, <2>1
  <2>3. t = Append(RemoveAt(s, i), s[i])
    BY <1>1, <2>1
  <2>4. t \in Seq(G) /\ Len(t) = Len(s)
    BY <2>2, <2>3, MovedToEnd, ZenonT(60)
  <2>5. \A j \in 1..Len(s) :
           t[j] = s[IF j < i THEN j ELSE IF j < Len(s) THEN j + 1 ELSE i]
    BY ONLY <2>2, <2>3, MovedToEnd, SMTT(90)
  <2>. QED
    BY <2>1, <2>4, <2>5
<1>8. /\ \A j \in 1..n : f[j] \in 1..n
      /\ \A j, k \in 1..n : f[j] = f[k] => j = k
  BY <1>3, SMTT(90)
<1>. HIDE DEF f
<1>9. DOMAIN cache' = 1..n
  BY <1>3, <1>7, LenProperties
<1>10. CacheSound'
  <2>1. \A j, k \in 1..n : gateways[cache[j]].key = gateways[cache[k]].key => j = k
    BY <1>3 DEF IndInv, CacheSound
  <2>2. ASSUME NEW j \in 1..n, NEW k \in 1..n,
               gateways[cache'[j]].key = gateways[cache'[k]].key
        PROVE  j = k
    <3>1. gateways[cache[f[j]]].key = gateways[cache[f[k]]].key
      BY <1>7, <2>2
    <3>. QED
      BY <1>8, <2>1, <3>1
  <2>3. \A j \in 1..n : ~ gateways[cache'[j]].evicted
    BY <1>3, <1>7, <1>8 DEF IndInv, CacheSound
  <2>4. up
    BY <1>2 DEF IndInv, Uses, Served, Steps
  <2>. QED
    BY <1>2, <1>7, <1>9, <2>2, <2>3, <2>4 DEF IndInv, CacheSound
<1>11. TypeOK'
  BY <1>2, <1>3, <1>5, <1>7 DEF IndInv, TypeOK
<1>12. PoolsSound'
  BY <1>2 DEF IndInv, PoolsSound
<1>13. Holds(r)'
  BY <1>2, <1>5, <1>6 DEF IndInv, Holds, Discovering
<1>14. Uses(r)'
  BY <1>2, <1>3, <1>4, <1>5, <1>6, NoneIsNot DEF IndInv, Uses, Served, Steps
<1>15. ASSUME NEW s \in Requests, s # r PROVE Holds(s)' /\ Uses(s)'
  <2>1. req'[s] = req[s]
    BY <1>5, <1>15 DEF IndInv, TypeOK
  <2>2. req[s].pc \in Served => up'
    BY <1>2 DEF IndInv, Uses
  <2>. QED
    BY <1>2, <2>1, <2>2, HoldsStays, UsesStays
<1>. QED
  BY <1>10, <1>11, <1>12, <1>13, <1>14, <1>15 DEF IndInv

\* Pushing one element in and the first one out.
LEMMA PushedOut ==
    ASSUME NEW S, NEW s \in Seq(S), Len(s) # 0, NEW e \in S
    PROVE  /\ Head(Append(s, e)) = s[1]
           /\ Tail(Append(s, e)) \in Seq(S) /\ Len(Tail(Append(s, e))) = Len(s)
           /\ \A j \in 1..Len(s) :
                Tail(Append(s, e))[j] = IF j < Len(s) THEN s[j + 1] ELSE e
<1>. DEFINE t == Append(s, e)
<1>1. Len(s) \in Nat
  BY LenProperties
<1>2. /\ t \in Seq(S) /\ t # <<>> /\ Len(t) = Len(s) + 1 /\ t[Len(s) + 1] = e
      /\ \A j \in 1..Len(s) : t[j] = s[j]
  BY AppendProperties
<1>. HIDE DEF t
<1>3. Head(t) = t[1]
  BY <1>2, HeadTailProperties
<1>4. Tail(t) \in Seq(S) /\ Len(Tail(t)) = Len(t) - 1
  BY <1>2, HeadTailProperties
<1>5. \A j \in 1..Len(s) : Tail(t)[j] = t[j + 1]
  BY <1>1, <1>2, HeadTailProperties
<1>6. ASSUME NEW j \in 1..Len(s)
      PROVE  Tail(t)[j] = IF j < Len(s) THEN s[j + 1] ELSE e
  <2>1. CASE j < Len(s)
    BY <1>1, <1>2, <1>5, <2>1
  <2>2. CASE ~ (j < Len(s))
    <3>1. j = Len(s)
      BY <1>1, <2>2
    <3>. QED
      BY <1>2, <1>5, <2>2, <3>1
  <2>. QED
    BY <2>1, <2>2
<1>7. t[1] = s[1]
  BY <1>1, <1>2
<1>8. Len(Tail(t)) = Len(s)
  BY <1>1, <1>2, <1>4
<1>. QED
  BY <1>3, <1>4, <1>6, <1>7, <1>8 DEF t

\* A gateway of a key that is not cached enters the cache and, past the limit,
\* the least recently used one leaves it, evicted.
LEMMA InsertStep == ASSUME IndInv, NEW r \in Requests, Insert(r) PROVE IndInv'
<1>. DEFINE n == Len(cache)
            g == Len(gateways) + 1
            full == Append(cache, g)
            over == Len(full) > MaxCached
            h == Head(full)
            key == req[r].key
            q == [req[r] EXCEPT !.gw = g,
                                !.victim = IF over THEN h ELSE None,
                                !.pc = IF over THEN "closing" ELSE "call"]
<1>1. /\ req[r] \in Request /\ req[r].pc = "enter" /\ lock = None
      /\ \A i \in DOMAIN cache : gateways[cache[i]].key # key
      /\ cache' = IF over THEN Tail(full) ELSE full
      /\ lock' = IF over THEN r ELSE None
      /\ gateways' = [x \in 1..g |->
                IF x = g THEN New(key)
                ELSE [gateways[x] EXCEPT !.evicted = @ \/ (over /\ x = h)]]
      /\ req' = [req EXCEPT ![r] = q]
      /\ UNCHANGED <<pools, up>>
  BY DEF IndInv, TypeOK, Insert, Cached, Range
<1>2. /\ n \in Nat /\ DOMAIN cache = 1..n /\ n =< MaxCached
      /\ Len(gateways) \in Nat /\ DOMAIN gateways = 1..Len(gateways)
      /\ gateways \in [DOMAIN gateways -> Gateway] /\ pools \in [DOMAIN pools -> Pool]
      /\ \A i \in 1..n : cache[i] \in DOMAIN gateways
      /\ MaxCached \in Nat /\ MaxCached # 0
  BY Lists, ConstantsAssumption DEF IndInv, CacheSound
<1>3. /\ g \in Nat /\ g \in 1..g /\ g \notin DOMAIN gateways /\ g # None
      /\ DOMAIN gateways \subseteq 1..g
      /\ \A x \in 1..g : x \in DOMAIN gateways \/ x = g
      /\ \A x \in DOMAIN gateways : x \in Nat /\ x # None
  BY <1>2, ConstantsAssumption
<1>. HIDE DEF g
<1>4. cache \in Seq(1..g) /\ g \in 1..g
  BY <1>2, <1>3 DEF IndInv, TypeOK
<1>5. /\ full \in Seq(1..g) /\ Len(full) = n + 1 /\ full[n + 1] = g
      /\ \A j \in 1..n : full[j] = cache[j]
  BY <1>4, AppendProperties
<1>6. over => /\ n # 0 /\ h = cache[1] /\ h \in DOMAIN gateways
              /\ Tail(full) \in Seq(1..g) /\ Len(Tail(full)) = n
              /\ \A j \in 1..n : Tail(full)[j] = IF j < n THEN cache[j + 1] ELSE g
  <2>. SUFFICES ASSUME over PROVE /\ n # 0 /\ h = cache[1] /\ h \in DOMAIN gateways
              /\ Tail(full) \in Seq(1..g) /\ Len(Tail(full)) = n
              /\ \A j \in 1..n : Tail(full)[j] = IF j < n THEN cache[j + 1] ELSE g
    OBVIOUS
  <2>1. n # 0
    BY <1>2, <1>5
  <2>2. /\ h = cache[1] /\ Tail(full) \in Seq(1..g) /\ Len(Tail(full)) = n
        /\ \A j \in 1..n : Tail(full)[j] = IF j < n THEN cache[j + 1] ELSE g
    <3>1. h = cache[1]
      BY <1>4, <2>1, PushedOut
    <3>2. Tail(full) \in Seq(1..g) /\ Len(Tail(full)) = n
      BY <1>4, <2>1, PushedOut, SMTT(60)
    <3>3. \A j \in 1..n : Tail(full)[j] = IF j < n THEN cache[j + 1] ELSE g
      BY ONLY <1>4, <2>1, PushedOut
    <3>. QED
      BY <3>1, <3>2, <3>3
  <2>3. cache[1] \in DOMAIN gateways
    BY <1>2, <2>1
  <2>. QED
    BY <2>1, <2>2, <2>3
<1>. HIDE DEF full, h, n
<1>7. /\ gateways' \in [1..g -> Gateway]
      /\ \A x \in DOMAIN gateways :
           /\ gateways'[x].key = gateways[x].key
           /\ gateways'[x].schema = gateways[x].schema
           /\ gateways'[x].slock = gateways[x].slock
           /\ gateways'[x].pool = gateways[x].pool
           /\ gateways'[x].evicted <=> gateways[x].evicted \/ (over /\ x = h)
      /\ gateways'[g].key = key /\ gateways'[g].pool = None
      /\ ~ gateways'[g].evicted /\ ~ gateways'[g].schema
  <2>1. key \in Keys
    BY <1>1 DEF Request
  <2>. HIDE DEF over, key
  <2>2. New(key) \in Gateway
    BY <2>1 DEF New, Gateway
  <2>3. gateways' \in [1..g -> Gateway]
    <3>1. ASSUME NEW x \in 1..g PROVE gateways'[x] \in Gateway
      <4>1. CASE x = g
        BY <1>1, <2>2, <4>1
      <4>2. CASE x # g
        <5>1. x \in DOMAIN gateways
          BY <1>3, <4>2
        <5>. QED
          BY <1>1, <1>2, <4>2, <5>1, ZenonT(60) DEF Gateway
      <4>. QED
        BY <4>1, <4>2
    <3>. QED
      BY <1>1, <3>1
  <2>4. gateways'[g] = New(key)
    BY <1>1, <1>4
  <2>5. \A x \in DOMAIN gateways :
          gateways'[x] = [gateways[x] EXCEPT !.evicted = @ \/ (over /\ x = h)]
    BY <1>1, <1>2, <1>3
  <2>6. \A x \in DOMAIN gateways :
           /\ gateways'[x].key = gateways[x].key
           /\ gateways'[x].slock = gateways[x].slock
           /\ gateways'[x].pool = gateways[x].pool
           /\ gateways'[x].schema = gateways[x].schema
    <3>. SUFFICES ASSUME NEW x \in DOMAIN gateways
                  PROVE  /\ gateways'[x].key = gateways[x].key
                         /\ gateways'[x].slock = gateways[x].slock
                         /\ gateways'[x].pool = gateways[x].pool
                         /\ gateways'[x].schema = gateways[x].schema
      OBVIOUS
    <3>1. gateways[x] \in Gateway
      BY <1>2
    <3>2. gateways'[x] = [gateways[x] EXCEPT !.evicted = @ \/ (over /\ x = h)]
      BY <2>5
    <3>. QED
      BY <3>1, <3>2 DEF Gateway
  <2>8. \A x \in DOMAIN gateways :
           gateways'[x].evicted <=> gateways[x].evicted \/ (over /\ x = h)
    <3>. SUFFICES ASSUME NEW x \in DOMAIN gateways
                  PROVE  gateways'[x].evicted <=> gateways[x].evicted \/ (over /\ x = h)
      OBVIOUS
    <3>1. gateways[x] \in Gateway
      BY <1>2
    <3>2. gateways'[x] = [gateways[x] EXCEPT !.evicted = @ \/ (over /\ x = h)]
      BY <2>5
    <3>. QED
      BY <3>1, <3>2 DEF Gateway
  <2>9. /\ gateways'[g].key = key /\ gateways'[g].pool = None
        /\ ~ gateways'[g].evicted /\ ~ gateways'[g].schema
    BY <2>4 DEF New
  <2>. QED
    BY <2>3, <2>6, <2>8, <2>9
<1>8. q \in Request /\ req' = [req EXCEPT ![r] = q] /\ req'[r] = q
  BY <1>1, <1>2, <1>3, <1>6, ZenonT(60) DEF IndInv, TypeOK, Request, Steps
<1>9. /\ q.pc = IF over THEN "closing" ELSE "call"
      /\ q.victim = IF over THEN h ELSE None
  BY <1>1 DEF Request
<1>10. q.gw = g /\ q.key = key /\ q.pool = None /\ q.calls = req[r].calls
  BY <1>1 DEF IndInv, Holds, Request
<1>. HIDE DEF q, key
<1>11. /\ cache' \in Seq(1..g) /\ Len(cache') =< MaxCached
       /\ \A j \in 1..Len(cache') : \/ cache'[j] = g
                                    \/ \E i \in 1..n : /\ cache'[j] = cache[i]
                                                       /\ over => i # 1
       /\ \A j, k \in 1..Len(cache') : cache'[j] = cache'[k] => j = k
  <2>1. \A i, j \in 1..n : cache[i] = cache[j] => i = j
    BY <1>2 DEF IndInv, CacheSound
  <2>2. \A i \in 1..n : cache[i] # g
    BY <1>2, <1>3
  <2>3. CASE ~ over
    <3>1. cache' = full /\ Len(full) =< MaxCached
      BY <1>1, <1>2, <1>5, <2>3
    <3>2. /\ cache' \in Seq(1..g) /\ Len(cache') = n + 1 /\ cache'[n + 1] = g
          /\ \A j \in 1..n : cache'[j] = cache[j]
      BY <1>5, <3>1
    <3>3. \A j \in 1..(n + 1) : j = n + 1 \/ j \in 1..n
      BY <1>2
    <3>4. \A j \in 1..(n + 1) : \/ cache'[j] = g
                                \/ \E i \in 1..n : cache'[j] = cache[i]
      BY <3>2, <3>3
    <3>5. \A j, k \in 1..(n + 1) : cache'[j] = cache'[k] => j = k
      BY <2>1, <2>2, <3>2, <3>3
    <3>. QED
      BY <2>3, <3>1, <3>2, <3>4, <3>5
  <2>4. CASE over
    <3>1. /\ cache' \in Seq(1..g) /\ Len(cache') = n
          /\ \A j \in 1..n : cache'[j] = IF j < n THEN cache[j + 1] ELSE g
      BY <1>1, <1>6, <2>4
    <3>2. \A j \in 1..n : \/ cache'[j] = g
                          \/ \E i \in 1..n : cache'[j] = cache[i] /\ i # 1
      <4>1. ASSUME NEW j \in 1..n, j < n
            PROVE  j + 1 \in 1..n /\ j + 1 # 1 /\ cache'[j] = cache[j + 1]
        BY <1>2, <3>1, <4>1
      <4>2. ASSUME NEW j \in 1..n, ~ (j < n) PROVE cache'[j] = g
        BY <3>1, <4>2
      <4>. QED
        BY <4>1, <4>2
    <3>3. ASSUME NEW j \in 1..n, NEW k \in 1..n, cache'[j] = cache'[k] PROVE j = k
      <4>1. CASE j < n /\ k < n
        <5>1. /\ j + 1 \in 1..n /\ cache'[j] = cache[j + 1]
              /\ k + 1 \in 1..n /\ cache'[k] = cache[k + 1]
          BY <1>2, <3>1, <4>1, SMTT(60)
        <5>2. j + 1 = k + 1
          BY <2>1, <3>3, <5>1
        <5>. QED
          BY <1>2, <5>2
      <4>2. CASE ~ (j < n) /\ ~ (k < n)
        BY <1>2, <4>2
      <4>3. CASE j < n /\ ~ (k < n)
        BY <1>2, <2>2, <3>1, <3>3, <4>3
      <4>4. CASE ~ (j < n) /\ k < n
        BY <1>2, <2>2, <3>1, <3>3, <4>4, SMTT(60)
      <4>. QED
        BY <4>1, <4>2, <4>3, <4>4
    <3>. QED
      BY <1>2, <2>4, <3>1, <3>2, <3>3
  <2>. QED
    BY <2>3, <2>4
<1>. HIDE DEF over
<1>12. TypeOK'
  <2>1. gateways' \in Seq(Gateway) /\ Len(gateways') = g
    BY <1>3, <1>7, FunctionIsSeq
  <2>2. req' \in [Requests -> Request]
    BY <1>8 DEF IndInv, TypeOK
  <2>. QED
    BY <1>1, <1>11, <2>1, <2>2 DEF IndInv, TypeOK
<1>13. /\ DOMAIN gateways' = 1..g /\ DOMAIN gateways \subseteq 1..g
       /\ \A x \in 1..g : x \in DOMAIN gateways \/ x = g
       /\ DOMAIN cache' = 1..Len(cache')
  BY <1>3, <1>7, <1>11, LenProperties
<1>14. up
  BY <1>1 DEF IndInv, Uses, Served, Steps
<1>15. CacheSound'
  <2>1. \A i, j \in 1..n : gateways[cache[i]].key = gateways[cache[j]].key => i = j
    BY <1>2 DEF IndInv, CacheSound
  <2>2. \A i \in 1..n : /\ gateways'[cache[i]].key = gateways[cache[i]].key
                        /\ gateways[cache[i]].key # key
    BY <1>1, <1>2, <1>7
  <2>3. ASSUME NEW j \in 1..Len(cache'), NEW k \in 1..Len(cache'),
               gateways'[cache'[j]].key = gateways'[cache'[k]].key
        PROVE  cache'[j] = cache'[k]
    BY <1>7, <1>11, <2>1, <2>2, <2>3, SMTT(60)
  <2>4. ASSUME NEW i \in 1..n, over => i # 1 PROVE ~ gateways'[cache[i]].evicted
    <3>1. ~ gateways[cache[i]].evicted /\ cache[i] \in DOMAIN gateways
      BY <1>2 DEF IndInv, CacheSound
    <3>2. over => cache[i] # h
      BY <1>2, <1>6, <2>1, <2>4, SMTT(60)
    <3>. QED
      BY <1>7, <3>1, <3>2
  <2>5. \A j \in 1..Len(cache') : ~ gateways'[cache'[j]].evicted
    BY <1>7, <1>11, <2>4
  <2>. QED
    <3>1. \A j, k \in DOMAIN cache' :
             gateways'[cache'[j]].key = gateways'[cache'[k]].key => j = k
      BY <1>11, <1>13, <2>3
    <3>2. up'
      BY <1>1, <1>14
    <3>. QED
      BY <1>11, <1>13, <2>5, <3>1, <3>2 DEF CacheSound
<1>16. PoolsSound'
  <2>1. \A x \in 1..g : LET p == gateways'[x].pool IN
          p # None => p \in DOMAIN pools /\ pools[p].owner = x
    BY <1>7, <1>13 DEF IndInv, PoolsSound
  <2>2. \A p \in DOMAIN pools : LET x == pools[p].owner IN
          /\ x \in DOMAIN gateways /\ x \in 1..g
          /\ ~ gateways'[x].evicted => pools[p].state = "open" /\ gateways'[x].pool = p
    BY <1>7, <1>13, <1>14, SMTT(60) DEF IndInv, PoolsSound
  <2>3. \A x \in 1..g :
          ~ gateways'[x].evicted /\ gateways'[x].schema => gateways'[x].pool # None
    <3>1. \A x \in DOMAIN gateways :
            ~ gateways[x].evicted /\ gateways[x].schema => gateways[x].pool # None
      BY <1>14 DEF IndInv, PoolsSound
    <3>. QED
      BY <1>7, <1>13, <3>1
  <2>4. DOMAIN gateways' = 1..g /\ pools' = pools /\ DOMAIN pools' = DOMAIN pools
    BY <1>1, <1>13
  <2>5. \A p, x \in DOMAIN pools' :
          pools'[p].owner = pools'[x].owner /\ ~ gateways'[pools'[p].owner].evicted => p = x
    BY <2>2, <2>4
  <2>. QED
    BY <2>1, <2>2, <2>3, <2>4, <2>5 DEF PoolsSound
<1>17. Holds(r)'
  <2>1. CASE over
    <3>1. lock' = r /\ req'[r].pc = "closing" /\ req'[r].victim = h /\ req'[r].pool = None
      BY <1>1, <1>8, <1>9, <1>10, <2>1
    <3>2. h \in DOMAIN gateways' /\ gateways'[h].evicted
      BY <1>6, <1>7, <1>13, <2>1
    <3>. QED
      BY <3>1, <3>2 DEF Holds, Discovering
  <2>2. CASE ~ over
    <3>1. lock' # r /\ req'[r].pc = "call" /\ req'[r].pool = None
      BY <1>1, <1>8, <1>9, <1>10, <2>2, NoneIsNot, SMTT(60)
    <3>. QED
      BY <3>1 DEF Holds, Discovering
  <2>. QED
    BY <2>1, <2>2
<1>18. Uses(r)'
  BY <1>1, <1>3, <1>7, <1>8, <1>9, <1>10, <1>13, <1>14 DEF IndInv, Uses, Served, Steps
<1>19. ASSUME NEW s \in Requests, s # r PROVE Holds(s)' /\ Uses(s)'
  <2>1. req'[s] = req[s]
    BY <1>8, <1>19 DEF IndInv, TypeOK
  <2>2. lock' = s <=> lock = s
    BY <1>1, <1>19, NoneIsNot
  <2>3. Holds(s)'
    BY <1>1, <1>7, <1>13, <2>1, <2>2, HoldsStays, ZenonT(60)
  <2>4. Uses(s)'
    BY <1>1, <1>7, <1>13, <1>14, <2>1, UsesStays
  <2>. QED
    BY <2>3, <2>4
<1>. QED
  BY <1>12, <1>15, <1>16, <1>17, <1>18, <1>19 DEF IndInv

\* What requests and the provider do keeps the invariant.
LEMMA NextKeeps == ASSUME IndInv, Next PROVE IndInv'
<1>1. CASE \E r \in Requests : Step(r)
  <2>1. PICK r \in Requests : Step(r)
    BY <1>1
  <2>. QED
    BY <2>1, RequireStep, HitStep, BuildFailsStep, InsertStep, CloseBeginsStep,
       CloseEndsStep, CloseFailsStep, CallStep, SchemaLockStep, RejectStep,
       CreateBeginsStep, CreateEndsStep, CreateFailsStep, AcquireStep,
       DiscoveredStep, ExecutedStep, QueryFailsStep DEF Step
<1>2. CASE \E g \in DOMAIN gateways : Expire(g)
  BY <1>2, ExpireStep
<1>3. CASE Shutdown
  BY <1>3, ShutdownStep
<1>. QED
  BY <1>1, <1>2, <1>3 DEF Next

\* The cache, the pools and what every request holds stay sound, whatever the
\* interleaving of DataSourceRuntimeProvider and PostgresDatabaseGateway.
THEOREM GatewayInvariance == Spec => []IndInv
<1>1. Init => IndInv
  BY Begins
<1>2. IndInv /\ [Next]_vars => IndInv'
  <2>1. ASSUME IndInv, UNCHANGED vars PROVE IndInv'
    <3>1. UNCHANGED <<lock, cache, gateways, pools, req, up>>
      BY <2>1 DEF vars
    <3>. QED
      BY <2>1, <3>1 DEF IndInv, TypeOK, CacheSound, PoolsSound, Holds, Uses, Discovering
  <2>. QED
    BY <2>1, NextKeeps
<1>. QED
  BY <1>1, <1>2, PTL DEF Spec

\* Gateways, pools and requests keep their types.
THEOREM GatewayTypes == Spec => []TypeOK
<1>1. IndInv => TypeOK
  BY DEF IndInv
<1>. QED
  BY <1>1, GatewayInvariance, PTL

\* The provider keeps one open gateway per datasource and sampling, no more than
\* max_cached, and a request reads the datasource it asked for.
THEOREM CacheServes == Spec => []CachedIsServing
<1>1. ASSUME IndInv PROVE CachedIsServing
  <2>1. /\ DOMAIN cache = 1..Len(cache)
        /\ \A i \in DOMAIN cache : cache[i] \in DOMAIN gateways
    BY <1>1, Lists DEF IndInv
  <2>2. /\ Len(cache) <= MaxCached
        /\ \A i, j \in 1..Len(cache) :
             gateways[cache[i]].key = gateways[cache[j]].key => i = j
    BY <1>1, <2>1 DEF IndInv, CacheSound
  <2>3. ASSUME NEW i \in 1..Len(cache), gateways[cache[i]].pool # None
        PROVE  pools[gateways[cache[i]].pool].state = "open"
    <3>1. up
      BY <1>1, <2>1 DEF IndInv, CacheSound
    <3>. QED
      BY <1>1, <2>1, <2>3, <3>1 DEF IndInv, CacheSound, PoolsSound
  <2>4. \A r \in Requests :
         /\ req[r].gw # None => gateways[req[r].gw].key = req[r].key
         /\ req[r].pc = "query" => /\ pools[req[r].pool].owner = req[r].gw
                                   /\ r \in pools[req[r].pool].users
    BY <1>1 DEF IndInv, Holds, Uses
  <2>. QED
    BY <2>2, <2>3, <2>4 DEF CachedIsServing
<1>. QED
  BY <1>1, GatewayInvariance, PTL

\* Without an eviction a gateway opens one pool at most and refuses nobody,
\* although _get_pool takes no lock.
THEOREM OnlyEvictionCosts == Spec => []UnevictedIsExact
<1>1. ASSUME IndInv PROVE UnevictedIsExact
  <2>1. ASSUME NEW r \in Requests, NEW s \in Requests,
               Discovering(r), Discovering(s), req[r].gw = req[s].gw
        PROVE  r = s
    BY <1>1, <2>1 DEF IndInv, Holds
  <2>2. ASSUME NEW g \in DOMAIN gateways, ~ gateways[g].evicted
        PROVE  Cardinality({p \in DOMAIN pools : pools[p].owner = g}) <= 1
    <3>. DEFINE P == {p \in DOMAIN pools : pools[p].owner = g}
    <3>1. \A p, q \in P : p = q
      BY <1>1, <2>2 DEF IndInv, PoolsSound
    <3>2. CASE P = {}
      BY <3>2, FS_EmptySet
    <3>3. CASE P # {}
      <4>1. PICK p : P = {p}
        BY <3>1, <3>3
      <4>. HIDE DEF P
      <4>2. Cardinality(P) = 1
        BY <4>1, FS_Singleton
      <4>. QED
        BY <4>2 DEF P
    <3>. QED
      BY <3>2, <3>3
  <2>3. ASSUME NEW g \in DOMAIN gateways, ~ gateways[g].evicted,
               NEW r \in Requests, req[r].gw = g
        PROVE  req[r].pc # "internal"
    BY <1>1, <2>3, NoneIsNot DEF IndInv, Uses
  <2>. QED
    BY <2>1, <2>2, <2>3 DEF UnevictedIsExact
<1>. QED
  BY <1>1, GatewayInvariance, PTL

=============================================================================

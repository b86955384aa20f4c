----------------------------- MODULE TokenKeys -----------------------------
(***************************************************************************)
(* The signing keys a bearer token is verified with                        *)
(* (app/authentication/oidc.py): concurrent requests share one cached copy *)
(* of the issuer's discovery document and key set, refresh it under a lock *)
(* when it has expired or does not know a token's key, and meanwhile the   *)
(* issuer rotates its keys.                                                *)
(***************************************************************************)
EXTENDS Integers, FiniteSets

CONSTANTS
    Tokenholders,  \* authentications, each handled once
    Keys,          \* signing keys of the issuer
    CacheSeconds,  \* oidc_cache_seconds, at least 60
    FetchSeconds,  \* oidc_timeout_seconds, more than 0
    MaxTime,       \* bound on the clock
    Never          \* no key set yet, no lock holder

VARIABLES
    published,  \* history: key -> [from, to), to = -1 while it is published
    cache,      \* _jwks and _cache_loaded_at
    lock,       \* _cache_lock
    auth,       \* the authentications
    now

kvars == <<published, cache, lock, auth, now>>

Published == {k \in Keys : published[k].from >= 0 /\ published[k].to < 0}

(* token is the key that signed the token; jwks the key set the authentication
   goes by, asked when it was served; start and end are history. *)
KeysInit ==
    /\ now = 0
    /\ \E first \in Keys : published = [k \in Keys |->
          IF k = first THEN [from |-> 0, to |-> -1] ELSE [from |-> -1, to |-> -1]]
    /\ cache = Never
    /\ lock = Never
    /\ \E key \in [Tokenholders -> Keys] :
          auth = [r \in Tokenholders |-> [pc |-> "start", token |-> key[r], forced |-> FALSE,
                                      jwks |-> {}, asked |-> 0, start |-> 0, end |-> 0]]

(* The issuer (external): a key is published, or withdrawn for good; a key
   set is never empty. *)
Publish(k) ==
    /\ published[k].from < 0
    /\ published' = [published EXCEPT ![k].from = now]
    /\ UNCHANGED <<cache, lock, auth, now>>

Withdraw(k) ==
    /\ k \in Published
    /\ Published # {k}
    /\ published' = [published EXCEPT ![k].to = now]
    /\ UNCHANGED <<cache, lock, auth, now>>

(* A fetch that is not answered in time fails. *)
Tick ==
    /\ now < MaxTime
    /\ \A r \in Tokenholders : auth[r].pc = "store" => now - auth[r].asked < FetchSeconds
    /\ now' = now + 1
    /\ UNCHANGED <<published, cache, lock, auth>>

-----------------------------------------------------------------------------
(* A slip: a copy, once loaded, counts as fresh until a key is missing. *)
CacheIsValid_Ageless ==
    cache # Never

(* _cache_is_valid *)
CacheIsValid ==
    cache # Never /\ now - cache.loaded < CacheSeconds

Takes(r, jwks, pc) == [auth EXCEPT ![r].pc = pc, ![r].jwks = jwks]

(* _provider_configuration without the lock: a valid copy is used at once. *)
Begin(r) ==
    /\ auth[r].pc = "start"
    /\ auth' = IF CacheIsValid
               THEN [Takes(r, cache.jwks, "match") EXCEPT ![r].start = now]
               ELSE [auth EXCEPT ![r].pc = "lock", ![r].start = now]
    /\ UNCHANGED <<published, cache, lock, now>>

(* Under the lock the copy is looked at again, unless the refresh is forced. *)
Acquire(r) ==
    /\ auth[r].pc = "lock"
    /\ lock = Never
    /\ IF CacheIsValid /\ ~auth[r].forced
       THEN auth' = Takes(r, cache.jwks, "match") /\ UNCHANGED lock
       ELSE auth' = [auth EXCEPT ![r].pc = "fetch"] /\ lock' = r
    /\ UNCHANGED <<published, cache, now>>

(* The issuer serves the key set ... *)
Fetch(r) ==
    /\ auth[r].pc = "fetch"
    /\ auth' = [Takes(r, Published, "store") EXCEPT ![r].asked = now]
    /\ UNCHANGED <<published, cache, lock, now>>

(* ... and its answer replaces the copy when it arrives. *)
Store(r) ==
    /\ auth[r].pc = "store"
    /\ cache' = [jwks |-> auth[r].jwks, loaded |-> now]
    /\ lock' = Never
    /\ auth' = [auth EXCEPT ![r].pc = "match", ![r].asked = 0]
    /\ UNCHANGED <<published, now>>

(* AuthenticationProviderUnavailableError: the copy stays as it is. *)
ProviderFails(r) ==
    /\ auth[r].pc \in {"fetch", "store"}
    /\ auth' = [auth EXCEPT ![r].pc = "unavailable", ![r].jwks = {}, ![r].asked = 0]
    /\ lock' = Never
    /\ UNCHANGED <<published, cache, now>>

(* authenticate: an unknown key forces one refresh; with a known one the
   signature, issuer, audience, times and subject of the token decide. *)
Match(r) ==
    /\ auth[r].pc = "match"
    /\ \/ /\ auth[r].token \notin auth[r].jwks
          /\ ~auth[r].forced
          /\ auth' = [auth EXCEPT ![r].pc = "lock", ![r].forced = TRUE]
       \/ \E pc \in IF auth[r].token \in auth[r].jwks THEN {"accepted", "invalid"}
                    ELSE IF auth[r].forced THEN {"unknown"} ELSE {} :
             auth' = [auth EXCEPT ![r].pc = pc, ![r].jwks = {}, ![r].end = now]
    /\ UNCHANGED <<published, cache, lock, now>>

KeysNext ==
    \/ Tick
    \/ \E k \in Keys : Publish(k) \/ Withdraw(k)
    \/ \E r \in Tokenholders : \/ Begin(r) \/ Acquire(r) \/ Fetch(r) \/ Store(r)
                           \/ ProviderFails(r) \/ Match(r)

KeysSpec == KeysInit /\ [][KeysNext]_kvars

-----------------------------------------------------------------------------
(* A token signed with a key the issuer published throughout the
   authentication is not refused as unknown, however old the copy is and
   whoever refreshes it meanwhile; and one signed with a key the issuer has
   withdrawn is not accepted once the copy's life and the time of a fetch have
   passed since (oidc.py:70-158). *)
RotationIsFollowed ==
    \A r \in Tokenholders :
        LET key == published[auth[r].token]
        IN  /\ auth[r].pc = "unknown" =>
                 ~(/\ key.from >= 0 /\ key.from < auth[r].start
                   /\ key.to < 0 \/ key.to > auth[r].end)
            /\ auth[r].pc = "accepted" =>
                 /\ key.from >= 0
                 /\ key.to >= 0 => auth[r].start < key.to + CacheSeconds + FetchSeconds

-----------------------------------------------------------------------------
(* The inductive invariant.  The settings of the gateway (config.py:69-80). *)
KeysSettings == CacheSeconds \in Nat /\ FetchSeconds \in Nat \ {0}

Authentication ==
    [pc : {"start", "lock", "fetch", "store", "match", "unavailable", "accepted", "invalid",
           "unknown"},
     token : Keys, forced : BOOLEAN, jwks : SUBSET Keys, asked : Nat, start : Nat, end : Nat]

KeysTyped ==
    /\ now \in Nat
    /\ published \in [Keys -> [from : -1..now, to : -1..now]]
    /\ cache \in [jwks : SUBSET Keys, loaded : 0..now] \cup {Never}
    /\ auth \in [Tokenholders -> Authentication]

(* Every key of a set was in service at an instant or later. *)
ServedSince(jwks, instant) ==
    \A k \in jwks : published[k].from >= 0 /\ (published[k].to < 0 \/ published[k].to >= instant)

(* Every key of a set may still be accepted by an authentication. *)
Acceptable(jwks, start) ==
    \A k \in jwks :
        /\ published[k].from >= 0
        /\ published[k].to >= 0 => start < published[k].to + CacheSeconds + FetchSeconds

(* The key was not in service from before start until now. *)
OutOfService(k, start) ==
    ~(0 <= published[k].from /\ published[k].from < start) \/ published[k].to >= 0

(* The key of a refused token was not in service throughout. *)
RightlyUnknown(a) ==
    \/ ~(0 <= published[a.token].from /\ published[a.token].from < a.start)
    \/ 0 <= published[a.token].to /\ published[a.token].to <= a.end

(* The copy is a key set the issuer served at most one fetch before it was
   loaded. *)
CopyIsServed == cache # Never => ServedSince(cache.jwks, cache.loaded - FetchSeconds)

(* A set just fetched was served while its authentication waited for it; the
   set an authentication goes by, fetched or from the copy, is acceptable for
   it; and a key that is missing from a set fetched for it was not in service
   all the time. *)
AuthSound(a) ==
    /\ a.start <= now
    /\ a.pc = "start" => ~a.forced
    /\ a.pc = "store" => /\ a.start <= a.asked /\ a.asked <= now
                         /\ now - a.asked <= FetchSeconds
                         /\ ServedSince(a.jwks, a.asked)
    /\ a.pc = "match" => Acceptable(a.jwks, a.start)
    /\ a.pc = "store" \/ (a.pc = "match" /\ a.forced) =>
          \A k \in Keys \ a.jwks : OutOfService(k, a.start)
    /\ a.pc = "accepted" => Acceptable({a.token}, a.start)
    /\ a.pc = "unknown" => RightlyUnknown(a)

KeysInv == KeysTyped /\ CopyIsServed /\ \A r \in Tokenholders : AuthSound(auth[r])
=============================================================================

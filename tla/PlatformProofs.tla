--------------------------- MODULE PlatformProofs ---------------------------
(***************************************************************************)
(* Proofs about the parts of the service that every process shares: the    *)
(* issuer's signing keys (TokenKeys), the knowledge database's migrations  *)
(* (Migrations) and its transcripts (Conversations), the policies with the *)
(* column previews they guard (Authorization, ColumnPreviews), the quality *)
(* checks with their verdicts (QualityChecks, QualityVerdicts), the        *)
(* metrics of a question with their join (MetricSelection), the validator  *)
(* of statements (SqlValidation), and the benchmark runs with their        *)
(* comparison (Evaluations, EvaluationCompare). The parts share no state;  *)
(* each theorem is about the specification of one.                         *)
(***************************************************************************)
EXTENDS TokenKeys, Migrations, Conversations, ColumnPreviews, QualityChecks, MetricSelection,
    SqlValidation, Evaluations,
    FiniteSetTheorems, WellFoundedInduction, TLAPS

-----------------------------------------------------------------------------
(* Signing keys *)

(* Time does not go back; a key is published once and withdrawn once, each at
   the time of the step. *)
OnlyForward ==
    /\ now <= now'
    /\ \A k \in Keys :
         /\ \/ published'[k].from = published[k].from
            \/ published[k].from < 0 /\ published'[k].from = now
         /\ \/ published'[k].to = published[k].to
            \/ published[k].to < 0 /\ published'[k].to = now

(* The times of a key are integers up to now, -1 for never (Publish and
   Withdraw, the only steps that set them). *)
LEMMA KeyTimes ==
    ASSUME KeysTyped, NEW k \in Keys
    PROVE  /\ published[k].from \in Int /\ -1 <= published[k].from /\ published[k].from <= now
           /\ published[k].to \in Int /\ -1 <= published[k].to /\ published[k].to <= now
           /\ now \in Nat
  <1>1. published[k] \in [from : -1..now, to : -1..now] /\ now \in Nat
    BY DEF KeysTyped
  <1>2. published[k].from \in -1..now /\ published[k].to \in -1..now
    BY <1>1
  <1> QED
    BY <1>1, <1>2

(* A set that was served since an instant in the past still was after a step,
   whatever the issuer publishes or withdraws in it. *)
LEMMA ServedStays ==
    ASSUME KeysTyped, KeysTyped', OnlyForward, NEW J, J \subseteq Keys,
           NEW t \in Int, t <= now, ServedSince(J, t)
    PROVE  ServedSince(J, t)'
  <1>1. SUFFICES ASSUME NEW k \in J
                 PROVE  /\ published'[k].from >= 0
                        /\ published'[k].to < 0 \/ published'[k].to >= t
    BY DEF ServedSince
  <1>2. k \in Keys /\ published[k].from >= 0 /\ (published[k].to < 0 \/ published[k].to >= t)
    BY DEF ServedSince
  <1>3. /\ published[k].from \in Int /\ published[k].to \in Int /\ now \in Nat
    BY <1>2, KeyTimes
  <1> QED
    BY <1>2, <1>3 DEF OnlyForward

(* What an authentication may accept it may still accept after a step: a key
   withdrawn now leaves it a whole fetch (KeysSettings). *)
LEMMA AcceptableStays ==
    ASSUME KeysTyped, KeysTyped', OnlyForward, KeysSettings, NEW J, J \subseteq Keys,
           NEW s \in Nat, s <= now, Acceptable(J, s)
    PROVE  Acceptable(J, s)'
  <1>1. SUFFICES ASSUME NEW k \in J
                 PROVE  /\ published'[k].from >= 0
                        /\ published'[k].to >= 0
                             => s < published'[k].to + CacheSeconds + FetchSeconds
    BY DEF Acceptable
  <1>2. /\ k \in Keys
        /\ published[k].from >= 0
        /\ published[k].to >= 0 => s < published[k].to + CacheSeconds + FetchSeconds
    BY DEF Acceptable
  <1>3. published[k].from \in Int /\ published[k].to \in Int /\ now \in Nat
    BY <1>2, KeyTimes
  <1> QED
    BY <1>2, <1>3 DEF OnlyForward, KeysSettings

(* A key that was not in service all the time since an instant in the past
   never becomes one that was. *)
LEMMA OutOfServiceStays ==
    ASSUME KeysTyped, OnlyForward, NEW k \in Keys, NEW s \in Nat, s <= now, OutOfService(k, s)
    PROVE  OutOfService(k, s)'
  <1>1. published[k].from \in Int /\ published[k].to \in Int /\ now \in Nat
    BY KeyTimes
  <1> QED
    BY <1>1 DEF OnlyForward, OutOfService

(* An authentication that takes no part in a step stays sound. *)
LEMMA BystanderIsSound ==
    ASSUME KeysTyped, KeysTyped', OnlyForward, KeysSettings,
           NEW a \in Authentication, AuthSound(a),
           a.pc = "store" => now' - a.asked <= FetchSeconds
    PROVE  AuthSound(a)'
  <1>1. /\ a.token \in Keys /\ a.jwks \subseteq Keys /\ a.forced \in BOOLEAN
        /\ a.asked \in Nat /\ a.start \in Nat /\ a.end \in Nat
    BY DEF Authentication
  <1>2. now \in Nat /\ now' \in Nat /\ now <= now'
    BY DEF KeysTyped, OnlyForward
  <1>3. a.start <= now /\ a.start <= now'
    BY <1>1, <1>2 DEF AuthSound
  <1>9. a.pc = "start" => ~a.forced
    BY DEF AuthSound
  <1>4. ASSUME a.pc = "store"
        PROVE  /\ a.start <= a.asked /\ a.asked <= now' /\ now' - a.asked <= FetchSeconds
               /\ ServedSince(a.jwks, a.asked)'
    <2>1. a.start <= a.asked /\ a.asked <= now /\ ServedSince(a.jwks, a.asked)
      BY <1>4 DEF AuthSound
    <2>2. ServedSince(a.jwks, a.asked)'
      BY <1>1, <2>1, ServedStays
    <2> QED
      BY <1>1, <1>2, <1>4, <2>1, <2>2
  <1>5. ASSUME a.pc = "match"
        PROVE  Acceptable(a.jwks, a.start)'
    <2>1. Acceptable(a.jwks, a.start)
      BY <1>5 DEF AuthSound
    <2> QED
      BY <1>1, <1>3, <2>1, AcceptableStays
  <1>6. ASSUME a.pc = "store" \/ (a.pc = "match" /\ a.forced), NEW k \in Keys \ a.jwks
        PROVE  OutOfService(k, a.start)'
    <2>1. OutOfService(k, a.start)
      BY <1>6 DEF AuthSound
    <2> QED
      BY <1>1, <1>3, <2>1, OutOfServiceStays
  <1>7. ASSUME a.pc = "accepted"
        PROVE  Acceptable({a.token}, a.start)'
    <2>1. Acceptable({a.token}, a.start) /\ {a.token} \subseteq Keys
      BY <1>1, <1>7 DEF AuthSound
    <2> QED
      BY <1>1, <1>3, <2>1, AcceptableStays
  <1>8. ASSUME a.pc = "unknown"
        PROVE  RightlyUnknown(a)'
    <2>1. RightlyUnknown(a)
      BY <1>8 DEF AuthSound
    <2>2. published[a.token].from \in Int /\ published[a.token].to \in Int
      BY <1>1, KeyTimes
    <2> QED
      BY <1>1, <1>2, <1>3, <2>1, <2>2 DEF RightlyUnknown, OnlyForward
  <1> QED
    BY <1>3, <1>4, <1>5, <1>6, <1>7, <1>8, <1>9 DEF AuthSound

(* A step of one authentication, at one instant: what it leaves of itself must
   be sound, and of the copy if it replaces it. *)
LEMMA OneActs ==
    ASSUME KeysInv, KeysSettings, NEW r \in Tokenholders, NEW b \in Authentication,
           auth' = [auth EXCEPT ![r] = b], AuthSound(b), UNCHANGED <<published, now>>,
           cache' = cache \/ (/\ cache' \in [jwks : SUBSET Keys, loaded : 0..now]
                              /\ ServedSince(cache'.jwks, now - FetchSeconds)
                              /\ cache'.loaded = now)
    PROVE  KeysInv'
  <1>1. KeysTyped /\ CopyIsServed /\ \A q \in Tokenholders : AuthSound(auth[q])
    BY DEF KeysInv
  <1>2. KeysTyped'
    BY <1>1 DEF KeysTyped
  <1>3. CopyIsServed'
    <2>1. CASE cache' = cache
      BY <1>1, <2>1 DEF CopyIsServed, ServedSince
    <2>2. CASE cache' # cache
      BY <2>2, SMTT(60) DEF CopyIsServed, ServedSince
    <2> QED
      BY <2>1, <2>2
  <1>4. ASSUME NEW q \in Tokenholders
        PROVE  AuthSound(auth[q])'
    <2>1. auth \in [Tokenholders -> Authentication]
      BY <1>1 DEF KeysTyped
    <2>2. PICK c : c = auth'[q]
      OBVIOUS
    <2>3. c = b \/ c = auth[q]
      BY <2>1, <2>2
    <2>4. AuthSound(c)
      <3>1. CASE c = b
        BY <3>1
      <3>2. CASE c = auth[q]
        BY <1>1, <3>2, SMTT(60)
      <3> QED
        BY <2>3, <3>1, <3>2
    <2>5. AuthSound(c)'
      BY <2>4 DEF AuthSound, ServedSince, Acceptable, OutOfService, RightlyUnknown
    <2> QED
      BY <2>2, <2>5 DEF AuthSound, ServedSince, Acceptable, OutOfService, RightlyUnknown
  <1> QED
    BY <1>2, <1>3, <1>4 DEF KeysInv

(* The copy, while it counts as fresh, is acceptable for an authentication that
   takes it, whenever that began (_provider_configuration). *)
LEMMA FreshCopyIsAcceptable ==
    ASSUME KeysInv, KeysSettings, CacheIsValid, NEW s \in Nat, s <= now
    PROVE  cache.jwks \subseteq Keys /\ Acceptable(cache.jwks, s)
  <1>1. KeysTyped /\ CopyIsServed
    BY DEF KeysInv
  <1>2. cache # Never /\ now - cache.loaded < CacheSeconds
    BY DEF CacheIsValid
  <1>3. cache \in [jwks : SUBSET Keys, loaded : 0..now] /\ now \in Nat
    BY <1>1, <1>2 DEF KeysTyped
  <1>4. cache.jwks \subseteq Keys /\ cache.loaded \in 0..now
    BY <1>3
  <1>5. ASSUME NEW k \in cache.jwks
        PROVE  /\ published[k].from >= 0
               /\ published[k].to >= 0 => s < published[k].to + CacheSeconds + FetchSeconds
    <2>1. /\ published[k].from >= 0
          /\ published[k].to < 0 \/ published[k].to >= cache.loaded - FetchSeconds
      BY <1>1, <1>2 DEF CopyIsServed, ServedSince
    <2>2. published[k].to \in Int
      BY <1>1, <1>4, KeyTimes
    <2> QED
      BY <1>2, <1>3, <1>4, <2>1, <2>2 DEF KeysSettings
  <1> QED
    BY <1>4, <1>5 DEF Acceptable

LEMMA BeginKeeps ==
    ASSUME KeysInv, KeysSettings, NEW r \in Tokenholders, Begin(r)
    PROVE  KeysInv'
  <1> DEFINE fresh == [auth[r] EXCEPT !.pc = "match", !.jwks = cache.jwks, !.start = now]
             stale == [auth[r] EXCEPT !.pc = "lock", !.start = now]
  <1>1. KeysTyped /\ auth \in [Tokenholders -> Authentication] /\ now \in Nat
        /\ AuthSound(auth[r]) /\ auth[r] \in Authentication /\ auth[r].pc = "start"
    BY DEF KeysInv, KeysTyped, Begin
  <1>2. UNCHANGED <<published, cache, now>>
    BY DEF Begin
  <1>3. CASE CacheIsValid
    <2>1. cache.jwks \subseteq Keys /\ Acceptable(cache.jwks, now)
      BY <1>1, <1>3, FreshCopyIsAcceptable
    <2>2. auth' = [auth EXCEPT ![r] = fresh]
      BY <1>1, <1>3 DEF Begin, Takes
    <2>3. fresh \in Authentication
      BY <1>1, <2>1 DEF Authentication
    <2>4. fresh.pc = "match" /\ fresh.jwks = cache.jwks /\ fresh.start = now
      BY <1>1 DEF Authentication
    <2>5. ~fresh.forced
      <3>1. ~auth[r].forced /\ fresh.forced = auth[r].forced
        BY <1>1 DEF AuthSound, Authentication
      <3> QED
        BY <3>1
    <2> HIDE DEF fresh
    <2>6. AuthSound(fresh)
      BY <1>1, <2>1, <2>4, <2>5 DEF AuthSound
    <2> QED
      BY <1>2, <2>2, <2>3, <2>6, OneActs
  <1>4. CASE ~CacheIsValid
    <2>2. auth' = [auth EXCEPT ![r] = stale]
      BY <1>1, <1>4 DEF Begin
    <2>3. stale \in Authentication
      BY <1>1 DEF Authentication
    <2>4. stale.pc = "lock" /\ stale.start = now
      BY <1>1 DEF Authentication
    <2> HIDE DEF stale
    <2>6. AuthSound(stale)
      BY <1>1, <2>4 DEF AuthSound
    <2> QED
      BY <1>2, <2>2, <2>3, <2>6, OneActs
  <1> QED
    BY <1>3, <1>4

LEMMA AcquireKeeps ==
    ASSUME KeysInv, KeysSettings, NEW r \in Tokenholders, Acquire(r)
    PROVE  KeysInv'
  <1> DEFINE fresh == [auth[r] EXCEPT !.pc = "match", !.jwks = cache.jwks]
             fetch == [auth[r] EXCEPT !.pc = "fetch"]
  <1>1. KeysTyped /\ auth \in [Tokenholders -> Authentication] /\ now \in Nat
        /\ AuthSound(auth[r]) /\ auth[r] \in Authentication /\ auth[r].pc = "lock"
    BY DEF KeysInv, KeysTyped, Acquire
  <1>2. UNCHANGED <<published, cache, now>>
    BY DEF Acquire
  <1>3. auth[r].start \in Nat /\ auth[r].start <= now
    BY <1>1, SMTT(60) DEF AuthSound, Authentication
  <1>4. CASE CacheIsValid /\ ~auth[r].forced
    <2>1. cache.jwks \subseteq Keys /\ Acceptable(cache.jwks, auth[r].start)
      <3>1. PICK s \in Nat : s = auth[r].start
        BY <1>3
      <3>2. cache.jwks \subseteq Keys /\ Acceptable(cache.jwks, s)
        BY <1>3, <1>4, <3>1, FreshCopyIsAcceptable
      <3> QED
        BY <3>1, <3>2
    <2>2. auth' = [auth EXCEPT ![r] = fresh]
      BY <1>1, <1>4 DEF Acquire, Takes
    <2>3. fresh \in Authentication
      BY <1>1, <2>1 DEF Authentication
    <2>4. fresh.pc = "match" /\ fresh.jwks = cache.jwks /\ fresh.start = auth[r].start
      BY <1>1 DEF Authentication
    <2>5. ~fresh.forced
      <3>1. fresh.forced = auth[r].forced
        BY <1>1 DEF Authentication
      <3> QED
        BY <1>4, <3>1
    <2> HIDE DEF fresh
    <2>6. AuthSound(fresh)
      BY <1>3, <2>1, <2>4, <2>5 DEF AuthSound
    <2> QED
      BY <1>2, <2>2, <2>3, <2>6, OneActs
  <1>5. CASE ~(CacheIsValid /\ ~auth[r].forced)
    <2>2. auth' = [auth EXCEPT ![r] = fetch]
      BY <1>1, <1>5 DEF Acquire
    <2>3. fetch \in Authentication
      BY <1>1 DEF Authentication
    <2>4. fetch.pc = "fetch" /\ fetch.start = auth[r].start
      BY <1>1 DEF Authentication
    <2> HIDE DEF fetch
    <2>6. AuthSound(fetch)
      BY <1>3, <2>4 DEF AuthSound
    <2> QED
      BY <1>2, <2>2, <2>3, <2>6, OneActs
  <1> QED
    BY <1>4, <1>5

(* What the issuer serves is in service at that instant, and what it does not
   serve is not: the set is good for whoever began before. *)
LEMMA FetchKeeps ==
    ASSUME KeysInv, KeysSettings, NEW r \in Tokenholders, Fetch(r)
    PROVE  KeysInv'
  <1> DEFINE b == [auth[r] EXCEPT !.pc = "store", !.jwks = Published, !.asked = now]
  <1>1. KeysTyped /\ auth \in [Tokenholders -> Authentication] /\ now \in Nat
        /\ AuthSound(auth[r]) /\ auth[r] \in Authentication
    BY DEF KeysInv, KeysTyped
  <1>2. UNCHANGED <<published, cache, now>>
    BY DEF Fetch
  <1>3. auth[r].start \in Nat /\ auth[r].start <= now
    BY <1>1 DEF AuthSound, Authentication
  <1>4. auth' = [auth EXCEPT ![r] = b]
    BY <1>1 DEF Fetch, Takes
  <1>5. b \in Authentication
    BY <1>1 DEF Authentication, Published
  <1>6. b.pc = "store" /\ b.jwks = Published
    BY <1>1 DEF Authentication
  <1>7. b.start = auth[r].start /\ b.asked = now
    BY <1>1 DEF Authentication
  <1> HIDE DEF b
  <1>8. ServedSince(b.jwks, b.asked)
    BY <1>6 DEF ServedSince, Published
  <1>9. ASSUME NEW k \in Keys \ b.jwks
        PROVE  OutOfService(k, b.start)
    <2>1. published[k].from \in Int /\ published[k].to \in Int
      BY <1>1, KeyTimes
    <2>2. ~(published[k].from >= 0 /\ published[k].to < 0)
      BY <1>6 DEF Published
    <2> QED
      BY <2>1, <2>2 DEF OutOfService
  <1>10. now - b.asked <= FetchSeconds
    BY <1>1, <1>7 DEF KeysSettings
  <1>11. AuthSound(b)
    BY <1>1, <1>3, <1>6, <1>7, <1>8, <1>9, <1>10 DEF AuthSound
  <1> QED
    BY <1>2, <1>4, <1>5, <1>11, OneActs

(* The set is stored at most one fetch after it was served, so the copy keeps
   its promise, and it is acceptable for its authentication. *)
LEMMA StoreKeeps ==
    ASSUME KeysInv, KeysSettings, NEW r \in Tokenholders, Store(r)
    PROVE  KeysInv'
  <1> DEFINE b == [auth[r] EXCEPT !.pc = "match", !.asked = 0]
  <1>1. KeysTyped /\ auth \in [Tokenholders -> Authentication] /\ now \in Nat
        /\ AuthSound(auth[r]) /\ auth[r] \in Authentication /\ auth[r].pc = "store"
    BY DEF KeysInv, KeysTyped, Store
  <1>2. UNCHANGED <<published, now>>
    BY DEF Store
  <1>3. /\ auth[r].start \in Nat /\ auth[r].asked \in Nat /\ auth[r].jwks \subseteq Keys
    BY <1>1 DEF Authentication
  <1>4. /\ auth[r].start <= auth[r].asked /\ auth[r].asked <= now
        /\ now - auth[r].asked <= FetchSeconds
        /\ ServedSince(auth[r].jwks, auth[r].asked)
        /\ \A k \in Keys \ auth[r].jwks : OutOfService(k, auth[r].start)
    BY <1>1 DEF AuthSound
  <1>5. auth' = [auth EXCEPT ![r] = b]
    BY <1>1 DEF Store
  <1>6. b \in Authentication
    BY <1>1 DEF Authentication
  <1>7. b.pc = "match" /\ b.jwks = auth[r].jwks /\ b.start = auth[r].start
    BY <1>1 DEF Authentication
  <1>8. ASSUME NEW k \in auth[r].jwks
        PROVE  /\ published[k].from >= 0
               /\ published[k].to < 0 \/ published[k].to >= auth[r].asked
               /\ published[k].to \in Int
    BY <1>1, <1>3, <1>4, KeyTimes DEF ServedSince
  <1> HIDE DEF b
  <1>9. Acceptable(b.jwks, b.start)
    BY <1>1, <1>3, <1>4, <1>7, <1>8 DEF Acceptable, KeysSettings
  <1>10. AuthSound(b)
    BY <1>1, <1>3, <1>4, <1>7, <1>9 DEF AuthSound
  <1>11. ServedSince(auth[r].jwks, now - FetchSeconds)
    BY <1>1, <1>3, <1>4, <1>8 DEF ServedSince, KeysSettings
  <1>12. cache' = [jwks |-> auth[r].jwks, loaded |-> now]
    BY DEF Store
  <1>13. /\ cache' \in [jwks : SUBSET Keys, loaded : 0..now]
         /\ cache'.loaded = now /\ cache'.jwks = auth[r].jwks
    BY <1>1, <1>3, <1>12
  <1>14. ServedSince(cache'.jwks, now - FetchSeconds)
    BY <1>11, <1>13 DEF ServedSince
  <1> QED
    BY <1>2, <1>5, <1>6, <1>10, <1>13, <1>14, OneActs

LEMMA ProviderFailsKeeps ==
    ASSUME KeysInv, KeysSettings, NEW r \in Tokenholders, ProviderFails(r)
    PROVE  KeysInv'
  <1> DEFINE b == [auth[r] EXCEPT !.pc = "unavailable", !.jwks = {}, !.asked = 0]
  <1>1. KeysTyped /\ auth \in [Tokenholders -> Authentication]
        /\ AuthSound(auth[r]) /\ auth[r] \in Authentication
    BY DEF KeysInv, KeysTyped
  <1>2. auth' = [auth EXCEPT ![r] = b] /\ UNCHANGED <<published, cache, now>>
    BY <1>1 DEF ProviderFails
  <1>3. b \in Authentication
    BY <1>1 DEF Authentication
  <1>4. b.pc = "unavailable" /\ b.start = auth[r].start
    BY <1>1 DEF Authentication
  <1> HIDE DEF b
  <1>5. AuthSound(b)
    BY <1>1, <1>4, SMTT(60) DEF AuthSound
  <1> QED
    BY <1>2, <1>3, <1>5, OneActs

(* A token is refused as unknown only by a set fetched for it, and accepted
   only by a set that is acceptable for it. *)
LEMMA MatchKeeps ==
    ASSUME KeysInv, KeysSettings, NEW r \in Tokenholders, Match(r)
    PROVE  KeysInv'
  <1> DEFINE again == [auth[r] EXCEPT !.pc = "lock", !.forced = TRUE]
             ended(pc) == [auth[r] EXCEPT !.pc = pc, !.jwks = {}, !.end = now]
  <1>1. KeysTyped /\ auth \in [Tokenholders -> Authentication] /\ now \in Nat
        /\ AuthSound(auth[r]) /\ auth[r] \in Authentication /\ auth[r].pc = "match"
    BY ZenonT(60) DEF KeysInv, KeysTyped, Match
  <1>2. UNCHANGED <<published, cache, now>>
    BY DEF Match
  <1>3. /\ auth[r].start <= now /\ Acceptable(auth[r].jwks, auth[r].start)
        /\ auth[r].forced => \A k \in Keys \ auth[r].jwks : OutOfService(k, auth[r].start)
    BY <1>1 DEF AuthSound
  <1>4. CASE auth' = [auth EXCEPT ![r] = again]
    <2>1. again \in Authentication
      BY <1>1 DEF Authentication
    <2>2. again.pc = "lock" /\ again.start = auth[r].start
      BY <1>1 DEF Authentication
    <2> HIDE DEF again
    <2>3. AuthSound(again)
      BY <1>3, <2>2 DEF AuthSound
    <2> QED
      BY <1>2, <1>4, <2>1, <2>3, OneActs
  <1>5. ASSUME NEW pc \in IF auth[r].token \in auth[r].jwks THEN {"accepted", "invalid"}
                          ELSE IF auth[r].forced THEN {"unknown"} ELSE {},
               auth' = [auth EXCEPT ![r] = ended(pc)]
        PROVE  KeysInv'
    <2> DEFINE b == ended(pc)
    <2>1. pc \in {"accepted", "invalid", "unknown"}
      BY <1>5
    <2>2. b \in Authentication
      BY <1>1, <2>1 DEF Authentication
    <2>3. b.pc = pc /\ b.start = auth[r].start
      BY <1>1 DEF Authentication
    <2>4. b.token = auth[r].token /\ b.end = now /\ auth[r].token \in Keys
      BY <1>1 DEF Authentication
    <2>5. auth' = [auth EXCEPT ![r] = b]
      BY <1>5
    <2> HIDE DEF b
    <2>6. b.pc = "accepted" => Acceptable({b.token}, b.start)
      <3>1. SUFFICES ASSUME b.pc = "accepted" PROVE Acceptable({b.token}, b.start)
        OBVIOUS
      <3>2. auth[r].token \in auth[r].jwks
        BY <1>5, <2>3, <3>1
      <3> QED
        BY <1>3, <2>3, <2>4, <3>2 DEF Acceptable
    <2>7. b.pc = "unknown" => RightlyUnknown(b)
      <3>1. SUFFICES ASSUME b.pc = "unknown" PROVE RightlyUnknown(b)
        OBVIOUS
      <3>2. auth[r].token \notin auth[r].jwks /\ auth[r].forced
        BY <1>5, <2>3, <3>1
      <3>3. OutOfService(auth[r].token, auth[r].start)
        BY <1>3, <2>4, <3>2
      <3>4. published[auth[r].token].to \in Int /\ published[auth[r].token].to <= now
        BY <1>1, <2>4, KeyTimes
      <3> QED
        BY <1>1, <2>3, <2>4, <3>3, <3>4 DEF OutOfService, RightlyUnknown
    <2>8. AuthSound(b)
      BY <1>3, <2>1, <2>3, <2>6, <2>7 DEF AuthSound
    <2> QED
      BY <1>2, <2>2, <2>5, <2>8, OneActs
  <1>6. CASE /\ auth[r].token \notin auth[r].jwks /\ ~auth[r].forced
             /\ auth' = [auth EXCEPT ![r].pc = "lock", ![r].forced = TRUE]
    <2>1. auth' = [auth EXCEPT ![r] = again]
      BY <1>1, <1>6
    <2> QED
      BY <1>4, <2>1
  <1>7. ASSUME NEW pc \in IF auth[r].token \in auth[r].jwks THEN {"accepted", "invalid"}
                          ELSE IF auth[r].forced THEN {"unknown"} ELSE {},
               auth' = [auth EXCEPT ![r].pc = pc, ![r].jwks = {}, ![r].end = now]
        PROVE  KeysInv'
    <2>1. auth' = [auth EXCEPT ![r] = ended(pc)]
      BY <1>1, <1>7
    <2> QED
      BY <1>5, <2>1
  <1> QED
    BY <1>6, <1>7, ZenonT(60) DEF Match

(* A step of the issuer or of the clock, which no authentication takes part
   in. The clock waits for a fetch that is about to time out. *)
LEMMA IssuerKeeps ==
    ASSUME KeysInv, KeysSettings, KeysTyped', OnlyForward, UNCHANGED <<cache, auth>>,
           \A r \in Tokenholders : auth[r].pc = "store" => now' - auth[r].asked <= FetchSeconds
    PROVE  KeysInv'
  <1>1. KeysTyped /\ CopyIsServed /\ \A r \in Tokenholders : AuthSound(auth[r])
    BY DEF KeysInv
  <1>2. CopyIsServed'
    <2>1. SUFFICES ASSUME cache # Never
                   PROVE  ServedSince(cache.jwks, cache.loaded - FetchSeconds)'
      BY DEF CopyIsServed
    <2>2. cache \in [jwks : SUBSET Keys, loaded : 0..now] /\ now \in Nat
      BY <1>1, <2>1 DEF KeysTyped
    <2>3. PICK J, t : J = cache.jwks /\ t = cache.loaded - FetchSeconds
      OBVIOUS
    <2>4. J \subseteq Keys /\ t \in Int /\ t <= now
      BY <2>2, <2>3 DEF KeysSettings
    <2>5. ServedSince(J, t)
      BY <1>1, <2>1, <2>3 DEF CopyIsServed, ServedSince
    <2>6. ServedSince(J, t)'
      BY <1>1, <2>4, <2>5, ServedStays, SMTT(60)
    <2> QED
      BY <2>3, <2>6 DEF ServedSince
  <1>3. ASSUME NEW r \in Tokenholders
        PROVE  AuthSound(auth[r])'
    <2>1. PICK a : a = auth[r]
      OBVIOUS
    <2>2. a \in Authentication /\ AuthSound(a) /\ (a.pc = "store" => now' - a.asked <= FetchSeconds)
      BY <1>1, <2>1 DEF KeysTyped
    <2>3. AuthSound(a)'
      BY <1>1, <2>2, BystanderIsSound
    <2>4. auth'[r] = a
      BY <2>1
    <2> QED
      BY <2>3, <2>4 DEF AuthSound, ServedSince, Acceptable, OutOfService, RightlyUnknown
  <1> QED
    BY <1>2, <1>3 DEF KeysInv

LEMMA TickKeeps ==
    ASSUME KeysInv, KeysSettings, Tick
    PROVE  KeysInv'
  <1>1. KeysTyped /\ now \in Nat /\ now' = now + 1 /\ UNCHANGED <<published, cache, auth>>
    BY DEF KeysInv, KeysTyped, Tick
  <1>2. \A k \in Keys : published[k].from \in Int /\ published[k].to \in Int
    BY <1>1, KeyTimes
  <1>3. OnlyForward
    BY <1>1, <1>2 DEF OnlyForward
  <1>4. KeysTyped'
    <2>1. (-1..now) \subseteq (-1..now') /\ (0..now) \subseteq (0..now') /\ now' \in Nat
      BY <1>1
    <2>2. published' \in [Keys -> [from : -1..now', to : -1..now']]
      BY <1>1, <2>1 DEF KeysTyped
    <2>3. cache' \in [jwks : SUBSET Keys, loaded : 0..now'] \cup {Never}
      BY <1>1, <2>1 DEF KeysTyped
    <2> QED
      BY <1>1, <2>1, <2>2, <2>3 DEF KeysTyped
  <1>5. ASSUME NEW r \in Tokenholders, auth[r].pc = "store"
        PROVE  now' - auth[r].asked <= FetchSeconds
    <2>1. auth[r].asked \in Nat
      BY <1>1 DEF KeysTyped, Authentication
    <2>2. now - auth[r].asked < FetchSeconds
      BY <1>5 DEF Tick
    <2> QED
      BY <1>1, <2>1, <2>2 DEF KeysSettings
  <1> QED
    BY <1>1, <1>3, <1>4, <1>5, IssuerKeeps

LEMMA PublishKeeps ==
    ASSUME KeysInv, KeysSettings, NEW k \in Keys, Publish(k) \/ Withdraw(k)
    PROVE  KeysInv'
  <1>1. KeysTyped /\ now \in Nat /\ UNCHANGED <<cache, lock, auth, now>>
        /\ published \in [Keys -> [from : -1..now, to : -1..now]]
    BY DEF KeysInv, KeysTyped, Publish, Withdraw
  <1>2. published[k] \in [from : -1..now, to : -1..now] /\ now \in -1..now
    BY <1>1
  <1>3. \/ /\ published[k].from < 0
           /\ published' = [published EXCEPT ![k] = [published[k] EXCEPT !.from = now]]
        \/ /\ published[k].to < 0
           /\ published' = [published EXCEPT ![k] = [published[k] EXCEPT !.to = now]]
    BY <1>1 DEF Publish, Withdraw, Published
  <1>4. OnlyForward
    BY <1>1, <1>2, <1>3 DEF OnlyForward
  <1>5. published' \in [Keys -> [from : -1..now, to : -1..now]]
    BY <1>1, <1>2, <1>3
  <1>6. KeysTyped'
    BY <1>1, <1>5 DEF KeysTyped
  <1>7. ASSUME NEW r \in Tokenholders, auth[r].pc = "store"
        PROVE  now' - auth[r].asked <= FetchSeconds
    BY <1>1, <1>7 DEF KeysInv, AuthSound
  <1> QED
    BY <1>1, <1>4, <1>6, <1>7, IssuerKeeps

LEMMA KeysInitially ==
    ASSUME KeysSettings, KeysInit
    PROVE  KeysInv
  <1>1. now = 0 /\ cache = Never
    BY DEF KeysInit
  <1>2. published \in [Keys -> [from : -1..now, to : -1..now]]
    BY <1>1 DEF KeysInit
  <1>3. PICK key \in [Tokenholders -> Keys] :
          auth = [r \in Tokenholders |-> [pc |-> "start", token |-> key[r], forced |-> FALSE,
                                      jwks |-> {}, asked |-> 0, start |-> 0, end |-> 0]]
    BY DEF KeysInit
  <1>4. auth \in [Tokenholders -> Authentication]
    BY <1>3 DEF Authentication
  <1>5. ASSUME NEW r \in Tokenholders
        PROVE  AuthSound(auth[r])
    BY <1>1, <1>3 DEF AuthSound
  <1> QED
    BY <1>1, <1>2, <1>4, <1>5 DEF KeysInv, KeysTyped, CopyIsServed

LEMMA KeysStep ==
    ASSUME KeysSettings, KeysInv, [KeysNext]_kvars
    PROVE  KeysInv'
  <1>1. CASE UNCHANGED kvars
    BY <1>1 DEF kvars, KeysInv, KeysTyped, CopyIsServed, AuthSound, ServedSince, Acceptable,
                OutOfService, RightlyUnknown
  <1>2. CASE Tick
    BY <1>2, TickKeeps
  <1>3. CASE \E k \in Keys : Publish(k) \/ Withdraw(k)
    BY <1>3, PublishKeeps
  <1>4. ASSUME NEW r \in Tokenholders,
               \/ Begin(r) \/ Acquire(r) \/ Fetch(r) \/ Store(r) \/ ProviderFails(r) \/ Match(r)
        PROVE  KeysInv'
    BY <1>4, BeginKeeps, AcquireKeeps, FetchKeeps, StoreKeeps, ProviderFailsKeeps, MatchKeeps
  <1> QED
    BY <1>1, <1>2, <1>3, <1>4, SMTT(60) DEF KeysNext

(* The invariant is what a user of the service sees of the rotation. *)
LEMMA SoundIsFollowed ==
    ASSUME KeysSettings, KeysInv
    PROVE  RotationIsFollowed
  <1>1. ASSUME NEW r \in Tokenholders
        PROVE  LET key == published[auth[r].token]
               IN  /\ auth[r].pc = "unknown" =>
                        ~(/\ key.from >= 0 /\ key.from < auth[r].start
                          /\ key.to < 0 \/ key.to > auth[r].end)
                   /\ auth[r].pc = "accepted" =>
                        /\ key.from >= 0
                        /\ key.to >= 0 => auth[r].start < key.to + CacheSeconds + FetchSeconds
    <2>1. AuthSound(auth[r]) /\ auth[r].token \in Keys /\ auth[r].end \in Nat
      BY DEF KeysInv, KeysTyped, Authentication
    <2>2. published[auth[r].token].to \in Int /\ published[auth[r].token].from \in Int
      BY <2>1, KeyTimes DEF KeysInv
    <2>3. auth[r].pc = "unknown" => RightlyUnknown(auth[r])
      BY <2>1 DEF AuthSound
    <2>4. auth[r].pc = "accepted" => Acceptable({auth[r].token}, auth[r].start)
      BY <2>1 DEF AuthSound
    <2> QED
      BY <2>1, <2>2, <2>3, <2>4 DEF RightlyUnknown, Acceptable
  <1> QED
    BY <1>1 DEF RotationIsFollowed

(* Whatever the lives of the copy and of a fetch, however many requests share
   the copy and however the issuer rotates: a token of a key in service all
   the while is not refused as unknown, and one of a withdrawn key is accepted
   for no longer than those two lives (authenticate, _provider_configuration). *)
THEOREM RotationFollowed ==
    ASSUME KeysSettings
    PROVE  KeysSpec => []RotationIsFollowed
  <1>1. KeysInit => KeysInv
    BY KeysInitially
  <1>2. KeysInv /\ [KeysNext]_kvars => KeysInv'
    BY KeysStep
  <1>3. KeysInv => RotationIsFollowed
    BY SoundIsFollowed
  <1> QED
    BY <1>1, <1>2, <1>3, PTL DEF KeysSpec

-----------------------------------------------------------------------------
(* Migrations *)

(* A release's files are rows of the history, and a row a process has seen is
   one of the log's (discover_migrations, apply_migrations). *)
LEMMA ReleaseFiles ==
    ASSUME ReleasesGrow, NEW files \in Rows(Releases)
    PROVE  /\ files \in Seq(Migration)
           /\ \A i, j \in DOMAIN files : i < j => files[i].version < files[j].version
           /\ \A s \in DOMAIN Releases : \A i \in DOMAIN files \cap DOMAIN Releases[s] :
                files[i].version = Releases[s][i].version
  BY DEF ReleasesGrow, Rows

(* A release's n-th file, if it is recorded at all, is the n-th row: versions
   belong to places. *)
LEMMA InItsPlace ==
    ASSUME ReleasesGrow, LogSound, NEW files \in Rows(Releases),
           NEW i \in DOMAIN files, NEW j \in DOMAIN log, log[j].version = files[i].version
    PROVE  j = i
  <1>1. PICK s \in DOMAIN Releases : j \in DOMAIN Releases[s] /\ log[j].version = Releases[s][j].version
    BY DEF LogSound
  <1>2. /\ files \in Seq(Migration) /\ Releases[s] \in Seq(Migration) /\ log \in Seq(Migration)
        /\ i \in Nat /\ j \in Nat
    BY <1>1, ReleaseFiles DEF ReleasesGrow, LogSound
  <1>3. CASE j < i
    <2>1. j \in DOMAIN files
      BY <1>2, <1>3
    <2>2. files[j].version = Releases[s][j].version /\ files[j].version < files[i].version
      BY <1>1, <1>3, <2>1, ReleaseFiles
    <2>3. files[i] \in Migration /\ files[j] \in Migration
      BY <1>2, <2>1
    <2>4. files[i].version \in Nat /\ files[j].version \in Nat
      BY <2>3 DEF Migration
    <2> QED
      BY <1>1, <2>2, <2>4
  <1>4. CASE i < j
    <2>1. i \in DOMAIN Releases[s]
      BY <1>1, <1>2, <1>4
    <2>2. files[i].version = Releases[s][i].version /\ Releases[s][i].version < Releases[s][j].version
      BY <1>1, <1>4, <2>1, ReleaseFiles, ZenonT(60) DEF ReleasesGrow
    <2>3. Releases[s][i] \in Migration /\ Releases[s][j] \in Migration
      BY <1>1, <1>2, <2>1, SMTT(60)
    <2>4. Releases[s][i].version \in Nat /\ Releases[s][j].version \in Nat
      BY <2>3 DEF Migration
    <2>5. Releases[s][j].version = Releases[s][i].version
      BY <1>1, <2>2
    <2> QED
      BY <2>2, <2>4, <2>5
  <1> QED
    BY <1>2, <1>3, <1>4

(* The fields of a process, one by one. *)
LEMMA ProcFields ==
    ASSUME NEW q \in Process
    PROVE  /\ q.pc \in {"down", "read", "apply", "ready"}
           /\ q.release \in {<<>>} \cup Rows(Releases)
           /\ q.seen \subseteq Migration /\ q.at \in Nat \ {0} /\ q.starts \in Nat
  BY DEF Process

(* The history only grows at its end. *)
LogGrows ==
    \A i \in DOMAIN log : i \in DOMAIN log' /\ log'[i] = log[i]

(* A step of one process: the others, who may have seen less of the history
   than there is now, stay sound. *)
LEMMA OneProcess ==
    ASSUME MigrationsInv, NEW p \in Processes, NEW b \in Process,
           proc' = [proc EXCEPT ![p] = b], ProcSound(b)', LogSound', LogGrows
    PROVE  MigrationsInv'
  <1>1. /\ proc \in [Processes -> Process] /\ \A q \in Processes : ProcSound(proc[q])
    BY DEF MigrationsInv
  <1>2. ASSUME NEW q \in Processes
        PROVE  ProcSound(proc[q])'
    <2>1. PICK c : c = proc'[q]
      OBVIOUS
    <2>2. c = b \/ c = proc[q]
      BY <1>1, <2>1
    <2>3. ASSUME c = proc[q]
          PROVE  ProcSound(c)'
      <3>1. ProcSound(c)
        BY <1>1, <2>3
      <3>2. Rows(log) \subseteq Rows(log)'
        BY DEF Rows, LogGrows
      <3> QED
        BY <3>1, <3>2 DEF ProcSound, LogGrows
    <2>4. ProcSound(c)'
      <3>1. CASE c = b
        BY <3>1
      <3> QED
        BY <2>2, <2>3, <3>1
    <2> QED
      BY <2>1, <2>4 DEF ProcSound
  <1>3. proc' \in [Processes -> Process]
    BY <1>1
  <1> QED
    BY <1>2, <1>3 DEF MigrationsInv

(* A step of one process that leaves the history alone. *)
LEMMA OneProcessReads ==
    ASSUME MigrationsInv, NEW p \in Processes, NEW b \in Process,
           proc' = [proc EXCEPT ![p] = b], ProcSound(b), UNCHANGED <<log, schema>>
    PROVE  MigrationsInv'
  <1>1. LogSound' /\ LogGrows
    BY DEF MigrationsInv, LogSound, LogGrows
  <1>2. ProcSound(b)'
    BY DEF ProcSound, Rows
  <1> QED
    BY <1>1, <1>2, OneProcess

(* A process that is down, from whatever it was doing, is sound. *)
LEMMA DownIsSound ==
    ASSUME NEW n \in Nat
    PROVE  Down(n) \in Process /\ ProcSound(Down(n))
  BY DEF Down, Process, ProcSound

LEMMA StartKeeps ==
    ASSUME MigrationsInv, ReleasesGrow, NEW p \in Processes, Start(p)
    PROVE  MigrationsInv'
  <1>1. PICK r \in DOMAIN Releases :
          proc' = [proc EXCEPT ![p] = [Down(proc[p].starts + 1) EXCEPT !.pc = "read",
                                                                       !.release = Releases[r]]]
    BY DEF Start
  <1> DEFINE b == [Down(proc[p].starts + 1) EXCEPT !.pc = "read", !.release = Releases[r]]
  <1>2. proc[p].starts \in Nat
    BY ProcFields DEF MigrationsInv
  <1>3. /\ b.pc = "read" /\ b.release = Releases[r] /\ b.seen = {} /\ b.at = 1
    BY DEF Down
  <1>4. Releases[r] \in Rows(Releases) /\ Releases[r] \in Seq(Migration)
    BY DEF Rows, ReleasesGrow
  <1>5. b \in Process
    <2>1. PICK d : d = Down(proc[p].starts + 1)
      OBVIOUS
    <2>2. d \in Process
      BY <1>2, <2>1, DownIsSound
    <2>3. b = [d EXCEPT !.pc = "read", !.release = Releases[r]]
      BY <2>1
    <2> QED
      BY <1>4, <2>2, <2>3 DEF Process
  <1>6. proc' = [proc EXCEPT ![p] = b] /\ UNCHANGED <<log, schema>>
    BY <1>1 DEF Start
  <1> HIDE DEF b
  <1>7. ASSUME NEW i \in DOMAIN b.release
        PROVE  ~(i < b.at)
    BY <1>3, <1>4
  <1>8. ProcSound(b)
    BY <1>3, <1>4, <1>7 DEF ProcSound
  <1> QED
    BY <1>5, <1>6, <1>8, OneProcessReads

LEMMA ReadHistoryKeeps ==
    ASSUME MigrationsInv, ReleasesGrow, NEW p \in Processes, ReadHistory(p)
    PROVE  MigrationsInv'
  <1> DEFINE b == [proc[p] EXCEPT !.pc = "apply", !.seen = Rows(log)]
  <1>1. /\ proc \in [Processes -> Process] /\ proc[p] \in Process /\ ProcSound(proc[p])
        /\ proc[p].pc = "read" /\ LogSound
    BY DEF MigrationsInv, ReadHistory
  <1>2. Rows(log) \subseteq Migration
    BY <1>1 DEF Rows, LogSound
  <1>3. b \in Process
    BY <1>1, <1>2 DEF Process
  <1>4. /\ b.pc = "apply" /\ b.release = proc[p].release /\ b.seen = Rows(log)
        /\ b.at = proc[p].at
    BY <1>1 DEF Process
  <1>5. proc' = [proc EXCEPT ![p] = b] /\ UNCHANGED <<log, schema>>
    BY <1>1 DEF ReadHistory
  <1> HIDE DEF b
  <1>6. ProcSound(b)
    BY <1>1, <1>4 DEF ProcSound
  <1> QED
    BY <1>3, <1>5, <1>6, OneProcessReads

(* The file a process is at: a row of its release. *)
LEMMA FileFacts ==
    ASSUME MigrationsInv, ReleasesGrow, NEW p \in Processes, proc[p].pc = "apply",
           proc[p].at <= Len(proc[p].release)
    PROVE  /\ proc[p].release \in Rows(Releases) /\ proc[p].release \in Seq(Migration)
           /\ proc[p].at \in DOMAIN proc[p].release /\ File(p) = proc[p].release[proc[p].at]
           /\ File(p) \in Migration
  <1>1. ProcSound(proc[p]) /\ proc[p] \in Process
    BY DEF MigrationsInv
  <1>2. proc[p].release \in Rows(Releases)
    BY <1>1 DEF ProcSound
  <1>3. proc[p].release \in Seq(Migration) /\ proc[p].at \in Nat \ {0}
    BY <1>1, <1>2, ReleaseFiles, ProcFields
  <1> QED
    BY <1>2, <1>3 DEF File

(* A process that moves to another file is a process. *)
LEMMA MovedOn ==
    ASSUME NEW q \in Process, NEW n \in Nat \ {0}
    PROVE  [q EXCEPT !.at = n] \in Process
  BY DEF Process

LEMMA SkipKeeps ==
    ASSUME MigrationsInv, ReleasesGrow, NEW p \in Processes, Skip(p)
    PROVE  MigrationsInv'
  <1> DEFINE b == [proc[p] EXCEPT !.at = @ + 1]
  <1>1. /\ proc \in [Processes -> Process] /\ proc[p] \in Process /\ ProcSound(proc[p])
        /\ proc[p].pc = "apply" /\ LogSound /\ proc[p].at <= Len(proc[p].release)
    BY DEF MigrationsInv, Skip
  <1>2. /\ proc[p].release \in Rows(Releases) /\ proc[p].release \in Seq(Migration)
        /\ proc[p].at \in DOMAIN proc[p].release /\ File(p) = proc[p].release[proc[p].at]
    BY <1>1, FileFacts
  <1>3. proc[p].at \in Nat \ {0}
    BY <1>1, ProcFields
  <1>4. b \in Process
    <2>1. proc[p].at + 1 \in Nat \ {0}
      BY <1>3
    <2> QED
      BY <1>1, <2>1, MovedOn
  <1>5. /\ b.pc = "apply" /\ b.release = proc[p].release /\ b.seen = proc[p].seen
        /\ b.at = proc[p].at + 1
    BY <1>1 DEF Process
  <1>6. proc' = [proc EXCEPT ![p] = b] /\ UNCHANGED <<log, schema>>
    BY <1>1 DEF Skip
  <1>7. proc[p].at \in DOMAIN log /\ log[proc[p].at] = File(p)
    <2>1. File(p) \in Rows(log)
      BY <1>1 DEF Skip, Recorded, ProcSound
    <2>2. PICK j \in DOMAIN log : log[j] = File(p)
      BY <2>1 DEF Rows
    <2>3. PICK files, i : files = proc[p].release /\ i = proc[p].at
      OBVIOUS
    <2>4. j = i
      <3>1. files \in Rows(Releases) /\ i \in DOMAIN files /\ log[j].version = files[i].version
        BY <1>2, <2>2, <2>3
      <3> QED
        BY <1>1, <3>1, InItsPlace
    <2> QED
      BY <2>2, <2>3, <2>4
  <1> HIDE DEF b
  <1>8. ASSUME NEW i \in DOMAIN b.release, i < b.at
        PROVE  i \in DOMAIN log /\ log[i] = b.release[i]
    <2>1. i \in Nat /\ (i < proc[p].at \/ i = proc[p].at)
      BY <1>2, <1>3, <1>5, <1>8, SMTT(60)
    <2>2. CASE i < proc[p].at
      BY <1>1, <1>5, <1>8, <2>2 DEF ProcSound
    <2>3. CASE i = proc[p].at
      BY <1>2, <1>5, <1>7, <2>3
    <2> QED
      BY <2>1, <2>2, <2>3
  <1>9. ProcSound(b)
    BY <1>1, <1>5, <1>8 DEF ProcSound
  <1> QED
    BY <1>4, <1>6, <1>9, OneProcessReads

(* Processes that are stopped, refused or fail leave the history alone. *)
LEMMA GoesDown ==
    ASSUME MigrationsInv, NEW p \in Processes, UNCHANGED <<log, schema>>,
           proc' = [proc EXCEPT ![p] = Down(proc[p].starts)]
    PROVE  MigrationsInv'
  <1>1. proc[p].starts \in Nat
    BY ProcFields DEF MigrationsInv
  <1>2. Down(proc[p].starts) \in Process /\ ProcSound(Down(proc[p].starts))
    BY <1>1, DownIsSound
  <1>3. PICK b : b = Down(proc[p].starts)
    OBVIOUS
  <1>4. b \in Process /\ ProcSound(b) /\ proc' = [proc EXCEPT ![p] = b]
    BY <1>2, <1>3
  <1> QED
    BY <1>4, OneProcessReads

LEMMA ReadyKeeps ==
    ASSUME MigrationsInv, NEW p \in Processes, Ready(p)
    PROVE  MigrationsInv'
  <1> DEFINE b == [proc[p] EXCEPT !.pc = "ready"]
  <1>1. /\ proc \in [Processes -> Process] /\ proc[p] \in Process /\ ProcSound(proc[p])
        /\ proc[p].pc = "apply" /\ proc[p].at > Len(proc[p].release)
    BY DEF MigrationsInv, Ready
  <1>2. b \in Process
    BY <1>1 DEF Process
  <1>3. /\ b.pc = "ready" /\ b.release = proc[p].release /\ b.seen = proc[p].seen
        /\ b.at = proc[p].at
    BY <1>1 DEF Process
  <1>4. proc' = [proc EXCEPT ![p] = b] /\ UNCHANGED <<log, schema>>
    BY <1>1 DEF Ready
  <1> HIDE DEF b
  <1>5. ProcSound(b)
    BY <1>1, <1>3 DEF ProcSound
  <1> QED
    BY <1>2, <1>4, <1>5, OneProcessReads

(* A migration is applied when all before it are recorded and it is not, so
   its row is the next one: the primary key keeps a racing process from
   recording it twice, and the places of the versions a later one from coming
   before it. *)
LEMMA ApplyKeeps ==
    ASSUME MigrationsInv, ReleasesGrow, NEW p \in Processes, Apply(p)
    PROVE  MigrationsInv'
  <1> DEFINE b == [proc[p] EXCEPT !.at = @ + 1]
  <1>1. /\ proc \in [Processes -> Process] /\ proc[p] \in Process /\ ProcSound(proc[p])
        /\ proc[p].pc = "apply" /\ LogSound /\ proc[p].at <= Len(proc[p].release)
    BY DEF MigrationsInv, Apply
  <1>2. PICK files, at, f : files = proc[p].release /\ at = proc[p].at /\ f = File(p)
    OBVIOUS
  <1>3. /\ files \in Rows(Releases) /\ files \in Seq(Migration)
        /\ at \in DOMAIN files /\ f = files[at] /\ f \in Migration
    BY <1>1, <1>2, FileFacts
  <1>4. at \in Nat \ {0} /\ log \in Seq(Migration) /\ schema = log
    BY <1>1, <1>2, ProcFields DEF LogSound
  <1>5. log' = Append(log, f) /\ schema' = Append(log, f)
    BY <1>2, <1>4 DEF Apply
  <1>6. \A j \in DOMAIN log : log[j].version # f.version
    BY <1>2 DEF Apply, Rows
  <1>7. Len(log) = at - 1
    <2>1. at - 1 <= Len(log)
      <3>1. CASE at = 1
        BY <1>4, <3>1
      <3>2. CASE at # 1
        <4>1. at - 1 \in DOMAIN files /\ at - 1 < at
          BY <1>3, <1>4, <3>2
        <4>2. at - 1 \in DOMAIN log
          BY <1>1, <1>2, <4>1 DEF ProcSound
        <4> QED
          BY <1>4, <4>2
      <3> QED
        BY <3>1, <3>2
    <2>2. ~(at <= Len(log))
      <3>1. SUFFICES ASSUME at <= Len(log) PROVE FALSE
        OBVIOUS
      <3>2. at \in DOMAIN log
        BY <1>4, <3>1
      <3>3. PICK s \in DOMAIN Releases : at \in DOMAIN Releases[s] /\ log[at].version = Releases[s][at].version
        BY <1>1, <3>2 DEF LogSound
      <3>4. files[at].version = Releases[s][at].version
        BY <1>3, <3>3, ReleaseFiles
      <3> QED
        BY <1>3, <1>6, <3>2, <3>3, <3>4
    <2> QED
      BY <1>4, <2>1, <2>2
  <1>8. /\ log' \in Seq(Migration) /\ Len(log') = at /\ log'[at] = f
        /\ \A i \in DOMAIN log : i \in DOMAIN log' /\ log'[i] = log[i]
        /\ \A i \in DOMAIN log' : i \in DOMAIN log \/ i = at
    BY <1>3, <1>4, <1>5, <1>7
  <1>9. LogGrows
    BY <1>8 DEF LogGrows
  <1>10. LogSound'
    <2>1. ASSUME NEW i \in DOMAIN log'
          PROVE  \E r \in DOMAIN Releases :
                    i \in DOMAIN Releases[r] /\ log'[i].version = Releases[r][i].version
      <3>1. CASE i \in DOMAIN log
        BY <1>1, <1>8, <3>1 DEF LogSound
      <3>2. CASE i = at
        BY <1>3, <1>8, <3>2 DEF Rows
      <3> QED
        BY <1>8, <3>1, <3>2
    <2>2. schema' = log'
      BY <1>5
    <2> QED
      BY <1>8, <2>1, <2>2 DEF LogSound
  <1>11. CASE proc' = [proc EXCEPT ![p] = Down(proc[p].starts)]
    <2>1. PICK n : n = proc[p].starts
      OBVIOUS
    <2>2. n \in Nat
      BY <1>1, <2>1, ProcFields
    <2>3. PICK c : c = Down(n)
      OBVIOUS
    <2>4. c \in Process /\ ProcSound(c)'
      BY <2>2, <2>3 DEF Down, Process, ProcSound
    <2>5. proc' = [proc EXCEPT ![p] = c]
      BY <1>11, <2>1, <2>3
    <2> QED
      BY <1>9, <1>10, <2>4, <2>5, OneProcess
  <1>12. CASE proc' = [proc EXCEPT ![p].at = @ + 1]
    <2>1. b \in Process
      <3>1. proc[p].at + 1 \in Nat \ {0}
        BY <1>2, <1>4
      <3> QED
        BY <1>1, <3>1, MovedOn
    <2>2. /\ b.pc = "apply" /\ b.release = files /\ b.seen = proc[p].seen
          /\ b.at = at + 1
      BY <1>1, <1>2 DEF Process
    <2>3. proc' = [proc EXCEPT ![p] = b]
      BY <1>1, <1>12
    <2>4. PICK c : c = b
      OBVIOUS
    <2> HIDE DEF b
    <2>5. ASSUME NEW i \in DOMAIN files, i < at + 1
          PROVE  i \in DOMAIN log' /\ log'[i] = files[i]
      <3>1. i \in Nat /\ (i < at \/ i = at)
        BY <1>3, <1>4, <2>5
      <3>2. CASE i < at
        <4>1. i \in DOMAIN log /\ log[i] = files[i]
          BY <1>1, <1>2, <3>2 DEF ProcSound
        <4> QED
          BY <1>8, <4>1
      <3>3. CASE i = at
        <4>1. i \in 1..Len(log')
          BY <1>4, <1>8, <3>3
        <4> QED
          BY <1>3, <1>8, <3>3, <4>1
      <3> QED
        BY <3>1, <3>2, <3>3
    <2>6. c.seen \subseteq Rows(log)'
      <3>1. proc[p].seen \subseteq Rows(log)
        BY <1>1 DEF ProcSound
      <3> QED
        BY <2>2, <2>4, <3>1, <1>8 DEF Rows
    <2>7. ProcSound(c)'
      BY <1>3, <2>2, <2>4, <2>5, <2>6 DEF ProcSound
    <2> QED
      BY <1>9, <1>10, <2>1, <2>3, <2>4, <2>7, OneProcess
  <1> QED
    BY <1>11, <1>12 DEF Apply

LEMMA MigrationsInitially ==
    ASSUME MigrationsInit
    PROVE  MigrationsInv
  <1>1. log = <<>> /\ schema = <<>> /\ proc = [p \in Processes |-> Down(0)]
    BY DEF MigrationsInit
  <1>2. Down(0) \in Process /\ ProcSound(Down(0))
    BY DownIsSound
  <1>3. LogSound
    BY <1>1 DEF LogSound
  <1> QED
    BY <1>1, <1>2, <1>3 DEF MigrationsInv

LEMMA MigrationsStep ==
    ASSUME ReleasesGrow, MigrationsInv, [MigrationsNext]_mvars
    PROVE  MigrationsInv'
  <1>1. CASE UNCHANGED mvars
    BY <1>1 DEF mvars, MigrationsInv, LogSound, ProcSound, Rows
  <1>2. ASSUME NEW p \in Processes,
               \/ Start(p) \/ ReadHistory(p) \/ Skip(p) \/ RefuseEdited(p)
               \/ Apply(p) \/ Ready(p) \/ Stop(p)
        PROVE  MigrationsInv'
    <2>1. CASE RefuseEdited(p) \/ Stop(p)
      <3>1. proc' = [proc EXCEPT ![p] = Down(proc[p].starts)] /\ UNCHANGED <<log, schema>>
        BY <2>1 DEF RefuseEdited, Stop, MigrationsInv
      <3> QED
        BY <3>1, GoesDown
    <2> QED
      BY <1>2, <2>1, StartKeeps, ReadHistoryKeeps, SkipKeeps, ApplyKeeps, ReadyKeeps
  <1> QED
    BY <1>1, <1>2 DEF MigrationsNext

(* The rows are in version order because each stands in its place; and a
   process that is up is past every file of its release. *)
LEMMA SoundIsTheSchema ==
    ASSUME ReleasesGrow, MigrationsInv
    PROVE  HistoryIsTheSchema
  <1>1. LogSound
    BY DEF MigrationsInv
  <1>2. ASSUME NEW i \in DOMAIN log, NEW j \in DOMAIN log, i < j
        PROVE  log[i].version < log[j].version
    <2>1. PICK r \in DOMAIN Releases : i \in DOMAIN Releases[r] /\ log[i].version = Releases[r][i].version
      BY <1>1 DEF LogSound
    <2>2. PICK s \in DOMAIN Releases : j \in DOMAIN Releases[s] /\ log[j].version = Releases[s][j].version
      BY <1>1 DEF LogSound
    <2>3. Releases[s] \in Seq(Migration) /\ log \in Seq(Migration)
      BY <1>1 DEF LogSound, ReleasesGrow
    <2>4. i \in DOMAIN Releases[s]
      BY <1>2, <2>2, <2>3
    <2>5. Releases[r][i].version = Releases[s][i].version
      BY <2>1, <2>4 DEF ReleasesGrow
    <2>6. Releases[s][i].version < Releases[s][j].version
      BY <1>2, <2>2, <2>4 DEF ReleasesGrow
    <2> QED
      BY <2>1, <2>2, <2>5, <2>6
  <1>3. ASSUME NEW p \in Processes, proc[p].pc = "ready"
        PROVE  Rows(proc[p].release) \subseteq Rows(log)
    <2>1. ProcSound(proc[p]) /\ proc[p] \in Process
      BY DEF MigrationsInv
    <2>2. proc[p].release \in Rows(Releases) /\ proc[p].at > Len(proc[p].release)
      BY <1>3, <2>1 DEF ProcSound
    <2>3. proc[p].release \in Seq(Migration) /\ proc[p].at \in Nat
      BY <2>1, <2>2, ReleaseFiles, ProcFields
    <2>4. ASSUME NEW i \in DOMAIN proc[p].release
          PROVE  i \in DOMAIN log /\ log[i] = proc[p].release[i]
      <3>1. i < proc[p].at
        BY <2>2, <2>3
      <3> QED
        BY <2>1, <3>1 DEF ProcSound
    <2> QED
      BY <2>4 DEF Rows
  <1>4. log = schema
    BY <1>1 DEF LogSound
  <1> QED
    BY <1>2, <1>3, <1>4 DEF HistoryIsTheSchema

(* However many processes of however many releases race, crash and are rolled
   back over one database, without a lock: the history is the schema, each
   migration took effect once, in version order, and a process that is up runs
   on its own files. The releases only ever add files at the end; an edited
   file may ship, and is refused (apply_migrations). *)
THEOREM HistoryHolds ==
    ASSUME ReleasesGrow
    PROVE  MigrationsSpec => []HistoryIsTheSchema
  <1>1. MigrationsInit => MigrationsInv
    BY MigrationsInitially
  <1>2. MigrationsInv /\ [MigrationsNext]_mvars => MigrationsInv'
    BY MigrationsStep
  <1>3. MigrationsInv => HistoryIsTheSchema
    BY SoundIsTheSchema
  <1> QED
    BY <1>1, <1>2, <1>3, PTL DEF MigrationsSpec

-----------------------------------------------------------------------------
(* Conversations *)

(* The numbers below b in ascending order (messages). *)
LEMMA AscendingIs ==
    ASSUME NEW b \in Nat
    PROVE  /\ Ascending(0..(b - 1)) \in Seq(Nat)
           /\ Len(Ascending(0..(b - 1))) = b
           /\ \A i \in 1..b : Ascending(0..(b - 1))[i] = i - 1
  <1> DEFINE S == 0..(b - 1)
  <1>1. Cardinality(S) = b
    BY FS_Interval
  <1>2. ASSUME NEW n \in S
        PROVE  Cardinality({m \in S : m < n}) = n
    <2>1. {m \in S : m < n} = 0..(n - 1)
      OBVIOUS
    <2>2. Cardinality(0..(n - 1)) = n
      BY FS_Interval
    <2> QED
      BY <2>1, <2>2
  <1>3. ASSUME NEW i \in 1..b
        PROVE  (CHOOSE n \in S : Cardinality({m \in S : m < n}) = i - 1) = i - 1
    <2>1. i - 1 \in S /\ Cardinality({m \in S : m < i - 1}) = i - 1
      BY <1>2
    <2>2. \A n \in S : Cardinality({m \in S : m < n}) = i - 1 => n = i - 1
      BY <1>2
    <2> HIDE DEF S
    <2> QED
      BY <2>1, <2>2
  <1>4. Ascending(S) = [i \in 1..b |-> i - 1]
    BY <1>1, <1>3 DEF Ascending
  <1> HIDE DEF S
  <1>5. [i \in 1..b |-> i - 1] \in Seq(Nat) /\ Len([i \in 1..b |-> i - 1]) = b
    OBVIOUS
  <1> QED
    BY <1>4, <1>5 DEF S

(* The numbers from lo up to below b, of which there are some unless b is 0. *)
RunOf(page, lo, b) ==
    /\ lo <= b /\ (lo = b <=> b = 0)
    /\ page \in Seq(Nat) /\ Len(page) = b - lo
    /\ \A i \in 1..(b - lo) : page[i] = lo + i - 1

(* A page: the last of the numbers below b. *)
LEMMA PageIs ==
    ASSUME TranscriptSettings, NEW t, NEW c \in Nat, Sequences(t) = 0..(c - 1), NEW b \in 0..c
    PROVE  \E lo \in Nat : RunOf(MessagesBefore(t, b), lo, b)
  <1>1. {n \in Sequences(t) : n < b} = 0..(b - 1)
    OBVIOUS
  <1>2. PICK s : s = Ascending(0..(b - 1))
    OBVIOUS
  <1>3. b \in Nat /\ s \in Seq(Nat) /\ Len(s) = b /\ \A i \in 1..b : s[i] = i - 1
    <2>1. b \in Nat
      OBVIOUS
    <2> QED
      BY <1>2, <2>1, AscendingIs
  <1>4. PICK lo : lo = IF b > Page THEN b - Page ELSE 0
    OBVIOUS
  <1>5. Page \in Nat \ {0}
    BY DEF TranscriptSettings
  <1>6. lo \in Nat /\ lo <= b /\ (lo = b <=> b = 0)
    BY <1>4, <1>5
  <1>7. MessagesBefore(t, b) = SubSeq(s, lo + 1, b)
    <2>1. MessagesBefore(t, b) = SubSeq(s, IF Len(s) > Page THEN Len(s) - Page + 1 ELSE 1, Len(s))
      BY <1>1, <1>2 DEF MessagesBefore
    <2>2. (IF Len(s) > Page THEN Len(s) - Page + 1 ELSE 1) = lo + 1
      BY <1>3, <1>4, <1>5
    <2> QED
      BY <1>3, <2>1, <2>2
  <1>8. SubSeq(s, lo + 1, b) \in Seq(Nat) /\ Len(SubSeq(s, lo + 1, b)) = b - lo
    BY <1>3, <1>6
  <1>9. ASSUME NEW i \in 1..(b - lo)
        PROVE  SubSeq(s, lo + 1, b)[i] = lo + i - 1
    BY <1>3, <1>6
  <1>10. RunOf(SubSeq(s, lo + 1, b), lo, b)
    BY <1>6, <1>8, <1>9 DEF RunOf
  <1> QED
    BY <1>6, <1>7, <1>10

(* The next sequence is the number of messages (_NEXT_SEQUENCE). *)
LEMMA NextIs ==
    ASSUME NEW t, NEW n \in Nat, Numbered(t, n)
    PROVE  NextSequence(t) = n
  <1>1. IsFiniteSet(msgs[t]) /\ Cardinality(msgs[t]) = n /\ Sequences(t) = 0..(n - 1)
    BY DEF Numbered
  <1>2. msgs[t] = {} <=> n = 0
    BY <1>1, FS_EmptySet
  <1>3. CASE n = 0
    BY <1>2, <1>3 DEF NextSequence
  <1>4. CASE n # 0
    <2>1. Max(0..(n - 1)) = n - 1
      <3>1. n - 1 \in 0..(n - 1) /\ \A y \in 0..(n - 1) : n - 1 >= y
        BY <1>4
      <3>2. \A x \in 0..(n - 1) : (\A y \in 0..(n - 1) : x >= y) => x = n - 1
        BY <3>1
      <3> QED
        BY <3>1, <3>2 DEF Max
    <2> QED
      BY <1>1, <1>2, <1>4, <2>1 DEF NextSequence
  <1> QED
    BY <1>3, <1>4

(* A row that owns a thread keeps its owner and its datasource.            *)
OwnersStay ==
    \A t \in Threads : conv[t] # None =>
        conv'[t] # None /\ conv'[t].owner = conv[t].owner /\ conv'[t].source = conv[t].source

(* What leaves the messages and the reader alone needs to be sound for the
   request it is about. *)
LEMMA MessagesLeft ==
    ASSUME TranscriptInv, conv' \in [Threads -> Conversation \cup {None}], OwnersStay,
           req' \in [Requests -> Request], \A q \in Requests : req'[q].ask = req[q].ask,
           UNCHANGED <<msgs, reader>>,
           \A q \in Requests : req'[q] = req[q] \/ RequestSound(q)'
    PROVE  TranscriptInv'
  <1>1. TranscriptTyped'
    BY DEF TranscriptInv, TranscriptTyped
  <1>2. \A t \in Threads : Numbered(t, Cardinality(msgs[t]))'
    BY SMTT(60) DEF TranscriptInv, Numbered, Sequences
  <1>3. ASSUME NEW t \in Threads, NEW m \in msgs[t]
        PROVE  Placed(m, t)'
    <2>1. m.request \in Requests
      BY DEF TranscriptInv, TranscriptTyped, Message
    <2>2. Placed(m, t)
      BY DEF TranscriptInv
    <2> QED
      BY <2>1, <2>2 DEF Placed, OwnersStay, Turn
  <1>4. ASSUME NEW q \in Requests, req'[q] = req[q]
        PROVE  RequestSound(q)'
    <2>1. RequestSound(q) /\ req[q].ask.thread \in Threads
      BY DEF TranscriptInv, TranscriptTyped, Request, Ask
    <2> QED
      BY <1>4, <2>1 DEF RequestSound, OwnersStay, Sequences, Turn
  <1>5. ReaderSound'
    BY DEF TranscriptInv, ReaderSound
  <1> QED
    BY <1>1, <1>2, <1>3, <1>4, <1>5 DEF TranscriptInv

(* A request at another of its steps keeps the rest (Goto). *)
LEMMA Moved ==
    ASSUME req \in [Requests -> Request], NEW r \in Requests, NEW pc \in Steps \cup Ends,
           Goto(r, pc)
    PROVE  /\ req' \in [Requests -> Request]
           /\ req'[r].pc = pc /\ req'[r].start = req[r].start
           /\ \A q \in Requests : req'[q].ask = req[q].ask
           /\ \A q \in Requests : q # r => req'[q] = req[q]
  <1>1. PICK b : b = [req[r] EXCEPT !.pc = pc]
    OBVIOUS
  <1>2. b \in Request /\ b.pc = pc /\ b.start = req[r].start /\ b.ask = req[r].ask
    BY <1>1 DEF Request
  <1>3. req' = [req EXCEPT ![r] = b]
    BY <1>1 DEF Goto
  <1> QED
    BY <1>2, <1>3

(* A request that only moves on. *)
LEMMA MovesOn ==
    ASSUME TranscriptInv, NEW r \in Requests, NEW pc \in Steps \cup Ends,
           Goto(r, pc), UNCHANGED <<conv, msgs, reader>>, RequestSound(r)'
    PROVE  TranscriptInv'
  <1>1. /\ req \in [Requests -> Request] /\ conv \in [Threads -> Conversation \cup {None}]
    BY DEF TranscriptInv, TranscriptTyped
  <1>2. OwnersStay
    BY DEF OwnersStay
  <1> QED
    BY <1>1, <1>2, Moved, MessagesLeft

(* Until the turn is recorded, and where a statement of it fails. *)
LEMMA PrepareKeeps ==
    ASSUME TranscriptInv, NEW r \in Requests, Prepare(r)
    PROVE  TranscriptInv'
  <1>1. PICK pc \in {"error", "asked_back", "graph"} : Goto(r, pc)
    BY DEF Prepare
  <1>2. pc \in Steps \cup Ends /\ req \in [Requests -> Request] /\ RequestSound(r)
        /\ req[r].pc = "start" /\ UNCHANGED <<conv, msgs, reader>>
    BY DEF TranscriptInv, TranscriptTyped, Prepare, Steps, Ends
  <1>3. RequestSound(r)'
    BY <1>1, <1>2, Moved DEF RequestSound
  <1> QED
    BY <1>1, <1>2, <1>3, MovesOn

LEMMA AnswerKeeps ==
    ASSUME TranscriptInv, NEW r \in Requests, Answer(r)
    PROVE  TranscriptInv'
  <1>1. PICK pc \in {"error", "lookup"} : Goto(r, pc)
    BY DEF Answer
  <1>2. pc \in Steps \cup Ends /\ req \in [Requests -> Request] /\ RequestSound(r)
        /\ req[r].pc = "graph" /\ UNCHANGED <<conv, msgs, reader>>
    BY DEF TranscriptInv, TranscriptTyped, Answer, Steps, Ends
  <1>3. RequestSound(r)'
    BY <1>1, <1>2, Moved DEF RequestSound
  <1> QED
    BY <1>1, <1>2, <1>3, MovesOn

LEMMA StoreFailsKeeps ==
    ASSUME TranscriptInv, NEW r \in Requests, StoreFails(r)
    PROVE  TranscriptInv'
  <1>1. "warned" \in Steps \cup Ends /\ req \in [Requests -> Request]
        /\ Goto(r, "warned") /\ UNCHANGED <<conv, msgs, reader>>
    BY DEF TranscriptInv, TranscriptTyped, StoreFails, Ends
  <1>2. RequestSound(r)'
    BY <1>1, Moved DEF RequestSound
  <1> QED
    BY <1>1, <1>2, MovesOn

(* The row that owns the thread is another's, or the turn goes on under it. *)
LEMMA CheckedKeeps ==
    ASSUME TranscriptInv, NEW r \in Requests, conv[req[r].ask.thread] # None,
           req[r].pc \in {"lookup", "reread"}, Goto(r, Checked(r)),
           UNCHANGED <<conv, msgs, reader>>
    PROVE  TranscriptInv'
  <1>1. PICK pc : pc = Checked(r)
    BY SMTT(60)
  <1>2. /\ pc \in {"next", "warned"}
        /\ LET a == req[r].ask
               c == conv[a.thread]
           IN pc = "next" => c.owner = a.subject /\ c.source = a.source
    BY <1>1 DEF Checked
  <1>3. pc \in Steps \cup Ends /\ req \in [Requests -> Request] /\ RequestSound(r)
        /\ Goto(r, pc)
    BY <1>1, <1>2, SMTT(60) DEF TranscriptInv, TranscriptTyped, Steps, Ends
  <1>4. RequestSound(r)'
    BY <1>2, <1>3, Moved DEF RequestSound
  <1> QED
    BY <1>3, <1>4, MovesOn

LEMMA LookupKeeps ==
    ASSUME TranscriptInv, NEW r \in Requests, Lookup(r)
    PROVE  TranscriptInv'
  <1>1. CASE conv[req[r].ask.thread] # None
    BY <1>1, CheckedKeeps DEF Lookup
  <1>2. CASE conv[req[r].ask.thread] = None
    <2>1. "insert" \in Steps \cup Ends /\ req \in [Requests -> Request] /\ RequestSound(r)
          /\ req[r].pc = "lookup" /\ Goto(r, "insert") /\ UNCHANGED <<conv, msgs, reader>>
      BY <1>2, SMTT(60) DEF TranscriptInv, TranscriptTyped, Lookup, Steps
    <2>2. RequestSound(r)'
      BY <2>1, Moved DEF RequestSound
    <2> QED
      BY <2>1, <2>2, MovesOn
  <1> QED
    BY <1>1, <1>2

LEMMA RereadKeeps ==
    ASSUME TranscriptInv, NEW r \in Requests, Reread(r)
    PROVE  TranscriptInv'
  <1>1. RequestSound(r) /\ req[r].pc = "reread"
    BY DEF TranscriptInv, Reread
  <1>2. conv[req[r].ask.thread] # None
    BY <1>1 DEF RequestSound
  <1> QED
    BY <1>1, <1>2, CheckedKeeps DEF Reread

LEMMA ReadNextKeeps ==
    ASSUME TranscriptInv, NEW r \in Requests, ReadNext(r)
    PROVE  TranscriptInv'
  <1> DEFINE t == req[r].ask.thread
  <1>1. /\ req \in [Requests -> Request] /\ conv \in [Threads -> Conversation \cup {None}]
        /\ RequestSound(r) /\ req[r].pc = "next" /\ UNCHANGED <<conv, msgs, reader>>
    BY DEF TranscriptInv, TranscriptTyped, ReadNext
  <1>2. t \in Threads
    BY <1>1 DEF Request, Ask
  <1>3. PICK n : n = Cardinality(msgs[t])
    BY SMTT(60)
  <1>4. n \in Nat /\ Numbered(t, n) /\ n % 2 = 0
    <2>1. Numbered(t, n)
      BY <1>2, <1>3 DEF TranscriptInv
    <2> QED
      BY <1>3, <2>1, FS_CardinalityType DEF Numbered
  <1>5. NextSequence(t) = n
    BY <1>4, NextIs
  <1>6. PICK b : b = [req[r] EXCEPT !.pc = "append", !.start = n]
    OBVIOUS
  <1>7. b \in Request /\ b.pc = "append" /\ b.start = n /\ b.ask = req[r].ask
    BY <1>1, <1>4, <1>6 DEF Request, Steps
  <1>8. req' = [req EXCEPT ![r] = b]
    BY <1>5, <1>6 DEF ReadNext
  <1>9. req' \in [Requests -> Request] /\ \A q \in Requests : req'[q].ask = req[q].ask
    BY <1>1, <1>7, <1>8, SMTT(60)
  <1>10. RequestSound(r)'
    <2>1. req'[r].pc = "append" /\ req'[r].start = n /\ req'[r].ask.thread = t
      BY <1>1, <1>7, <1>8
    <2> QED
      BY <1>1, <1>3, <1>4, <1>7, <1>8, <2>1 DEF RequestSound
  <1>11. OwnersStay
    BY <1>1 DEF OwnersStay
  <1> QED
    BY <1>1, <1>8, <1>9, <1>10, <1>11, MessagesLeft

(* The first to insert owns the thread. *)
LEMMA CreateKeeps ==
    ASSUME TranscriptInv, TranscriptSettings, NEW r \in Requests, Create(r)
    PROVE  TranscriptInv'
  <1> DEFINE a == req[r].ask
  <1>1. /\ req \in [Requests -> Request] /\ conv \in [Threads -> Conversation \cup {None}]
        /\ RequestSound(r) /\ req[r].pc = "insert" /\ Goto(r, "reread")
        /\ "reread" \in Steps \cup Ends /\ UNCHANGED <<msgs, reader>>
    BY DEF TranscriptInv, TranscriptTyped, Create, Steps
  <1>2. a \in Ask /\ a.thread \in Threads
    BY <1>1 DEF Request, Ask
  <1>3. PICK c : c = [owner |-> a.subject, source |-> a.source, archived |-> FALSE,
                      titled |-> r]
    OBVIOUS
  <1>4. c \in Conversation /\ c # None
    <2>1. c \in Conversation
      BY <1>2, <1>3 DEF Conversation, Ask
    <2> QED
      BY <2>1 DEF TranscriptSettings
  <1>5. conv' = [conv EXCEPT ![a.thread] = IF conv[a.thread] # None THEN conv[a.thread] ELSE c]
    BY <1>3 DEF Create
  <1>6. /\ conv' \in [Threads -> Conversation \cup {None}] /\ conv'[a.thread] # None
        /\ \A t \in Threads : conv[t] # None => conv'[t] = conv[t]
    BY <1>1, <1>2, <1>4, <1>5
  <1>7. OwnersStay
    BY <1>6 DEF OwnersStay
  <1>8. RequestSound(r)'
    BY <1>1, <1>6, Moved DEF RequestSound
  <1> QED
    BY <1>1, <1>6, <1>7, <1>8, Moved, MessagesLeft, SMTT(60)

(* Renaming and archiving leave owner and datasource alone. *)
LEMMA RenameKeeps ==
    ASSUME TranscriptInv, TranscriptSettings, NEW s, NEW t \in Threads,
           Rename(s, t) \/ Archive(s, t)
    PROVE  TranscriptInv'
  <1>1. /\ conv \in [Threads -> Conversation \cup {None}] /\ req \in [Requests -> Request]
        /\ conv[t] \in Conversation /\ UNCHANGED <<msgs, req, reader>>
    BY DEF TranscriptInv, TranscriptTyped, Rename, Archive
  <1>2. PICK c : conv' = [conv EXCEPT ![t] = c] /\ c \in Conversation
                 /\ c.owner = conv[t].owner /\ c.source = conv[t].source
    <2>1. CASE Rename(s, t)
      <3>1. PICK c : c = [conv[t] EXCEPT !.titled = "renamed"]
        OBVIOUS
      <3>2. c \in Conversation /\ c.owner = conv[t].owner /\ c.source = conv[t].source
        BY <1>1, <3>1 DEF Conversation
      <3> QED
        BY <2>1, <3>1, <3>2 DEF Rename
    <2>2. CASE Archive(s, t)
      <3>1. PICK c : c = [conv[t] EXCEPT !.archived = TRUE]
        OBVIOUS
      <3>2. c \in Conversation /\ c.owner = conv[t].owner /\ c.source = conv[t].source
        BY <1>1, <3>1 DEF Conversation
      <3> QED
        BY <2>2, <3>1, <3>2 DEF Archive
    <2> QED
      BY <2>1, <2>2
  <1>3. /\ conv' \in [Threads -> Conversation \cup {None}]
        /\ OwnersStay
    BY <1>1, <1>2 DEF OwnersStay, TranscriptSettings
  <1> QED
    BY <1>1, <1>3, MessagesLeft

(* The messages and requests stay as they are when a reader moves. *)
LEMMA ReaderMoves ==
    ASSUME TranscriptInv, UNCHANGED <<conv, msgs, req>>, (reader \in Reader)', ReaderSound'
    PROVE  TranscriptInv'
  <1>1. TranscriptTyped'
    BY DEF TranscriptInv, TranscriptTyped
  <1>2. (\A t \in Threads : Numbered(t, Cardinality(msgs[t])))'
    BY DEF TranscriptInv, Numbered, Sequences
  <1>3. (\A t \in Threads : \A m \in msgs[t] : Placed(m, t))'
    BY DEF TranscriptInv, Placed
  <1>4. (\A r \in Requests : RequestSound(r))'
    BY DEF TranscriptInv, RequestSound, Sequences
  <1> QED
    BY <1>1, <1>2, <1>3, <1>4 DEF TranscriptInv

(* A page is joined in front of what is shown. *)
LEMMA Joined ==
    ASSUME NEW latest \in Nat, NEW shown \in Seq(Nat), NEW page \in Seq(Nat), NEW lo \in Nat,
           Len(shown) <= latest, lo <= latest - Len(shown),
           Len(page) = latest - Len(shown) - lo,
           \A i \in 1..Len(shown) : shown[i] = latest - 1 - Len(shown) + i,
           \A i \in 1..Len(page) : page[i] = lo + i - 1
    PROVE  /\ page \o shown \in Seq(Nat) /\ Len(page \o shown) = latest - lo
           /\ \A i \in 1..Len(page \o shown) : (page \o shown)[i] = lo + i - 1
  <1>1. PICK n, k : n = Len(shown) /\ k = Len(page)
    OBVIOUS
  <1>2. n \in Nat /\ k \in Nat /\ k = latest - n - lo
    BY <1>1
  <1>3. page \o shown \in Seq(Nat) /\ Len(page \o shown) = k + n
    BY <1>1
  <1>4. ASSUME NEW i \in 1..(k + n)
        PROVE  (page \o shown)[i] = lo + i - 1
    <2>1. CASE i <= k
      BY <1>1, <1>2, <2>1
    <2>2. CASE i > k
      <3>1. PICK j : j = i - k
        OBVIOUS
      <3>2. j \in 1..n /\ (page \o shown)[i] = shown[j]
        BY <1>1, <1>2, <2>2, <3>1, SMTT(60)
      <3>3. shown[j] = latest - 1 - n + j
        BY <1>1, <3>2
      <3> QED
        BY <1>2, <2>2, <3>1, <3>2, <3>3
    <2> QED
      BY <1>2, <2>1, <2>2, SMTT(60)
  <1> QED
    BY <1>2, <1>3, <1>4, SMTT(60)

(* What is shown is the run of messages from lo up to the newest. *)
LEMMA ShownIsSound ==
    ASSUME TranscriptInv, TranscriptSettings, UNCHANGED <<conv, msgs, req>>,
           NEW t \in Threads, NEW n \in Nat, n <= Cardinality(msgs[t]), Cardinality(msgs[t]) \in Nat,
           NEW lo \in Nat, lo > 0 => lo < n, lo <= n,
           NEW s \in Seq(Nat), Len(s) = n - lo, \A i \in 1..Len(s) : s[i] = lo + i - 1,
           reader' = [thread |-> t, shown |-> s, more |-> (lo > 0), newest |-> n]
    PROVE  TranscriptInv'
  <1>1. (reader \in Reader)'
    BY DEF Reader
  <1>2. t # None
    BY DEF TranscriptSettings
  <1>3. reader'.thread = t /\ reader'.shown = s /\ (reader'.more <=> lo > 0) /\ reader'.newest = n
    OBVIOUS
  <1>4. \A i \in 1..Len(s) : s[i] = n - 1 - Len(s) + i
    OBVIOUS
  <1>5. (lo > 0 <=> Len(s) < n) /\ Len(s) <= n /\ (lo > 0 => s # <<>>)
    OBVIOUS
  <1>6. ReaderSound'
    BY <1>2, <1>3, <1>4, <1>5 DEF ReaderSound
  <1> QED
    BY <1>1, <1>6, ReaderMoves

(* More is offered exactly if the page does not begin at the first message. *)
LEMMA MoreIs ==
    ASSUME NEW page \in Seq(Nat), NEW lo \in Nat, NEW b \in Nat, lo <= b, lo = b <=> b = 0,
           Len(page) = b - lo, \A i \in 1..(b - lo) : page[i] = lo + i - 1
    PROVE  HasMore(page) = (lo > 0) /\ (lo > 0 => lo < b)
  <1>1. lo > 0 => lo < b
    OBVIOUS
  <1>2. CASE b = 0
    BY <1>2 DEF HasMore
  <1>3. CASE b > 0
    <2>1. 1 \in 1..(b - lo) /\ page[1] = lo /\ page # <<>>
      BY <1>3
    <2> QED
      BY <1>1, <2>1 DEF HasMore
  <1> QED
    BY <1>1, <1>2, <1>3

(* A listed transcript is opened at its newest page. *)
LEMMA OpenKeeps ==
    ASSUME TranscriptInv, TranscriptSettings, NEW s, NEW t \in Threads, Open(s, t)
    PROVE  TranscriptInv'
  <1>1. PICK n : n = Cardinality(msgs[t])
    OBVIOUS
  <1>2. Numbered(t, n)
    BY <1>1 DEF TranscriptInv
  <1>3. n \in Nat /\ Sequences(t) = 0..(n - 1)
    BY <1>1, <1>2, FS_CardinalityType DEF Numbered
  <1>4. NextSequence(t) = n
    BY <1>2, <1>3, NextIs
  <1>5. PICK page : page = MessagesBefore(t, n)
    OBVIOUS
  <1>6. PICK lo \in Nat :
          /\ lo <= n /\ (lo = n <=> n = 0) /\ page \in Seq(Nat) /\ Len(page) = n - lo
          /\ \A i \in 1..(n - lo) : page[i] = lo + i - 1
    <2>1. n \in 0..n
      BY <1>3
    <2>2. \E lo \in Nat : RunOf(MessagesBefore(t, n), lo, n)
      BY <1>3, <2>1, PageIs
    <2> QED
      BY <1>5, <2>2 DEF RunOf
  <1>7. HasMore(page) = (lo > 0) /\ (lo > 0 => lo < n)
    BY <1>3, <1>6, MoreIs
  <1>8. reader' = [thread |-> t, shown |-> page, more |-> (lo > 0), newest |-> n]
    BY <1>4, <1>5, <1>7 DEF Open
  <1>9. UNCHANGED <<conv, msgs, req>>
    BY DEF Open
  <1>10. /\ lo <= n /\ (lo > 0 => lo < n) /\ \A i \in 1..Len(page) : page[i] = lo + i - 1
         /\ n <= Cardinality(msgs[t]) /\ Cardinality(msgs[t]) \in Nat
    BY <1>1, <1>3, <1>6, <1>7
  <1> QED
    BY <1>3, <1>6, <1>8, <1>9, <1>10, ShownIsSound

(* The page above what is shown. *)
LEMMA LoadOlderKeeps ==
    ASSUME TranscriptInv, TranscriptSettings, LoadOlder
    PROVE  TranscriptInv'
  <1>1. PICK t, c, shown, n : /\ t = reader.thread /\ c = Cardinality(msgs[t])
                              /\ shown = reader.shown /\ n = reader.newest
    OBVIOUS
  <1>2. reader \in Reader /\ ReaderSound /\ reader.more
    BY DEF TranscriptInv, TranscriptTyped, LoadOlder
  <1>3. t \in Threads /\ t # None /\ shown \in Seq(Nat) /\ n \in Nat
    BY <1>1, <1>2 DEF Reader, ReaderSound
  <1>4. /\ n <= c /\ Len(shown) < n /\ shown # <<>>
        /\ \A i \in 1..Len(shown) : shown[i] = n - 1 - Len(shown) + i
    BY <1>1, <1>2, <1>3 DEF ReaderSound
  <1>5. Numbered(t, c)
    BY <1>1, <1>3 DEF TranscriptInv
  <1>6. c \in Nat /\ Sequences(t) = 0..(c - 1)
    BY <1>1, <1>5, FS_CardinalityType DEF Numbered
  <1>7. PICK b : b = shown[1]
    OBVIOUS
  <1>8. b = n - Len(shown) /\ b \in 0..c /\ b > 0
    BY <1>3, <1>4, <1>6, <1>7
  <1>9. PICK page : page = MessagesBefore(t, b)
    OBVIOUS
  <1>10. PICK lo \in Nat :
          /\ lo <= b /\ (lo = b <=> b = 0) /\ page \in Seq(Nat) /\ Len(page) = b - lo
          /\ \A i \in 1..(b - lo) : page[i] = lo + i - 1
    <2>1. \E lo \in Nat : RunOf(MessagesBefore(t, b), lo, b)
      BY <1>6, <1>8, PageIs
    <2> QED
      BY <1>9, <2>1 DEF RunOf
  <1>11. HasMore(page) = (lo > 0) /\ (lo > 0 => lo < b)
    <2>1. b \in Nat
      BY <1>8
    <2> QED
      BY <1>10, <2>1, MoreIs
  <1>12. PICK s : s = page \o shown
    OBVIOUS
  <1>13. s \in Seq(Nat) /\ Len(s) = n - lo /\ \A i \in 1..Len(s) : s[i] = lo + i - 1
    <2>1. /\ Len(shown) <= n /\ lo <= n - Len(shown) /\ Len(page) = n - Len(shown) - lo
          /\ \A i \in 1..Len(page) : page[i] = lo + i - 1
      BY <1>3, <1>4, <1>8, <1>10
    <2>2. /\ page \o shown \in Seq(Nat) /\ Len(page \o shown) = n - lo
          /\ \A i \in 1..Len(page \o shown) : (page \o shown)[i] = lo + i - 1
      BY <1>3, <1>4, <1>10, <2>1, Joined, ZenonT(60)
    <2> QED
      BY <1>12, <2>2
  <1>14. reader' = [thread |-> t, shown |-> s, more |-> (lo > 0), newest |-> n]
    <2>1. reader = [thread |-> t, shown |-> shown, more |-> reader.more, newest |-> n]
      BY <1>1, <1>2 DEF Reader
    <2>2. reader' = [reader EXCEPT !.shown = s, !.more = HasMore(page)]
      BY <1>1, <1>7, <1>9, <1>12 DEF LoadOlder
    <2>3. PICK more : more = reader.more
      OBVIOUS
    <2>4. reader = [thread |-> t, shown |-> shown, more |-> more, newest |-> n]
      BY <2>1, <2>3
    <2> QED
      BY <1>11, <2>2, <2>4
  <1>15. UNCHANGED <<conv, msgs, req>>
    BY DEF LoadOlder
  <1>16. lo <= n /\ (lo > 0 => lo < n)
    BY <1>3, <1>8, <1>10, <1>11
  <1> QED
    BY <1>1, <1>3, <1>4, <1>6, <1>13, <1>14, <1>15, <1>16, ShownIsSound, ZenonT(90)

(* Two messages more, numbered as the next two. *)
LEMMA TwoMore ==
    ASSUME NEW t, NEW n \in Nat, Numbered(t, n), NEW r,
           (msgs[t])' = msgs[t] \cup Turn(r, n)
    PROVE  Numbered(t, n + 2)'
  <1> DEFINE q == [seq |-> n, role |-> "user", request |-> r]
             a == [seq |-> n + 1, role |-> "assistant", request |-> r]
  <1>1. IsFiniteSet(msgs[t]) /\ Cardinality(msgs[t]) = n /\ Sequences(t) = 0..(n - 1) /\ n % 2 = 0
    BY DEF Numbered
  <1>2. q.seq = n /\ a.seq = n + 1 /\ q # a
    OBVIOUS
  <1>3. q \notin msgs[t] /\ a \notin msgs[t] \cup {q}
    <2>1. \A m \in msgs[t] : m.seq \in 0..(n - 1)
      BY <1>1 DEF Sequences
    <2> HIDE DEF q, a
    <2> QED
      BY <1>2, <2>1
  <1>4. (msgs[t])' = (msgs[t] \cup {q}) \cup {a}
    BY DEF Turn
  <1> HIDE DEF q, a
  <1>5. IsFiniteSet(msgs[t] \cup {q}) /\ Cardinality(msgs[t] \cup {q}) = n + 1
    BY <1>1, <1>3, FS_AddElement
  <1>6. PICK b : b = msgs[t] \cup {q}
    OBVIOUS
  <1>7. IsFiniteSet(b \cup {a}) /\ Cardinality(b \cup {a}) = n + 2
    BY <1>3, <1>5, <1>6, FS_AddElement
  <1>8. IsFiniteSet(msgs[t])' /\ Cardinality(msgs[t])' = n + 2
    BY <1>4, <1>6, <1>7
  <1>9. Sequences(t)' = 0..(n + 2 - 1)
    <2>1. Sequences(t)' = Sequences(t) \cup {n, n + 1}
      BY <1>2, <1>4 DEF Sequences
    <2> QED
      BY <1>1, <2>1
  <1>10. (n + 2) % 2 = 0
    BY <1>1, SMTT(60)
  <1> QED
    BY <1>8, <1>9, <1>10 DEF Numbered

(* The requests and messages of another turn have to do with this one only in
   that the transcript is longer. *)
LEMMA TurnAppended ==
    ASSUME TranscriptInv, NEW r \in Requests, NEW t, t = req[r].ask.thread,
           req[r].pc = "append", NEW n, n = Cardinality(msgs[t]), req[r].start = n,
           NEW pc \in {"saved", "warned"}, Goto(r, pc),
           msgs' = [msgs EXCEPT ![t] = @ \cup Turn(r, n)], UNCHANGED <<conv, reader>>
    PROVE  TranscriptInv'
  <1>1. /\ req \in [Requests -> Request] /\ msgs \in [Threads -> SUBSET Message]
        /\ conv \in [Threads -> Conversation \cup {None}] /\ RequestSound(r)
        /\ reader \in Reader /\ ReaderSound
    BY DEF TranscriptInv, TranscriptTyped
  <1>2. t \in Threads /\ req[r].ask \in Ask
    BY <1>1, SMTT(60) DEF Request, Ask
  <1>3. Numbered(t, n)
    BY <1>2 DEF TranscriptInv
  <1>4. n \in Nat /\ n % 2 = 0 /\ (n + 1) % 2 = 1 /\ Sequences(t) = 0..(n - 1)
    <2>1. n \in Nat /\ n % 2 = 0 /\ Sequences(t) = 0..(n - 1)
      BY <1>3, FS_CardinalityType DEF Numbered
    <2> QED
      BY <2>1
  <1>5. pc \in Steps \cup Ends
    BY DEF Ends
  <1>6. /\ req' \in [Requests -> Request] /\ req'[r].pc = pc
        /\ \A q \in Requests : req'[q].ask = req[q].ask
        /\ \A q \in Requests : q # r => req'[q] = req[q]
    BY <1>1, <1>5, Moved, SMTT(60)
  <1>7. Turn(r, n) \subseteq Message
    BY <1>4, SMTT(60) DEF Turn, Message
  <1>8. /\ msgs' \in [Threads -> SUBSET Message] /\ msgs'[t] = msgs[t] \cup Turn(r, n)
        /\ \A u \in Threads : u # t => msgs'[u] = msgs[u]
    BY <1>1, <1>2, <1>7, SMTT(60)
  <1>9. TranscriptTyped'
    BY <1>1, <1>6, <1>8, SMTT(60) DEF TranscriptTyped
  <1>10. Numbered(t, n + 2)'
    BY <1>3, <1>4, <1>8, TwoMore
  <1>11. ASSUME NEW u \in Threads
         PROVE  /\ Numbered(u, Cardinality(msgs[u]))'
                /\ Cardinality(msgs[u]) \in Nat /\ Cardinality(msgs[u])' \in Nat
                /\ Cardinality(msgs[u]) <= Cardinality(msgs[u])'
    <2>1. CASE u = t
      <3>1. Cardinality(msgs[t])' = n + 2
        BY <1>10 DEF Numbered
      <3> QED
        BY <1>4, <1>10, <2>1, <3>1, SMTT(60)
    <2>2. CASE u # t
      <3>1. Numbered(u, Cardinality(msgs[u])) /\ msgs'[u] = msgs[u]
        BY <1>8, <2>2, SMTT(60) DEF TranscriptInv
      <3>2. Numbered(u, Cardinality(msgs[u]))'
        BY <3>1 DEF Numbered, Sequences
      <3>3. Cardinality(msgs[u]) \in Nat
        BY <3>1, FS_CardinalityType DEF Numbered
      <3> QED
        BY <3>1, <3>2, <3>3
    <2> QED
      BY <2>1, <2>2
  <1>12. ASSUME NEW u \in Threads, NEW m \in msgs'[u]
         PROVE  Placed(m, u)'
    <2>1. CASE m \in msgs[u]
      <3>1. Placed(m, u) /\ m.request \in Requests /\ msgs[u] \subseteq msgs'[u]
        BY <1>1, <1>8, <2>1, SMTT(60) DEF TranscriptInv, Message
      <3> QED
        BY <1>6, <3>1 DEF Placed, Turn
    <2>2. CASE m \notin msgs[u]
      <3>1. u = t /\ m \in Turn(r, n)
        BY <1>8, <2>2, SMTT(60)
      <3>2. /\ m.request = r /\ m.seq - (m.seq % 2) = n
            /\ m.role = (IF m.seq % 2 = 0 THEN "user" ELSE "assistant")
        BY <1>4, <3>1 DEF Turn
      <3>3. /\ conv[t] # None /\ conv[t].owner = req[r].ask.subject
            /\ conv[t].source = req[r].ask.source
        BY <1>1, SMTT(60) DEF RequestSound
      <3> QED
        BY <1>6, <1>8, <3>1, <3>2, <3>3 DEF Placed, Turn
    <2> QED
      BY <2>1, <2>2, SMTT(60)
  <1>13. ASSUME NEW q \in Requests, q # r
         PROVE  RequestSound(q)'
    <2> DEFINE u == req[q].ask.thread
    <2>1. RequestSound(q) /\ req'[q] = req[q] /\ u \in Threads /\ req[q].start \in Nat
      BY <1>1, <1>6, <1>13 DEF TranscriptInv, Request, Ask
    <2>2. \A m \in Turn(r, n) : m.request # q
      BY <1>13 DEF Turn
    <2>3. \A v \in Threads : {m \in msgs'[v] : m.request = q} = {m \in msgs[v] : m.request = q}
      BY <1>8, <2>2, SMTT(60)
    <2>4. Sequences(u) \subseteq Sequences(u)' /\ conv' = conv
      BY <1>8, <2>1 DEF Sequences
    <2>5. /\ req[q].pc \in {"reread", "next", "append"} => conv[u] # None
          /\ req[q].pc \in {"next", "append"} =>
                conv[u].owner = req[q].ask.subject /\ conv[u].source = req[q].ask.source
      BY <2>1, SMTT(60) DEF RequestSound
    <2>6. req[q].pc = "append" =>
             req[q].start <= Cardinality(msgs'[u]) /\ req[q].start % 2 = 0
      <3>1. PICK w : w = u
        BY SMTT(60)
      <3>2. /\ Cardinality(msgs[w]) \in Nat /\ Cardinality(msgs'[w]) \in Nat
            /\ Cardinality(msgs[w]) <= Cardinality(msgs'[w])
        BY <1>11, <2>1, <3>1
      <3>3. req[q].pc = "append" =>
               req[q].start <= Cardinality(msgs[w]) /\ req[q].start % 2 = 0
        BY <2>1, <3>1 DEF RequestSound
      <3> QED
        BY <2>1, <3>1, <3>2, <3>3
    <2>7. req[q].pc \notin {"saved", "warned"} => \A v \in Threads : \A m \in msgs'[v] : m.request # q
      BY <2>1, <2>3 DEF RequestSound
    <2>8. req[q].pc = "saved" =>
             \E start \in Sequences(u)' : {m \in msgs'[u] : m.request = q} = Turn(q, start)
      BY <2>1, <2>3, <2>4, SMTT(60) DEF RequestSound
    <2> QED
      BY <2>1, <2>4, <2>5, <2>6, <2>7, <2>8 DEF RequestSound, Turn
  <1>14. RequestSound(r)'
    <2>1. n \in Sequences(t)'
      BY <1>4, <1>10 DEF Numbered
    <2>2. \A m \in msgs[t] : m.request # r
      BY <1>1, <1>2 DEF RequestSound
    <2>3. \A m \in Turn(r, n) : m.request = r
      BY DEF Turn
    <2>4. {m \in msgs'[t] : m.request = r} = Turn(r, n)
      BY <1>8, <2>2, <2>3
    <2> QED
      BY <1>6, <2>1, <2>4, SMTT(60) DEF RequestSound, Turn
  <1>15. ReaderSound'
    <2>1. reader' = reader /\ (reader.thread # None => reader.thread \in Threads /\ reader.newest \in Nat)
      BY <1>1 DEF Reader
    <2>2. reader.thread # None => reader.newest <= Cardinality(msgs'[reader.thread])
      <3>1. PICK w : w = reader.thread
        OBVIOUS
      <3>2. SUFFICES ASSUME w # None PROVE reader.newest <= Cardinality(msgs'[w])
        BY <3>1
      <3>3. reader.newest <= Cardinality(msgs[w])
        BY <1>1, <3>1, <3>2, SMTT(60) DEF ReaderSound
      <3>4. /\ Cardinality(msgs[w]) \in Nat /\ Cardinality(msgs'[w]) \in Nat
            /\ Cardinality(msgs[w]) <= Cardinality(msgs'[w])
        BY <1>11, <2>1, <3>1, <3>2
      <3> QED
        BY <2>1, <3>1, <3>2, <3>3, <3>4
    <2> QED
      BY <1>1, <2>1, <2>2 DEF ReaderSound
  <1> QED
    BY <1>9, <1>11, <1>12, <1>13, <1>14, <1>15 DEF TranscriptInv

(* Both rows or neither; a sequence that others took meanwhile leaves all as
   it is (append_turn). *)
LEMMA AppendTurnKeeps ==
    ASSUME TranscriptInv, NEW r \in Requests, AppendTurn(r)
    PROVE  TranscriptInv'
  <1>1. PICK t, n : t = req[r].ask.thread /\ n = Cardinality(msgs[t])
    OBVIOUS
  <1>2. /\ req \in [Requests -> Request] /\ msgs \in [Threads -> SUBSET Message]
        /\ RequestSound(r) /\ req[r].pc = "append"
    BY DEF TranscriptInv, TranscriptTyped, AppendTurn
  <1>3. t \in Threads /\ req[r].start \in Nat /\ req[r].start <= n /\ req[r].start % 2 = 0
    BY <1>1, <1>2 DEF Request, Ask, RequestSound
  <1>4. n \in Nat /\ Sequences(t) = 0..(n - 1)
    <2>1. Numbered(t, n)
      BY <1>1, <1>3 DEF TranscriptInv
    <2> QED
      BY <1>1, <2>1, FS_CardinalityType DEF Numbered
  <1>5. PICK start : start = req[r].start
    OBVIOUS
  <1> DEFINE free == \A m \in Turn(r, start) : m.seq \notin Sequences(t)
  <1>6. PICK pc \in {"saved", "warned"} : (pc = "saved" => free) /\ Goto(r, pc)
    BY <1>1, <1>5 DEF AppendTurn
  <1>7. msgs' = [msgs EXCEPT ![t] = IF free THEN @ \cup Turn(r, start) ELSE @]
        /\ UNCHANGED <<conv, reader>>
    BY <1>1, <1>5, SMTT(60) DEF AppendTurn
  <1>8. CASE free
    <2>1. start \notin Sequences(t)
      BY <1>8 DEF Turn
    <2>2. start = n
      BY <1>3, <1>4, <1>5, <2>1
    <2> QED
      BY <1>1, <1>2, <1>5, <1>6, <1>7, <1>8, <2>2, TurnAppended
  <1>9. CASE ~ free
    <2>1. pc = "warned" /\ pc \in Steps \cup Ends /\ UNCHANGED <<conv, msgs, reader>>
      BY <1>2, <1>6, <1>7, <1>9 DEF Ends
    <2>2. RequestSound(r)'
      BY <1>2, <1>6, <2>1, Moved DEF RequestSound
    <2> QED
      BY <1>6, <2>1, <2>2, MovesOn
  <1> QED
    BY <1>8, <1>9

-----------------------------------------------------------------------------
LEMMA TranscriptInitially ==
    ASSUME TranscriptSettings, Init
    PROVE  TranscriptInv
  <1>1. PICK a \in Asks : req = [r \in Requests |-> [pc |-> "start", ask |-> a[r], start |-> 0]]
    BY DEF Init
  <1>2. a \in [Requests -> Ask]
    BY DEF TranscriptSettings
  <1>3. req \in [Requests -> Request] /\ \A r \in Requests : req[r].pc = "start"
    BY <1>1, <1>2 DEF Request, Steps
  <1>4. /\ conv = [t \in Threads |-> None] /\ msgs = [t \in Threads |-> {}]
        /\ reader = [thread |-> None, shown |-> <<>>, more |-> FALSE, newest |-> 0]
    BY DEF Init, Closed
  <1>5. reader \in Reader
    BY <1>4 DEF Reader
  <1>6. TranscriptTyped
    BY <1>3, <1>4, <1>5 DEF TranscriptTyped
  <1>7. ASSUME NEW t \in Threads
        PROVE  Numbered(t, Cardinality(msgs[t]))
    <2>1. msgs[t] = {} /\ IsFiniteSet({}) /\ Cardinality({}) = 0
      BY <1>4, FS_EmptySet
    <2>2. Sequences(t) = {}
      BY <2>1 DEF Sequences
    <2> QED
      BY <2>1, <2>2 DEF Numbered
  <1>8. \A t \in Threads : \A m \in msgs[t] : Placed(m, t)
    BY <1>4
  <1>9. \A r \in Requests : RequestSound(r)
    BY <1>3, <1>4 DEF RequestSound
  <1>10. ReaderSound
    BY <1>4 DEF ReaderSound
  <1> QED
    BY <1>6, <1>7, <1>8, <1>9, <1>10 DEF TranscriptInv

LEMMA TranscriptStep ==
    ASSUME TranscriptInv, TranscriptSettings, [Next]_vars
    PROVE  TranscriptInv'
  <1>1. CASE UNCHANGED vars
    BY <1>1, ReaderMoves DEF vars, TranscriptInv, TranscriptTyped, ReaderSound
  <1>2. ASSUME NEW r \in Requests, Step(r)
        PROVE  TranscriptInv'
    BY <1>2, PrepareKeeps, AnswerKeeps, LookupKeeps, CreateKeeps, RereadKeeps, ReadNextKeeps,
       AppendTurnKeeps, StoreFailsKeeps DEF Step
  <1>3. ASSUME NEW s \in Subjects, NEW t \in Threads, Rename(s, t) \/ Archive(s, t) \/ Open(s, t)
        PROVE  TranscriptInv'
    BY <1>3, RenameKeeps, OpenKeeps
  <1>4. CASE LoadOlder
    BY <1>4, LoadOlderKeeps
  <1> QED
    BY <1>1, <1>2, <1>3, <1>4 DEF Next

(* What the invariant says of transcripts, of answers and of pages. *)
LEMMA SoundIsWhole ==
    ASSUME TranscriptInv
    PROVE  TranscriptIsWhole /\ SavedOrWarned /\ PagesAreSeamless
  <1>1. TranscriptIsWhole
    BY DEF TranscriptInv, TranscriptIsWhole, Numbered, Placed
  <1>2. SavedOrWarned
    BY DEF TranscriptInv, SavedOrWarned, RequestSound
  <1>3. PagesAreSeamless
    <2>1. reader \in Reader /\ ReaderSound
      BY DEF TranscriptInv, TranscriptTyped
    <2>2. Len(reader.shown) \in Nat /\ reader.newest \in Nat
      BY <2>1 DEF Reader
    <2> QED
      BY <2>1, <2>2 DEF ReaderSound, PagesAreSeamless
  <1> QED
    BY <1>1, <1>2, <1>3

(* Whatever subjects, datasources, threads and requests there are, however
   turns of a thread race and wherever one of them fails: a transcript is
   whole and in order under its owner, an answer without the warning is in it
   once, and the pages of a reader join, while turns are appended
   (_record_conversation_turn, append_turn, messages). *)
THEOREM TranscriptHolds ==
    ASSUME TranscriptSettings
    PROVE  Spec => [](TranscriptIsWhole /\ SavedOrWarned /\ PagesAreSeamless)
  <1>1. Init => TranscriptInv
    BY TranscriptInitially
  <1>2. TranscriptInv /\ [Next]_vars => TranscriptInv'
    BY TranscriptStep
  <1>3. TranscriptInv => TranscriptIsWhole /\ SavedOrWarned /\ PagesAreSeamless
    BY SoundIsWhole
  <1> QED
    BY <1>1, <1>2, <1>3, PTL DEF Spec

-----------------------------------------------------------------------------
(* What the two policies let a caller read *)

TableFields == {"schema", "name", "columns", "foreign"}

(* The tables of a schema: one of each name, which names its schema too, and a foreign
   key refers to some column (schema.table in discovery, information_schema). *)
TablesSound(tables) ==
    \A t \in tables :
        /\ DOMAIN t = TableFields
        /\ \A u \in tables : t.name = u.name => t = u
        /\ \A k \in t.foreign : k.referenced # {}

(* What the grants let a caller read of the tables of a name. *)
MaySee(grants, tables, name) ==
    UNION {GrantedColumns(grants, t) : t \in {u \in tables : u.name = name}}

LEMMA LocalColumns ==
    ASSUME NEW grants, NEW tables, NEW metrics, NEW name
    PROVE  ColumnsFor(LocalDecision(grants, tables, metrics), name)
              = MaySee(grants, tables, name)
  <1> DEFINE readable == {t \in tables : GrantedColumns(grants, t) # {}}
             columns == [n \in {t.name : t \in readable} |->
                     UNION {GrantedColumns(grants, t) : t \in {t \in readable : t.name = n}}]
  <1>1. LocalDecision(grants, tables, metrics).table_columns = columns
    BY DEF LocalDecision, Decision
  <1>2. ColumnsFor(LocalDecision(grants, tables, metrics), name) =
           IF name \in DOMAIN columns THEN columns[name] ELSE {}
    BY <1>1, Zenon DEF ColumnsFor
  <1>3. CASE name \in {t.name : t \in readable}
    <2>1. columns[name] = UNION {GrantedColumns(grants, t) : t \in {t \in readable : t.name = name}}
      BY <1>3
    <2>2. columns[name] = MaySee(grants, tables, name)
      BY <2>1 DEF MaySee
    <2> QED
      BY <1>2, <1>3, <2>2
  <1>4. CASE name \notin {t.name : t \in readable}
    <2>1. MaySee(grants, tables, name) = {}
      BY <1>4 DEF MaySee
    <2> QED
      BY <1>2, <1>4, <2>1
  <1> QED
    BY <1>3, <1>4

(* The policy of OPA lists a permitted table even if no column of it is, which lets
   the caller read no more (column_allowed in analytics.rego). *)
LEMMA RegoColumns ==
    ASSUME NEW grants, NEW tables, NEW metrics, NEW name
    PROVE  /\ ColumnsFor(RegoDecision(grants, tables, metrics), name)
                 = MaySee(grants, tables, name)
           /\ name \in DOMAIN RegoDecision(grants, tables, metrics).table_columns =>
                 /\ RegoDecision(grants, tables, metrics).table_columns[name]
                       = MaySee(grants, tables, name)
                 /\ \E t \in tables : t.name = name
  <1> DEFINE listed == {t \in tables : \E g \in grants : GrantAllowsTable(g, t)}
             permitted(t) == {c \in t.columns : \E g \in grants :
                                GrantAllowsTable(g, t) /\ c \notin Denied(g, t.name)}
             columns == [n \in {t.name : t \in listed} |->
                     UNION {permitted(t) : t \in {t \in listed : t.name = n}}]
  <1>1. RegoDecision(grants, tables, metrics).table_columns = columns
    BY DEF RegoDecision, Decision
  <1>2. \A t : permitted(t) = GrantedColumns(grants, t)
    BY DEF GrantedColumns, GrantAllowsColumn
  <1>3. \A t \in tables : t \notin listed => GrantedColumns(grants, t) = {}
    BY DEF GrantedColumns, GrantAllowsColumn
  <1>4. ColumnsFor(RegoDecision(grants, tables, metrics), name) =
           IF name \in DOMAIN columns THEN columns[name] ELSE {}
    BY <1>1, Zenon DEF ColumnsFor
  <1>5. ASSUME name \in {t.name : t \in listed}
        PROVE  columns[name] = MaySee(grants, tables, name)
    <2>1. columns[name] = UNION {permitted(t) : t \in {t \in listed : t.name = name}}
      BY <1>5
    <2>2. UNION {permitted(t) : t \in {t \in listed : t.name = name}}
             = UNION {GrantedColumns(grants, t) : t \in {t \in listed : t.name = name}}
      BY <1>2
    <2> HIDE DEF listed
    <2>3. listed \subseteq tables
      BY DEF listed
    <2>4. UNION {GrantedColumns(grants, t) : t \in {t \in listed : t.name = name}}
             = MaySee(grants, tables, name)
      BY <1>3, <2>3 DEF MaySee
    <2> QED
      BY <2>1, <2>2, <2>4
  <1>6. ASSUME name \notin {t.name : t \in listed}
        PROVE  MaySee(grants, tables, name) = {}
    BY <1>3, <1>6 DEF MaySee
  <1> QED
    BY <1>1, <1>4, <1>5, <1>6

(* A column that may be read has a table and a grant that allows it. *)
LEMMA MayReadIsGranted ==
    ASSUME NEW grants, NEW tables, NEW name, NEW c \in MaySee(grants, tables, name)
    PROVE  \E t \in tables, g \in grants : t.name = name /\ c \in t.columns /\ GrantAllowsColumn(g, t, c)
  BY DEF MaySee, GrantedColumns

LEMMA MayReadOfTable ==
    ASSUME NEW grants, NEW tables, TablesSound(tables), NEW t \in tables
    PROVE  MaySee(grants, tables, t.name) \subseteq t.columns
  BY MayReadIsGranted DEF TablesSound

(* A table of the schema cut to a decision. *)
Cut(t, decision) ==
    [t EXCEPT !.columns = @ \cap ColumnsFor(decision, t.name),
              !.foreign = {k \in @ :
                  ForeignKeyIsAuthorized(k, ColumnsFor(decision, t.name), decision)}]

LEMMA FilterIsCut ==
    ASSUME NEW tables, NEW decision
    PROVE  FilterAuthorizedSchema(tables, decision) =
              {Cut(t, decision) : t \in {t \in tables : decision.allowed
                                            /\ ColumnsFor(decision, t.name) # {}}}
  BY Zenon DEF FilterAuthorizedSchema, Cut

(* The local policy and OPA leave a caller the same, closed under its foreign keys and
   within what was asked about (local.py, analytics.rego, opa.py and gateway.py of
   app/authorization), for any grants over any sound tables. *)
THEOREM PoliciesAlwaysAgree ==
    ASSUME NEW grants, NEW tables, NEW metrics, TablesSound(tables)
    PROVE  PoliciesAgree(grants, tables, metrics)
  <1> DEFINE local == LocalDecision(grants, tables, metrics)
             opa == RegoDecision(grants, tables, metrics)
             left == FilterAuthorizedSchema(tables, opa)
  <1>1. \A name : /\ ColumnsFor(local, name) = MaySee(grants, tables, name)
                  /\ ColumnsFor(opa, name) = MaySee(grants, tables, name)
    BY LocalColumns, RegoColumns
  <1>2. /\ opa.allowed <=> grants # {}
        /\ local.allowed <=>
              grants # {} /\ ({t \in tables : GrantedColumns(grants, t) # {}} # {}
                                \/ GrantedMetrics(grants, metrics) # {})
        /\ local.allowed_metrics = GrantedMetrics(grants, metrics)
        /\ opa.allowed_metrics = GrantedMetrics(grants, metrics)
        /\ local.debug_allowed = opa.debug_allowed
        /\ local.knowledge_review_allowed = opa.knowledge_review_allowed
    BY DEF LocalDecision, RegoDecision, Decision
  <1>3. \A t \in tables : MaySee(grants, tables, t.name) # {} => local.allowed /\ opa.allowed
    <2> SUFFICES ASSUME NEW n \in tables, NEW c \in MaySee(grants, tables, n.name)
                 PROVE  local.allowed /\ opa.allowed
      OBVIOUS
    <2>1. PICK t \in tables, g \in grants :
             t.name = n.name /\ c \in t.columns /\ GrantAllowsColumn(g, t, c)
      BY MayReadIsGranted
    <2>2. c \in GrantedColumns(grants, t)
      BY <2>1 DEF GrantedColumns
    <2>3. {u \in tables : GrantedColumns(grants, u) # {}} # {}
      BY <2>1, <2>2
    <2> HIDE DEF local, opa
    <2> QED
      BY <1>2, <2>1, <2>3
  <1> HIDE DEF local, opa
  <1>4. FilterAuthorizedSchema(tables, local) = left
    <2>1. \A t : Cut(t, local) = Cut(t, opa)
      <3>1. \A t : ColumnsFor(local, t.name) = ColumnsFor(opa, t.name)
        BY <1>1
      <3>2. \A k, s : ForeignKeyIsAuthorized(k, s, local) <=> ForeignKeyIsAuthorized(k, s, opa)
        BY <1>1 DEF ForeignKeyIsAuthorized
      <3>3. ASSUME NEW t
            PROVE  {k \in t.foreign : ForeignKeyIsAuthorized(k, ColumnsFor(local, t.name), local)}
                      = {k \in t.foreign : ForeignKeyIsAuthorized(k, ColumnsFor(opa, t.name), opa)}
        BY <3>1, <3>2
      <3> QED
        BY <3>1, <3>3, Zenon DEF Cut
    <2>2. {t \in tables : local.allowed /\ ColumnsFor(local, t.name) # {}}
             = {t \in tables : opa.allowed /\ ColumnsFor(opa, t.name) # {}}
      BY <1>1, <1>3
    <2>3. {Cut(t, local) : t \in {t \in tables : local.allowed /\ ColumnsFor(local, t.name) # {}}}
             = {Cut(t, opa) : t \in {t \in tables : opa.allowed /\ ColumnsFor(opa, t.name) # {}}}
      BY <2>1, <2>2
    <2> QED
      BY <2>3, FilterIsCut
  <1>5. ClosedUnderKeys(left)
    <2> SUFFICES ASSUME NEW t \in left, NEW k \in t.foreign
                 PROVE  \E u \in left : u.name = k.table /\ k.referenced \subseteq u.columns
      BY DEF ClosedUnderKeys
    <2>1. PICK s \in tables : opa.allowed /\ t = Cut(s, opa)
      BY FilterIsCut
    <2>2. k \in s.foreign /\ k.referenced \subseteq ColumnsFor(opa, k.table)
      BY <2>1 DEF Cut, ForeignKeyIsAuthorized, TablesSound, TableFields
    <2>3. k.referenced # {}
      BY <2>2 DEF TablesSound
    <2>4. PICK c \in k.referenced : c \in MaySee(grants, tables, k.table)
      BY <1>1, <2>2, <2>3
    <2>5. PICK v \in tables : v.name = k.table
      BY <2>4, MayReadIsGranted
    <2>6. Cut(v, opa) \in left
      BY <1>1, <2>1, <2>4, <2>5, FilterIsCut
    <2>7. /\ Cut(v, opa).name = k.table
          /\ Cut(v, opa).columns = v.columns \cap MaySee(grants, tables, k.table)
      BY <1>1, <2>5 DEF Cut, TablesSound, TableFields
    <2>8. MaySee(grants, tables, k.table) \subseteq v.columns
      BY <2>5, MayReadOfTable
    <2> QED
      BY <1>1, <2>2, <2>6, <2>7, <2>8
  <1>6. \A field \in {"allowed_metrics", "debug_allowed", "knowledge_review_allowed"} :
           local[field] = opa[field]
    BY <1>2
  <1>7. ValidateScopeSubset(opa, tables, metrics)
    <2>1. opa.allowed_metrics \subseteq metrics
      BY <1>2 DEF GrantedMetrics
    <2>2. ASSUME NEW n \in DOMAIN opa.table_columns
          PROVE  \E t \in tables : t.name = n /\ opa.table_columns[n] \subseteq t.columns
      <3>1. PICK t \in tables : t.name = n
        BY RegoColumns DEF opa
      <3>2. opa.table_columns[n] = MaySee(grants, tables, t.name)
        BY <3>1, RegoColumns DEF opa
      <3> QED
        BY <3>1, <3>2, MayReadOfTable
    <2> QED
      BY <2>1, <2>2 DEF ValidateScopeSubset
  <1> QED
    BY <1>4, <1>5, <1>6, <1>7, Zenon DEF PoliciesAgree, local, opa, left

-----------------------------------------------------------------------------
(* Previews of column values *)

(* A table of a schema is a record, and its full name has its schema in it. *)
PreviewSettings ==
    /\ \A t \in UNION Schemas : DOMAIN t = TableFields
    /\ \A t, u \in UNION Schemas : t.name = u.name => t.schema = u.schema

Kinds == {"readable", "unclassified", "proposed"}

(* Before a reply, a column has been found readable, then unclassified, then proposed:
   what was found at one read held at that time of the request. *)
PreviewInv ==
    /\ DOMAIN request = {"pc", "authorized", "governed", "wanted", "shown", "tables"}
    /\ request.pc # "shown" => request.shown = {}
    /\ datasource \in Schemas /\ proposed \subseteq Columns
    /\ DOMAIN seen = Columns /\ \A c \in Columns : seen[c] \subseteq Kinds
    /\ request.pc # "idle" => \A c \in Columns : Now(c) \subseteq seen[c]
    /\ request.pc = "authorize" => request.tables \in Schemas
    /\ request.pc \in {"govern", "load"} =>
          \A c \in request.authorized : c \in Columns /\ "readable" \in seen[c]
    /\ request.pc = "load" =>
          \A c \in request.authorized :
              c \notin request.governed /\ <<c[1], "*">> \notin request.governed =>
                  "unclassified" \in seen[c]
    /\ request.pc = "sample" => \A c \in request.wanted : c \in Columns /\ Kinds \subseteq seen[c]
    /\ \A c \in request.shown : c \in Columns /\ Kinds \subseteq seen[c]

LEMMA NowTells ==
    ASSUME NEW c
    PROVE  /\ Now(c) \subseteq Kinds
           /\ Readable(c) => "readable" \in Now(c)
           /\ ~Sensitive(c) => "unclassified" \in Now(c)
           /\ c \in proposed => "proposed" \in Now(c)
  BY DEF Now, Kinds

LEMMA IdleIsIdle ==
    /\ DOMAIN Idle = {"pc", "authorized", "governed", "wanted", "shown", "tables"}
    /\ Idle.pc = "idle" /\ Idle.shown = {}
  BY DEF Idle

(* A column of the schema cut to OPA's decision is one the policy lets be read. *)
LEMMA CutIsReadable ==
    ASSUME PreviewSettings, NEW tables \in Schemas, NEW c,
           NEW t \in FilterAuthorizedSchema(tables, RegoDecision(policy, tables, {})),
           t.name = c[1], c[2] \in t.columns
    PROVE  Readable(c)
  <1> DEFINE opa == RegoDecision(policy, tables, {})
  <1>1. PICK s \in tables : t = Cut(s, opa)
    BY FilterIsCut
  <1>2. DOMAIN s = TableFields
    BY DEF PreviewSettings
  <1>3. s.name = c[1] /\ c[2] \in ColumnsFor(opa, s.name)
    <2> HIDE DEF opa
    <2> QED
      BY <1>1, <1>2 DEF Cut, TableFields
  <1>4. c[2] \in MaySee(policy, tables, c[1])
    BY <1>3, RegoColumns
  <1>5. PICK v \in tables, g \in policy : v.name = c[1] /\ GrantAllowsColumn(g, v, c[2])
    BY <1>4, MayReadIsGranted
  <1> DEFINE w == CHOOSE u \in UNION Schemas : u.name = c[1]
  <1>6. v \in UNION Schemas
    OBVIOUS
  <1>7. w \in UNION Schemas /\ w.name = c[1]
    BY <1>5, <1>6
  <1> HIDE DEF w
  <1>8. v.schema = w.schema /\ v.name = w.name
    BY <1>5, <1>6, <1>7 DEF PreviewSettings
  <1>9. GrantAllowsColumn(g, w, c[2])
    BY <1>5, <1>8 DEF GrantAllowsColumn, GrantAllowsTable
  <1> QED
    BY <1>9 DEF Readable, w

LEMMA PreviewInitially ==
    ASSUME PreviewInit
    PROVE  PreviewInv
  BY IdleIsIdle DEF PreviewInit, PreviewInv

(* A step of the route: what it sees of the surroundings stays. *)
LEMMA RouteStep ==
    ASSUME PreviewInv, NEW from, from # "idle", NEW new, PreviewStep(from, new),
           DOMAIN new = DOMAIN Idle,
           new.pc # "shown" => new.shown = {},
           new.pc = "authorize" => new.tables \in Schemas,
           new.pc \in {"govern", "load"} =>
              \A c \in new.authorized : c \in Columns /\ "readable" \in seen[c],
           new.pc = "load" =>
              \A c \in new.authorized :
                  c \notin new.governed /\ <<c[1], "*">> \notin new.governed =>
                      "unclassified" \in seen[c],
           new.pc = "sample" => \A c \in new.wanted : c \in Columns /\ Kinds \subseteq seen[c],
           \A c \in new.shown : c \in Columns /\ Kinds \subseteq seen[c]
    PROVE  PreviewInv'
  <1>1. /\ request.pc = from /\ request' = new
        /\ UNCHANGED <<datasource, policy, classified, proposed, seen, changes>>
    BY DEF PreviewStep
  <1>2. \A c \in Columns : Now(c)' \subseteq seen'[c]
    <2>1. ASSUME NEW c \in Columns PROVE Now(c)' = Now(c)
      BY <1>1 DEF Now, Readable, Sensitive
    <2> QED
      BY <1>1, <2>1 DEF PreviewInv
  <1> QED
    BY <1>1, <1>2, IdleIsIdle DEF PreviewInv

LEMMA EndsIdle ==
    ASSUME PreviewInv, NEW from, from # "idle", PreviewStep(from, Idle)
    PROVE  PreviewInv'
  <1> DEFINE new == Idle
  <1>1. DOMAIN new = DOMAIN Idle /\ new.pc = "idle" /\ new.shown = {}
    BY IdleIsIdle
  <1>2. PreviewStep(from, new)
    OBVIOUS
  <1> HIDE DEF new
  <1> QED
    BY <1>1, <1>2, RouteStep

LEMMA BeginPreviewStep ==
    ASSUME PreviewInv, BeginPreview
    PROVE  PreviewInv'
  <1>1. /\ request' = [Idle EXCEPT !.pc = "scan"]
        /\ seen' = [c \in Columns |-> Now(c)]
        /\ UNCHANGED <<datasource, policy, classified, proposed, changes>>
    BY DEF BeginPreview
  <1>2. DOMAIN request' = DOMAIN Idle /\ request'.pc = "scan" /\ request'.shown = {}
    BY <1>1 DEF Idle
  <1>3. \A c \in Columns : Now(c)' = Now(c)
    BY <1>1 DEF Now, Readable, Sensitive
  <1>4. /\ DOMAIN seen' = Columns
        /\ \A c \in Columns : seen'[c] \subseteq Kinds /\ Now(c)' \subseteq seen'[c]
    BY <1>1, <1>3, NowTells
  <1> QED
    BY <1>1, <1>2, <1>4, IdleIsIdle DEF PreviewInv

LEMMA ScanMetadataStep ==
    ASSUME PreviewInv, ScanMetadata
    PROVE  PreviewInv'
  <1> DEFINE new == [request EXCEPT !.pc = "authorize", !.tables = datasource]
  <1>1. PreviewStep("scan", new) /\ request.pc = "scan"
    BY DEF ScanMetadata, PreviewStep
  <1>2. /\ DOMAIN new = DOMAIN Idle /\ new.pc = "authorize" /\ new.tables \in Schemas
        /\ new.shown = {}
    BY <1>1, IdleIsIdle DEF PreviewInv
  <1> HIDE DEF new
  <1> QED
    BY <1>1, <1>2, RouteStep

LEMMA AuthorizeStep ==
    ASSUME PreviewSettings, PreviewInv, Authorize
    PROVE  PreviewInv'
  <1> DEFINE decision == RegoDecision(policy, request.tables, {})
             cut == FilterAuthorizedSchema(request.tables, decision)
             authorized == {c \in Columns : \E t \in cut : t.name = c[1] /\ c[2] \in t.columns}
             new == [request EXCEPT !.pc = "govern", !.authorized = authorized]
  <1>1. request.pc = "authorize"
    BY DEF Authorize, PreviewStep
  <1>2. CASE ~decision.allowed \/ cut = {}
    <2>1. PreviewStep("authorize", Idle)
      BY <1>2 DEF Authorize
    <2> QED
      BY <2>1, EndsIdle
  <1>3. CASE ~(~decision.allowed \/ cut = {})
    <2>1. PreviewStep("authorize", new)
      BY <1>3 DEF Authorize
    <2>2. \A c \in authorized : c \in Columns /\ "readable" \in seen[c]
      <3> SUFFICES ASSUME NEW c \in authorized PROVE c \in Columns /\ "readable" \in seen[c]
        OBVIOUS
      <3>1. PICK t \in cut : t.name = c[1] /\ c[2] \in t.columns
        OBVIOUS
      <3>2. request.tables \in Schemas
        BY <1>1 DEF PreviewInv
      <3>3. Readable(c)
        BY <3>1, <3>2, CutIsReadable
      <3>4. Now(c) \subseteq seen[c] /\ c \in Columns
        BY <1>1 DEF PreviewInv
      <3> QED
        BY <3>3, <3>4, NowTells
    <2> HIDE DEF authorized
    <2>3. /\ DOMAIN new = DOMAIN Idle /\ new.pc = "govern" /\ new.authorized = authorized
          /\ new.shown = {}
      BY <1>1, IdleIsIdle DEF PreviewInv
    <2> HIDE DEF new
    <2> QED
      BY <2>1, <2>2, <2>3, RouteStep
  <1> QED
    BY <1>2, <1>3

LEMMA GovernStep ==
    ASSUME PreviewInv, Govern
    PROVE  PreviewInv'
  <1> DEFINE governed == {g \in classified :
                             g \in request.authorized
                                \/ \E c \in request.authorized : g = <<c[1], "*">>}
             new == [request EXCEPT !.pc = "load", !.governed = governed]
  <1>1. PreviewStep("govern", new) /\ request.pc = "govern"
    BY DEF Govern, PreviewStep
  <1>2. ASSUME NEW c \in request.authorized, c \notin governed, <<c[1], "*">> \notin governed
        PROVE  "unclassified" \in seen[c]
    <2>1. c \notin classified /\ <<c[1], "*">> \notin classified
      BY <1>2
    <2>2. ~Sensitive(c)
      BY <2>1 DEF Sensitive
    <2>3. c \in Columns /\ Now(c) \subseteq seen[c]
      BY <1>1 DEF PreviewInv
    <2> QED
      BY <2>2, <2>3, NowTells
  <1> HIDE DEF governed
  <1>3. /\ DOMAIN new = DOMAIN Idle /\ new.pc = "load" /\ new.authorized = request.authorized
        /\ new.governed = governed /\ new.shown = {}
    BY <1>1, IdleIsIdle DEF PreviewInv
  <1>4. \A c \in request.authorized : c \in Columns /\ "readable" \in seen[c]
    BY <1>1 DEF PreviewInv
  <1> HIDE DEF new
  <1> QED
    BY <1>1, <1>2, <1>3, <1>4, RouteStep

LEMMA LoadModelStep ==
    ASSUME PreviewInv, LoadModel
    PROVE  PreviewInv'
  <1> DEFINE wanted == PreviewableColumns(request.authorized, request.governed)
             new == [request EXCEPT !.pc = "sample", !.wanted = wanted]
  <1>1. request.pc = "load"
    BY DEF LoadModel, PreviewStep
  <1>2. CASE wanted = {}
    <2>1. PreviewStep("load", Idle)
      BY <1>2 DEF LoadModel
    <2> QED
      BY <2>1, EndsIdle
  <1>3. CASE wanted # {}
    <2>1. PreviewStep("load", new)
      BY <1>3 DEF LoadModel
    <2>2. ASSUME NEW c \in wanted
          PROVE  c \in Columns /\ Kinds \subseteq seen[c]
      <3>1. /\ c \in proposed /\ c \in request.authorized
            /\ c \notin request.governed /\ <<c[1], "*">> \notin request.governed
        BY DEF PreviewableColumns
      <3>2. /\ c \in Columns /\ "readable" \in seen[c] /\ "unclassified" \in seen[c]
            /\ Now(c) \subseteq seen[c]
        BY <1>1, <3>1 DEF PreviewInv
      <3> QED
        BY <3>1, <3>2, NowTells DEF Kinds
    <2> HIDE DEF wanted
    <2>3. /\ DOMAIN new = DOMAIN Idle /\ new.pc = "sample" /\ new.wanted = wanted
          /\ new.shown = {}
      BY <1>1, IdleIsIdle DEF PreviewInv
    <2> HIDE DEF new
    <2> QED
      BY <2>1, <2>2, <2>3, RouteStep
  <1> QED
    BY <1>2, <1>3

LEMMA SampleStep ==
    ASSUME PreviewInv, Sample
    PROVE  PreviewInv'
  <1>1. PICK few \in SUBSET request.wanted :
           PreviewStep("sample", [request EXCEPT !.pc = "shown", !.shown = few])
    BY DEF Sample
  <1> DEFINE new == [request EXCEPT !.pc = "shown", !.shown = few]
  <1>2. request.pc = "sample" /\ PreviewStep("sample", new)
    BY <1>1 DEF PreviewStep
  <1>3. DOMAIN new = DOMAIN Idle /\ new.pc = "shown" /\ new.shown = few
    BY IdleIsIdle DEF PreviewInv
  <1>4. \A c \in few : c \in Columns /\ Kinds \subseteq seen[c]
    BY <1>2 DEF PreviewInv
  <1> HIDE DEF new
  <1> QED
    BY <1>2, <1>3, <1>4, RouteStep

LEMMA ChangeStep ==
    ASSUME PreviewInv, Change
    PROVE  PreviewInv'
  <1>1. /\ request.pc # "idle" /\ request' = request
        /\ seen' = [c \in Columns |-> seen[c] \cup Now(c)']
        /\ datasource' \in Schemas /\ proposed' \subseteq Columns
    BY DEF Change, PreviewInv
  <1>2. \A c \in Columns : Now(c)' \subseteq Kinds
    BY DEF Now, Kinds
  <1>3. /\ DOMAIN seen' = Columns
        /\ \A c \in Columns : /\ seen[c] \subseteq seen'[c] /\ Now(c)' \subseteq seen'[c]
                              /\ seen'[c] \subseteq Kinds
    BY <1>1, <1>2 DEF PreviewInv
  <1> QED
    BY <1>1, <1>3 DEF PreviewInv

LEMMA PreviewInvStep ==
    ASSUME PreviewSettings, PreviewInv, [PreviewNext]_previewVars
    PROVE  PreviewInv'
  <1>1. CASE UNCHANGED previewVars
    BY <1>1 DEF previewVars, PreviewInv, Now, Readable, Sensitive
  <1>2. CASE Fail
    <2>1. request.pc # "idle" /\ PreviewStep(request.pc, Idle)
      BY <1>2 DEF Fail
    <2> QED
      BY <2>1, EndsIdle
  <1>3. CASE Done
    BY <1>3, EndsIdle DEF Done
  <1> QED
    BY <1>1, <1>2, <1>3, BeginPreviewStep, ScanMetadataStep, AuthorizeStep, GovernStep,
       LoadModelStep, SampleStep, ChangeStep DEF PreviewNext

LEMMA PreviewSound ==
    ASSUME PreviewInv
    PROVE  PreviewIsPermitted
  BY DEF PreviewInv, PreviewIsPermitted, Kinds

(* A previewed value is of a column that was readable, unclassified and still proposed
   during the request, whatever changed between its five reads
   (list_column_previews in knowledge_routes.py), for any schemas, policies, columns
   and number of changes. *)
THEOREM PreviewsAlwaysPermitted ==
    ASSUME PreviewSettings
    PROVE  PreviewSpec => []PreviewIsPermitted
  <1>1. PreviewInit => PreviewInv
    BY PreviewInitially
  <1>2. PreviewInv /\ [PreviewNext]_previewVars => PreviewInv'
    BY PreviewInvStep
  <1>3. PreviewInv => PreviewIsPermitted
    BY PreviewSound
  <1> QED
    BY <1>1, <1>2, <1>3, PTL DEF PreviewSpec

-----------------------------------------------------------------------------
(* Quality checks *)

(* A nonempty set of numbers has a least one. *)
LEMMA LeastOfNumbers ==
    ASSUME NEW T, T \subseteq Nat, T # {}
    PROVE  \E x \in T : \A y \in T : x <= y
  <1> DEFINE R == OpToRel(<, Nat)
  <1>1. \A x, y \in Nat : <<x, y>> \in R <=> x < y
    BY DEF OpToRel
  <1>2. IsWellFoundedOn(R, Nat)
    BY NatLessThanWellFounded
  <1> HIDE DEF R
  <1>3. PICK x \in T : \A y \in T : ~ (<<y, x>> \in R)
    BY <1>2, WFMin
  <1>4. ASSUME NEW y \in T
        PROVE  x <= y
    <2>1. x \in Nat /\ y \in Nat /\ ~(y < x)
      BY <1>1, <1>3
    <2> QED
      BY <2>1
  <1> QED
    BY <1>4

(* Verdicts are told apart by when they were measured (checked_at). *)
ToldByTime(S) == \A v, w \in S : v.at = w.at => v = w

(* At most n verdicts are among the newest n. *)
LEMMA NewestAreFew ==
    ASSUME NEW S, IsFiniteSet(S), \A v \in S : v.at \in Nat, ToldByTime(S), NEW n \in Nat
    PROVE  IsFiniteSet(Newest(n, S)) /\ Cardinality(Newest(n, S)) <= n
  <1> DEFINE N == Newest(n, S)
  <1>1. N \subseteq S /\ IsFiniteSet(N)
    BY FS_Subset DEF Newest
  <1>2. CASE N = {}
    BY <1>1, <1>2, FS_EmptySet
  <1>3. CASE N # {}
    <2> DEFINE times == {v.at : v \in N}
    <2>1. times \subseteq Nat /\ times # {}
      BY <1>1, <1>3
    <2>2. PICK t \in times : \A u \in times : t <= u
      BY <2>1, LeastOfNumbers
    <2>3. PICK m \in N : m.at = t
      BY <2>2
    <2> DEFINE newer == {w \in S : w.at > m.at}
    <2>4. IsFiniteSet(newer) /\ Cardinality(newer) < n
      BY <2>3, FS_Subset DEF Newest
    <2>5. N \ {m} \subseteq newer
      <3> SUFFICES ASSUME NEW w \in N, w # m PROVE w \in newer
        OBVIOUS
      <3>1. w \in S /\ m \in S /\ w.at \in times
        BY <1>1
      <3>2. m.at <= w.at /\ m.at # w.at /\ m.at \in Nat /\ w.at \in Nat
        BY <2>2, <2>3, <3>1 DEF ToldByTime
      <3> QED
        BY <3>1, <3>2
    <2>6. Cardinality(N \ {m}) = Cardinality(N) - 1 /\ Cardinality(N \ {m}) <= Cardinality(newer)
      BY <1>1, <2>4, <2>5, FS_RemoveElement, FS_Subset
    <2>7. Cardinality(N) \in Nat /\ Cardinality(newer) \in Nat
      BY <1>1, <2>4, FS_CardinalityType
    <2> HIDE DEF N, newer
    <2> QED
      BY <1>1, <2>4, <2>6, <2>7 DEF N
  <1> QED
    BY <1>2, <1>3

(* What is not among them has a newer one beside it. *)
LEMMA OlderThanSome ==
    ASSUME NEW S, NEW n \in Nat, 0 < n, NEW w \in S \ Newest(n, S)
    PROVE  \E v \in S : v.at > w.at
  <1> SUFFICES ASSUME {v \in S : v.at > w.at} = {} PROVE FALSE
    OBVIOUS
  <1>1. w \in Newest(n, S)
    BY FS_EmptySet DEF Newest
  <1> QED
    BY <1>1

(* The newest of all is the only one among the newest one. *)
LEMMA NewestIsTheLast ==
    ASSUME NEW S, IsFiniteSet(S), \A v \in S : v.at \in Nat, ToldByTime(S), NEW m \in S,
           \A v \in S : v.at <= m.at
    PROVE  Newest(1, S) = {m}
  <1>1. m \in Newest(1, S)
    <2>1. {w \in S : w.at > m.at} = {}
      <3> SUFFICES ASSUME NEW w \in S, w.at > m.at PROVE FALSE
        OBVIOUS
      <3>1. w.at <= m.at /\ w.at \in Nat /\ m.at \in Nat
        OBVIOUS
      <3> QED
        BY <3>1
    <2> QED
      BY <2>1, FS_EmptySet DEF Newest
  <1>2. ASSUME NEW v \in Newest(1, S), v # m
        PROVE  FALSE
    <2> DEFINE newer == {w \in S : w.at > v.at}
    <2>1. v \in S /\ Cardinality(newer) < 1
      BY DEF Newest
    <2>2. m \in newer
      <3>1. v.at <= m.at /\ v.at # m.at /\ v.at \in Nat /\ m.at \in Nat
        BY <1>2, <2>1 DEF ToldByTime
      <3> QED
        BY <3>1
    <2>3. IsFiniteSet(newer) /\ newer # {}
      BY <2>2, FS_Subset
    <2> HIDE DEF newer
    <2>4. Cardinality(newer) \in Nat /\ Cardinality(newer) # 0
      BY <2>3, FS_CardinalityType, FS_EmptySet
    <2> QED
      BY <2>1, <2>4
  <1> QED
    BY <1>1, <1>2

(* The limit keeps a verdict, and the runs are finitely many (RETAINED_RESULTS). *)
QualitySettings == Retained \in Nat \ {0} /\ IsFiniteSet(Runners)

Statuses == {"HEALTHY", "WARNING", "STALE", "FAILING", "UNKNOWN"}

Measured == [id : Ids, at : Nat, status : Statuses]

LEMMA InterpretIsStatus ==
    ASSUME NEW a, NEW observed
    PROVE  Interpret(a, observed) \in Statuses
  <1>1. CASE observed = Null
    BY <1>1 DEF Interpret, Statuses
  <1>2. CASE observed # Null
    BY <1>2 DEF Interpret, Statuses
  <1> QED
    BY <1>1, <1>2

QualityTyped ==
    /\ clock \in Nat
    /\ runner \in [Runners -> [pc : {"idle", "checking", "committing", "recording"},
                               todo : SUBSET Ids, done : Seq(Measured), doomed : SUBSET Result]]
    /\ results \in [Ids -> SUBSET Result]
    /\ newest \in [Ids -> Result \cup {NoResult}]

(* A moment is the time of one check, which waits in one run, was recorded, or is gone. *)
TimesApart ==
    /\ \A r \in Runners : \A j \in 1..Len(runner[r].done) :
          0 < runner[r].done[j].at /\ runner[r].done[j].at <= clock
    /\ \A r, q \in Runners : \A j \in 1..Len(runner[r].done) : \A k \in 1..Len(runner[q].done) :
          runner[r].done[j].at = runner[q].done[k].at => r = q /\ j = k
    /\ \A i \in Ids : \A w \in results[i] :
          /\ 0 < w.at /\ w.at <= clock
          /\ \A r \in Runners : \A j \in 1..Len(runner[r].done) : runner[r].done[j].at # w.at

(* The newest verdict is in the history, before which nothing else is. *)
NewestIsKept ==
    \A i \in Ids :
        /\ IsFiniteSet(results[i]) /\ ToldByTime(results[i])
        /\ newest[i] \in results[i] \/ (newest[i] = NoResult /\ results[i] = {})
        /\ \A w \in results[i] : w.at <= newest[i].at

(* What a run is about to delete is older than the newest, or than what it inserts, and
   is not what another run inserts. *)
DoomedAreOld ==
    \A r \in Runners : runner[r].pc = "committing" =>
        /\ runner[r].done # <<>>
        /\ \A w \in runner[r].doomed :
              /\ w.at <= clock
              /\ \/ w.at < Head(runner[r].done).at
                 \/ w.at < newest[Head(runner[r].done).id].at
              /\ \A q \in Runners \ {r} : \A j \in 1..Len(runner[q].done) :
                    runner[q].done[j].at # w.at

Committing(i) ==
    {r \in Runners : runner[r].pc = "committing" /\ Head(runner[r].done).id = i}

(* What is left of the history of i once some runs have committed. *)
LeftBy(i, Q) ==
    (results[i] \cup {Verdict(Head(runner[q].done)) : q \in Q})
        \ UNION {runner[q].doomed : q \in Q}

(* Whichever of the runs under way commit, the history stays within its limit. *)
HistoryIsBounded ==
    \A i \in Ids : \A Q \in SUBSET Committing(i) :
        /\ IsFiniteSet(LeftBy(i, Q))
        /\ Cardinality(LeftBy(i, Q)) < Retained + Cardinality(Runners)

QualityInv ==
    QualityTyped /\ TimesApart /\ NewestIsKept /\ DoomedAreOld /\ HistoryIsBounded

LEMMA QualityInitially ==
    ASSUME QualitySettings, QualityInit
    PROVE  QualityInv
  <1>1. \A r \in Runners : /\ runner[r].pc = "idle" /\ runner[r].todo = {}
                           /\ runner[r].done = <<>> /\ runner[r].doomed = {}
    BY DEF QualityInit, NotRunning
  <1>2. \A i \in Ids : results[i] = {} /\ newest[i] = NoResult
    BY DEF QualityInit
  <1>3. QualityTyped
    BY DEF QualityInit, QualityTyped, NotRunning
  <1>4. TimesApart /\ DoomedAreOld
    BY <1>1, <1>2 DEF TimesApart, DoomedAreOld
  <1>5. NewestIsKept
    BY <1>2, FS_EmptySet DEF NewestIsKept, ToldByTime
  <1>6. HistoryIsBounded
    <2>1. \A i \in Ids : Committing(i) = {}
      BY <1>1 DEF Committing
    <2>2. \A i \in Ids : LeftBy(i, {}) = {}
      BY <1>2 DEF LeftBy
    <2>3. Cardinality(Runners) \in Nat
      BY FS_CardinalityType DEF QualitySettings
    <2>4. 0 < Retained + Cardinality(Runners)
      BY <2>3 DEF QualitySettings
    <2> QED
      BY <2>1, <2>2, <2>4, FS_EmptySet DEF HistoryIsBounded
  <1> QED
    BY <1>3, <1>4, <1>5, <1>6 DEF QualityInv

(* A step that commits nothing and begins no transaction leaves the bound. *)
LEMMA BoundStays ==
    ASSUME HistoryIsBounded, results' = results,
           \A q \in Runners : runner'[q].pc = "committing" => runner'[q] = runner[q]
    PROVE  HistoryIsBounded'
  <1> SUFFICES ASSUME NEW i \in Ids, NEW Q \in SUBSET Committing(i)'
               PROVE  /\ IsFiniteSet(LeftBy(i, Q)')
                      /\ Cardinality(LeftBy(i, Q)') < Retained + Cardinality(Runners)
    BY DEF HistoryIsBounded
  <1>1. \A q \in Q : q \in Runners /\ runner'[q] = runner[q]
    BY DEF Committing
  <1>2. Q \in SUBSET Committing(i)
    BY <1>1 DEF Committing
  <1>3. LeftBy(i, Q)' = LeftBy(i, Q)
    BY <1>1 DEF LeftBy
  <1> QED
    BY <1>2, <1>3 DEF HistoryIsBounded

(* A step that leaves each run its verdicts or none, and records none, keeps their times
   apart. *)
LEMMA TimesOfLess ==
    ASSUME TimesApart, clock' = clock, results' = results,
           \A q \in Runners : runner'[q].done = runner[q].done \/ runner'[q].done = <<>>
    PROVE  TimesApart'
  <1>1. \A q \in Runners : \A j \in 1..Len(runner'[q].done) :
           j \in 1..Len(runner[q].done) /\ runner'[q].done[j] = runner[q].done[j]
    OBVIOUS
  <1>2. \A q \in Runners : \A j \in 1..Len(runner'[q].done) :
           0 < runner'[q].done[j].at /\ runner'[q].done[j].at <= clock
    BY <1>1 DEF TimesApart
  <1>3. \A r, q \in Runners : \A j \in 1..Len(runner'[r].done) :
           \A k \in 1..Len(runner'[q].done) :
              runner'[r].done[j].at = runner'[q].done[k].at => r = q /\ j = k
    <2> SUFFICES ASSUME NEW r \in Runners, NEW q \in Runners, NEW j \in 1..Len(runner'[r].done),
                        NEW k \in 1..Len(runner'[q].done),
                        runner'[r].done[j].at = runner'[q].done[k].at
                 PROVE  r = q /\ j = k
      OBVIOUS
    <2>1. /\ j \in 1..Len(runner[r].done) /\ runner'[r].done[j] = runner[r].done[j]
          /\ k \in 1..Len(runner[q].done) /\ runner'[q].done[k] = runner[q].done[k]
      BY <1>1
    <2> QED
      BY <2>1 DEF TimesApart
  <1>4. \A i \in Ids : \A w \in results[i] :
           /\ 0 < w.at /\ w.at <= clock
           /\ \A r \in Runners : \A j \in 1..Len(runner'[r].done) : runner'[r].done[j].at # w.at
    BY <1>1 DEF TimesApart
  <1> QED
    BY <1>2, <1>3, <1>4 DEF TimesApart

(* A step that checks, begins and commits nothing, and leaves a run its verdicts or none,
   leaves what is said of their times. *)
LEMMA TimesStay ==
    ASSUME QualityInv, clock' = clock, results' = results, newest' = newest,
           \A q \in Runners : runner'[q].done = runner[q].done \/ runner'[q].done = <<>>,
           \A q \in Runners : runner'[q].pc = "committing" => runner'[q] = runner[q]
    PROVE  TimesApart' /\ NewestIsKept' /\ DoomedAreOld'
  <1>1. \A q \in Runners : \A j \in 1..Len(runner'[q].done) :
           j \in 1..Len(runner[q].done) /\ runner'[q].done[j] = runner[q].done[j]
    OBVIOUS
  <1>2. TimesApart'
    BY TimesOfLess DEF QualityInv
  <1>3. NewestIsKept'
    BY DEF QualityInv, NewestIsKept
  <1>4. DoomedAreOld'
    <2> SUFFICES ASSUME NEW p \in Runners, runner'[p].pc = "committing"
                 PROVE  /\ runner'[p].done # <<>>
                        /\ \A w \in runner'[p].doomed :
                              /\ w.at <= clock
                              /\ \/ w.at < Head(runner'[p].done).at
                                 \/ w.at < newest[Head(runner'[p].done).id].at
                              /\ \A q \in Runners \ {p} : \A j \in 1..Len(runner'[q].done) :
                                    runner'[q].done[j].at # w.at
      BY DEF DoomedAreOld
    <2>1. runner'[p] = runner[p]
      OBVIOUS
    <2>2. /\ runner[p].done # <<>>
          /\ \A w \in runner[p].doomed :
                /\ w.at <= clock
                /\ \/ w.at < Head(runner[p].done).at
                   \/ w.at < newest[Head(runner[p].done).id].at
                /\ \A q \in Runners \ {p} : \A j \in 1..Len(runner[q].done) :
                      runner[q].done[j].at # w.at
      BY <2>1 DEF QualityInv, DoomedAreOld
    <2> QED
      BY <1>1, <2>1, <2>2, SMTT(60)
  <1> QED
    BY <1>2, <1>3, <1>4

LEMMA StartRunKeeps ==
    ASSUME QualityInv, NEW r \in Runners, StartRun(r)
    PROVE  QualityInv'
  <1>1. /\ clock' = clock /\ results' = results /\ newest' = newest
        /\ runner' = [runner EXCEPT ![r].pc = "checking", ![r].todo = {i \in Ids : enabled[i]}]
    BY DEF StartRun
  <1>2. QualityTyped /\ runner[r].done = <<>>
    BY DEF QualityInv, StartRun, NotRunning
  <1>3. /\ \A q \in Runners : runner'[q].done = runner[q].done
        /\ \A q \in Runners : runner'[q].pc = "committing" => runner'[q] = runner[q]
    BY <1>1, <1>2 DEF QualityTyped
  <1>4. QualityTyped'
    BY <1>1, <1>2, ZenonT(60) DEF QualityTyped
  <1> QED
    BY <1>1, <1>3, <1>4, TimesStay, BoundStays DEF QualityInv

LEMMA EndRunKeeps ==
    ASSUME QualityInv, NEW r \in Runners, EndRun(r)
    PROVE  QualityInv'
  <1>1. /\ clock' = clock /\ results' = results /\ newest' = newest
        /\ runner' = [runner EXCEPT ![r] = NotRunning]
    BY DEF EndRun
  <1>2. QualityTyped
    BY DEF QualityInv
  <1>3. /\ \A q \in Runners : runner'[q] = runner[q] \/ runner'[q] = NotRunning
        /\ NotRunning.pc = "idle" /\ NotRunning.done = <<>>
        /\ Len(NotRunning.done) = 0
    BY <1>1, <1>2 DEF QualityTyped, NotRunning
  <1>4. QualityTyped'
    BY <1>1, <1>2 DEF QualityTyped, NotRunning
  <1>5. \A q \in Runners : /\ runner'[q].pc = "committing" => runner'[q] = runner[q]
                           /\ runner'[q].done = runner[q].done \/ runner'[q].done = <<>>
    BY <1>3
  <1> QED
    BY <1>1, <1>4, <1>5, TimesStay, BoundStays DEF QualityInv

LEMMA CheckKeeps ==
    ASSUME QualityInv, NEW r \in Runners, Check(r)
    PROVE  QualityInv'
  <1>1. PICK i \in runner[r].todo : \E status \in {"UNKNOWN", Interpret(Assertions[i], Observed(Assertions[i], data))} :
           runner' = [runner EXCEPT ![r].todo = @ \ {i},
                        ![r].done = Append(@, [id |-> i, at |-> clock + 1, status |-> status])]
    BY DEF Check
  <1>2. PICK status \in {"UNKNOWN", Interpret(Assertions[i], Observed(Assertions[i], data))} :
           runner' = [runner EXCEPT ![r].todo = @ \ {i},
                        ![r].done = Append(@, [id |-> i, at |-> clock + 1, status |-> status])]
    BY <1>1
  <1>3. /\ clock' = clock + 1 /\ results' = results /\ newest' = newest /\ runner[r].pc = "checking"
    BY DEF Check
  <1>4. QualityTyped
    BY DEF QualityInv
  <1> DEFINE d == [id |-> i, at |-> clock + 1, status |-> status]
             before == runner[r].done
  <1>5. /\ clock \in Nat /\ before \in Seq(Measured) /\ d \in Measured /\ d.at = clock + 1
        /\ runner[r].todo \subseteq Ids
    <2>1. clock \in Nat /\ before \in Seq(Measured) /\ runner[r].todo \subseteq Ids
      BY <1>4 DEF QualityTyped
    <2>2. status \in Statuses
      <3>1. "UNKNOWN" \in Statuses
        BY DEF Statuses
      <3> QED
        BY <3>1, InterpretIsStatus
    <2>3. i \in Ids /\ clock + 1 \in Nat
      BY <2>1
    <2> QED
      BY <2>1, <2>2, <2>3 DEF Measured
  <1>6. /\ runner'[r].done = Append(before, d) /\ runner'[r].pc = "checking"
        /\ \A q \in Runners \ {r} : runner'[q] = runner[q]
    BY <1>2, <1>3, <1>4 DEF QualityTyped
  <1>7. QualityTyped'
    <2>1. [runner[r] EXCEPT !.todo = @ \ {i}, !.done = Append(before, d)]
             \in [pc : {"idle", "checking", "committing", "recording"},
                  todo : SUBSET Ids, done : Seq(Measured), doomed : SUBSET Result]
      <3>1. Append(before, d) \in Seq(Measured)
        BY <1>5
      <3> HIDE DEF d, before
      <3> QED
        BY <1>4, <3>1, ZenonT(60) DEF QualityTyped
    <2>2. runner' = [runner EXCEPT ![r] = [runner[r] EXCEPT !.todo = @ \ {i}, !.done = Append(before, d)]]
      BY <1>2
    <2> HIDE DEF d, before
    <2> QED
      BY <1>3, <1>4, <2>1, <2>2 DEF QualityTyped
  <1> HIDE DEF d
  <1>8. /\ Len(before) \in Nat /\ Len(runner'[r].done) = Len(before) + 1
        /\ \A j \in 1..Len(before) : runner'[r].done[j] = before[j]
        /\ runner'[r].done[Len(before) + 1] = d
    BY <1>5, <1>6
  <1>9. \A q \in Runners : \A j \in 1..Len(runner'[q].done) :
           \/ q = r /\ j = Len(before) + 1 /\ runner'[q].done[j].at = clock + 1
           \/ j \in 1..Len(runner[q].done) /\ runner'[q].done[j] = runner[q].done[j]
    <2> SUFFICES ASSUME NEW q \in Runners, NEW j \in 1..Len(runner'[q].done)
                 PROVE  \/ q = r /\ j = Len(before) + 1 /\ runner'[q].done[j].at = clock + 1
                        \/ j \in 1..Len(runner[q].done) /\ runner'[q].done[j] = runner[q].done[j]
      OBVIOUS
    <2>1. CASE q = r
      <3>1. j \in 1..(Len(before) + 1)
        BY <1>8, <2>1
      <3>2. j = Len(before) + 1 \/ j \in 1..Len(before)
        BY <1>8, <3>1
      <3> QED
        BY <1>5, <1>8, <2>1, <3>2
    <2>2. CASE q # r
      BY <1>6, <2>2
    <2> QED
      BY <2>1, <2>2
  <1>10. \A q \in Runners : \A j \in 1..Len(runner[q].done) :
           /\ runner[q].done[j].at \in Nat
           /\ 0 < runner[q].done[j].at /\ runner[q].done[j].at <= clock
    <2> SUFFICES ASSUME NEW q \in Runners, NEW j \in 1..Len(runner[q].done)
                 PROVE  runner[q].done[j].at \in Nat
      BY DEF QualityInv, TimesApart
    <2>1. runner[q].done \in Seq(Measured)
      BY <1>4 DEF QualityTyped
    <2>2. runner[q].done[j] \in Measured
      BY <2>1
    <2> QED
      BY <2>2 DEF Measured
  <1>11. \A k \in Ids : \A w \in results[k] : w.at \in Nat /\ 0 < w.at /\ w.at <= clock
    BY <1>4 DEF QualityTyped, QualityInv, TimesApart, Result
  <1>12. TimesApart'
    <2>1. \A q \in Runners : \A j \in 1..Len(runner'[q].done) :
             0 < runner'[q].done[j].at /\ runner'[q].done[j].at <= clock + 1
      <3> SUFFICES ASSUME NEW q \in Runners, NEW j \in 1..Len(runner'[q].done)
                   PROVE  0 < runner'[q].done[j].at /\ runner'[q].done[j].at <= clock + 1
        OBVIOUS
      <3>1. CASE j \in 1..Len(runner[q].done) /\ runner'[q].done[j] = runner[q].done[j]
        <4>1. /\ runner[q].done[j].at \in Nat
              /\ 0 < runner[q].done[j].at /\ runner[q].done[j].at <= clock
          BY <1>10, <3>1
        <4> QED
          BY <1>5, <3>1, <4>1
      <3>2. CASE runner'[q].done[j].at = clock + 1
        BY <1>5, <3>2
      <3> QED
        BY <1>9, <3>1, <3>2
    <2>2. ASSUME NEW q \in Runners, NEW p \in Runners, NEW j \in 1..Len(runner'[q].done),
                 NEW k \in 1..Len(runner'[p].done), runner'[q].done[j].at = runner'[p].done[k].at
          PROVE  q = p /\ j = k
      <3>1. \/ q = r /\ j = Len(before) + 1 /\ runner'[q].done[j].at = clock + 1
            \/ j \in 1..Len(runner[q].done) /\ runner'[q].done[j] = runner[q].done[j]
        BY <1>9
      <3>2. \/ p = r /\ k = Len(before) + 1 /\ runner'[p].done[k].at = clock + 1
            \/ k \in 1..Len(runner[p].done) /\ runner'[p].done[k] = runner[p].done[k]
        BY <1>9
      <3>3. /\ j \in 1..Len(runner[q].done) => runner[q].done[j].at # clock + 1
            /\ k \in 1..Len(runner[p].done) => runner[p].done[k].at # clock + 1
        BY <1>5, <1>10, SMTT(60)
      <3>4. CASE /\ j \in 1..Len(runner[q].done) /\ runner'[q].done[j] = runner[q].done[j]
                 /\ k \in 1..Len(runner[p].done) /\ runner'[p].done[k] = runner[p].done[k]
        BY <2>2, <3>4, SMTT(60) DEF QualityInv, TimesApart
      <3> QED
        BY <2>2, <3>1, <3>2, <3>3, <3>4
    <2>3. ASSUME NEW k \in Ids, NEW w \in results[k]
          PROVE  /\ 0 < w.at /\ w.at <= clock + 1
                 /\ \A q \in Runners : \A j \in 1..Len(runner'[q].done) : runner'[q].done[j].at # w.at
      <3>1. w.at \in Nat /\ 0 < w.at /\ w.at <= clock
        BY <1>11
      <3>2. \A q \in Runners : \A j \in 1..Len(runner[q].done) : runner[q].done[j].at # w.at
        BY DEF QualityInv, TimesApart
      <3>3. ASSUME NEW q \in Runners, NEW j \in 1..Len(runner'[q].done)
            PROVE  runner'[q].done[j].at # w.at
        <4>1. CASE j \in 1..Len(runner[q].done) /\ runner'[q].done[j] = runner[q].done[j]
          BY <3>2, <4>1
        <4>2. CASE runner'[q].done[j].at = clock + 1
          BY <1>5, <3>1, <4>2
        <4> QED
          BY <1>9, <4>1, <4>2
      <3> QED
        BY <1>5, <3>1, <3>3
    <2> QED
      BY <1>3, <2>1, <2>2, <2>3 DEF TimesApart
  <1>13. NewestIsKept'
    BY <1>3 DEF QualityInv, NewestIsKept
  <1>14. DoomedAreOld'
    <2> SUFFICES ASSUME NEW p \in Runners, runner'[p].pc = "committing"
                 PROVE  /\ runner'[p].done # <<>>
                        /\ \A w \in runner'[p].doomed :
                              /\ w.at <= clock + 1
                              /\ \/ w.at < Head(runner'[p].done).at
                                 \/ w.at < newest[Head(runner'[p].done).id].at
                              /\ \A q \in Runners \ {p} : \A j \in 1..Len(runner'[q].done) :
                                    runner'[q].done[j].at # w.at
      BY <1>3 DEF DoomedAreOld
    <2>1. runner'[p] = runner[p] /\ p # r /\ runner[p].pc = "committing"
      BY <1>6
    <2>2. \A w \in runner[p].doomed : w.at \in Nat
      BY <1>4 DEF QualityTyped, Result
    <2>3. /\ runner[p].done # <<>>
          /\ \A w \in runner[p].doomed :
                /\ w.at <= clock
                /\ \/ w.at < Head(runner[p].done).at
                   \/ w.at < newest[Head(runner[p].done).id].at
                /\ \A q \in Runners \ {p} : \A j \in 1..Len(runner[q].done) :
                      runner[q].done[j].at # w.at
      BY <2>1 DEF QualityInv, DoomedAreOld
    <2>4. ASSUME NEW w \in runner[p].doomed, NEW q \in Runners \ {p}, NEW j \in 1..Len(runner'[q].done)
          PROVE  runner'[q].done[j].at # w.at /\ w.at <= clock + 1
      BY <1>5, <1>9, <2>2, <2>3, SMTT(60)
    <2>5. ASSUME NEW w \in runner[p].doomed
          PROVE  w.at <= clock + 1
      BY <1>5, <2>2, <2>3
    <2> QED
      BY <2>1, <2>3, <2>4, <2>5
  <1>15. \A q \in Runners : runner'[q].pc = "committing" => runner'[q] = runner[q]
    BY <1>6
  <1> QED
    BY <1>3, <1>7, <1>12, <1>13, <1>14, <1>15, BoundStays DEF QualityInv

(* A verdict to be recorded is a result of its assertion. *)
LEMMA FirstDone ==
    ASSUME QualityTyped, NEW r \in Runners, runner[r].done # <<>>
    PROVE  /\ Head(runner[r].done) \in Measured /\ Head(runner[r].done) = runner[r].done[1]
           /\ 1 \in 1..Len(runner[r].done)
           /\ Verdict(Head(runner[r].done)) \in Result
           /\ Verdict(Head(runner[r].done)).at = Head(runner[r].done).at
           /\ Head(runner[r].done).id \in Ids
  <1>1. runner[r].done \in Seq(Measured)
    BY DEF QualityTyped
  <1>2. /\ Head(runner[r].done) \in Measured /\ Head(runner[r].done) = runner[r].done[1]
        /\ 1 \in 1..Len(runner[r].done)
    BY <1>1
  <1> DEFINE d == Head(runner[r].done)
  <1>3. d.at \in Nat /\ d.status \in Statuses /\ d.id \in Ids
    BY <1>2 DEF Measured
  <1> HIDE DEF d
  <1>4. Verdict(d) \in Result /\ Verdict(d).at = d.at
    BY <1>3 DEF Verdict, Result, Statuses
  <1> QED
    BY <1>2, <1>3, <1>4 DEF d

LEMMA RecordBeginsKeeps ==
    ASSUME QualitySettings, QualityInv, NEW r \in Runners, RecordBegins(r)
    PROVE  QualityInv'
  <1> DEFINE d == Head(runner[r].done)
             visible == results[d.id] \cup {Verdict(d)}
             doomed == visible \ Newest(Retained, visible)
  <1>1. /\ clock' = clock /\ results' = results /\ newest' = newest
        /\ runner' = [runner EXCEPT ![r].pc = "committing", ![r].doomed = doomed]
        /\ runner[r].pc # "committing" /\ runner[r].done # <<>>
    BY DEF RecordBegins
  <1>2. QualityTyped
    BY DEF QualityInv
  <1>3. /\ d \in Measured /\ d = runner[r].done[1] /\ 1 \in 1..Len(runner[r].done)
        /\ Verdict(d) \in Result /\ Verdict(d).at = d.at /\ d.id \in Ids
    BY <1>1, <1>2, FirstDone, SMTT(60)
  <1> HIDE DEF d
  <1>4. /\ visible \subseteq Result /\ \A v \in visible : v.at \in Nat
        /\ IsFiniteSet(visible) /\ ToldByTime(visible)
    <2>1. results[d.id] \subseteq Result /\ IsFiniteSet(results[d.id]) /\ ToldByTime(results[d.id])
      BY <1>2, <1>3 DEF QualityTyped, QualityInv, NewestIsKept
    <2>2. \A w \in results[d.id] : w.at # d.at
      BY <1>3 DEF QualityInv, TimesApart
    <2>3. IsFiniteSet(visible)
      BY <2>1, FS_AddElement, SMTT(60)
    <2>4. ToldByTime(visible)
      BY <1>3, <2>1, <2>2 DEF ToldByTime
    <2> QED
      BY <1>3, <2>1, <2>3, <2>4 DEF Result
  <1>5. /\ \A q \in Runners : runner'[q].done = runner[q].done
        /\ \A q \in Runners \ {r} : runner'[q] = runner[q]
        /\ runner'[r].pc = "committing" /\ runner'[r].doomed = doomed
    BY <1>1, <1>2 DEF QualityTyped
  <1>6. QualityTyped'
    <2>1. doomed \in SUBSET Result
      BY <1>4
    <2> HIDE DEF doomed
    <2> QED
      BY <1>1, <1>2, <2>1, ZenonT(60) DEF QualityTyped
  <1>7. TimesApart' /\ NewestIsKept'
    <2>1. NewestIsKept'
      BY <1>1 DEF QualityInv, NewestIsKept
    <2> QED
      BY <1>1, <1>5, <2>1, TimesOfLess DEF QualityInv
  <1>8. \A w \in doomed :
           /\ w.at <= clock
           /\ w.at < d.at \/ w.at < newest[d.id].at
           /\ \A q \in Runners \ {r} : \A j \in 1..Len(runner[q].done) : runner[q].done[j].at # w.at
    <2> SUFFICES ASSUME NEW w \in doomed
                 PROVE  /\ w.at <= clock
                        /\ w.at < d.at \/ w.at < newest[d.id].at
                        /\ \A q \in Runners \ {r} : \A j \in 1..Len(runner[q].done) :
                              runner[q].done[j].at # w.at
      OBVIOUS
    <2>1. w \in visible /\ w \notin Newest(Retained, visible)
      OBVIOUS
    <2>2. PICK v \in visible : v.at > w.at
      BY <2>1, OlderThanSome DEF QualitySettings
    <2>3. v.at \in Nat /\ w.at \in Nat /\ w.at < v.at
      BY <1>4, <2>1, <2>2
    <2>4. \A u \in visible : u = Verdict(d) \/ u \in results[d.id]
      OBVIOUS
    <2>5. \A u \in results[d.id] : u.at <= newest[d.id].at
      BY <1>3 DEF QualityInv, NewestIsKept
    <2>6. newest[d.id].at \in Nat
      <3>1. newest[d.id] \in Result \cup {NoResult}
        BY <1>2, <1>3 DEF QualityTyped
      <3> QED
        BY <3>1 DEF Result, NoResult
    <2>7. w.at < d.at \/ w.at < newest[d.id].at
      <3> HIDE DEF visible
      <3>1. CASE v = Verdict(d)
        BY <1>3, <2>3, <3>1
      <3>2. CASE v \in results[d.id]
        BY <2>3, <2>5, <2>6, <3>2
      <3> QED
        BY <2>4, <3>1, <3>2
    <2>8. ASSUME NEW q \in Runners \ {r}, NEW j \in 1..Len(runner[q].done)
          PROVE  runner[q].done[j].at # w.at
      <3>1. CASE w \in results[d.id]
        BY <1>3, <3>1 DEF QualityInv, TimesApart
      <3>2. CASE w = Verdict(d)
        <4>1. runner[q].done[j].at # runner[r].done[1].at
          BY <1>3 DEF QualityInv, TimesApart
        <4> QED
          BY <1>3, <3>2, <4>1
      <3> QED
        BY <2>1, <2>4, <3>1, <3>2
    <2>9. w.at <= clock
      <3>1. CASE w \in results[d.id]
        BY <1>3, <3>1 DEF QualityInv, TimesApart
      <3>2. CASE w = Verdict(d)
        <4>1. runner[r].done[1].at <= clock
          BY <1>3 DEF QualityInv, TimesApart
        <4> QED
          BY <1>3, <3>2, <4>1
      <3> QED
        BY <2>1, <2>4, <3>1, <3>2
    <2> QED
      BY <2>7, <2>8, <2>9
  <1>9. IsFiniteSet(Newest(Retained, visible)) /\ Cardinality(Newest(Retained, visible)) <= Retained
    BY <1>4, NewestAreFew DEF QualitySettings
  <1> HIDE DEF doomed
  <1>10. DoomedAreOld'
    <2> SUFFICES ASSUME NEW p \in Runners, runner'[p].pc = "committing"
                 PROVE  /\ runner'[p].done # <<>>
                        /\ \A w \in runner'[p].doomed :
                              /\ w.at <= clock
                              /\ \/ w.at < Head(runner'[p].done).at
                                 \/ w.at < newest[Head(runner'[p].done).id].at
                              /\ \A q \in Runners \ {p} : \A j \in 1..Len(runner'[q].done) :
                                    runner'[q].done[j].at # w.at
      BY <1>1 DEF DoomedAreOld
    <2>1. CASE p = r
      <3>1. /\ runner'[p].doomed = doomed /\ runner'[p].done = runner[r].done
            /\ Head(runner'[p].done) = d
        BY <1>5, <2>1 DEF d
      <3>2. \A w \in doomed : \A q \in Runners \ {r} : \A j \in 1..Len(runner'[q].done) :
               runner'[q].done[j].at # w.at
        BY <1>5, <1>8
      <3> QED
        BY <1>1, <1>8, <2>1, <3>1, <3>2, Zenon
    <2>2. CASE p # r
      <3>1. runner'[p] = runner[p]
        BY <1>5, <2>2
      <3>2. /\ runner[p].done # <<>>
            /\ \A w \in runner[p].doomed :
                  /\ w.at <= clock
                  /\ \/ w.at < Head(runner[p].done).at
                     \/ w.at < newest[Head(runner[p].done).id].at
                  /\ \A q \in Runners \ {p} : \A j \in 1..Len(runner[q].done) :
                        runner[q].done[j].at # w.at
        BY <3>1 DEF QualityInv, DoomedAreOld
      <3> QED
        BY <1>5, <3>1, <3>2
    <2> QED
      BY <2>1, <2>2, SMTT(60)
  <1>11. HistoryIsBounded'
    <2> SUFFICES ASSUME NEW i \in Ids, NEW Q \in SUBSET Committing(i)'
                 PROVE  /\ IsFiniteSet(LeftBy(i, Q)')
                        /\ Cardinality(LeftBy(i, Q)') < Retained + Cardinality(Runners)
      BY DEF HistoryIsBounded
    <2>0. /\ Q \subseteq Runners
          /\ \A q \in Q : runner'[q].pc = "committing" /\ Head(runner'[q].done).id = i
      BY DEF Committing
    <2>1. CASE r \notin Q
      <3>1. \A q \in Q : q \in Runners \ {r} /\ runner'[q] = runner[q]
        BY <1>5, <2>0, <2>1
      <3>2. Q \in SUBSET Committing(i)
        BY <2>0, <3>1 DEF Committing
      <3>3. LeftBy(i, Q)' = LeftBy(i, Q)
        BY <1>1, <3>1 DEF LeftBy
      <3> QED
        BY <3>2, <3>3 DEF QualityInv, HistoryIsBounded
    <2>2. CASE r \in Q
      <3>1. d.id = i
        BY <1>5, <2>0, <2>2 DEF d
      <3> DEFINE others == Q \ {r}
                 verdict == [q \in others |-> Verdict(Head(runner[q].done))]
                 theirs == {verdict[q] : q \in others}
                 kept == Newest(Retained, visible)
      <3>2. IsFiniteSet(others) /\ Cardinality(others) < Cardinality(Runners)
        <4>1. others \subseteq Runners \ {r} /\ IsFiniteSet(Runners \ {r})
              /\ Cardinality(Runners \ {r}) = Cardinality(Runners) - 1
              /\ Cardinality(Runners) \in Nat
          BY <2>0, FS_RemoveElement, FS_CardinalityType DEF QualitySettings
        <4>2. IsFiniteSet(others) /\ Cardinality(others) <= Cardinality(Runners \ {r})
          BY <4>1, FS_Subset
        <4>3. Cardinality(others) \in Nat
          BY <4>2, FS_CardinalityType
        <4> QED
          BY <4>1, <4>2, <4>3
      <3>3. IsFiniteSet(theirs) /\ Cardinality(theirs) <= Cardinality(others)
        <4>1. verdict \in Surjection(others, theirs)
          BY DEF Surjection
        <4> HIDE DEF verdict, theirs, others
        <4> QED
          BY <3>2, <4>1, FS_Surjection
      <3>4. LeftBy(i, Q)' \subseteq kept \cup theirs
        <4> SUFFICES ASSUME NEW w \in LeftBy(i, Q)', w \notin theirs PROVE w \in kept
          OBVIOUS
        <4>1. /\ w \in results[i] \cup {Verdict(Head(runner'[q].done)) : q \in Q}
              /\ w \notin UNION {runner'[q].doomed : q \in Q}
          BY <1>1 DEF LeftBy
        <4>2. w \notin doomed
          BY <1>5, <2>2, <4>1
        <4>3. \A q \in Q : q # r => Verdict(Head(runner'[q].done)) \in theirs
          BY <1>5, <2>0
        <4>4. w \in results[i] \/ w = Verdict(Head(runner'[r].done))
          BY <4>1, <4>3
        <4>5. w \in visible
          BY <1>5, <3>1, <4>4 DEF d
        <4> QED
          BY <4>2, <4>5 DEF doomed
      <3>5. /\ IsFiniteSet(kept \cup theirs)
            /\ Cardinality(kept \cup theirs) <= Cardinality(kept) + Cardinality(theirs)
        <4> HIDE DEF kept, theirs
        <4>1. IsFiniteSet(kept)
          BY <1>9 DEF kept
        <4>2. /\ IsFiniteSet(kept \cup theirs)
              /\ Cardinality(kept \cup theirs)
                    = Cardinality(kept) + Cardinality(theirs) - Cardinality(kept \cap theirs)
          BY <3>3, <4>1, FS_Union
        <4>3. IsFiniteSet(kept \cap theirs)
          BY <4>1, FS_Subset
        <4>4. /\ Cardinality(kept) \in Nat /\ Cardinality(theirs) \in Nat
              /\ Cardinality(kept \cap theirs) \in Nat
          BY <3>3, <4>1, <4>3, FS_CardinalityType
        <4> QED
          BY <4>2, <4>4
      <3>6. /\ IsFiniteSet(LeftBy(i, Q)')
            /\ Cardinality(LeftBy(i, Q)') <= Cardinality(kept \cup theirs)
        <4> HIDE DEF kept, theirs
        <4> QED
          BY <3>4, <3>5, FS_Subset
      <3>7. /\ Cardinality(LeftBy(i, Q)') \in Nat /\ Cardinality(kept \cup theirs) \in Nat
            /\ Cardinality(kept) \in Nat /\ Cardinality(theirs) \in Nat
            /\ Cardinality(others) \in Nat /\ Cardinality(Runners) \in Nat
            /\ Cardinality(kept) <= Retained /\ Retained \in Nat
        <4> HIDE DEF theirs, others
        <4> QED
          BY <1>9, <3>2, <3>3, <3>5, <3>6, FS_CardinalityType DEF QualitySettings
      <3> HIDE DEF kept, theirs, others
      <3> QED
        BY <3>2, <3>3, <3>5, <3>6, <3>7
    <2> QED
      BY <2>1, <2>2
  <1> QED
    BY <1>6, <1>7, <1>10, <1>11 DEF QualityInv

LEMMA RecordCommitsKeeps ==
    ASSUME QualitySettings, QualityInv, NEW r \in Runners, RecordCommits(r)
    PROVE  QualityInv'
  <1> DEFINE d == Head(runner[r].done)
             doomed == runner[r].doomed
             before == runner[r].done
  <1>1. /\ clock' = clock /\ runner[r].pc = "committing"
        /\ results' = [results EXCEPT ![d.id] = (@ \cup {Verdict(d)}) \ doomed]
        /\ newest' = [newest EXCEPT ![d.id] = IF d.at > @.at THEN Verdict(d) ELSE @]
        /\ runner' = [runner EXCEPT ![r].pc = "recording", ![r].done = Tail(@), ![r].doomed = {}]
    BY DEF RecordCommits
  <1>2. QualityTyped /\ before # <<>>
    BY <1>1 DEF QualityInv, DoomedAreOld
  <1>3. /\ d \in Measured /\ d = runner[r].done[1] /\ 1 \in 1..Len(runner[r].done)
        /\ Verdict(d) \in Result /\ Verdict(d).at = d.at /\ d.id \in Ids
    BY <1>2, FirstDone
  <1>4. /\ before \in Seq(Measured) /\ Tail(before) \in Seq(Measured) /\ doomed \subseteq Result
        /\ Len(Tail(before)) = Len(before) - 1 /\ Len(before) \in Nat
        /\ \A j \in 1..Len(Tail(before)) : Tail(before)[j] = before[j + 1]
    <2>1. before \in Seq(Measured) /\ doomed \subseteq Result
      BY <1>2 DEF QualityTyped
    <2> HIDE DEF before, doomed
    <2> QED
      BY <1>2, <2>1
  <1>5. /\ \A q \in Runners \ {r} : runner'[q] = runner[q]
        /\ runner'[r].done = Tail(before) /\ runner'[r].pc = "recording"
    BY <1>1, <1>2 DEF QualityTyped
  <1>50. PICK i \in Ids : i = d.id
    BY <1>3, SMTT(60)
  <1> DEFINE left == (results[i] \cup {Verdict(d)}) \ doomed
             last == IF d.at > newest[i].at THEN Verdict(d) ELSE newest[i]
  <1>6. /\ results'[i] = left /\ newest'[i] = last
        /\ \A k \in Ids \ {i} : results'[k] = results[k] /\ newest'[k] = newest[k]
        /\ \A w \in left : w \in results[i] \/ w = Verdict(d)
    BY <1>1, <1>2, <1>3, <1>50 DEF QualityTyped
  <1>7. /\ results[i] \subseteq Result /\ \A w \in results[i] : w.at \in Nat
        /\ newest[i] \in Result \cup {NoResult} /\ newest[i].at \in Nat /\ d.at \in Nat
    BY <1>2, <1>3, <1>50 DEF QualityTyped, Result, NoResult, Measured
  <1>8. QualityTyped'
    <2>1. left \in SUBSET Result /\ last \in Result \cup {NoResult}
      BY <1>3, <1>7
    <2>2. /\ results' = [results EXCEPT ![i] = left] /\ newest' = [newest EXCEPT ![i] = last]
      BY <1>1, <1>50
    <2>3. [runner[r] EXCEPT !.pc = "recording", !.done = Tail(before), !.doomed = {}]
             \in [pc : {"idle", "checking", "committing", "recording"},
                  todo : SUBSET Ids, done : Seq(Measured), doomed : SUBSET Result]
      <3>1. runner[r] \in [pc : {"idle", "checking", "committing", "recording"},
                            todo : SUBSET Ids, done : Seq(Measured), doomed : SUBSET Result]
        BY <1>2 DEF QualityTyped
      <3> HIDE DEF before, doomed, left, last, d
      <3> QED
        BY <1>4, <3>1
    <2>4. runner' = [runner EXCEPT ![r] =
                        [runner[r] EXCEPT !.pc = "recording", !.done = Tail(before), !.doomed = {}]]
      BY <1>1
    <2>5. /\ clock' \in Nat
          /\ runner' \in [Runners -> [pc : {"idle", "checking", "committing", "recording"},
                               todo : SUBSET Ids, done : Seq(Measured), doomed : SUBSET Result]]
      <3> HIDE DEF left, last, before, d, doomed
      <3> QED
        BY <1>1, <1>2, <2>3, <2>4, ZenonT(60) DEF QualityTyped
    <2>6. /\ results' \in [Ids -> SUBSET Result]
          /\ newest' \in [Ids -> Result \cup {NoResult}]
      <3> HIDE DEF left, last, before, d, doomed
      <3> QED
        BY <1>2, <2>1, <2>2 DEF QualityTyped
    <2> QED
      BY <2>5, <2>6 DEF QualityTyped
  <1>9. \A q \in Runners : \A j \in 1..Len(runner'[q].done) :
           \/ q # r /\ j \in 1..Len(runner[q].done) /\ runner'[q].done[j] = runner[q].done[j]
           \/ /\ q = r /\ j + 1 \in 1..Len(runner[q].done) /\ j + 1 # 1
              /\ runner'[q].done[j] = runner[q].done[j + 1]
    <2> HIDE DEF d, doomed
    <2> SUFFICES ASSUME NEW q \in Runners, NEW j \in 1..Len(runner'[q].done)
                 PROVE  \/ q # r /\ j \in 1..Len(runner[q].done) /\ runner'[q].done[j] = runner[q].done[j]
                        \/ /\ q = r /\ j + 1 \in 1..Len(runner[q].done) /\ j + 1 # 1
                           /\ runner'[q].done[j] = runner[q].done[j + 1]
      OBVIOUS
    <2>1. CASE q = r
      <3>1. runner'[q].done = Tail(before) /\ runner[q].done = before
        BY <1>5, <2>1
      <3> HIDE DEF before
      <3>2. j \in 1..(Len(before) - 1) /\ runner'[q].done[j] = before[j + 1]
        BY <1>4, <3>1
      <3>3. j + 1 \in 1..Len(before) /\ j + 1 # 1
        BY <1>4, <3>2
      <3> QED
        BY <2>1, <3>1, <3>2, <3>3
    <2>2. CASE q # r
      BY <1>5, <2>2
    <2> QED
      BY <2>1, <2>2
  <1>10. \A q \in Runners : \A j \in 1..Len(runner'[q].done) :
           runner'[q].done[j].at # d.at
    <2> SUFFICES ASSUME NEW q \in Runners, NEW j \in 1..Len(runner'[q].done)
                 PROVE  runner'[q].done[j].at # d.at
      OBVIOUS
    <2>1. CASE q # r /\ j \in 1..Len(runner[q].done) /\ runner'[q].done[j] = runner[q].done[j]
      BY <1>3, <2>1 DEF QualityInv, TimesApart
    <2>2. CASE /\ q = r /\ j + 1 \in 1..Len(runner[q].done) /\ j + 1 # 1
               /\ runner'[q].done[j] = runner[q].done[j + 1]
      BY <1>3, <2>2 DEF QualityInv, TimesApart
    <2> QED
      BY <1>9, <2>1, <2>2
  <1> HIDE DEF d
  <1>11. TimesApart'
    <2>1. \A q \in Runners : \A j \in 1..Len(runner'[q].done) :
             0 < runner'[q].done[j].at /\ runner'[q].done[j].at <= clock
      <3> SUFFICES ASSUME NEW q \in Runners, NEW j \in 1..Len(runner'[q].done)
                   PROVE  0 < runner'[q].done[j].at /\ runner'[q].done[j].at <= clock
        OBVIOUS
      <3>1. CASE j \in 1..Len(runner[q].done) /\ runner'[q].done[j] = runner[q].done[j]
        BY <3>1 DEF QualityInv, TimesApart
      <3>2. CASE j + 1 \in 1..Len(runner[q].done) /\ runner'[q].done[j] = runner[q].done[j + 1]
        BY <3>2 DEF QualityInv, TimesApart
      <3> QED
        BY <1>9, <3>1, <3>2
    <2>2. ASSUME NEW p \in Runners, NEW q \in Runners, NEW j \in 1..Len(runner'[p].done),
                 NEW k \in 1..Len(runner'[q].done), runner'[p].done[j].at = runner'[q].done[k].at
          PROVE  p = q /\ j = k
      <3>1. PICK m \in 1..Len(runner[p].done) :
               /\ runner'[p].done[j] = runner[p].done[m]
               /\ m = IF p = r THEN j + 1 ELSE j
        BY <1>9
      <3>2. PICK n \in 1..Len(runner[q].done) :
               /\ runner'[q].done[k] = runner[q].done[n]
               /\ n = IF q = r THEN k + 1 ELSE k
        BY <1>9
      <3>3. p = q /\ m = n
        BY <2>2, <3>1, <3>2, SMTT(60) DEF QualityInv, TimesApart
      <3>4. j \in Nat /\ k \in Nat
        OBVIOUS
      <3> QED
        BY <3>1, <3>2, <3>3, <3>4
    <2>3. ASSUME NEW k \in Ids, NEW w \in results'[k]
          PROVE  /\ 0 < w.at /\ w.at <= clock
                 /\ \A q \in Runners : \A j \in 1..Len(runner'[q].done) : runner'[q].done[j].at # w.at
      <3>1. CASE w \in results[k]
        <4>1. /\ 0 < w.at /\ w.at <= clock
              /\ \A q \in Runners : \A j \in 1..Len(runner[q].done) : runner[q].done[j].at # w.at
          BY <3>1 DEF QualityInv, TimesApart
        <4>2. ASSUME NEW q \in Runners, NEW j \in 1..Len(runner'[q].done)
              PROVE  runner'[q].done[j].at # w.at
          <5>1. \E m \in 1..Len(runner[q].done) : runner'[q].done[j] = runner[q].done[m]
            BY <1>9
          <5> QED
            BY <4>1, <5>1
        <4> QED
          BY <4>1, <4>2
      <3>2. CASE w = Verdict(d)
        <4>1. 0 < d.at /\ d.at <= clock
          BY <1>3 DEF QualityInv, TimesApart
        <4> QED
          BY <1>3, <1>10, <3>2, <4>1
      <3> QED
        BY <1>6, <3>1, <3>2
    <2>4. \A p, q \in Runners : \A j \in 1..Len(runner'[p].done) : \A k \in 1..Len(runner'[q].done) :
             runner'[p].done[j].at = runner'[q].done[k].at => p = q /\ j = k
      BY <2>2
    <2>5. \A k \in Ids : \A w \in results'[k] :
             /\ 0 < w.at /\ w.at <= clock
             /\ \A q \in Runners : \A j \in 1..Len(runner'[q].done) : runner'[q].done[j].at # w.at
      BY <2>3
    <2>6. clock' = clock
      BY <1>1
    <2> QED
      BY <2>1, <2>4, <2>5, <2>6, Zenon DEF TimesApart
  <1>12. \A w \in doomed : w.at < last.at
    <2> SUFFICES ASSUME NEW w \in doomed PROVE w.at < last.at
      OBVIOUS
    <2>1. w.at < d.at \/ w.at < newest[i].at
      BY <1>1, <1>50 DEF QualityInv, DoomedAreOld, d
    <2>2. w.at \in Nat
      BY <1>4 DEF Result
    <2> QED
      BY <1>3, <1>7, <2>1, <2>2, SMTT(60)
  <1>13. NewestIsKept'
    <2> SUFFICES ASSUME NEW k \in Ids
                 PROVE  /\ IsFiniteSet(results'[k]) /\ ToldByTime(results'[k])
                        /\ newest'[k] \in results'[k] \/ (newest'[k] = NoResult /\ results'[k] = {})
                        /\ \A w \in results'[k] : w.at <= newest'[k].at
      BY DEF NewestIsKept, ToldByTime
    <2>1. /\ IsFiniteSet(results[k]) /\ ToldByTime(results[k])
          /\ newest[k] \in results[k] \/ (newest[k] = NoResult /\ results[k] = {})
          /\ \A w \in results[k] : w.at <= newest[k].at
      BY DEF QualityInv, NewestIsKept
    <2>2. CASE k # i
      BY <1>6, <2>1, <2>2
    <2>3. CASE k = i
      <3>1. IsFiniteSet(left)
        <4>1. IsFiniteSet(results[i] \cup {Verdict(d)})
          BY <2>1, <2>3, FS_AddElement
        <4> QED
          BY <4>1, FS_Subset
      <3>2. ToldByTime(left)
        <4>1. \A w \in results[i] : w.at # d.at
          BY <1>3, <1>50 DEF QualityInv, TimesApart
        <4> QED
          BY <1>3, <2>1, <2>3, <4>1 DEF ToldByTime
      <3>3. \A w \in left : w.at <= last.at
        <4> SUFFICES ASSUME NEW w \in left PROVE w.at <= last.at
          OBVIOUS
        <4>1. w \in results[i] \/ w = Verdict(d)
          BY <1>6
        <4> HIDE DEF left
        <4>2. CASE w \in results[i]
          BY <1>3, <1>7, <2>1, <2>3, <4>2
        <4>3. CASE w = Verdict(d)
          BY <1>3, <1>7, <4>3
        <4> QED
          BY <4>1, <4>2, <4>3
      <3>4. last \in left
        <4>1. last = Verdict(d) \/ (last = newest[i] /\ ~(d.at > newest[i].at))
          OBVIOUS
        <4>2. 0 < d.at
          BY <1>3 DEF QualityInv, TimesApart
        <4>3. newest[i] = NoResult => d.at > newest[i].at
          BY <1>7, <4>2 DEF NoResult
        <4>4. last \in results[i] \cup {Verdict(d)}
          BY <2>1, <2>3, <4>1, <4>3
        <4>5. last.at \in Nat
          BY <1>3, <1>7, <4>1
        <4>6. last \notin doomed
          BY <1>12, <4>5
        <4> HIDE DEF last
        <4> QED
          BY <4>4, <4>6
      <3> QED
        BY <1>6, <2>3, <3>1, <3>2, <3>3, <3>4
    <2> QED
      BY <2>2, <2>3
  <1>14. \A k \in Ids : newest[k].at \in Nat /\ newest'[k].at \in Nat /\ newest[k].at <= newest'[k].at
    <2> SUFFICES ASSUME NEW k \in Ids
                 PROVE  newest[k].at \in Nat /\ newest'[k].at \in Nat /\ newest[k].at <= newest'[k].at
      OBVIOUS
    <2>1. newest[k].at \in Nat
      BY <1>2 DEF QualityTyped, Result, NoResult
    <2>2. CASE k # i
      BY <1>6, <2>1, <2>2
    <2>3. CASE k = i
      BY <1>3, <1>6, <1>7, <2>3
    <2> QED
      BY <2>2, <2>3
  <1>15. DoomedAreOld'
    <2> SUFFICES ASSUME NEW p \in Runners, runner'[p].pc = "committing"
                 PROVE  /\ runner'[p].done # <<>>
                        /\ \A w \in runner'[p].doomed :
                              /\ w.at <= clock
                              /\ \/ w.at < Head(runner'[p].done).at
                                 \/ w.at < newest'[Head(runner'[p].done).id].at
                              /\ \A q \in Runners \ {p} : \A j \in 1..Len(runner'[q].done) :
                                    runner'[q].done[j].at # w.at
      BY <1>1 DEF DoomedAreOld
    <2>1. runner'[p] = runner[p] /\ p # r
      BY <1>5
    <2>2. /\ runner[p].done # <<>>
          /\ \A w \in runner[p].doomed :
                /\ w.at <= clock
                /\ \/ w.at < Head(runner[p].done).at
                   \/ w.at < newest[Head(runner[p].done).id].at
                /\ \A q \in Runners \ {p} : \A j \in 1..Len(runner[q].done) :
                      runner[q].done[j].at # w.at
      BY <2>1 DEF QualityInv, DoomedAreOld
    <2>3. Head(runner[p].done).id \in Ids /\ \A w \in runner[p].doomed : w.at \in Nat
      <3>1. runner[p].doomed \subseteq Result
        BY <1>2 DEF QualityTyped
      <3> QED
        BY <1>2, <2>2, <3>1, FirstDone DEF Result
    <2>4. ASSUME NEW w \in runner[p].doomed
          PROVE  \/ w.at < Head(runner[p].done).at
                 \/ w.at < newest'[Head(runner[p].done).id].at
      <3> DEFINE k == Head(runner[p].done).id
      <3>1. /\ k \in Ids /\ w.at \in Nat
            /\ w.at < Head(runner[p].done).at \/ w.at < newest[k].at
        BY <2>2, <2>3
      <3>2. newest[k].at \in Nat /\ newest'[k].at \in Nat /\ newest[k].at <= newest'[k].at
        BY <1>14, <3>1
      <3> HIDE DEF k
      <3>3. w.at < newest[k].at => w.at < newest'[k].at
        BY <3>1, <3>2
      <3> QED
        BY <3>1, <3>3 DEF k
    <2>5. ASSUME NEW w \in runner[p].doomed, NEW q \in Runners \ {p}, NEW j \in 1..Len(runner'[q].done)
          PROVE  runner'[q].done[j].at # w.at
      <3>1. \E m \in 1..Len(runner[q].done) : runner'[q].done[j] = runner[q].done[m]
        BY <1>9
      <3> QED
        BY <2>2, <3>1
    <2> QED
      BY <2>1, <2>2, <2>4, <2>5, SMTT(60)
  <1>16. HistoryIsBounded'
    <2> SUFFICES ASSUME NEW k \in Ids, NEW Q \in SUBSET Committing(k)'
                 PROVE  /\ IsFiniteSet(LeftBy(k, Q)')
                        /\ Cardinality(LeftBy(k, Q)') < Retained + Cardinality(Runners)
      BY DEF HistoryIsBounded
    <2>1. \A q \in Q : q \in Runners \ {r} /\ runner'[q] = runner[q]
      BY <1>5 DEF Committing
    <2>2. Q \in SUBSET Committing(k)
      BY <2>1 DEF Committing
    <2>3. CASE k # i
      <3>1. LeftBy(k, Q)' = LeftBy(k, Q)
        BY <1>6, <2>1, <2>3 DEF LeftBy
      <3> QED
        BY <2>2, <3>1 DEF QualityInv, HistoryIsBounded
    <2>4. CASE k = i
      <3> DEFINE all == Q \cup {r}
      <3>1. all \in SUBSET Committing(i)
        BY <1>1, <1>50, <2>2, <2>4 DEF Committing, d
      <3>2. IsFiniteSet(LeftBy(i, all)) /\ Cardinality(LeftBy(i, all)) < Retained + Cardinality(Runners)
        BY <1>3, <3>1 DEF QualityInv, HistoryIsBounded
      <3>3. LeftBy(i, Q)' \subseteq LeftBy(i, all)
        <4> SUFFICES ASSUME NEW w \in LeftBy(i, Q)' PROVE w \in LeftBy(i, all)
          OBVIOUS
        <4>1. LeftBy(i, Q)' = (left \cup {Verdict(Head(runner[q].done)) : q \in Q})
                                 \ UNION {runner[q].doomed : q \in Q}
          <5>1. /\ {Verdict(Head(runner'[q].done)) : q \in Q} = {Verdict(Head(runner[q].done)) : q \in Q}
                /\ {runner'[q].doomed : q \in Q} = {runner[q].doomed : q \in Q}
            BY <2>1
          <5>2. LeftBy(i, Q)' = (results'[i] \cup {Verdict(Head(runner'[q].done)) : q \in Q})
                                   \ UNION {runner'[q].doomed : q \in Q}
            BY DEF LeftBy, Verdict
          <5>3. results'[i] = left
            BY <1>6
          <5> HIDE DEF left
          <5> QED
            BY <5>1, <5>2, <5>3
        <4> HIDE DEF left
        <4>2. /\ w \in left \/ \E q \in Q : w = Verdict(Head(runner[q].done))
              /\ \A q \in Q : w \notin runner[q].doomed
          BY <4>1
        <4>3. w \notin doomed
          <5>1. CASE w \in left
            BY <5>1 DEF left
          <5>2. ASSUME NEW q \in Q, w = Verdict(Head(runner[q].done))
                PROVE  w \notin doomed
            <6>1. q \in Runners \ {r} /\ runner[q].pc = "committing" /\ runner[q].done # <<>>
              BY <2>1, <2>2 DEF Committing, QualityInv, DoomedAreOld
            <6>2. 1 \in 1..Len(runner[q].done) /\ w.at = runner[q].done[1].at
              BY <1>2, <5>2, <6>1, FirstDone
            <6>3. \A v \in doomed : runner[q].done[1].at # v.at
              BY <1>1, <6>1, <6>2 DEF QualityInv, DoomedAreOld
            <6> QED
              BY <6>2, <6>3
          <5> QED
            BY <4>2, <5>1, <5>2
        <4>4. w \in results[i] \cup {Verdict(Head(runner[q].done)) : q \in all}
          BY <1>6, <4>2 DEF d
        <4>5. \A q \in all : w \notin runner[q].doomed
          BY <4>2, <4>3
        <4> HIDE DEF all
        <4> QED
          BY <4>4, <4>5 DEF LeftBy
      <3> HIDE DEF all
      <3>4. /\ IsFiniteSet(LeftBy(i, Q)')
            /\ Cardinality(LeftBy(i, Q)') <= Cardinality(LeftBy(i, all))
        BY <3>2, <3>3, FS_Subset
      <3>5. Cardinality(LeftBy(i, Q)') \in Nat /\ Cardinality(LeftBy(i, all)) \in Nat
        BY <3>2, <3>4, FS_CardinalityType
      <3>6. Retained + Cardinality(Runners) \in Nat
        BY FS_CardinalityType DEF QualitySettings
      <3>7. LeftBy(k, Q)' = LeftBy(i, Q)'
        BY <2>4
      <3> QED
        BY <3>2, <3>4, <3>5, <3>6, <3>7, SMTT(60)
    <2> QED
      BY <2>3, <2>4
  <1> QED
    BY <1>8, <1>11, <1>13, <1>15, <1>16 DEF QualityInv

LEMMA QualityInvStep ==
    ASSUME QualitySettings, QualityInv, [QualityNext]_qualityVars
    PROVE  QualityInv'
  <1>1. CASE UNCHANGED <<results, clock, runner, newest>>
    <2>1. QualityTyped'
      BY <1>1 DEF QualityInv, QualityTyped
    <2> QED
      BY <1>1, <2>1, TimesStay, BoundStays DEF QualityInv
  <1>2. CASE \/ UNCHANGED qualityVars \/ Load \/ ToggleWrites
             \/ \E i \in Ids : ToggleReads(i)
    BY <1>1, <1>2 DEF qualityVars, Load, ToggleWrites, ToggleReads
  <1> QED
    BY <1>2, StartRunKeeps, CheckKeeps, RecordBeginsKeeps, RecordCommitsKeeps, EndRunKeeps
    DEF QualityNext

LEMMA QualitySound ==
    ASSUME QualityInv
    PROVE  NewestVerdictStands
  <1> SUFFICES ASSUME NEW i \in Ids
               PROVE  /\ newest[i] # NoResult => Latest(i) = {newest[i]}
                      /\ i \in Warned <=> /\ enabled[i]
                                          /\ newest[i] # NoResult
                                          /\ newest[i].status \in Concerning
                      /\ Cardinality(results[i]) < Retained + Cardinality(Runners)
    BY DEF NewestVerdictStands
  <1>1. /\ IsFiniteSet(results[i]) /\ ToldByTime(results[i])
        /\ newest[i] \in results[i] \/ (newest[i] = NoResult /\ results[i] = {})
        /\ \A w \in results[i] : w.at <= newest[i].at
        /\ \A w \in results[i] : w.at \in Nat /\ w # NoResult
    <2>1. \A w \in results[i] : w \in Result /\ 0 < w.at
      BY DEF QualityInv, QualityTyped, TimesApart
    <2>2. \A w \in results[i] : w.at \in Nat /\ w # NoResult
      BY <2>1 DEF Result, NoResult
    <2> QED
      BY <2>2 DEF QualityInv, NewestIsKept
  <1>2. newest[i] # NoResult => Latest(i) = {newest[i]}
    BY <1>1, NewestIsTheLast DEF Latest
  <1>3. newest[i] = NoResult => Latest(i) = {}
    BY <1>1 DEF Latest, Newest
  <1>4. i \in Warned <=> /\ enabled[i]
                         /\ newest[i] # NoResult
                         /\ newest[i].status \in Concerning
    BY <1>2, <1>3 DEF Warned
  <1>5. Cardinality(results[i]) < Retained + Cardinality(Runners)
    <2>1. LeftBy(i, {}) = results[i]
      BY DEF LeftBy
    <2>2. {} \in SUBSET Committing(i)
      OBVIOUS
    <2> QED
      BY <2>1, <2>2 DEF QualityInv, HistoryIsBounded
  <1> QED
    BY <1>2, <1>4, <1>5

(* The verdict an answer carries is the newest recorded, and the history stays within
   its limit, however runs overlap and trim it (record and latest in
   postgres_quality.py), for any assertions, tables, limit and number of runs. *)
THEOREM NewestVerdictAlwaysStands ==
    ASSUME QualitySettings
    PROVE  QualitySpec => []NewestVerdictStands
  <1>1. QualityInit => QualityInv
    BY QualityInitially
  <1>2. QualityInv /\ [QualityNext]_qualityVars => QualityInv'
    BY QualityInvStep
  <1>3. QualityInv => NewestVerdictStands
    BY QualitySound
  <1> QED
    BY <1>1, <1>2, <1>3, PTL DEF QualitySpec

-----------------------------------------------------------------------------
(* What a quality check concludes *)

(* What an assertion of each kind has, and a table is (validate_configuration). *)
AssertionSound(a) ==
    \/ a.type = "FRESHNESS" /\ a.config.max_age \in Nat
    \/ a.type = "NULL_RATE" /\ a.config.max_percent \in Nat
    \/ a.type \in {"ROW_COUNT", "UNIQUE", "ACCEPTED_VALUES", "CUSTOM_SAFE_SQL"}

IsTable(table) ==
    \E values : table \in Seq([age : Nat \cup {Null}, value : values])

LEMMA TableHasLength ==
    ASSUME NEW table, IsTable(table)
    PROVE  /\ Len(table) \in Nat /\ DOMAIN table = 1..Len(table)
           /\ IsFiniteSet(DOMAIN table) /\ Cardinality(DOMAIN table) = Len(table)
           /\ \A i \in DOMAIN table : table[i].age \in Nat \cup {Null}
  <1>1. PICK values : table \in Seq([age : Nat \cup {Null}, value : values])
    BY DEF IsTable
  <1>2. Len(table) \in Nat /\ DOMAIN table = 1..Len(table)
    BY <1>1
  <1>4. ASSUME NEW i \in DOMAIN table
        PROVE  table[i].age \in Nat \cup {Null}
    <2> DEFINE Row == [age : Nat \cup {Null}, value : values]
    <2>1. table \in Seq(Row) /\ i \in 1..Len(table)
      BY <1>1, <1>2
    <2> HIDE DEF Row
    <2>2. table[i] \in Row
      BY <2>1
    <2> QED
      BY <2>2 DEF Row
  <1>3. IsFiniteSet(1..Len(table)) /\ Cardinality(1..Len(table)) = Len(table)
    <2> DEFINE n == Len(table)
    <2>1. n \in Nat
      BY <1>2
    <2> HIDE DEF n
    <2>2. IsFiniteSet(1..n) /\ Cardinality(1..n) = n
      BY <2>1, FS_Interval
    <2> QED
      BY <2>2 DEF n
  <1> QED
    BY <1>2, <1>3, <1>4

LEMMA FreshnessIsTrue ==
    ASSUME NEW a, a.type = "FRESHNESS", a.config.max_age \in Nat, NEW table, IsTable(table)
    PROVE  VerdictIsTrue(a, table)
  <1> DEFINE ages == {table[i].age : i \in DOMAIN table} \ {Null}
             max == a.config.max_age
  <1>1. ages \subseteq Nat
    BY TableHasLength
  <1>2. Observed(a, table) = IF ages = {} THEN Null ELSE Whole(Min(ages))
    BY DEF Observed
  <1>3. Satisfies(a, table) <=> \E age \in ages : age <= max
    BY DEF Satisfies
  <1>4. CASE ages = {}
    <2>1. Interpret(a, Observed(a, table)) = "UNKNOWN"
      BY <1>2, <1>4 DEF Interpret
    <2> QED
      BY <2>1 DEF VerdictIsTrue
  <1>5. CASE ages # {}
    <2> HIDE DEF ages
    <2>1. Min(ages) \in ages /\ \A y \in ages : Min(ages) <= y
      BY <1>1, <1>5, LeastOfNumbers DEF Min
    <2>2. Whole(Min(ages)).n = Min(ages)
      BY DEF Whole
    <2>3. Interpret(a, Observed(a, table)) \in
             {"UNKNOWN"} \cup (IF Min(ages) <= max THEN {"HEALTHY"} ELSE {"WARNING", "STALE"})
      BY <1>2, <1>5, <2>2 DEF Interpret
    <2>4. Min(ages) <= max <=> \E age \in ages : age <= max
      <3> DEFINE least == Min(ages)
      <3>1. least \in ages /\ \A y \in ages : y \in Nat /\ least <= y
        BY <1>1, <2>1
      <3> HIDE DEF least
      <3>2. max \in Nat /\ least \in Nat
        BY <3>1
      <3> HIDE DEF max
      <3>3. least <= max <=> \E age \in ages : age <= max
        BY <3>1, <3>2
      <3> QED
        BY <3>3 DEF least
    <2> QED
      BY <1>3, <2>3, <2>4 DEF VerdictIsTrue
  <1> QED
    BY <1>4, <1>5

(* The values of a column are as many as its rows only if each row has one of its own. *)
LEMMA AllDistinct ==
    ASSUME NEW table, IsTable(table)
    PROVE  LET values == {table[i].value : i \in DOMAIN table} \ {Null}
           IN  /\ Len(table) - Cardinality(values) \in Nat
               /\ Len(table) - Cardinality(values) = 0 <=>
                    \A i, j \in DOMAIN table : /\ table[i].value # Null
                                               /\ table[i].value = table[j].value => i = j
  <1> DEFINE values == {table[i].value : i \in DOMAIN table} \ {Null}
             there == {i \in DOMAIN table : table[i].value # Null}
             f == [i \in there |-> table[i].value]
  <1>1. /\ Len(table) \in Nat /\ IsFiniteSet(DOMAIN table)
        /\ Cardinality(DOMAIN table) = Len(table)
    BY TableHasLength
  <1>2. there \subseteq DOMAIN table /\ IsFiniteSet(there)
    BY <1>1, FS_Subset
  <1>3. f \in Surjection(there, values)
    BY DEF Surjection
  <1>4. /\ IsFiniteSet(values) /\ Cardinality(values) <= Cardinality(there)
        /\ Cardinality(values) = Cardinality(there) <=> f \in Injection(there, values)
    <2> HIDE DEF f, there, values
    <2> QED
      BY <1>2, <1>3, FS_Surjection
  <1>5. /\ Cardinality(there) <= Cardinality(DOMAIN table)
        /\ Cardinality(DOMAIN table) = Cardinality(there) => DOMAIN table = there
    <2> HIDE DEF there
    <2> QED
      BY <1>1, <1>2, FS_Subset
  <1>6. Cardinality(values) \in Nat /\ Cardinality(there) \in Nat
    <2> HIDE DEF there, values
    <2> QED
      BY <1>2, <1>4, FS_CardinalityType
  <1>7. f \in Injection(there, values) <=>
           \A i, j \in there : table[i].value = table[j].value => i = j
    BY <1>3 DEF Injection, Surjection, IsInjective
  <1>8. (\A i, j \in DOMAIN table : /\ table[i].value # Null
                                    /\ table[i].value = table[j].value => i = j)
           <=> DOMAIN table = there /\ \A i, j \in there : table[i].value = table[j].value => i = j
    OBVIOUS
  <1> HIDE DEF f, there, values
  <1>9. Len(table) - Cardinality(values) = 0 <=>
           /\ Cardinality(DOMAIN table) = Cardinality(there)
           /\ Cardinality(values) = Cardinality(there)
    BY <1>1, <1>4, <1>5, <1>6
  <1>10. Len(table) - Cardinality(values) \in Nat
    BY <1>1, <1>4, <1>5, <1>6
  <1> QED
    BY <1>4, <1>5, <1>7, <1>8, <1>9, <1>10 DEF values

LEMMA UniqueIsTrue ==
    ASSUME NEW a, a.type = "UNIQUE", NEW table, IsTable(table)
    PROVE  VerdictIsTrue(a, table)
  <1> DEFINE values == {table[i].value : i \in DOMAIN table} \ {Null}
             n == Len(table) - Cardinality(values)
  <1>1. Observed(a, table) = Whole(n)
    BY DEF Observed
  <1>2. Satisfies(a, table) <=> n = 0
    BY AllDistinct DEF Satisfies
  <1> HIDE DEF n
  <1>3. Whole(n).n = n
    BY DEF Whole
  <1>4. Interpret(a, Observed(a, table)) \in
           {"UNKNOWN"} \cup (IF n = 0 THEN {"HEALTHY"} ELSE {"FAILING"})
    BY <1>1, <1>3 DEF Interpret
  <1> QED
    BY <1>2, <1>4 DEF VerdictIsTrue

LEMMA AcceptedIsTrue ==
    ASSUME NEW a, a.type = "ACCEPTED_VALUES", NEW table, IsTable(table)
    PROVE  VerdictIsTrue(a, table)
  <1> DEFINE outside == {i \in DOMAIN table : table[i].value \notin a.config.values \cup {Null}}
             n == NotAccepted(table, a.config.values)
  <1>1. Observed(a, table) = Whole(n)
    BY DEF Observed
  <1>2. IsFiniteSet(outside)
    BY TableHasLength, FS_Subset
  <1>3. n = 0 <=> outside = {}
    <2>1. n = Cardinality(outside)
      BY DEF NotAccepted
    <2> HIDE DEF outside, n
    <2> QED
      BY <1>2, <2>1, FS_EmptySet
  <1>4. Satisfies(a, table) <=> n = 0
    BY <1>3 DEF Satisfies
  <1> HIDE DEF n
  <1>5. Whole(n).n = n
    BY DEF Whole
  <1>6. Interpret(a, Observed(a, table)) \in
           {"UNKNOWN"} \cup (IF n = 0 THEN {"HEALTHY"} ELSE {"FAILING"})
    BY <1>1, <1>5 DEF Interpret
  <1> QED
    BY <1>4, <1>6 DEF VerdictIsTrue

LEMMA NullRateIsTrue ==
    ASSUME NEW a, a.type = "NULL_RATE", a.config.max_percent \in Nat, NEW table, IsTable(table)
    PROVE  VerdictIsTrue(a, table)
  <1> DEFINE max == a.config.max_percent
  <1>1. Observed(a, table) = IF table = <<>> THEN Whole(0) ELSE [n |-> Nulls(table), d |-> Len(table)]
    BY DEF Observed
  <1>2. Satisfies(a, table) <=> 100 * Nulls(table) <= max * Len(table)
    BY DEF Satisfies
  <1>3. CASE table = <<>>
    <2>1. Nulls(table) = 0 /\ Len(table) = 0
      <3>1. {i \in DOMAIN table : table[i].value = Null} = {}
        BY <1>3
      <3> QED
        BY <1>3, <3>1, FS_EmptySet DEF Nulls
    <2>2. max * 0 = 0 /\ max * 1 = max /\ 100 * 0 <= max * 1
      OBVIOUS
    <2>3. Satisfies(a, table)
      BY <1>2, <2>1, <2>2
    <2>4. Whole(0).n = 0 /\ Whole(0).d = 1
      BY DEF Whole
    <2>5. Interpret(a, Observed(a, table)) \in {"UNKNOWN", "HEALTHY"}
      BY <1>1, <1>3, <2>2, <2>4 DEF Interpret
    <2> QED
      BY <2>3, <2>5 DEF VerdictIsTrue
  <1>4. CASE table # <<>>
    <2> DEFINE m == [n |-> Nulls(table), d |-> Len(table)]
    <2>1. m.n = Nulls(table) /\ m.d = Len(table)
      OBVIOUS
    <2> HIDE DEF m
    <2>2. Observed(a, table) = m
      BY <1>1, <1>4 DEF m
    <2>3. Interpret(a, m) \in
             {"UNKNOWN"} \cup (IF 100 * m.n <= max * m.d THEN {"HEALTHY"} ELSE {"FAILING"})
      BY Zenon DEF Interpret
    <2> QED
      BY <1>2, <2>1, <2>2, <2>3 DEF VerdictIsTrue
  <1> QED
    BY <1>3, <1>4

LEMMA SizeIsTrue ==
    ASSUME NEW a, a.type \in {"ROW_COUNT", "CUSTOM_SAFE_SQL"}, NEW table
    PROVE  VerdictIsTrue(a, table)
  <1> DEFINE n == Len(table)
  <1>1. Observed(a, table) = Whole(n)
    BY DEF Observed
  <1> HIDE DEF n
  <1>2. Whole(n).n = n
    BY DEF Whole
  <1>3. Interpret(a, Whole(n)) \in
           {"UNKNOWN"} \cup (IF Satisfies(a, table) THEN {"HEALTHY"} ELSE {"FAILING"})
    <2>1. CASE a.type = "ROW_COUNT"
      BY <1>2, <2>1 DEF Interpret, Satisfies, n
    <2>2. CASE a.type = "CUSTOM_SAFE_SQL"
      BY <1>2, <2>2 DEF Interpret, Satisfies, n
    <2> QED
      BY <2>1, <2>2
  <1> QED
    BY <1>1, <1>3 DEF VerdictIsTrue

(* What the API stores is sound: other settings are refused (validate_configuration). *)
LEMMA StoredIsSound ==
    ASSUME NEW type, NEW column, NEW setting, setting.max_age \in Nat, setting.max_percent \in Nat,
           Configured(type, column, setting) # Null
    PROVE  AssertionSound([type |-> type, config |-> Configured(type, column, setting)])
  <1>1. type \in {"FRESHNESS", "ROW_COUNT", "NULL_RATE", "UNIQUE", "ACCEPTED_VALUES",
                  "CUSTOM_SAFE_SQL"}
    BY DEF Configured
  <1>2. CASE type = "FRESHNESS"
    BY <1>2 DEF Configured, AssertionSound
  <1>3. CASE type = "NULL_RATE"
    BY <1>3 DEF Configured, AssertionSound
  <1> QED
    BY <1>1, <1>2, <1>3 DEF AssertionSound

(* A verdict is true of the table it was measured on: HEALTHY only if the table has
   what the assertion asks, STALE or FAILING only if it has not (build_check_sql and
   interpret in quality.py), for an assertion of any kind and any table. *)
THEOREM VerdictsAlwaysTrue ==
    ASSUME NEW a, AssertionSound(a), NEW table, IsTable(table)
    PROVE  VerdictIsTrue(a, table)
  BY FreshnessIsTrue, UniqueIsTrue, AcceptedIsTrue, NullRateIsTrue, SizeIsTrue
  DEF AssertionSound

-----------------------------------------------------------------------------
(* The metrics of a question *)

(* The metrics are finitely many, and retrieval is limited (candidate_limit). *)
SelectionSettings == IsFiniteSet(Metrics) /\ Limit \in Nat

GovernedIsOffered(r) ==
    r.plan.intent = "governed" =>
        /\ r.plan.metrics # {} /\ r.plan.metrics \subseteq r.offered
        /\ r.offered \subseteq r.allowed \cap r.documents /\ Cardinality(r.offered) <= Limit
        /\ \A m \in r.plan.metrics : r.plan.dims \subseteq r.defs[m]

(* A request has a plan only at its end; what it is offered it was allowed, and indexed
   when it read the registry. *)
SelectionInv ==
    /\ DOMAIN question = Questions
    /\ \A q \in Questions :
          LET r == question[q]
          IN  /\ DOMAIN r = DOMAIN IdleRequest /\ DOMAIN r.plan = DOMAIN NoPlan
              /\ r.allowed \subseteq Metrics
              /\ r.pc # "planned" => r.plan.intent # "governed"
              /\ r.pc = "selecting" =>
                    /\ r.offered \subseteq r.allowed \cap r.documents
                    /\ IsFiniteSet(r.offered) /\ Cardinality(r.offered) <= Limit
              /\ GovernedIsOffered(r)

LEMMA PlanIsPlan ==
    /\ DOMAIN IdleRequest = {"pc", "allowed", "defs", "documents", "offered", "plan"}
    /\ DOMAIN NoPlan = {"intent", "metrics", "dims"}
    /\ IdleRequest.pc = "idle" /\ IdleRequest.allowed = {} /\ IdleRequest.plan = NoPlan
    /\ NoPlan.intent = "none"
  BY DEF IdleRequest, NoPlan

LEMMA SelectionInitially ==
    ASSUME SelectionInit
    PROVE  SelectionInv
  BY PlanIsPlan DEF SelectionInit, SelectionInv, GovernedIsOffered

(* A step of one request leaves the others. *)
LEMMA OneRequest ==
    ASSUME SelectionInv, NEW q \in Questions, NEW new, question' = [question EXCEPT ![q] = new],
           DOMAIN new = DOMAIN IdleRequest, DOMAIN new.plan = DOMAIN NoPlan,
           new.allowed \subseteq Metrics,
           new.pc # "planned" => new.plan.intent # "governed",
           new.pc = "selecting" =>
              /\ new.offered \subseteq new.allowed \cap new.documents
              /\ IsFiniteSet(new.offered) /\ Cardinality(new.offered) <= Limit,
           GovernedIsOffered(new)
    PROVE  SelectionInv'
  <1>1. /\ DOMAIN question' = Questions /\ question'[q] = new
        /\ \A p \in Questions \ {q} : question'[p] = question[p]
    BY DEF SelectionInv
  <1> SUFFICES ASSUME NEW p \in Questions
               PROVE  LET r == question'[p]
                      IN  /\ DOMAIN r = DOMAIN IdleRequest /\ DOMAIN r.plan = DOMAIN NoPlan
                          /\ r.allowed \subseteq Metrics
                          /\ r.pc # "planned" => r.plan.intent # "governed"
                          /\ r.pc = "selecting" =>
                                /\ r.offered \subseteq r.allowed \cap r.documents
                                /\ IsFiniteSet(r.offered) /\ Cardinality(r.offered) <= Limit
                          /\ GovernedIsOffered(r)
    BY <1>1, Zenon DEF SelectionInv, GovernedIsOffered
  <1>2. CASE p = q
    BY <1>1, <1>2
  <1>3. CASE p # q
    BY <1>1, <1>3 DEF SelectionInv
  <1> QED
    BY <1>2, <1>3

LEMMA RequestReadsStep ==
    ASSUME SelectionInv, NEW q \in Questions, NEW authorized, RequestReads(q, authorized)
    PROVE  SelectionInv'
  <1> DEFINE read == Certified \cap authorized
             end == read = {} \/ index = {}
             plan == IF end THEN [NoPlan EXCEPT !.intent = "adhoc"] ELSE NoPlan
             new == [pc |-> IF end THEN "planned" ELSE "embedding",
                     allowed |-> read, defs |-> [m \in Metrics |-> registry[m].dims],
                     documents |-> index, offered |-> {}, plan |-> plan]
  <1>1. question' = [question EXCEPT ![q] = new]
    BY DEF RequestReads
  <1>2. DOMAIN plan = DOMAIN NoPlan /\ plan.intent # "governed"
    BY PlanIsPlan
  <1>3. read \subseteq Metrics
    BY DEF Certified
  <1> HIDE DEF plan, read
  <1>4. /\ DOMAIN new = DOMAIN IdleRequest /\ new.plan = plan /\ new.allowed = read
        /\ new.pc # "selecting"
    BY PlanIsPlan
  <1> HIDE DEF new
  <1> QED
    BY <1>1, <1>2, <1>3, <1>4, OneRequest DEF GovernedIsOffered

LEMMA RetrievesStep ==
    ASSUME SelectionSettings, SelectionInv, NEW q \in Questions, NEW offered, Retrieves(q, offered)
    PROVE  SelectionInv'
  <1> DEFINE r == question[q]
             ranked == r.documents \cap r.allowed
             new == [r EXCEPT !.pc = IF offered = {} THEN "planned" ELSE "selecting",
                              !.offered = offered,
                              !.plan.intent = IF offered = {} THEN "adhoc" ELSE "none"]
  <1>1. /\ question' = [question EXCEPT ![q] = new]
        /\ offered \subseteq ranked
        /\ Cardinality(offered) = IF Cardinality(ranked) < Limit THEN Cardinality(ranked) ELSE Limit
    BY ZenonT(60) DEF Retrieves
  <1>2. /\ DOMAIN r = {"pc", "allowed", "defs", "documents", "offered", "plan"}
        /\ DOMAIN r.plan = {"intent", "metrics", "dims"} /\ r.allowed \subseteq Metrics
    BY PlanIsPlan DEF SelectionInv
  <1>3. IsFiniteSet(offered) /\ Cardinality(offered) <= Limit
    <2>1. ranked \subseteq Metrics /\ offered \subseteq Metrics
      BY <1>1, <1>2
    <2> HIDE DEF ranked
    <2>2. IsFiniteSet(offered) /\ IsFiniteSet(ranked)
      BY <2>1, FS_Subset DEF SelectionSettings
    <2>3. Cardinality(ranked) \in Nat
      BY <2>2, FS_CardinalityType
    <2> QED
      BY <1>1, <2>2, <2>3 DEF SelectionSettings
  <1> HIDE DEF r
  <1>4. /\ DOMAIN new = DOMAIN IdleRequest /\ DOMAIN new.plan = DOMAIN NoPlan
        /\ new.allowed = r.allowed /\ new.documents = r.documents /\ new.offered = offered
        /\ new.plan.intent # "governed"
    BY <1>2, PlanIsPlan
  <1>5. question' = [question EXCEPT ![q] = new] /\ new.offered \subseteq new.allowed \cap new.documents
    BY <1>1, <1>4 DEF r
  <1> HIDE DEF new, ranked
  <1> QED
    BY <1>2, <1>3, <1>4, <1>5, OneRequest DEF GovernedIsOffered

LEMMA SelectsStep ==
    ASSUME SelectionSettings, SelectionInv, NEW q \in Questions,
           NEW selection, DOMAIN selection = DOMAIN NoPlan, Selects(q, selection)
    PROVE  SelectionInv'
  <1> DEFINE r == question[q]
             plan == PlanOf(r, selection)
             new == [r EXCEPT !.pc = "planned", !.plan = plan]
  <1>1. r.pc = "selecting" /\ question' = [question EXCEPT ![q] = new]
    BY DEF Selects
  <1>2. /\ DOMAIN r = {"pc", "allowed", "defs", "documents", "offered", "plan"}
        /\ r.allowed \subseteq Metrics /\ r.offered \subseteq r.allowed \cap r.documents
        /\ IsFiniteSet(r.offered) /\ Cardinality(r.offered) <= Limit
    BY <1>1, PlanIsPlan DEF SelectionInv
  <1> HIDE DEF r
  <1>3. DOMAIN plan = DOMAIN NoPlan
    BY PlanIsPlan DEF PlanOf
  <1>4. plan.intent = "governed" => plan = selection /\ Valid(selection, r.offered, r.defs)
    BY PlanIsPlan DEF PlanOf
  <1>5. ASSUME Valid(selection, r.offered, r.defs)
        PROVE  /\ selection.metrics # {} /\ selection.metrics \subseteq r.offered
               /\ \A m \in selection.metrics : selection.dims \subseteq r.defs[m]
    BY <1>5 DEF Valid, SharedDimensions
  <1> HIDE DEF plan
  <1>6. /\ DOMAIN new = DOMAIN IdleRequest /\ new.plan = plan /\ new.pc = "planned"
        /\ new.allowed = r.allowed /\ new.documents = r.documents /\ new.defs = r.defs
        /\ new.offered = r.offered
    BY <1>2, PlanIsPlan
  <1>7. question' = [question EXCEPT ![q] = new]
    BY <1>1 DEF r
  <1> HIDE DEF new
  <1>8. GovernedIsOffered(new)
    BY <1>2, <1>4, <1>5, <1>6 DEF GovernedIsOffered
  <1> QED
    BY <1>2, <1>3, <1>6, <1>7, <1>8, OneRequest

LEMMA SelectionInvStep ==
    ASSUME SelectionSettings, SelectionInv, [SelectionNext]_svars
    PROVE  SelectionInv'
  <1>1. CASE UNCHANGED question
    BY <1>1, Zenon DEF SelectionInv, GovernedIsOffered
  <1>2. ASSUME NEW q \in Questions, NEW i, NEW ms, NEW ds,
               Selects(q, [intent |-> i, metrics |-> ms, dims |-> ds])
        PROVE  SelectionInv'
    <2> DEFINE selection == [intent |-> i, metrics |-> ms, dims |-> ds]
    <2>1. DOMAIN selection = DOMAIN NoPlan
      BY PlanIsPlan
    <2> HIDE DEF selection
    <2>2. Selects(q, selection)
      BY <1>2 DEF selection
    <2> QED
      BY <2>1, <2>2, SelectsStep
  <1>3. SelectionNext \/ UNCHANGED svars
    OBVIOUS
  <1>4. \/ UNCHANGED question
        \/ \E q \in Questions :
             \/ \E a \in SUBSET Metrics : RequestReads(q, a)
             \/ \E offered \in SUBSET Metrics : Retrieves(q, offered)
             \/ \E i \in {"governed", "adhoc", "clarify"}, ms \in SUBSET Metrics, ds \in SUBSET Dims :
                   Selects(q, [intent |-> i, metrics |-> ms, dims |-> ds])
    BY <1>3, Zenon DEF SelectionNext, svars, Upsert, SetStatus, ReindexReads, ReindexWrites,
           ReindexFails, Restart
  <1> QED
    BY <1>1, <1>2, <1>4, RequestReadsStep, RetrievesStep

LEMMA SelectionSound ==
    ASSUME SelectionInv
    PROVE  PlannedIsOffered
  BY DEF SelectionInv, PlannedIsOffered, GovernedIsOffered

(* A governed plan has only metrics that its request was offered, and dimensions each of
   them had; what was offered is no more than the limit, certified and authorized when the
   request read the registry, and indexed then (MetricIntentPlanner.plan,
   MetricIntentValidator.validate, MetricRetriever.retrieve), for any metrics, limit and
   number of requests, however the registry and the index change. *)
THEOREM PlannedAlwaysOffered ==
    ASSUME SelectionSettings
    PROVE  SelectionSpec => []PlannedIsOffered
  <1>1. SelectionInit => SelectionInv
    BY SelectionInitially
  <1>2. SelectionInv /\ [SelectionNext]_svars => SelectionInv'
    BY SelectionInvStep
  <1>3. SelectionInv => PlannedIsOffered
    BY SelectionSound
  <1> QED
    BY <1>1, <1>2, <1>3, PTL DEF SelectionSpec

(* What the providers returned: each slice a sequence of rows of a group and a value,
   which may be null. *)
IsSlices(slices) ==
    \E keys, values : slices \in Seq(Seq([group : keys, value : values]))

LEMMA SliceHasRows ==
    ASSUME NEW slices, IsSlices(slices)
    PROVE  /\ Len(slices) \in Nat
           /\ \A i \in 1..Len(slices) :
                 /\ Len(slices[i]) \in Nat
                 /\ \A k \in 1..Len(slices[i]) :
                       slices[i][k] = [group |-> slices[i][k].group, value |-> slices[i][k].value]
  <1>1. PICK keys, values : slices \in Seq(Seq([group : keys, value : values]))
    BY DEF IsSlices
  <1> DEFINE Row == [group : keys, value : values]
  <1>2. \A r \in Row : r = [group |-> r.group, value |-> r.value]
    BY <1>1
  <1> HIDE DEF Row
  <1>3. Len(slices) \in Nat /\ \A i \in 1..Len(slices) : slices[i] \in Seq(Row)
    BY <1>1 DEF Row
  <1>4. ASSUME NEW i \in 1..Len(slices)
        PROVE  Len(slices[i]) \in Nat /\ \A k \in 1..Len(slices[i]) : slices[i][k] \in Row
    BY <1>3
  <1> QED
    BY <1>2, <1>3, <1>4

(* The places are finitely many, and pairs of numbers. *)
LEMMA PlacesAreFew ==
    ASSUME NEW slices, IsSlices(slices)
    PROVE  /\ IsFiniteSet(Places(slices))
           /\ Places(slices) \subseteq Nat \X Nat
           /\ \A i \in 1..Len(slices) : \A k \in 1..Len(slices[i]) : <<i, k>> \in Places(slices)
           /\ \A p \in Places(slices) : /\ p = <<p[1], p[2]>> /\ p[1] \in 1..Len(slices)
                                        /\ p[2] \in 1..Len(slices[p[1]])
  <1> DEFINE Of(i) == {<<i, k>> : k \in 1..Len(slices[i])}
             all == {Of(i) : i \in 1..Len(slices)}
             f == [i \in 1..Len(slices) |-> Of(i)]
  <1>1. Len(slices) \in Nat /\ \A i \in 1..Len(slices) : Len(slices[i]) \in Nat
    BY SliceHasRows
  <1>2. Places(slices) = UNION all
    BY DEF Places
  <1>3. ASSUME NEW i \in 1..Len(slices)
        PROVE  IsFiniteSet(Of(i))
    <2> DEFINE n == Len(slices[i])
               g == [k \in 1..n |-> <<i, k>>]
               T == {<<i, k>> : k \in 1..n}
    <2>1. g \in Surjection(1..n, T)
      BY DEF Surjection
    <2>2. n \in Nat
      BY <1>1
    <2> HIDE DEF g, T, n
    <2>3. IsFiniteSet(1..n)
      BY <2>2, FS_Interval
    <2>4. IsFiniteSet(T)
      BY <2>1, <2>3, FS_Surjection
    <2> QED
      BY <2>4 DEF T, n
  <1>4. IsFiniteSet(all)
    <2>1. f \in Surjection(1..Len(slices), all)
      BY DEF Surjection
    <2> HIDE DEF f, all
    <2>2. IsFiniteSet(1..Len(slices))
      BY <1>1, FS_Interval
    <2> QED
      BY <2>1, <2>2, FS_Surjection
  <1>5. IsFiniteSet(UNION all)
    <2>1. \A T \in all : IsFiniteSet(T)
      BY <1>3
    <2> HIDE DEF all
    <2> QED
      BY <1>4, <2>1, FS_UNION
  <1>6. ASSUME NEW p \in UNION all
        PROVE  p = <<p[1], p[2]>> /\ p[1] \in 1..Len(slices) /\ p[2] \in 1..Len(slices[p[1]])
    OBVIOUS
  <1>7. ASSUME NEW p \in UNION all
        PROVE  p \in Nat \X Nat
    BY <1>1, <1>6
  <1>8. ASSUME NEW i \in 1..Len(slices), NEW k \in 1..Len(slices[i])
        PROVE  <<i, k>> \in UNION all
    OBVIOUS
  <1> HIDE DEF all
  <1> QED
    BY <1>2, <1>5, <1>6, <1>7, <1>8

(* How many of F come before p. *)
Rank(F, p) == Cardinality({q \in F : Before(q, p)})

(* Of two places one comes before the other, and a place before has a lower rank. *)
LEMMA LowerRank ==
    ASSUME NEW F, IsFiniteSet(F), F \subseteq Nat \X Nat, NEW p \in F, NEW q \in F, Before(p, q)
    PROVE  /\ Rank(F, p) \in Nat /\ Rank(F, q) \in Nat
           /\ Rank(F, p) < Rank(F, q)
  <1> DEFINE P == {r \in F : Before(r, p)}
             Q == {r \in F : Before(r, q)}
  <1>1. \A r \in F : r[1] \in Nat /\ r[2] \in Nat
    OBVIOUS
  <1>2. P \subseteq Q
    BY <1>1 DEF Before
  <1>3. p \in Q /\ p \notin P
    BY <1>1 DEF Before
  <1>4. Q \subseteq F
    OBVIOUS
  <1>5. Rank(F, p) = Cardinality(P) /\ Rank(F, q) = Cardinality(Q)
    BY DEF Rank
  <1> HIDE DEF P, Q
  <1>6. IsFiniteSet(Q)
    BY <1>4, FS_Subset
  <1>7. /\ IsFiniteSet(P) /\ Cardinality(P) <= Cardinality(Q)
        /\ Cardinality(Q) = Cardinality(P) => Q = P
    BY <1>2, <1>6, FS_Subset
  <1>8. Cardinality(P) \in Nat /\ Cardinality(Q) \in Nat
    BY <1>6, <1>7, FS_CardinalityType
  <1> QED
    BY <1>3, <1>5, <1>7, <1>8

(* Every rank below the number of places is that of exactly one of them. *)
LEMMA RankIsPlace ==
    ASSUME NEW F, IsFiniteSet(F), F \subseteq Nat \X Nat
    PROVE  /\ Cardinality(F) \in Nat
           /\ \A p \in F : Rank(F, p) \in 0..(Cardinality(F) - 1)
           /\ \A p, q \in F : Rank(F, p) = Rank(F, q) => p = q
           /\ \A j \in 1..Cardinality(F) : \E p \in F : Rank(F, p) = j - 1
  <1> DEFINE n == Cardinality(F)
             f == [p \in F |-> Rank(F, p)]
  <1>1. n \in Nat
    BY FS_CardinalityType
  <1>2. ASSUME NEW p \in F
        PROVE  Rank(F, p) \in 0..(n - 1)
    <2> DEFINE P == {r \in F : Before(r, p)}
    <2>1. p[1] \in Nat /\ p[2] \in Nat
      OBVIOUS
    <2>2. P \subseteq F \ {p}
      BY <2>1 DEF Before
    <2>3. Rank(F, p) = Cardinality(P)
      BY DEF Rank
    <2> HIDE DEF P
    <2>4. IsFiniteSet(F \ {p}) /\ Cardinality(F \ {p}) = n - 1
      BY FS_RemoveElement
    <2>5. IsFiniteSet(P) /\ Cardinality(P) <= n - 1
      BY <2>2, <2>4, FS_Subset
    <2>6. Cardinality(P) \in Nat
      BY <2>5, FS_CardinalityType
    <2> HIDE DEF n
    <2> QED
      BY <1>1, <2>3, <2>5, <2>6
  <1>3. ASSUME NEW p \in F, NEW q \in F, Rank(F, p) = Rank(F, q)
        PROVE  p = q
    <2>1. Before(p, q) \/ Before(q, p) \/ p = q
      <3>1. /\ p[1] \in Nat /\ p[2] \in Nat /\ q[1] \in Nat /\ q[2] \in Nat
            /\ p = <<p[1], p[2]>> /\ q = <<q[1], q[2]>>
        OBVIOUS
      <3> QED
        BY <3>1 DEF Before
    <2>2. CASE Before(p, q)
      BY <1>3, <2>2, LowerRank
    <2>3. CASE Before(q, p)
      BY <1>3, <2>3, LowerRank
    <2> QED
      BY <2>1, <2>2, <2>3
  <1>4. f \in Injection(F, 0..(n - 1))
    BY <1>2, <1>3 DEF Injection, IsInjective
  <1>5. f \in Surjection(F, 0..(n - 1))
    <2> HIDE DEF f
    <2>1. IsFiniteSet(0..(n - 1)) /\ Cardinality(0..(n - 1)) = n
      <3> HIDE DEF n
      <3> QED
        BY <1>1, FS_Interval
    <2> QED
      BY <1>4, <2>1, FS_Injection
  <1>6. ASSUME NEW j \in 1..n
        PROVE  \E p \in F : Rank(F, p) = j - 1
    <2>1. j - 1 \in 0..(n - 1)
      BY <1>1
    <2>2. \E p \in F : f[p] = j - 1
      BY <1>5, <2>1 DEF Surjection
    <2> QED
      BY <2>2
  <1> QED
    BY <1>1, <1>2, <1>3, <1>6

(* Every key has a first place. *)
LEMMA KeyHasFirst ==
    ASSUME NEW slices, IsSlices(slices), NEW p \in Places(slices)
    PROVE  \E q \in FirstPlaces(slices) : KeyAt(slices, q) = KeyAt(slices, p)
  <1> DEFINE same == {q \in Places(slices) : KeyAt(slices, q) = KeyAt(slices, p)}
             I == {q[1] : q \in same}
  <1>1. \A q \in same : q = <<q[1], q[2]>> /\ q[1] \in Nat /\ q[2] \in Nat
    BY PlacesAreFew
  <1>2. I \subseteq Nat /\ I # {}
    BY <1>1
  <1>3. PICK i \in I : \A x \in I : i <= x
    <2> HIDE DEF I
    <2> QED
      BY <1>2, LeastOfNumbers
  <1> DEFINE K == {q[2] : q \in {r \in same : r[1] = i}}
  <1>4. K \subseteq Nat /\ K # {}
    BY <1>1, <1>3
  <1>5. PICK k \in K : \A x \in K : k <= x
    <2> HIDE DEF K
    <2> QED
      BY <1>4, LeastOfNumbers
  <1>6. PICK q \in same : q[1] = i /\ q[2] = k
    BY <1>5
  <1>7. ASSUME NEW r \in same, Before(r, q)
        PROVE  FALSE
    <2>1. /\ r[1] \in Nat /\ r[2] \in Nat /\ i \in Nat /\ k \in Nat
          /\ i <= r[1] /\ (r[1] = i => k <= r[2])
      BY <1>1, <1>2, <1>3, <1>4, <1>5
    <2> QED
      BY <1>6, <1>7, <2>1 DEF Before
  <1>8. q \in FirstPlaces(slices)
    BY <1>6, <1>7 DEF FirstPlaces
  <1> QED
    BY <1>6, <1>8

(* OrderedKeys lists every key once (the dict that keeps insertion order). *)
LEMMA KeysOnce ==
    ASSUME NEW slices, IsSlices(slices)
    PROVE  LET keys == OrderedKeys(slices)
           IN  /\ Len(keys) \in Nat /\ DOMAIN keys = 1..Len(keys)
               /\ \A j, k \in 1..Len(keys) : keys[j] = keys[k] => j = k
               /\ \A i \in 1..Len(slices) : \A k \in 1..Len(slices[i]) :
                     \E j \in 1..Len(keys) : keys[j] = slices[i][k].group
               /\ \A j \in 1..Len(keys) :
                     \E i \in 1..Len(slices) : \E k \in 1..Len(slices[i]) : keys[j] = slices[i][k].group
  <1> DEFINE F == FirstPlaces(slices)
             n == Cardinality(F)
             At(j) == CHOOSE p \in F : Rank(F, p) = j - 1
             keys == OrderedKeys(slices)
  <1>1. F \subseteq Places(slices)
    BY DEF FirstPlaces
  <1>2. IsFiniteSet(F) /\ F \subseteq Nat \X Nat
    <2> HIDE DEF F
    <2> QED
      BY <1>1, PlacesAreFew, FS_Subset
  <1>3. keys = [j \in 1..n |-> KeyAt(slices, At(j))]
    BY DEF OrderedKeys, Rank
  <1>4. /\ n \in Nat
        /\ \A p \in F : Rank(F, p) \in 0..(n - 1)
        /\ \A p, q \in F : Rank(F, p) = Rank(F, q) => p = q
        /\ \A j \in 1..n : \E p \in F : Rank(F, p) = j - 1
    <2> HIDE DEF F
    <2> QED
      BY <1>2, RankIsPlace
  <1>5. \A j \in 1..n : At(j) \in F /\ Rank(F, At(j)) = j - 1
    <2> HIDE DEF F, n
    <2> QED
      BY <1>4
  <1>6. \A p, q \in F : KeyAt(slices, p) = KeyAt(slices, q) => p = q
    <2> SUFFICES ASSUME NEW p \in F, NEW q \in F, KeyAt(slices, p) = KeyAt(slices, q)
                 PROVE  p = q
      OBVIOUS
    <2>1. /\ p[1] \in Nat /\ p[2] \in Nat /\ q[1] \in Nat /\ q[2] \in Nat
          /\ p = <<p[1], p[2]>> /\ q = <<q[1], q[2]>>
      BY <1>1, PlacesAreFew
    <2>2. ~Before(p, q) /\ ~Before(q, p)
      BY DEF FirstPlaces
    <2> QED
      BY <2>1, <2>2 DEF Before
  <1> HIDE DEF keys, n, F, At
  <1>7. Len(keys) = n /\ DOMAIN keys = 1..n
    BY <1>3, <1>4
  <1>8. ASSUME NEW j \in 1..n, NEW k \in 1..n, keys[j] = keys[k]
        PROVE  j = k
    <2>1. At(j) = At(k)
      BY <1>3, <1>5, <1>6, <1>8
    <2>2. j - 1 = k - 1
      BY <1>5, <2>1
    <2> QED
      BY <1>4, <2>2
  <1>9. ASSUME NEW i \in 1..Len(slices), NEW k \in 1..Len(slices[i])
        PROVE  \E j \in 1..n : keys[j] = slices[i][k].group
    <2>1. <<i, k>> \in Places(slices)
      BY PlacesAreFew
    <2>2. KeyAt(slices, <<i, k>>) = slices[i][k].group
      BY DEF KeyAt
    <2>3. PICK q \in F : KeyAt(slices, q) = slices[i][k].group
      BY <2>1, <2>2, KeyHasFirst DEF F
    <2>4. Rank(F, q) + 1 \in 1..n
      BY <1>4
    <2>5. At(Rank(F, q) + 1) = q
      <3>1. Rank(F, At(Rank(F, q) + 1)) = (Rank(F, q) + 1) - 1 /\ At(Rank(F, q) + 1) \in F
        BY <1>5, <2>4
      <3>2. Rank(F, q) \in Nat
        BY <1>4
      <3> QED
        BY <1>4, <3>1, <3>2
    <2> QED
      BY <1>3, <2>3, <2>4, <2>5
  <1>10. ASSUME NEW j \in 1..n
         PROVE  \E i \in 1..Len(slices) : \E k \in 1..Len(slices[i]) : keys[j] = slices[i][k].group
    <2> DEFINE p == At(j)
    <2>1. p \in Places(slices) /\ keys[j] = KeyAt(slices, p)
      BY <1>1, <1>3, <1>5 DEF F
    <2> HIDE DEF p
    <2>2. p[1] \in 1..Len(slices) /\ p[2] \in 1..Len(slices[p[1]])
      BY <2>1, PlacesAreFew
    <2> QED
      BY <2>1, <2>2 DEF KeyAt
  <1> QED
    BY <1>4, <1>7, <1>8, <1>9, <1>10 DEF keys

(* A slice is at its grain when no two of its rows are of one group
   (_assert_unique_grain). *)
LEMMA GrainIsOneRow ==
    ASSUME NEW slice, Len(slice) \in Nat
    PROVE  AtGrain(slice) <=>
              \A j, k \in 1..Len(slice) : slice[j].group = slice[k].group => j = k
  <1> DEFINE f == [k \in 1..Len(slice) |-> slice[k].group]
             S == 1..Len(slice)
  <1>1. f \in Surjection(S, Groups(slice))
    BY DEF Surjection, Groups
  <1>2. IsFiniteSet(S) /\ Cardinality(S) = Len(slice)
    <2> DEFINE n == Len(slice)
    <2>1. n \in Nat
      OBVIOUS
    <2> HIDE DEF n
    <2>2. IsFiniteSet(1..n) /\ Cardinality(1..n) = n
      BY <2>1, FS_Interval, SMTT(60)
    <2> QED
      BY <2>2 DEF n
  <1>3. f \in Injection(S, Groups(slice)) <=>
          \A j, k \in 1..Len(slice) : slice[j].group = slice[k].group => j = k
    BY <1>1 DEF Injection, IsInjective, Surjection
  <1> HIDE DEF f, S
  <1>4. Cardinality(Groups(slice)) = Len(slice) <=> f \in Injection(S, Groups(slice))
    BY <1>1, <1>2, FS_Surjection
  <1> QED
    BY <1>3, <1>4 DEF AtGrain

LEMMA MeasureOfRow ==
    ASSUME NEW slice, Len(slice) \in Nat, AtGrain(slice), NEW k \in 1..Len(slice)
    PROVE  slice[k].group \in Groups(slice) /\ MeasureAt(slice, slice[k].group) = slice[k].value
  <1>1. \A j \in 1..Len(slice) : slice[j].group = slice[k].group => j = k
    BY GrainIsOneRow
  <1>2. (CHOOSE j \in 1..Len(slice) : slice[j].group = slice[k].group) = k
    BY <1>1
  <1> QED
    BY <1>2 DEF MeasureAt, Groups

(* Any slices of any rows, measures null or not: compose refuses exactly those with two
   rows of one group, and joins the others one to one: no group is multiplied, lost or made
   up, and each measure reads back (composition.compose). *)
THEOREM ComposeAlwaysJoins ==
    ASSUME NEW slices, NEW null, IsSlices(slices)
    PROVE  JoinsOneToOne(slices, null)
  <1> DEFINE keys == OrderedKeys(slices)
             n == Len(keys)
             m == Len(slices)
             At(j, i) == IF keys[j] \in Groups(slices[i]) THEN MeasureAt(slices[i], keys[j]) ELSE null
             rows == [j \in 1..n |->
                        [group |-> keys[j], measures |-> [i \in 1..m |-> At(j, i)]]]
             OneRow(s) == \A j, k \in 1..Len(s) : s[j].group = s[k].group => j = k
  <1>0. \A i \in 1..m : Len(slices[i]) \in Nat /\ (AtGrain(slices[i]) <=> OneRow(slices[i]))
    BY SliceHasRows, GrainIsOneRow
  <1>1. CASE \E i \in 1..m : ~AtGrain(slices[i])
    <2>1. ~Compose(slices, null).composed
      BY <1>1 DEF Compose
    <2>2. ~\A i \in 1..m : OneRow(slices[i])
      BY <1>0, <1>1
    <2> QED
      BY <2>1, <2>2 DEF JoinsOneToOne, OneToOne
  <1>2. CASE \A i \in 1..m : AtGrain(slices[i])
    <2>1. Compose(slices, null) = [composed |-> TRUE, rows |-> rows]
      BY <1>2 DEF Compose
    <2>2. /\ n \in Nat
          /\ \A j, k \in 1..n : keys[j] = keys[k] => j = k
          /\ \A i \in 1..m : \A k \in 1..Len(slices[i]) : \E j \in 1..n : keys[j] = slices[i][k].group
          /\ \A j \in 1..n :
                \E i \in 1..m : \E k \in 1..Len(slices[i]) : keys[j] = slices[i][k].group
      BY KeysOnce
    <2>3. Len(rows) = n /\ \A j \in 1..n : rows[j].group = keys[j]
                        /\ \A k \in 1..n : \A i \in 1..m : rows[k].measures[i] = At(k, i)
      BY <2>2
    <2>4. Compose(slices, null).rows = rows /\ Compose(slices, null).composed
      BY <2>1
    <2>5. \A i \in 1..m : OneRow(slices[i])
      BY <1>0, <1>2
    <2>6. ASSUME NEW i \in 1..m, NEW k \in 1..Len(slices[i])
          PROVE  /\ slices[i][k] = [group |-> slices[i][k].group, value |-> slices[i][k].value]
                 /\ slices[i][k].group \in Groups(slices[i])
                 /\ MeasureAt(slices[i], slices[i][k].group) = slices[i][k].value
      BY <1>0, <1>2, SliceHasRows, MeasureOfRow
    <2> HIDE DEF keys, n, m, rows
    <2>7. \A j, k \in 1..n : rows[j].group = rows[k].group => j = k
      BY <2>2, <2>3
    <2>8. ASSUME NEW i \in 1..m, NEW k \in 1..Len(slices[i])
          PROVE  \E j \in 1..n : /\ rows[j].group = slices[i][k].group
                                 /\ rows[j].measures[i] = slices[i][k].value
      <3>1. PICK j \in 1..n : keys[j] = slices[i][k].group
        BY <2>2
      <3>2. At(j, i) = slices[i][k].value
        BY <2>6, <3>1
      <3> QED
        BY <2>3, <3>1, <3>2
    <2>9. ASSUME NEW j \in 1..n, NEW i \in 1..m
          PROVE  \/ \E k \in 1..Len(slices[i]) :
                       slices[i][k] = [group |-> rows[j].group, value |-> rows[j].measures[i]]
                 \/ rows[j].group \notin Groups(slices[i]) /\ rows[j].measures[i] = null
      <3>1. CASE keys[j] \in Groups(slices[i])
        <4>1. PICK k \in 1..Len(slices[i]) : slices[i][k].group = keys[j]
          BY <3>1 DEF Groups
        <4>2. At(j, i) = slices[i][k].value
          BY <2>6, <3>1, <4>1
        <4> QED
          BY <2>3, <2>6, <4>1, <4>2
      <3>2. CASE keys[j] \notin Groups(slices[i])
        BY <2>3, <3>2
      <3> QED
        BY <3>1, <3>2
    <2>10. ASSUME NEW j \in 1..n
           PROVE  \E i \in 1..m : rows[j].group \in Groups(slices[i])
      BY <2>2, <2>3 DEF Groups
    <2> DEFINE result == Compose(slices, null)
    <2>11. result.composed /\ result.rows = rows /\ Len(rows) = n
      BY <2>3, <2>4
    <2> HIDE DEF At, result, OneRow
    <2>12. OneToOne(result, slices, null)
      <3>1. result.composed <=>
               \A i \in 1..Len(slices) : \A j, k \in 1..Len(slices[i]) :
                  slices[i][j].group = slices[i][k].group => j = k
        BY <2>5, <2>11 DEF OneRow, m
      <3>2. \A j, k \in 1..Len(result.rows) :
               result.rows[j].group = result.rows[k].group => j = k
        BY <2>7, <2>11
      <3>3. \A i \in 1..Len(slices) : \A k \in 1..Len(slices[i]) : \E j \in 1..Len(result.rows) :
               /\ result.rows[j].group = slices[i][k].group
               /\ result.rows[j].measures[i] = slices[i][k].value
        BY <2>8, <2>11, Zenon DEF m
      <3>4. \A j \in 1..Len(result.rows) : \A i \in 1..Len(slices) :
               \/ \E k \in 1..Len(slices[i]) :
                     slices[i][k] = [group |-> result.rows[j].group,
                                     value |-> result.rows[j].measures[i]]
               \/ /\ result.rows[j].group \notin Groups(slices[i])
                  /\ result.rows[j].measures[i] = null
        BY <2>9, <2>11, Zenon DEF m
      <3>5. \A j \in 1..Len(result.rows) : \E i \in 1..Len(slices) :
               result.rows[j].group \in Groups(slices[i])
        BY <2>10, <2>11, Zenon DEF m
      <3> QED
        BY <3>1, <3>2, <3>3, <3>4, <3>5, Zenon DEF OneToOne
    <2> QED
      BY <2>12 DEF JoinsOneToOne, result
  <1> QED
    BY <1>1, <1>2 DEF m

-----------------------------------------------------------------------------
(* The statements the validator accepts *)

(* max_rows is a bound, and no schema is without a name. *)
ValidatorSettings == MaxRows \in Nat /\ "" \notin AllowedSchemas

(* What a parsed statement is, of any size: its sources have aliases of their own. *)
StatementSound(statement) ==
    /\ statement.parses \in BOOLEAN /\ statement.query \in BOOLEAN
    /\ statement.mutates \in BOOLEAN /\ statement.star \in BOOLEAN
    /\ Len(statement.sources) \in Nat /\ Len(statement.columns) \in Nat
    /\ \A i, j \in 1..Len(statement.sources) :
          statement.sources[i].alias = statement.sources[j].alias => i = j
    /\ statement.limit \in Int /\ statement.limit >= -2

(* A set of indices that is not empty has a first. *)
LEMMA FirstIndex ==
    ASSUME NEW n \in Nat, NEW S, S \subseteq 1..n, S # {}
    PROVE  (CHOOSE i \in S : \A j \in S : i <= j) \in S
  <1>1. S \subseteq Nat
    OBVIOUS
  <1>2. \E i \in S : \A j \in S : i <= j
    BY <1>1, LeastOfNumbers
  <1> QED
    BY <1>2

(* A reference is accepted exactly when it may be read. *)
LEMMA ReferenceDecides ==
    ASSUME ValidatorSettings, NEW statement, NEW source, NEW scope, ~IsCte(statement, source)
    PROVE  ReferenceCode(statement, source, scope) = "ok" <=> MayRead(statement, source, scope)
  <1>1. CASE <<source.schema, source.table>> \in SystemTables
    BY <1>1 DEF ReferenceCode, MayRead
  <1>2. CASE <<source.schema, source.table>> \notin SystemTables /\ source.schema = ""
    BY <1>2 DEF ReferenceCode, MayRead, ValidatorSettings
  <1>3. CASE /\ <<source.schema, source.table>> \notin SystemTables
             /\ source.schema # "" /\ source.schema \notin AllowedSchemas
    BY <1>3 DEF ReferenceCode, MayRead
  <1>4. CASE /\ <<source.schema, source.table>> \notin SystemTables
             /\ source.schema # "" /\ source.schema \in AllowedSchemas
    BY <1>4 DEF ReferenceCode, MayRead
  <1> QED
    BY <1>1, <1>2, <1>3, <1>4

LEMMA ReferencesDecide ==
    ASSUME ValidatorSettings, NEW statement, StatementSound(statement), NEW scope
    PROVE  ReferencesCode(statement, scope) = "ok" <=>
              \A s \in Elements(statement.sources) : MayRead(statement, s, scope)
  <1> DEFINE code(i) == ReferenceCode(statement, statement.sources[i], scope)
             bad == {i \in References(statement) : code(i) # "ok"}
             n == Len(statement.sources)
  <1>1. \A i \in 1..n : i \in bad <=> ~MayRead(statement, statement.sources[i], scope)
    <2> SUFFICES ASSUME NEW i \in 1..n
                 PROVE  i \in bad <=> ~MayRead(statement, statement.sources[i], scope)
      OBVIOUS
    <2>1. CASE IsCte(statement, statement.sources[i])
      BY <2>1 DEF References, MayRead
    <2>2. CASE ~IsCte(statement, statement.sources[i])
      BY <2>2, ReferenceDecides DEF References
    <2> QED
      BY <2>1, <2>2
  <1>2. bad \subseteq 1..n /\ n \in Nat
    BY DEF References, StatementSound
  <1>3. (\A s \in Elements(statement.sources) : MayRead(statement, s, scope)) <=> bad = {}
    BY <1>1, <1>2 DEF Elements
  <1>4. CASE bad = {}
    BY <1>3, <1>4 DEF ReferencesCode
  <1>5. CASE bad # {}
    <2> DEFINE first == CHOOSE i \in bad : \A j \in bad : i <= j
    <2>1. first \in bad
      <3> HIDE DEF bad, n
      <3> QED
        BY <1>2, <1>5, FirstIndex
    <2>2. code(first) # "ok"
      BY <2>1
    <2>3. ReferencesCode(statement, scope) = code(first)
      BY <1>5 DEF ReferencesCode
    <2> QED
      BY <1>3, <1>5, <2>2, <2>3
  <1> QED
    BY <1>4, <1>5

(* A column reference is accepted exactly when it resolves to one source. *)
Resolves(statement, column, tables) ==
    Cardinality({s \in Elements(statement.sources) :
                    /\ column.alias \in {"", s.alias}
                    /\ column.name \in ColumnsOf(statement, s, tables)}) = 1

LEMMA ColumnDecides ==
    ASSUME NEW statement, StatementSound(statement), NEW column, NEW tables
    PROVE  ColumnCode(statement, column, tables) = "ok" <=> Resolves(statement, column, tables)
  <1> DEFINE sources == Elements(statement.sources)
             offering == {s \in sources : column.name \in ColumnsOf(statement, s, tables)}
             meant == {s \in sources : /\ column.alias \in {"", s.alias}
                                       /\ column.name \in ColumnsOf(statement, s, tables)}
  <1>1. CASE column.alias = ""
    <2>1. meant = offering
      BY <1>1
    <2> QED
      BY <1>1, <2>1 DEF ColumnCode, Resolves
  <1>2. CASE column.alias # ""
    <2>1. meant = {s \in offering : s.alias = column.alias}
      BY <1>2
    <2>2. ColumnCode(statement, column, tables) = "ok" <=> meant # {}
      BY <1>2, <2>1 DEF ColumnCode
    <2>3. ASSUME NEW s \in meant, NEW t \in meant
          PROVE  s = t
      <3>1. s.alias = t.alias /\ s \in sources /\ t \in sources
        BY <2>1
      <3>2. PICK i, j \in 1..Len(statement.sources) :
               s = statement.sources[i] /\ t = statement.sources[j]
        BY <3>1 DEF Elements
      <3>3. statement.sources[i].alias = statement.sources[j].alias
        BY <3>1, <3>2
      <3>4. i = j
        BY <3>3 DEF StatementSound
      <3> QED
        BY <3>2, <3>4
    <2>4. Resolves(statement, column, tables) <=> Cardinality(meant) = 1
      BY DEF Resolves
    <2> HIDE DEF meant
    <2>5. CASE meant = {}
      <3>1. Cardinality(meant) = 0
        BY <2>5, FS_EmptySet
      <3> QED
        BY <2>2, <2>5, <2>4, <3>1
    <2>6. CASE meant # {}
      <3>1. PICK s \in meant : meant = {s}
        BY <2>3, <2>6
      <3>2. Cardinality(meant) = 1
        BY <3>1, FS_Singleton
      <3> QED
        BY <2>2, <2>6, <2>4, <3>2
    <2> QED
      BY <2>5, <2>6
  <1> QED
    BY <1>1, <1>2

LEMMA ColumnsDecide ==
    ASSUME NEW statement, StatementSound(statement), NEW tables
    PROVE  ColumnsCode(statement, tables) = "ok" <=>
              \A c \in Elements(statement.columns) : Resolves(statement, c, tables)
  <1> DEFINE code(i) == ColumnCode(statement, statement.columns[i], tables)
             n == Len(statement.columns)
             bad == {i \in 1..n : code(i) # "ok"}
  <1>1. \A i \in 1..n : i \in bad <=> ~Resolves(statement, statement.columns[i], tables)
    BY ColumnDecides
  <1>2. bad \subseteq 1..n /\ n \in Nat
    BY DEF StatementSound
  <1>3. (\A c \in Elements(statement.columns) : Resolves(statement, c, tables)) <=> bad = {}
    BY <1>1, <1>2 DEF Elements
  <1>4. CASE bad = {}
    BY <1>3, <1>4 DEF ColumnsCode
  <1>5. CASE bad # {}
    <2> DEFINE first == CHOOSE i \in bad : \A j \in bad : i <= j
    <2>1. first \in bad
      <3> HIDE DEF bad, n
      <3> QED
        BY <1>2, <1>5, FirstIndex
    <2>2. code(first) # "ok"
      BY <2>1
    <2>3. ColumnsCode(statement, tables) = code(first)
      BY <1>5 DEF ColumnsCode
    <2> QED
      BY <1>3, <1>5, <2>2, <2>3
  <1> QED
    BY <1>4, <1>5

(* The validator accepts a statement exactly when it is one bounded read of relations and
   columns the request may read, and only a refusal about names is repairable
   (SQLValidator.validate, normalize_error), for a statement, snapshot and scope of any
   size. *)
THEOREM AcceptedIffSafe ==
    ASSUME ValidatorSettings, NEW statement, StatementSound(statement),
           NEW snapshot, NEW relations
    PROVE  ValidIffSafe(statement, snapshot, relations)
  <1> DEFINE scope == ScopeOf(snapshot, relations)
             result == Validate(statement, snapshot, scope)
             refs == \A s \in Elements(statement.sources) : MayRead(statement, s, scope)
             functions == statement.functions \subseteq AllowedFunctions \ ProhibitedFunctions
             safe == /\ statement.parses /\ statement.count = 1
                     /\ statement.query /\ ~statement.mutates
                     /\ refs /\ functions
                     /\ ~statement.star /\ statement.limit # -2
             named == snapshot.given => \A c \in Elements(statement.columns) :
                                           Resolves(statement, c, snapshot.tables)
             query == /\ statement.parses /\ statement.count = 1
                      /\ statement.query /\ ~statement.mutates
  <1>1. ReferencesCode(statement, scope) = "ok" <=> refs
    BY ReferencesDecide
  <1>2. snapshot.given /\ ColumnsCode(statement, snapshot.tables) # "ok" <=> ~named
    BY ColumnsDecide
  <1>3. UnsupportedFunctions(statement) = {} <=> functions
    BY DEF UnsupportedFunctions
  <1>4. BoundedLimit(statement.limit) \in 0..MaxRows \/ statement.limit = -2
    <2> DEFINE limit == statement.limit
    <2>1. limit \in Int /\ limit >= -2 /\ MaxRows \in Nat
      BY DEF StatementSound, ValidatorSettings
    <2> HIDE DEF limit
    <2>2. BoundedLimit(limit) \in 0..MaxRows \/ limit = -2
      BY <2>1 DEF BoundedLimit
    <2> QED
      BY <2>2 DEF limit
  <1>5. \A code : Invalid(code).valid = FALSE /\ Invalid(code).code = code
    BY DEF Invalid
  <1>6. \A code : Refusal(code).status = 422 => code \in Repairable
    BY DEF Refusal
  <1> HIDE DEF scope, refs, functions, named
  <1>7. CASE query
    <2>1. result =
            IF ReferencesCode(statement, scope) # "ok"
            THEN Invalid(ReferencesCode(statement, scope))
            ELSE IF UnsupportedFunctions(statement) # {} THEN Invalid("FORBIDDEN_FUNCTION")
            ELSE IF statement.star THEN Invalid("RESTRICTED_STAR")
            ELSE IF snapshot.given /\ ColumnsCode(statement, snapshot.tables) # "ok"
            THEN Invalid(ColumnsCode(statement, snapshot.tables))
            ELSE IF statement.limit = -2 THEN Invalid("INVALID_LIMIT")
            ELSE [valid |-> TRUE, code |-> "ok", rows |-> BoundedLimit(statement.limit)]
      BY <1>7 DEF Validate, StatementSound
    <2> HIDE DEF result
    <2>2. /\ result.valid = (refs /\ functions /\ ~statement.star /\ named /\ statement.limit # -2)
          /\ result.valid => result.rows = BoundedLimit(statement.limit) /\ statement.limit # -2
      BY <1>1, <1>2, <1>3, <1>5, <2>1 DEF StatementSound
    <2>3. result.valid = (safe /\ (safe => named))
      BY <1>7, <2>2
    <2>4. result.valid => result.rows \in 0..MaxRows
      BY <1>4, <2>2
    <2> QED
      BY <1>7, <2>3, <2>4, Zenon DEF ValidIffSafe, Resolves, scope, result, refs, functions, named
  <1>8. CASE ~query
    <2>1. PICK code \in {"PARSE_ERROR", "MULTIPLE_STATEMENTS", "MUTATION_ATTEMPT"} :
             result = Invalid(code)
      BY <1>8 DEF Validate, StatementSound
    <2> HIDE DEF result
    <2>2. result.valid = FALSE /\ ~(Refusal(result.code).status = 422)
      BY <1>5, <1>6, <2>1 DEF Repairable
    <2>3. result.valid = (safe /\ (safe => named))
      BY <1>8, <2>2
    <2> QED
      BY <2>2, <2>3, Zenon DEF ValidIffSafe, Resolves, scope, result, refs, functions, named
  <1> QED
    BY <1>7, <1>8

-----------------------------------------------------------------------------
(* Benchmark runs *)

(* The runs' invariant holds before the first run ... *)
LEMMA EvalInitially ==
    ASSUME EvalSettings, EvalInit
    PROVE  EvalInv
  <1>1. EvalTyped
    <2>1. << >> \in [{} -> EvalOutcomes]
      OBVIOUS
    <2>2. << >> \in EvalResults
      BY <2>1 DEF EvalResults
    <2> QED
      BY <2>2, FS_EmptySet DEF EvalInit, EvalTyped, EvalRun
  <1>2. ASSUME NEW r \in RunIds PROVE RunInv(r)
    <2>1. /\ evals[r].pc = "idle" /\ evals[r].asked = {} /\ evals[r].flying = {}
          /\ DOMAIN evals[r].results = {} /\ stored = {}
      BY DEF EvalInit
    <2> QED
      BY <2>1, FS_EmptySet DEF RunInv, EvalSettings
  <1>3. RunsApart
    BY DEF EvalInit, RunsApart
  <1> QED
    BY <1>1, <1>2, <1>3 DEF EvalInv

(* A recorded run has started, and has a result for what it asked. *)
LEMMA RecordedRun ==
    ASSUME EvalInv, NEW r \in stored
    PROVE  /\ r \in RunIds /\ evals[r].pc # "idle"
           /\ evals[r].started \in Nat /\ evals[r].started <= instant /\ instant \in Nat
           /\ DOMAIN evals[r].results \subseteq Cases
           /\ \A c \in DOMAIN evals[r].results : evals[r].results[c] \in EvalOutcomes
  <1>1. r \in RunIds /\ RunInv(r) /\ instant \in Nat
    BY DEF EvalInv, EvalTyped, EvalRun
  <1>2. evals[r].pc \in {"recorded", "reported"}
    BY <1>1 DEF RunInv
  <1>3. evals[r].started \in 1..instant
    BY <1>1, <1>2 DEF EvalInv, RunsApart
  <1>4. evals[r].results \in EvalResults
    BY <1>1 DEF EvalInv, EvalTyped, EvalRun
  <1> QED
    BY <1>1, <1>2, <1>3, <1>4 DEF EvalResults

(* The newest of some recorded runs is one of them, and none of them started after
   it (ORDER BY started_at DESC). *)
LEMMA NewestRunIsOne ==
    ASSUME EvalInv, NEW runs, runs \subseteq stored, runs # {}
    PROVE  /\ NewestRun(runs) \in runs
           /\ \A q \in runs : evals[q].started <= evals[NewestRun(runs)].started
  <1> DEFINE ages == {instant - evals[r].started : r \in runs}
  <1>1. \A r \in runs : /\ evals[r].started \in Nat /\ instant \in Nat
                        /\ instant - evals[r].started \in Nat
    BY RecordedRun
  <1>2. ages \subseteq Nat /\ ages # {}
    BY <1>1
  <1>3. PICK age \in ages : \A a \in ages : age <= a
    BY <1>2, LeastOfNumbers
  <1>4. PICK r \in runs : age = instant - evals[r].started
    BY <1>3
  <1>5. ASSUME NEW q \in runs
        PROVE  evals[q].started <= evals[r].started
    <2>1. instant - evals[r].started <= instant - evals[q].started
      BY <1>3, <1>4
    <2> QED
      BY <1>1, <2>1
  <1> QED
    BY <1>5 DEF NewestRun

(* ... and survives every step of a run: when it starts, *)
LEMMA StartKeepsRuns ==
    ASSUME EvalSettings, EvalInv, NEW r \in RunIds, StartEvaluation(r)
    PROVE  EvalInv'
  <1>1. /\ evals[r].pc = "idle" /\ instant \in Nat /\ instant' = instant + 1
        /\ active' = active /\ stored' = stored /\ active \subseteq Cases
        /\ evals' = [evals EXCEPT ![r] = [@ EXCEPT !.pc = "asking", !.started = instant + 1,
                                                   !.asked = active]]
    BY DEF StartEvaluation, EvalInv, EvalTyped
  <1>2. EvalTyped'
    <2>1. [evals[r] EXCEPT !.pc = "asking", !.started = instant + 1, !.asked = active] \in EvalRun
      <3>1. evals[r] \in EvalRun /\ active \in SUBSET Cases /\ instant + 1 \in Nat
        BY <1>1 DEF EvalInv, EvalTyped
      <3> QED
        BY <3>1 DEF EvalRun
    <2> QED
      BY <1>1, <2>1 DEF EvalInv, EvalTyped
  <1>3. /\ evals'[r].pc = "asking" /\ evals'[r].started = instant + 1 /\ evals'[r].asked = active
        /\ evals'[r].flying = evals[r].flying /\ evals'[r].results = evals[r].results
    BY <1>1 DEF EvalInv, EvalTyped, EvalRun
  <1>4. \A q \in RunIds : q # r => evals'[q] = evals[q]
    BY <1>1 DEF EvalInv, EvalTyped, EvalRun
  <1>5. ASSUME NEW q \in RunIds PROVE RunInv(q)'
    BY <1>1, <1>3, <1>4 DEF EvalInv, RunInv
  <1>6. RunsApart'
    BY <1>1, <1>3, <1>4 DEF EvalInv, EvalTyped, RunsApart
  <1> QED
    BY <1>2, <1>5, <1>6 DEF EvalInv

(* when it asks a question or is answered, *)
LEMMA AskingKeepsRuns ==
    ASSUME EvalSettings, EvalInv, NEW r \in RunIds, NEW c \in Cases,
           AskQuestion(r, c) \/ Evaluated(r, c)
    PROVE  EvalInv'
  <1>1. /\ evals[r].flying \subseteq evals[r].asked /\ IsFiniteSet(evals[r].flying)
        /\ DOMAIN evals[r].results \subseteq evals[r].asked
        /\ evals[r].results \in EvalResults
        /\ evals[r].flying \subseteq Cases
    BY DEF EvalInv, EvalTyped, EvalRun, RunInv
  <1>2. CASE AskQuestion(r, c)
    <2> DEFINE F == evals[r].flying \cup {c}
    <2>1. /\ evals[r].pc = "asking" /\ c \in evals[r].asked
          /\ c \notin evals[r].flying /\ c \notin DOMAIN evals[r].results
          /\ Cardinality(evals[r].flying) < Concurrency
          /\ active' = active /\ stored' = stored /\ instant' = instant
          /\ evals' = [evals EXCEPT ![r] = [@ EXCEPT !.flying = F]]
      BY <1>2 DEF AskQuestion
    <2>2. IsFiniteSet(F) /\ Cardinality(F) <= Concurrency
      <3>1. Cardinality(evals[r].flying) \in Nat /\ Concurrency \in Nat
        BY <1>1, FS_CardinalityType DEF EvalSettings
      <3>2. IsFiniteSet(F) /\ Cardinality(F) = Cardinality(evals[r].flying) + 1
        BY <1>1, <2>1, FS_AddElement
      <3> HIDE DEF F
      <3> QED
        BY <2>1, <3>1, <3>2
    <2>3. F \subseteq Cases /\ F \subseteq evals[r].asked /\ F \cap DOMAIN evals[r].results = {}
      BY <1>1, <2>1 DEF EvalInv, RunInv
    <2> HIDE DEF F
    <2>4. EvalTyped'
      BY <2>1, <2>3 DEF EvalInv, EvalTyped, EvalRun
    <2>5. /\ evals'[r].pc = "asking" /\ evals'[r].started = evals[r].started
          /\ evals'[r].asked = evals[r].asked /\ evals'[r].flying = F
          /\ evals'[r].results = evals[r].results
      BY <2>1 DEF EvalInv, EvalTyped, EvalRun
    <2>6. \A q \in RunIds : q # r => evals'[q] = evals[q]
      BY <2>1 DEF EvalInv, EvalTyped, EvalRun
    <2>7. ASSUME NEW q \in RunIds PROVE RunInv(q)'
      BY <1>1, <2>1, <2>2, <2>3, <2>5, <2>6 DEF EvalInv, RunInv
    <2>8. RunsApart'
      BY <2>1, <2>5, <2>6 DEF EvalInv, RunsApart
    <2> QED
      BY <2>4, <2>7, <2>8 DEF EvalInv
  <1>3. CASE Evaluated(r, c)
    <2>1. PICK o \in EvalOutcomes :
            evals' = [evals EXCEPT ![r].flying = @ \ {c}, ![r].results = WithResult(@, c, o)]
      BY <1>3 DEF Evaluated
    <2> DEFINE F == evals[r].flying \ {c}
               R == WithResult(evals[r].results, c, o)
    <2>2. /\ c \in evals[r].flying /\ c \in evals[r].asked
          /\ active' = active /\ stored' = stored /\ instant' = instant
      BY <1>1, <1>3 DEF Evaluated
    <2>12. evals' = [evals EXCEPT ![r] = [@ EXCEPT !.flying = F, !.results = R]]
      BY <2>1 DEF EvalInv, EvalTyped, EvalRun
    <2>3. IsFiniteSet(F) /\ Cardinality(F) <= Concurrency
      <3>1. Cardinality(evals[r].flying) \in Nat /\ Concurrency \in Nat
        BY <1>1, FS_CardinalityType DEF EvalSettings
      <3>2. Cardinality(evals[r].flying) <= Concurrency
        BY DEF EvalInv, RunInv
      <3>3. IsFiniteSet(F) /\ Cardinality(F) = Cardinality(evals[r].flying) - 1
        BY <1>1, <2>2, FS_RemoveElement
      <3> HIDE DEF F
      <3> QED
        BY <3>1, <3>2, <3>3
    <2>4. /\ DOMAIN R = DOMAIN evals[r].results \cup {c}
          /\ R \in [DOMAIN evals[r].results \cup {c} -> EvalOutcomes]
          /\ DOMAIN evals[r].results \cup {c} \subseteq Cases
      <3>1. /\ evals[r].results \in [DOMAIN evals[r].results -> EvalOutcomes]
            /\ DOMAIN evals[r].results \subseteq Cases
        BY <1>1 DEF EvalResults
      <3> QED
        BY <3>1 DEF WithResult
    <2>5. R \in EvalResults
      BY <2>4 DEF EvalResults
    <2>6. /\ F \subseteq Cases /\ F \subseteq evals[r].asked /\ DOMAIN R \subseteq evals[r].asked
          /\ F \cap DOMAIN R = {}
      BY <1>1, <2>2, <2>4 DEF EvalInv, RunInv
    <2>7. evals[r].pc = "asking"
      BY <2>2 DEF EvalInv, EvalTyped, RunInv
    <2> HIDE DEF F, R
    <2>8. EvalTyped'
      BY <2>2, <2>5, <2>6, <2>12, ZenonT(60) DEF EvalInv, EvalTyped, EvalRun
    <2>9. /\ evals'[r].pc = "asking" /\ evals'[r].started = evals[r].started
          /\ evals'[r].asked = evals[r].asked /\ evals'[r].flying = F /\ evals'[r].results = R
      BY <2>2, <2>7, <2>12 DEF EvalInv, EvalTyped, EvalRun
    <2>10. \A q \in RunIds : q # r => evals'[q] = evals[q]
      BY <2>2, <2>12 DEF EvalInv, EvalTyped, EvalRun
    <2>11. ASSUME NEW q \in RunIds PROVE RunInv(q)'
      BY <2>2, <2>3, <2>6, <2>7, <2>9, <2>10 DEF EvalInv, RunInv
    <2>13. RunsApart'
      BY <2>2, <2>7, <2>9, <2>10 DEF EvalInv, RunsApart
    <2> QED
      BY <2>8, <2>11, <2>13 DEF EvalInv
  <1> QED
    BY <1>2, <1>3

(* and when it is recorded and reported. *)
LEMMA RecordingKeepsRuns ==
    ASSUME EvalSettings, EvalInv, NEW r \in RunIds, RecordRun(r) \/ Report(r)
    PROVE  EvalInv'
  <1>1. PICK pc \in {"recorded", "failed", "reported"}, previous \in RunIds \cup {NoRun} :
          /\ evals' = [evals EXCEPT ![r] = [@ EXCEPT !.pc = pc, !.previous = previous]]
          /\ pc = "failed" => r \notin stored
          /\ stored' = IF pc = "recorded" THEN stored \cup {r} ELSE stored
          /\ pc = "reported" => r \in stored
          /\ active' = active /\ instant' = instant
          /\ evals[r].pc # "idle"
          /\ DOMAIN evals[r].results = evals[r].asked /\ evals[r].flying = {}
    <2>1. evals[r].previous \in RunIds \cup {NoRun} /\ RunInv(r) /\ stored \subseteq RunIds
      BY SMTT(60) DEF EvalInv, EvalTyped, EvalRun
    <2>2. CASE RecordRun(r)
      <3>1. /\ evals[r].pc = "asking" /\ r \notin stored /\ DOMAIN evals[r].results = evals[r].asked
            /\ evals[r].flying = {}
        BY <2>1, <2>2 DEF RecordRun, RunInv
      <3>2. ASSUME NEW pc, evals' = [evals EXCEPT ![r].pc = pc]
            PROVE  evals' = [evals EXCEPT ![r] = [@ EXCEPT !.pc = pc, !.previous = evals[r].previous]]
        BY <3>2 DEF EvalInv, EvalTyped, EvalRun
      <3> QED
        BY <2>1, <2>2, <3>1, <3>2 DEF RecordRun
    <2>3. CASE Report(r)
      <3>1. /\ evals[r].pc = "recorded" /\ r \in stored /\ evals[r].flying = {}
            /\ DOMAIN evals[r].results = evals[r].asked
        BY <2>1, <2>3 DEF Report, RunInv
      <3> DEFINE others == stored \ {r}
                 previous == IF others = {} THEN NoRun ELSE NewestRun(others)
      <3>2. previous \in RunIds \cup {NoRun}
        BY <2>1, NewestRunIsOne
      <3>3. evals' = [evals EXCEPT ![r] = [@ EXCEPT !.pc = "reported", !.previous = previous]]
        BY <2>3 DEF Report
      <3>4. active' = active /\ stored' = stored /\ instant' = instant
        BY <2>3 DEF Report
      <3> HIDE DEF previous
      <3> QED
        BY <3>1, <3>2, <3>3, <3>4
    <2> QED
      BY <2>2, <2>3
  <1>2. /\ evals'[r].pc = pc /\ evals'[r].started = evals[r].started
        /\ evals'[r].asked = evals[r].asked /\ evals'[r].flying = evals[r].flying
        /\ evals'[r].results = evals[r].results
    BY <1>1 DEF EvalInv, EvalTyped, EvalRun
  <1>3. \A q \in RunIds : q # r => evals'[q] = evals[q]
    BY <1>1 DEF EvalInv, EvalTyped, EvalRun
  <1>4. EvalTyped'
    <2>1. IsFiniteSet(stored') /\ stored' \subseteq RunIds
      BY <1>1, FS_AddElement DEF EvalInv, EvalTyped, EvalRun
    <2> QED
      BY <1>1, <2>1, ZenonT(60) DEF EvalInv, EvalTyped, EvalRun
  <1>5. ASSUME NEW q \in RunIds PROVE RunInv(q)'
    BY <1>1, <1>2, <1>3 DEF EvalInv, RunInv
  <1>6. RunsApart'
    BY <1>1, <1>2, <1>3 DEF EvalInv, RunsApart
  <1> QED
    BY <1>4, <1>5, <1>6, SMTT(60) DEF EvalInv

LEMMA EvalStep ==
    ASSUME EvalSettings, EvalInv, [EvalNext]_evars
    PROVE  EvalInv'
  <1>1. CASE UNCHANGED evars
    BY <1>1 DEF evars, EvalInv, EvalTyped, RunInv, RunsApart
  <1>2. ASSUME NEW c \in Cases, SaveCase(c)
        PROVE  EvalInv'
    BY <1>2 DEF SaveCase, EvalInv, EvalTyped, RunInv, RunsApart
  <1> QED
    BY <1>1, <1>2, StartKeepsRuns, AskingKeepsRuns, RecordingKeepsRuns DEF EvalNext

(* How a case of a run moved since the newest run before it: none recorded before,
   the case is new; otherwise its two outcomes tell (movements). *)
LEMMA MovedBy ==
    ASSUME EvalInv, NEW c \in Cases, NEW r \in stored,
           \A q \in stored : c \in DOMAIN evals[q].results
    PROVE  /\ Earlier(r) = {} => Listing[r][c] = "NEW"
           /\ Earlier(r) # {} =>
                LET before == evals[NewestRun(Earlier(r))].results[c]
                    after == evals[r].results[c]
                IN  /\ Listing[r][c] = "IMPROVED" <=> before # "PASS" /\ after = "PASS"
                    /\ Listing[r][c] = "REGRESSION" <=> before = "PASS" /\ after # "PASS"
  <1>1. c \in DOMAIN evals[r].results
    OBVIOUS
  <1>2. ASSUME Earlier(r) = {} PROVE Listing[r][c] = "NEW"
    <2>1. Listing[r] = Movements(evals[r].results, << >>)
      BY <1>2 DEF Listing
    <2>2. DOMAIN << >> = {}
      OBVIOUS
    <2> QED
      BY <1>1, <2>1, <2>2 DEF Movements
  <1>3. ASSUME Earlier(r) # {}
        PROVE  LET before == evals[NewestRun(Earlier(r))].results[c]
                   after == evals[r].results[c]
               IN  /\ Listing[r][c] = "IMPROVED" <=> before # "PASS" /\ after = "PASS"
                   /\ Listing[r][c] = "REGRESSION" <=> before = "PASS" /\ after # "PASS"
    <2> DEFINE n == NewestRun(Earlier(r))
    <2>1. Listing[r] = Movements(evals[r].results, evals[n].results)
      BY <1>3 DEF Listing
    <2>2. n \in stored
      BY <1>3, NewestRunIsOne DEF Earlier
    <2>3. c \in DOMAIN evals[n].results
      BY <2>2
    <2> HIDE DEF n
    <2> QED
      BY <1>1, <2>1, <2>3 DEF Movements, n
  <1> QED
    BY <1>2, <1>3

(* Up to any recorded run, the movements shown account for its outcome. *)
LEMMA MovementsAddUpTo ==
    ASSUME EvalInv, NEW c \in Cases, NEW first \in stored, Earlier(first) = {},
           \A q \in stored : c \in DOMAIN evals[q].results,
           NEW r \in stored
    PROVE  LET passes(q) == IF evals[q].results[c] = "PASS" THEN 1 ELSE 0
               shown(m) == {q \in stored : evals[q].started <= evals[r].started /\ Listing[q][c] = m}
           IN  passes(first) + Cardinality(shown("IMPROVED"))
                 = passes(r) + Cardinality(shown("REGRESSION"))
  <1> DEFINE passes(q) == IF evals[q].results[c] = "PASS" THEN 1 ELSE 0
             shown(q, m) == {p \in stored : evals[p].started <= evals[q].started
                                            /\ Listing[p][c] = m}
             Good(q) == passes(first) + Cardinality(shown(q, "IMPROVED"))
                          = passes(q) + Cardinality(shown(q, "REGRESSION"))
             bad == {q \in stored : ~ Good(q)}
             times == {evals[q].started : q \in bad}
  <1> SUFFICES ASSUME bad # {} PROVE FALSE
    OBVIOUS
  <1>1. \A q \in stored : evals[q].started \in Nat
    BY RecordedRun
  <1>2. times \subseteq Nat /\ times # {}
    BY <1>1
  <1>3. PICK t \in times : \A u \in times : t <= u
    BY <1>2, LeastOfNumbers
  <1>4. PICK q \in bad : evals[q].started = t
    BY <1>3
  <1>5. q \in stored /\ ~ Good(q)
    BY <1>4
  <1>6. \A p \in stored : evals[p].started < evals[q].started => Good(p)
    <2> SUFFICES ASSUME NEW p \in stored, evals[p].started < evals[q].started, ~ Good(p)
                 PROVE  FALSE
      OBVIOUS
    <2>1. evals[p].started \in times
      OBVIOUS
    <2>2. t <= evals[p].started /\ t \in Nat /\ evals[p].started \in Nat
      BY <1>1, <1>2, <1>3, <2>1
    <2> QED
      BY <1>4, <2>2
  <1>7. \A p \in stored : evals[p].started = evals[q].started => p = q
    BY <1>5, RecordedRun DEF EvalInv, RunsApart
  <1>8. ASSUME NEW p \in stored, NEW m
        PROVE  IsFiniteSet(shown(p, m)) /\ Cardinality(shown(p, m)) \in Nat
    BY FS_Subset, FS_CardinalityType DEF EvalInv, EvalTyped
  <1>9. \A p \in stored : passes(p) \in {0, 1}
    OBVIOUS
  <1>10. CASE Earlier(q) = {}
    <2>1. q = first
      BY <1>1, <1>5, <1>7, <1>10 DEF Earlier
    <2>2. \A p \in stored : evals[p].started <= evals[q].started => p = q
      BY <1>1, <1>5, <1>7, <1>10 DEF Earlier
    <2>3. Listing[q][c] = "NEW"
      BY <1>5, <1>10, MovedBy
    <2>4. shown(q, "IMPROVED") = {} /\ shown(q, "REGRESSION") = {}
      BY <2>2, <2>3
    <2> QED
      BY <1>5, <2>1, <2>4
  <1>11. CASE Earlier(q) # {}
    <2> DEFINE n == NewestRun(Earlier(q))
    <2>1. n \in Earlier(q) /\ \A p \in Earlier(q) : evals[p].started <= evals[n].started
      BY <1>11, NewestRunIsOne DEF Earlier
    <2>2. n \in stored /\ evals[n].started < evals[q].started
      BY <2>1 DEF Earlier
    <2>3. Good(n)
      BY <1>6, <2>2
    <2>4. /\ Listing[q][c] = "IMPROVED" <=> evals[n].results[c] # "PASS" /\ evals[q].results[c] = "PASS"
          /\ Listing[q][c] = "REGRESSION" <=> evals[n].results[c] = "PASS" /\ evals[q].results[c] # "PASS"
      BY <1>5, <1>11, MovedBy
    <2> HIDE DEF n
    <2>5. \A p \in stored : evals[p].started <= evals[q].started
                              <=> p = q \/ evals[p].started <= evals[n].started
      BY <1>1, <1>5, <1>7, <2>1, <2>2 DEF Earlier
    <2>6. ~ (evals[q].started <= evals[n].started)
      BY <1>1, <1>5, <2>2
    <2>7. ASSUME NEW m
          PROVE  Cardinality(shown(q, m)) =
                   Cardinality(shown(n, m)) + IF Listing[q][c] = m THEN 1 ELSE 0
      <3>1. q \notin shown(n, m)
        BY <2>6
      <3>2. shown(q, m) = IF Listing[q][c] = m THEN shown(n, m) \cup {q} ELSE shown(n, m)
        BY <1>5, <2>5
      <3>3. IsFiniteSet(shown(n, m)) /\ Cardinality(shown(n, m)) \in Nat
        BY <1>8, <2>2
      <3> HIDE DEF shown
      <3>4. Cardinality(shown(n, m) \cup {q}) = Cardinality(shown(n, m)) + 1
        BY <3>1, <3>3, FS_AddElement
      <3> QED
        BY <3>2, <3>3, <3>4
    <2>8. /\ Cardinality(shown(n, "IMPROVED")) \in Nat
          /\ Cardinality(shown(n, "REGRESSION")) \in Nat
      BY <1>8, <2>2
    <2> HIDE DEF shown
    <2> QED
      BY <1>5, <2>3, <2>4, <2>7, <2>8
  <1> QED
    BY <1>10, <1>11

(* What is recorded is whole, and its movements add up. *)
LEMMA RunsAreSound ==
    ASSUME EvalInv
    PROVE  RunIsWhole /\ MovementsAddUp
  <1>1. RunIsWhole
    BY DEF EvalInv, RunInv, RunIsWhole
  <1>2. MovementsAddUp
    <2> SUFFICES ASSUME NEW c \in Cases, NEW first \in stored, NEW last \in stored,
                        \A r \in stored : c \in DOMAIN evals[r].results,
                        Earlier(first) = {}, last = NewestRun(stored)
                 PROVE  (IF evals[first].results[c] = "PASS" THEN 1 ELSE 0)
                          + Cardinality({r \in stored : Listing[r][c] = "IMPROVED"})
                        = (IF evals[last].results[c] = "PASS" THEN 1 ELSE 0)
                          + Cardinality({r \in stored : Listing[r][c] = "REGRESSION"})
      BY DEF MovementsAddUp
    <2>1. \A r \in stored : evals[r].started <= evals[last].started
      BY NewestRunIsOne
    <2>2. ASSUME NEW m
          PROVE  {r \in stored : Listing[r][c] = m}
                   = {r \in stored : evals[r].started <= evals[last].started /\ Listing[r][c] = m}
      BY <2>1
    <2> DEFINE upTo(m) == {r \in stored : evals[r].started <= evals[last].started /\ Listing[r][c] = m}
    <2>3. (IF evals[first].results[c] = "PASS" THEN 1 ELSE 0) + Cardinality(upTo("IMPROVED"))
             = (IF evals[last].results[c] = "PASS" THEN 1 ELSE 0) + Cardinality(upTo("REGRESSION"))
      BY MovementsAddUpTo, Zenon
    <2>4. /\ {r \in stored : Listing[r][c] = "IMPROVED"} = upTo("IMPROVED")
          /\ {r \in stored : Listing[r][c] = "REGRESSION"} = upTo("REGRESSION")
      BY <2>2, Zenon
    <2> HIDE DEF upTo
    <2> QED
      BY <2>3, <2>4, Zenon
  <1> QED
    BY <1>1, <1>2

(* For any cases, requests and limit, and however runs overlap and cases are edited
   meanwhile, a recorded run is whole and the movements that a page shows add up
   (evaluation_runner.py, evaluation_routes.py): the properties RunIsWhole and
   MovementsAddUp of Evaluations. *)
THEOREM RunsAreAlwaysWhole ==
    ASSUME EvalSettings
    PROVE  EvalSpec => [](RunIsWhole /\ MovementsAddUp)
  <1>1. EvalInit => EvalInv
    BY EvalInitially
  <1>2. EvalInv /\ [EvalNext]_evars => EvalInv'
    BY EvalStep
  <1>3. EvalInv => RunIsWhole /\ MovementsAddUp
    BY RunsAreSound
  <1> QED
    BY <1>1, <1>2, <1>3, PTL DEF EvalSpec

(* What is the same at every element has the same values. *)
LEMMA SameImages ==
    ASSUME NEW S, NEW f, NEW g, \A k \in S : f[k] = g[k]
    PROVE  {f[k] : k \in S} = {g[k] : k \in S}
  OBVIOUS

(* Two lists are paired off, one to one, by equal keys. *)
PairsOff(n, e, a, p) ==
    /\ p \in [1..n -> 1..n]
    /\ \A i, j \in 1..n : p[i] = p[j] => i = j
    /\ \A i \in 1..n : e[i] = a[p[i]]

(* The partners left for one, after those before it took theirs. *)
Partners(n, e, a, m, taken) == {j \in 1..n \ {taken[k] : k \in 1..(m - 1)} : e[m] = a[j]}

(* Of two lists that can be paired off by equal keys, however those before m are
   paired, m finds a partner. *)
LEMMA PartnerIsLeft ==
    ASSUME NEW n \in Nat, NEW e, NEW a, NEW p, PairsOff(n, e, a, p),
           NEW m \in 1..n, NEW taken \in [1..(m - 1) -> 1..n],
           \A k \in 1..(m - 1) : e[k] = a[taken[k]]
    PROVE  Partners(n, e, a, m, taken) # {}
  <1> DEFINE key == e[m]
             wanted == {i \in 1..n : e[i] = key}
             before == {k \in 1..(m - 1) : e[k] = key}
             held == {j \in 1..n : a[j] = key}
             take == [k \in before |-> taken[k]]
             pair == [i \in wanted |-> p[i]]
  <1> SUFFICES ASSUME \A j \in held : j \in {taken[k] : k \in 1..(m - 1)} PROVE FALSE
    BY DEF Partners
  <1>1. /\ p \in [1..n -> 1..n]
        /\ \A i, j \in 1..n : p[i] = p[j] => i = j
        /\ \A i \in 1..n : e[i] = a[p[i]]
    BY DEF PairsOff
  <1>2. take \in Surjection(before, held)
    <2>1. take \in [before -> held]
      OBVIOUS
    <2>2. ASSUME NEW j \in held
          PROVE  \E k \in before : take[k] = j
      <3>1. PICK k \in 1..(m - 1) : taken[k] = j
        OBVIOUS
      <3>2. e[k] = key
        BY <3>1
      <3> QED
        BY <3>1, <3>2
    <2> HIDE DEF take, before, held
    <2> QED
      BY <2>1, <2>2 DEF Surjection
  <1>3. pair \in Injection(wanted, held)
    <2>1. pair \in [wanted -> held]
      BY <1>1
    <2>2. \A i, j \in wanted : pair[i] = pair[j] => i = j
      BY <1>1
    <2> HIDE DEF pair, wanted, held
    <2> QED
      BY <2>1, <2>2 DEF Injection, IsInjective
  <1>4. before \subseteq wanted \ {m} /\ m \in wanted /\ wanted \subseteq 1..n /\ held \subseteq 1..n
    <2>1. m \in 1..n /\ \A k \in 1..(m - 1) : k \in 1..n /\ k # m
      OBVIOUS
    <2> HIDE DEF key
    <2>2. before \subseteq wanted \ {m}
      BY <2>1
    <2>3. m \in wanted
      BY <2>1 DEF key
    <2> QED
      BY <2>2, <2>3
  <1> HIDE DEF wanted, before, held, take, pair
  <1>5. IsFiniteSet(wanted) /\ IsFiniteSet(held) /\ IsFiniteSet(before) /\ IsFiniteSet(wanted \ {m})
    <2>1. IsFiniteSet(1..n)
      BY FS_Interval
    <2>2. IsFiniteSet(wanted) /\ IsFiniteSet(held)
      BY <1>4, <2>1, FS_Subset
    <2> QED
      BY <1>4, <2>2, FS_Subset, FS_RemoveElement
  <1>6. Cardinality(held) <= Cardinality(before)
    BY <1>2, <1>5, FS_Surjection
  <1>7. Cardinality(wanted) <= Cardinality(held)
    BY <1>3, <1>5, FS_Injection
  <1>8. Cardinality(before) <= Cardinality(wanted \ {m})
    BY <1>4, <1>5, FS_Subset
  <1>9. Cardinality(wanted \ {m}) = Cardinality(wanted) - 1
    BY <1>4, <1>5, FS_RemoveElement
  <1>10. Cardinality(wanted) \in Nat /\ Cardinality(held) \in Nat /\ Cardinality(before) \in Nat
    BY <1>5, FS_CardinalityType
  <1> QED
    BY <1>6, <1>7, <1>8, <1>9, <1>10

(* Taking the first partner left, one after another, the first m find theirs. *)
FirstTaken(n, e, a, m, taken) ==
    \A i \in 1..m :
        /\ taken[i] \in Partners(n, e, a, i, taken)
        /\ \A j \in Partners(n, e, a, i, taken) : taken[i] <= j

LEMMA FirstPartners ==
    ASSUME NEW n \in Nat, NEW e, NEW a, NEW p, PairsOff(n, e, a, p)
    PROVE  \E taken \in [1..n -> 1..n] : FirstTaken(n, e, a, n, taken)
  <1> DEFINE bad == {m \in 0..n : ~ \E taken \in [1..m -> 1..n] : FirstTaken(n, e, a, m, taken)}
  <1> SUFFICES ASSUME bad # {} PROVE FALSE
    <2>1. n \in 0..n
      OBVIOUS
    <2> QED
      BY <2>1
  <1>1. bad \subseteq Nat
    OBVIOUS
  <1>2. PICK m \in bad : \A k \in bad : m <= k
    BY <1>1, LeastOfNumbers
  <1>3. m # 0
    <2> SUFFICES ASSUME m = 0 PROVE FALSE
      OBVIOUS
    <2> DEFINE none == [k \in 1..0 |-> n]
    <2>1. none \in [1..0 -> 1..n] /\ FirstTaken(n, e, a, 0, none)
      BY DEF FirstTaken
    <2> QED
      BY <2>1
  <1>4. m \in 1..n /\ m - 1 \in 0..n /\ m - 1 \in Nat /\ m - 1 < n /\ m - 1 \notin bad
    <2>1. m \in 0..n /\ m \in Nat
      BY <1>2
    <2>2. m - 1 \in 0..n /\ m - 1 < m
      BY <1>3, <2>1
    <2> HIDE DEF bad
    <2>3. m - 1 \notin bad
      <3> SUFFICES ASSUME m - 1 \in bad PROVE FALSE
        OBVIOUS
      <3>1. m <= m - 1
        BY <1>2
      <3> QED
        BY <2>1, <3>1
    <2> QED
      BY <1>3, <2>1, <2>2, <2>3
  <1>5. PICK had \in [1..(m - 1) -> 1..n] : FirstTaken(n, e, a, m - 1, had)
    BY <1>4, Zenon
  <1> DEFINE fit == Partners(n, e, a, m, had)
  <1>6. fit # {}
    <2>1. \A k \in 1..(m - 1) : e[k] = a[had[k]]
      BY <1>5 DEF FirstTaken, Partners
    <2>2. m \in 1..n /\ had \in [1..(m - 1) -> 1..n]
      BY <1>4
    <2> QED
      BY <2>1, <2>2, PartnerIsLeft
  <1>7. PICK b \in fit : \A j \in fit : b <= j
    <2>1. fit \subseteq Nat
      BY DEF Partners
    <2> HIDE DEF fit
    <2> QED
      BY <1>6, <2>1, LeastOfNumbers
  <1> DEFINE took == [k \in 1..m |-> IF k = m THEN b ELSE had[k]]
  <1>8. took \in [1..m -> 1..n]
    <2>1. \A k \in 1..m : k # m => k \in 1..(m - 1)
      BY <1>4
    <2>2. b \in 1..n /\ \A k \in 1..(m - 1) : had[k] \in 1..n
      BY <1>5, <1>7 DEF Partners
    <2> QED
      BY <2>1, <2>2
  <1>9. FirstTaken(n, e, a, m, took)
    <2> SUFFICES ASSUME NEW i \in 1..m
                 PROVE  /\ took[i] \in Partners(n, e, a, i, took)
                        /\ \A j \in Partners(n, e, a, i, took) : took[i] <= j
      BY DEF FirstTaken
    <2>1. Partners(n, e, a, i, took) = Partners(n, e, a, i, had)
      <3>1. \A k \in 1..(i - 1) : k \in 1..m /\ k # m
        BY <1>4
      <3>2. \A k \in 1..(i - 1) : took[k] = had[k]
        BY <3>1
      <3> HIDE DEF took
      <3> QED
        BY <3>2, SameImages, Zenon DEF Partners
    <2>2. CASE i = m
      BY <1>7, <2>1, <2>2
    <2>3. CASE i # m
      <3>1. i \in 1..(m - 1) /\ took[i] = had[i]
        BY <1>4, <2>3
      <3> HIDE DEF took
      <3> QED
        BY <1>5, <2>1, <3>1 DEF FirstTaken
    <2> QED
      BY <2>2, <2>3
  <1> HIDE DEF took
  <1> QED
    BY <1>2, <1>4, <1>8, <1>9

(* A value reads as an integer or as none (_number). *)
IsValue(v) == Number(v) \in Int \cup {NaN}

(* What a comparison is given: rows of values, a list expected and a list returned. *)
ComparisonInput(case, rows) ==
    /\ NaN \notin Int
    /\ Len(rows) \in Nat /\ DOMAIN rows = 1..Len(rows)
    /\ Len(case.rows) \in Nat /\ DOMAIN case.rows = 1..Len(case.rows)
    /\ \A i \in DOMAIN case.rows : \A col \in DOMAIN case.rows[i] : IsValue(case.rows[i][col])
    /\ \A i \in DOMAIN rows : \A col \in DOMAIN rows[i] : IsValue(rows[i][col])

(* Without tolerance values match exactly when they are written the same (_canonical). *)
LEMMA WrittenTheSame ==
    ASSUME NaN \notin Int, NEW v, IsValue(v), NEW w, IsValue(w)
    PROVE  Matches(v, w, 0) <=> Canonical(v) = Canonical(w)
  <1>1. ASSUME Number(v) # NaN, Number(w) # NaN
        PROVE  Distance(Number(v), Number(w)) <= 0 <=> Number(v) = Number(w)
    BY <1>1 DEF IsValue, Distance
  <1>2. ASSUME NEW u
        PROVE  /\ Number(u) # NaN => Canonical(u) = <<"numeral", Number(u)>>
               /\ Number(u) = NaN => Canonical(u)[1] = "text"
    BY DEF Canonical
  <1> QED
    BY <1>1, <1>2 DEF Matches

(* A row as it is written. *)
Written(row) == [col \in DOMAIN row |-> Canonical(row[col])]

LEMMA ExactRows ==
    ASSUME NaN \notin Int, NEW e, NEW a, DOMAIN e = DOMAIN a,
           \A col \in DOMAIN e : IsValue(e[col]), \A col \in DOMAIN a : IsValue(a[col])
    PROVE  RowsMatch(e, a, 0) <=> Written(e) = Written(a)
  <1>1. \A col \in DOMAIN e : Matches(e[col], a[col], 0) <=> Canonical(e[col]) = Canonical(a[col])
    BY WrittenTheSame
  <1>2. Written(e) = Written(a) <=> \A col \in DOMAIN e : Canonical(e[col]) = Canonical(a[col])
    <2>1. /\ DOMAIN Written(e) = DOMAIN e /\ DOMAIN Written(a) = DOMAIN e
          /\ \A col \in DOMAIN e : Written(e)[col] = Canonical(e[col]) /\ Written(a)[col] = Canonical(a[col])
      BY DEF Written
    <2>2. Written(e) = [col \in DOMAIN e |-> Canonical(e[col])]
      BY DEF Written
    <2>3. Written(a) = [col \in DOMAIN e |-> Canonical(a[col])]
      BY DEF Written
    <2> QED
      BY <2>1, <2>2, <2>3
  <1> QED
    BY <1>1, <1>2 DEF RowsMatch

(* Rows that match in order, or each by the first left, are paired off. *)
LEMMA PairedBothWays ==
    ASSUME NEW case, NEW rows, ComparisonInput(case, rows), CompareTable(case, rows)
    PROVE  Len(rows) = Len(case.rows) /\ Pairing(case, rows)
  <1>1. Len(rows) = Len(case.rows) /\ DOMAIN rows = DOMAIN case.rows
    BY DEF CompareTable, ComparisonInput
  <1>2. CASE case.ordered
    <2> DEFINE same == [i \in DOMAIN rows |-> i]
    <2>1. same \in [DOMAIN rows -> DOMAIN rows] /\ \A i, j \in DOMAIN rows : same[i] = same[j] => i = j
      OBVIOUS
    <2>2. \A i \in DOMAIN case.rows : RowsMatch(case.rows[i], rows[same[i]], case.tolerance)
      BY <1>1, <1>2 DEF CompareTable
    <2> HIDE DEF same
    <2> QED
      BY <1>1, <2>1, <2>2 DEF Pairing
  <1>3. CASE ~ case.ordered
    <2>1. PICK taken \in [DOMAIN rows -> DOMAIN rows] : \A i \in DOMAIN rows :
            /\ taken[i] \notin {taken[k] : k \in 1..(i - 1)}
            /\ RowsMatch(case.rows[i], rows[taken[i]], case.tolerance)
      BY <1>3 DEF CompareTable, TakesFirst
    <2>2. ASSUME NEW i \in DOMAIN rows, NEW j \in DOMAIN rows, taken[i] = taken[j]
          PROVE  i = j
      <3>1. i \in 1..Len(rows) /\ j \in 1..Len(rows) /\ Len(rows) \in Nat
        BY DEF ComparisonInput
      <3>2. ~ (i < j) /\ ~ (j < i)
        BY <2>1, <2>2, <3>1
      <3> QED
        BY <3>1, <3>2
    <2> QED
      BY <1>1, <2>1, <2>2 DEF Pairing
  <1> QED
    BY <1>2, <1>3

(* For any case and rows of values, a table passes only if its rows pair off with those
   expected, and one that leaves nothing open passes if they do (_compare_table): the
   property PassesByPairing of EvaluationCompare. *)
THEOREM PassesOnlyByPairing ==
    ASSUME NEW case, NEW rows, ComparisonInput(case, rows)
    PROVE  PassesByPairing(case, rows)
  <1>1. CompareTable(case, rows) => Len(rows) = Len(case.rows) /\ Pairing(case, rows)
    BY PairedBothWays
  <1>2. ASSUME case.tolerance = 0, ~ case.ordered, Len(rows) = Len(case.rows), Pairing(case, rows),
               \A i \in DOMAIN case.rows, j \in DOMAIN rows : DOMAIN case.rows[i] = DOMAIN rows[j]
        PROVE  CompareTable(case, rows)
    <2> DEFINE n == Len(rows)
               e == [i \in 1..n |-> Written(case.rows[i])]
               a == [i \in 1..n |-> Written(rows[i])]
    <2>1. n \in Nat /\ DOMAIN rows = 1..n /\ DOMAIN case.rows = 1..n
      BY <1>2 DEF ComparisonInput
    <2>2. \A i, j \in 1..n : RowsMatch(case.rows[i], rows[j], case.tolerance) <=> e[i] = a[j]
      BY <1>2, <2>1, ExactRows, SMTT(60) DEF ComparisonInput
    <2> HIDE DEF n, e, a
    <2>3. PICK p \in [1..n -> 1..n] : /\ \A i, j \in 1..n : p[i] = p[j] => i = j
                                      /\ \A i \in 1..n : RowsMatch(case.rows[i], rows[p[i]], case.tolerance)
      <3>1. DOMAIN rows = 1..n /\ DOMAIN case.rows = 1..n /\ Pairing(case, rows)
        BY <1>2, <2>1
      <3> QED
        BY <3>1, Zenon DEF Pairing
    <2>4. \A i \in 1..n : e[i] = a[p[i]]
      BY <2>2, <2>3
    <2>5. PICK taken \in [1..n -> 1..n] : FirstTaken(n, e, a, n, taken)
      BY <2>1, <2>3, <2>4, FirstPartners DEF PairsOff
    <2>6. ASSUME NEW i \in 1..n
          PROVE  Partners(n, e, a, i, taken)
                   = {j \in 1..n \ {taken[k] : k \in 1..(i - 1)} :
                        RowsMatch(case.rows[i], rows[j], case.tolerance)}
      BY <2>2 DEF Partners
    <2>7. TakesFirst(case, rows)
      <3>1. ASSUME NEW i \in 1..n
            PROVE  LET remaining == 1..n \ {taken[k] : k \in 1..(i - 1)}
                       fit == {j \in remaining : RowsMatch(case.rows[i], rows[j], case.tolerance)}
                   IN  taken[i] \in fit /\ \A j \in fit : taken[i] <= j
        BY <2>5, <2>6, Zenon DEF FirstTaken
      <3> QED
        BY <2>1, <3>1, Zenon DEF TakesFirst
    <2> QED
      BY <1>2, <2>7 DEF CompareTable
  <1> QED
    BY <1>1, <1>2 DEF PassesByPairing
=============================================================================

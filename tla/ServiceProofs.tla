---------------------------- MODULE ServiceProofs ----------------------------
(***************************************************************************)
(* The proofs about parts of the service that keep to themselves, carried  *)
(* over to the specification MCService, of which each part is an instance: *)
(* a behaviour is of one part from its first state on, and only that       *)
(* part's steps are taken.                                                 *)
(***************************************************************************)
EXTENDS MCService, FiniteSetTheorems, TLAPS

Platform == INSTANCE PlatformProofs WITH
    Keys <- SigningKeys, CacheSeconds <- 1, FetchSeconds <- 1,
    MaxTime <- 3, Never <- Nil,
    published <- s1, cache <- s2, lock <- s3, auth <- s4, now <- s5,
    Processes <- {"p1", "p2"}, MaxStarts <- 3, log <- s1, schema <- s2, proc <- s3,
    Requests <- Turns, Subjects <- {"ann", "bob"}, Sources <- {"sales", "stock"},
    Threads <- {"thread"}, Asks <- Asks, Page <- 3, None <- Nil,
    conv <- s1, msgs <- s2, req <- s3, reader <- s4,
    Schemas <- HumanResources, Policies <- Policies, Columns <- Previewed, MaxChanges <- 2,
    datasource <- s1, policy <- s2, classified <- s3, proposed <- s4, request <- s5, seen <- s6,
    changes <- s7,
    Null <- Nil, Assertions <- Freshness, Tables <- Contents, Runners <- Checkers,
    MaxChecks <- 4, Retained <- 1,
    data <- s1, enabled <- s2, results <- s3, clock <- s4, runner <- s5, toggling <- s6,
    newest <- s7,
    Metrics <- {"m1", "m2", "m3"}, Dims <- {"d1"}, Seeds <- {"m1", "m2"}, Questions <- {"q1"},
    Reindexers <- {"r1", "r2"}, Limit <- 2, MaxReviews <- 2,
    registry <- s1, index <- s2, reindex <- s3, question <- s4, reviews <- s5,
    AllowedSchemas <- {"analytics"}, AllowedTables <- {"t", "u"}, AllowedFunctions <- {"sum"},
    ProhibitedFunctions <- {"setval"}, SystemTables <- System, MaxRows <- 5,
    NaN <- Nil, Cases <- {"c1", "c2"}, RunIds <- {"e1", "e2"}, Concurrency <- 1, NoRun <- Nil,
    active <- s1, evals <- s2, stored <- s3, instant <- s4

Dialogue == INSTANCE DialogueProofs WITH
    Metrics <- Catalogue, Scopes <- {{"m1", "m2"}, {"m2"}}, MaxTurns <- 4, Nothing <- Nil,
    context <- s1, query <- s2, ran <- s3, turns <- s4, thread <- s5,
    Stored <- {"c1", "c2"}, Minted <- <<"n1">>, SourceOf <- [c1 |-> "sales", c2 |-> "stock"],
    Sources <- {"sales", "stock"}, Ids <- {"x1", "x2"}, None <- Nil,
    screen <- s1, exchanges <- s2, inflight <- s3, opening <- s4, adopting <- s5, home <- s6,
    strayed <- s7,
    Requests <- Tokenholders, Schemas <- {{"t"}, {"t", "u"}}, Statements <- {{"t"}, {"u"}},
    CacheSeconds <- 1, TimeoutSeconds <- 1, MaxTime <- 2, MaxBytes <- 9,
    Results <- {<<9>>, <<2, 2, 2>>}, Null <- Nil,
    readOnly <- s1, schema <- s2, cache <- s3, verified <- s4, lock <- s5, request <- s6,
    now <- s7, proved <- s8,
    phase <- s1, outcome <- s2, counted <- s3, recorded <- s4, priced <- s5,
    Rows <- QueryRows, Backends <- {"fake", "postgres"}, Modes <- {"full", "sql"},
    backend <- s1, mode <- s2, dataset <- s3, case <- s4, stage <- s5, db <- s6, llm <- s7,
    turn <- s8, results <- s9, NoNumber <- Nil,
    ByLength <- Tokens, Norm <- Norms, Short <- {"of", "a", "b", "c"},
    Identifiers <- {"prj14", "prj-14"}, Heads <- {"falcon", "devops", "falco", "prj14", "unit"},
    StartOf <- {<<"falco", "falcon">>}, EndOf <- {<<"ops", "devops">>},
    PartOf <- {<<"falco", "falcon">>, <<"ops", "devops">>}, Similar <- NearlySpelled,
    MaxTerms <- 5, MaxCandidates <- 2

-----------------------------------------------------------------------------
(* The invariant of the signing keys, in the part that has them. *)
KeysHold == part = "keys" => Platform!KeysInv

(* The module PlatformProofs is about the same part as the specification
   (TokenKeys, at the settings of this instance). *)
LEMMA SameKeys ==
    /\ Rotation!KeysInit => Platform!KeysInit
    /\ Rotation!KeysNext => Platform!KeysNext
    /\ Platform!RotationIsFollowed => Rotation!RotationIsFollowed
  <1>1. Rotation!KeysInit => Platform!KeysInit
    BY ZenonT(60) DEF Rotation!KeysInit, Platform!KeysInit
  <1>2. Rotation!Tick => Platform!Tick
    BY DEF Rotation!Tick, Platform!Tick
  <1>3. ASSUME NEW k \in SigningKeys
        PROVE  /\ Rotation!Publish(k) => Platform!Publish(k)
               /\ Rotation!Withdraw(k) => Platform!Withdraw(k)
    BY SMTT(30) DEF Rotation!Publish, Platform!Publish, Rotation!Withdraw, Platform!Withdraw, Rotation!Published,
           Platform!Published
  <1>4. ASSUME NEW r \in Tokenholders
        PROVE  /\ Rotation!Begin(r) => Platform!Begin(r)
               /\ Rotation!Acquire(r) => Platform!Acquire(r)
               /\ Rotation!Fetch(r) => Platform!Fetch(r)
               /\ Rotation!Store(r) => Platform!Store(r)
               /\ Rotation!ProviderFails(r) => Platform!ProviderFails(r)
               /\ Rotation!Match(r) => Platform!Match(r)
    BY DEF Rotation!Begin, Platform!Begin, Rotation!Acquire, Platform!Acquire, Rotation!Fetch,
           Platform!Fetch, Rotation!Store, Platform!Store, Rotation!ProviderFails,
           Platform!ProviderFails, Rotation!Match, Platform!Match, Rotation!Takes, Platform!Takes,
           Rotation!CacheIsValid, Platform!CacheIsValid, Rotation!Published, Platform!Published
  <1>5. Rotation!KeysNext => Platform!KeysNext
    BY <1>2, <1>3, <1>4 DEF Rotation!KeysNext, Platform!KeysNext
  <1>6. Platform!RotationIsFollowed => Rotation!RotationIsFollowed
    BY SMTT(60) DEF Rotation!RotationIsFollowed, Platform!RotationIsFollowed
  <1> QED
    BY <1>1, <1>5, <1>6

(* The keys' invariant survives every step of the service: one of the keys, or one
   of another part, which stays another part. *)
LEMMA KeysHoldStep ==
    ASSUME KeysHold, [Next]_vars
    PROVE  KeysHold'
  <1> SUFFICES ASSUME part' = "keys" PROVE Platform!KeysInv'
    BY SMTT(60) DEF KeysHold
  <1>1. part = "keys" /\ Platform!KeysInv
    BY SMTT(60) DEF Next, vars, KeysHold
  <1>2. Platform!KeysSettings
    BY SMTT(60) DEF Platform!KeysSettings
  <1>3. Rotation!KeysNext \/ UNCHANGED <<s1, s2, s3, s4, s5>>
    BY <1>1 DEF Next, vars, Given, Algorithms
  <1>4. [Platform!KeysNext]_(Platform!kvars)
    BY <1>3, SameKeys, SMTT(60) DEF Platform!kvars
  <1> QED
    BY <1>1, <1>2, <1>4, Platform!KeysStep, SMTT(60)

(* An authentication of the service follows the issuer's rotation
   (oidc.py:38-100): the property RotationIsFollowed of this specification, from
   the theorem about the signing keys. *)
THEOREM ServiceFollowsRotation ==
    Spec => []RotationIsFollowed
  <1>1. Init => KeysHold
    <2> SUFFICES ASSUME Init, part = "keys" PROVE Platform!KeysInv
      BY SMTT(60) DEF KeysHold
    <2>1. Rotation!KeysInit
      BY SMTT(60) DEF Init, Algorithms
    <2>2. Platform!KeysInit /\ Platform!KeysSettings
      BY <2>1, SameKeys DEF Platform!KeysSettings
    <2> QED
      BY <2>2, Platform!KeysInitially
  <1>2. KeysHold /\ [Next]_vars => KeysHold'
    BY KeysHoldStep
  <1>3. KeysHold => RotationIsFollowed
    <2> SUFFICES ASSUME KeysHold, part = "keys" PROVE Rotation!RotationIsFollowed
      BY SMTT(60) DEF RotationIsFollowed
    <2>1. Platform!KeysInv /\ Platform!KeysSettings
      BY SMTT(60) DEF KeysHold, Platform!KeysSettings
    <2>2. Platform!RotationIsFollowed
      BY <2>1, Platform!SoundIsFollowed
    <2> QED
      BY <2>2, SameKeys
  <1> QED
    BY <1>1, <1>2, <1>3, PTL DEF Spec

-----------------------------------------------------------------------------
(* The releases of this instance: a first one, its successor, and a later one
   that edited a file already applied (Releases). *)
LEMMA ReleasesOfThisInstanceGrow ==
    Platform!ReleasesGrow
  <1>1. DOMAIN Releases = {1, 2, 3}
    BY DEF Releases
  <1>2. /\ Releases[1] = <<[version |-> 1, checksum |-> 1]>>
        /\ Releases[2] = <<[version |-> 1, checksum |-> 1], [version |-> 2, checksum |-> 1]>>
        /\ Releases[3] = <<[version |-> 1, checksum |-> 1], [version |-> 2, checksum |-> 2],
                           [version |-> 3, checksum |-> 1]>>
    BY DEF Releases, File
  <1>3. \A r \in {1, 2, 3} :
          /\ DOMAIN Releases[r] = 1..r
          /\ \A i \in 1..r : Releases[r][i] \in Platform!Migration /\ Releases[r][i].version = i
    <2>1. /\ DOMAIN Releases[1] = 1..1
          /\ \A i \in 1..1 : Releases[1][i] \in Platform!Migration /\ Releases[1][i].version = i
      BY <1>2 DEF Platform!Migration
    <2>2. /\ DOMAIN Releases[2] = 1..2
          /\ \A i \in 1..2 : Releases[2][i] \in Platform!Migration /\ Releases[2][i].version = i
      BY <1>2 DEF Platform!Migration
    <2>3. /\ DOMAIN Releases[3] = 1..3
          /\ \A i \in 1..3 : Releases[3][i] \in Platform!Migration /\ Releases[3][i].version = i
      BY <1>2 DEF Platform!Migration
    <2> QED
      BY <2>1, <2>2, <2>3
  <1>4. \A r \in {1, 2, 3} : Releases[r] \in Seq(Platform!Migration)
    <2>1. PICK a, b, c, d \in Platform!Migration :
             /\ Releases[1] = <<a>> /\ Releases[2] = <<a, b>> /\ Releases[3] = <<a, c, d>>
      <3>1. /\ [version |-> 1, checksum |-> 1] \in Platform!Migration
            /\ [version |-> 2, checksum |-> 1] \in Platform!Migration
            /\ [version |-> 2, checksum |-> 2] \in Platform!Migration
            /\ [version |-> 3, checksum |-> 1] \in Platform!Migration
        BY DEF Platform!Migration
      <3> QED
        BY <1>2, <3>1
    <2>2. /\ <<a>> \in Seq(Platform!Migration)
          /\ <<a, b>> \in Seq(Platform!Migration)
          /\ <<a, c, d>> \in Seq(Platform!Migration)
      OBVIOUS
    <2> QED
      BY <2>1, <2>2
  <1> QED
    BY <1>1, <1>3, <1>4, SMTT(90) DEF Platform!ReleasesGrow

(* The invariant of the migrations, in the part that has them. *)
MigrationsHold == part = "migrations" => Platform!MigrationsInv

(* The module PlatformProofs is about the same part as the specification
   (Migrations, with the processes and releases of this instance). *)
LEMMA SameMigrations ==
    /\ Migrate!MigrationsInit => Platform!MigrationsInit
    /\ Migrate!MigrationsNext => Platform!MigrationsNext
    /\ Platform!HistoryIsTheSchema => Migrate!HistoryIsTheSchema
  <1>1. Migrate!MigrationsInit => Platform!MigrationsInit
    BY SMTT(30) DEF Migrate!MigrationsInit, Platform!MigrationsInit, Migrate!Down, Platform!Down
  <1>2. ASSUME NEW p \in {"p1", "p2"}
        PROVE  /\ Migrate!Start(p) => Platform!Start(p)
               /\ Migrate!ReadHistory(p) => Platform!ReadHistory(p)
               /\ Migrate!Skip(p) => Platform!Skip(p)
               /\ Migrate!RefuseEdited(p) => Platform!RefuseEdited(p)
               /\ Migrate!Apply(p) => Platform!Apply(p)
               /\ Migrate!Ready(p) => Platform!Ready(p)
               /\ Migrate!Stop(p) => Platform!Stop(p)
    BY DEF Migrate!Start, Platform!Start, Migrate!ReadHistory, Platform!ReadHistory,
           Migrate!Skip, Platform!Skip, Migrate!RefuseEdited, Platform!RefuseEdited,
           Migrate!Apply, Platform!Apply, Migrate!Ready, Platform!Ready, Migrate!Stop,
           Platform!Stop, Migrate!Down, Platform!Down, Migrate!Rows, Platform!Rows,
           Migrate!File, Platform!File, Migrate!Recorded, Platform!Recorded
  <1>3. Migrate!MigrationsNext => Platform!MigrationsNext
    BY <1>2, SMTT(60) DEF Migrate!MigrationsNext, Platform!MigrationsNext
  <1>4. Platform!HistoryIsTheSchema => Migrate!HistoryIsTheSchema
    BY SMTT(60) DEF Migrate!HistoryIsTheSchema, Platform!HistoryIsTheSchema, Migrate!Rows, Platform!Rows
  <1> QED
    BY <1>1, <1>3, <1>4

(* The migrations' invariant survives every step of the service. *)
LEMMA MigrationsHoldStep ==
    ASSUME MigrationsHold, [Next]_vars
    PROVE  MigrationsHold'
  <1> SUFFICES ASSUME part' = "migrations" PROVE Platform!MigrationsInv'
    BY SMTT(60) DEF MigrationsHold
  <1>1. part = "migrations" /\ Platform!MigrationsInv
    BY SMTT(60) DEF Next, vars, MigrationsHold
  <1>2. Migrate!MigrationsNext \/ UNCHANGED <<s1, s2, s3>>
    BY <1>1, SMTT(60) DEF Next, vars, Given, Algorithms
  <1>3. [Platform!MigrationsNext]_(Platform!mvars)
    BY <1>2, SameMigrations DEF Platform!mvars
  <1> QED
    BY <1>1, <1>3, ReleasesOfThisInstanceGrow, Platform!MigrationsStep

(* The recorded migrations of the service's database are its schema
   (migrations.py:79-125): the property HistoryIsTheSchema of this specification,
   from the theorem about the migrations. *)
THEOREM ServiceKeepsHistory ==
    Spec => []HistoryIsTheSchema
  <1>1. Init => MigrationsHold
    <2> SUFFICES ASSUME Init, part = "migrations" PROVE Platform!MigrationsInv
      BY SMTT(60) DEF MigrationsHold
    <2>1. Migrate!MigrationsInit
      BY SMTT(60) DEF Init, Algorithms
    <2> QED
      BY <2>1, SameMigrations, Platform!MigrationsInitially
  <1>2. MigrationsHold /\ [Next]_vars => MigrationsHold'
    BY MigrationsHoldStep
  <1>3. MigrationsHold => HistoryIsTheSchema
    <2> SUFFICES ASSUME MigrationsHold, part = "migrations" PROVE Migrate!HistoryIsTheSchema
      BY SMTT(60) DEF HistoryIsTheSchema
    <2>1. Platform!HistoryIsTheSchema
      BY ReleasesOfThisInstanceGrow, Platform!SoundIsTheSchema DEF MigrationsHold
    <2> QED
      BY <2>1, SameMigrations, SMTT(60)
  <1> QED
    BY <1>1, <1>2, <1>3, PTL DEF Spec

-----------------------------------------------------------------------------
(* The questions of this instance are well formed (Questions). *)
Form == [write : BOOLEAN, followup : BOOLEAN, continuation : BOOLEAN, composite : BOOLEAN,
         lookup : BOOLEAN, aggregate : BOOLEAN, calculates : BOOLEAN,
         metrics : SUBSET {"m1", "m2"}, by : SUBSET {"d1", "d2"},
         entity : [{"d1", "d2"} -> {Nil, "a", "b"}], monthly : BOOLEAN, top : Nat]

LEMMA QuestionsOfThisInstance ==
    Dialogue!QuestionsSound
  <1>1. Asked \in Form
    BY SMTT(60) DEF Asked, Form
  <1>2. [Asked EXCEPT !.metrics = {"m1"}, !.aggregate = TRUE, !.by = {"d1"}] \in Form
    BY <1>1 DEF Form
  <1>3. [Asked EXCEPT !.metrics = {"m1"}, !.calculates = TRUE, !.monthly = TRUE] \in Form
    BY <1>1 DEF Form
  <1>4. [Asked EXCEPT !.metrics = {"m2"}, !.aggregate = TRUE, !.entity["d2"] = "a", !.top = 5] \in Form
    BY <1>1 DEF Form
  <1>5. [Asked EXCEPT !.metrics = {"m2"}, !.followup = TRUE] \in Form
    BY <1>1 DEF Form
  <1>6. [Asked EXCEPT !.metrics = {"m1"}, !.lookup = TRUE] \in Form
    BY <1>1 DEF Form
  <1>7. [Asked EXCEPT !.metrics = {"m1", "m2"}, !.aggregate = TRUE] \in Form
    BY <1>1 DEF Form
  <1>8. [Asked EXCEPT !.metrics = {"m1", "m2"}, !.followup = TRUE] \in Form
    BY <1>1 DEF Form
  <1>9. [Asked EXCEPT !.composite = TRUE] \in Form
    BY <1>1 DEF Form
  <1>10. [Asked EXCEPT !.followup = TRUE, !.entity["d2"] = "a"] \in Form
    BY <1>1 DEF Form
  <1>11. [Asked EXCEPT !.followup = TRUE, !.entity["d2"] = "b", !.aggregate = TRUE, !.top = 1] \in Form
    BY <1>1 DEF Form
  <1>12. [Asked EXCEPT !.followup = TRUE, !.monthly = TRUE] \in Form
    BY <1>1 DEF Form
  <1>13. [Asked EXCEPT !.continuation = TRUE, !.by = {"d2"}] \in Form
    BY <1>1 DEF Form
  <1>14. [Asked EXCEPT !.write = TRUE, !.followup = TRUE, !.metrics = {"m1"}] \in Form
    BY <1>1, ZenonT(60) DEF Form
  <1>15. Questions \subseteq Form
    BY <1>2, <1>3, <1>4, <1>5, <1>6, <1>7, <1>8, <1>9, <1>10, <1>11, <1>12, <1>13, <1>14, ZenonT(60) DEF Questions
  <1> QED
    BY <1>15, SMTT(60) DEF Form, Dialogue!QuestionsSound

(* The invariant of the governed queries, in the part that has them. *)
RoutingHolds == part = "routing" => Dialogue!RoutingInv

(* The module DialogueProofs is about the same parts as the specification (Routing
   here, with the catalog and the questions of this instance). *)
LEMMA SameRouting ==
    /\ Route!RoutingInit => Dialogue!RoutingInit
    /\ Route!RoutingNext => Dialogue!RoutingNext
    /\ Dialogue!RanIsAskedFor => Route!RanIsAskedFor
  <1>1. Route!RoutingInit => Dialogue!RoutingInit
    BY DEF Route!RoutingInit, Dialogue!RoutingInit
  <1>2. \A q, prior, allowed : Route!Route(q, prior, allowed) = Dialogue!Route(q, prior, allowed)
    BY DEF Route!Route, Dialogue!Route, Route!RouteFresh, Dialogue!RouteFresh,
           Route!RouteFollowup, Dialogue!RouteFollowup, Route!Authorized, Dialogue!Authorized,
           Route!Continuable, Dialogue!Continuable, Route!Decision, Dialogue!Decision
  <1>3. \A q, d, prior : Route!Plan(q, d, prior) = Dialogue!Plan(q, d, prior)
    BY DEF Route!Plan, Dialogue!Plan, Route!Fresh, Dialogue!Fresh, Route!Named, Dialogue!Named,
           Route!DefaultLimit, Dialogue!DefaultLimit
  <1>4. \A q, d, prior : Route!Refused(q, d, prior) <=> Dialogue!Refused(q, d, prior)
    <2>1. \A plan : Route!ValidMetricQuery(plan) <=> Dialogue!ValidMetricQuery(plan)
      BY SMTT(60) DEF Route!ValidMetricQuery, Dialogue!ValidMetricQuery
    <2>2. \A S : Route!Cardinality(S) = Dialogue!Cardinality(S)
      BY ZenonT(60) DEF Route!Cardinality, Dialogue!Cardinality
    <2> QED
      BY <1>3, <2>1, <2>2, Zenon DEF Route!Refused, Dialogue!Refused
  <1>5. ASSUME NEW q \in Questions, NEW allowed \in {{"m1", "m2"}, {"m2"}}
        PROVE  /\ Route!TurnFails(q, allowed) => Dialogue!TurnFails(q, allowed)
               /\ Route!TurnGoverned(q, allowed) => Dialogue!TurnGoverned(q, allowed)
               /\ Route!TurnAdhoc(q, allowed) => Dialogue!TurnAdhoc(q, allowed)
               /\ Route!TurnStops(q, allowed) => Dialogue!TurnStops(q, allowed)
    BY <1>2, <1>3, <1>4
       DEF Route!TurnFails, Dialogue!TurnFails, Route!TurnGoverned, Dialogue!TurnGoverned,
           Route!TurnAdhoc, Dialogue!TurnAdhoc, Route!TurnStops, Dialogue!TurnStops,
           Route!Starts, Dialogue!Starts, Route!Recorded, Dialogue!Recorded
  <1>6. Route!RoutingNext => Dialogue!RoutingNext
    BY <1>5, SMTT(60) DEF Route!RoutingNext, Dialogue!RoutingNext
  <1>7. \A metric, questions :
           Dialogue!AskedFor(metric, questions) = Route!AskedFor(metric, questions)
    BY DEF Route!AskedFor, Dialogue!AskedFor, Route!Valued, Dialogue!Valued, Route!Limited,
           Dialogue!Limited, Route!Newest, Dialogue!Newest, Route!DefaultLimit,
           Dialogue!DefaultLimit
  <1>8. Dialogue!RanIsAskedFor => Route!RanIsAskedFor
    BY <1>7 DEF Route!RanIsAskedFor, Dialogue!RanIsAskedFor
  <1> QED
    BY <1>1, <1>6, <1>8

(* The queries' invariant survives every step of the service. *)
LEMMA RoutingHoldsStep ==
    ASSUME RoutingHolds, [Next]_vars
    PROVE  RoutingHolds'
  <1> SUFFICES ASSUME part' = "routing" PROVE Dialogue!RoutingInv'
    BY DEF RoutingHolds
  <1>1. part = "routing" /\ Dialogue!RoutingInv
    BY DEF Next, vars, RoutingHolds
  <1>2. Route!RoutingNext \/ UNCHANGED <<s1, s2, s3, s4, s5>>
    BY <1>1, SMTT(60) DEF Next, vars, Given, Algorithms
  <1>3. [Dialogue!RoutingNext]_(Dialogue!rvars)
    BY <1>2, SameRouting DEF Dialogue!rvars
  <1> QED
    BY <1>1, <1>3, QuestionsOfThisInstance, Dialogue!RoutingStep

(* A governed query that runs in the service is of a metric allowed on this turn and
   is what the conversation asked for (router.py, routing/planner.py): the property
   RanIsAskedFor of this specification, from the theorem about the queries. *)
THEOREM ServiceRunsWhatIsAskedFor ==
    Spec => []RanIsAskedFor
  <1>1. Init => RoutingHolds
    <2> SUFFICES ASSUME Init, part = "routing" PROVE Dialogue!RoutingInv
      BY DEF RoutingHolds
    <2>1. Route!RoutingInit
      BY SMTT(60) DEF Init, Algorithms
    <2> QED
      BY <2>1, SameRouting, Dialogue!RoutingInitially
  <1>2. RoutingHolds /\ [Next]_vars => RoutingHolds'
    BY RoutingHoldsStep
  <1>3. RoutingHolds => RanIsAskedFor
    BY SameRouting DEF RoutingHolds, RanIsAskedFor, Dialogue!RoutingInv
  <1> QED
    BY <1>1, <1>2, <1>3, PTL DEF Spec

-----------------------------------------------------------------------------
(* The conversations, datasources and ids of this instance are told apart. *)
LEMMA ScreenOfThisInstance ==
    Dialogue!ScreenSettings
  <1>1. Dialogue!Threads = Screen!Threads /\ Dialogue!Outgoing = Screen!Outgoing
    BY DEF Dialogue!Threads, Screen!Threads, Dialogue!Outgoing, Screen!Outgoing
  <1>2. Dialogue!Threads = {"c1", "c2", "n1"}
    BY DEF Dialogue!Threads
  <1>3. IsFiniteSet({"x1", "x2"})
    <2>1. IsFiniteSet({"x1"} \cup {"x2"})
      BY FS_Singleton, FS_AddElement
    <2> QED
      BY <2>1
  <1>4. [c1 |-> "sales", c2 |-> "stock"] \in [{"c1", "c2"} -> {"sales", "stock"}]
    OBVIOUS
  <1>5. {"x1", "x2"} \cap Dialogue!Threads = {}
    BY <1>2
  <1>6. Nil \notin Dialogue!Threads \cup {"sales", "stock"} /\ Nil \notin Dialogue!Outgoing
    BY <1>1, NilAssumption
  <1>7. Dialogue!IsFiniteSet({"x1", "x2"})
    BY <1>3, Zenon DEF IsFiniteSet, Dialogue!IsFiniteSet
  <1> QED
    BY <1>4, <1>5, <1>6, <1>7, Zenon DEF Dialogue!ScreenSettings

(* The invariant of the screen, in the part that has it. *)
ScreenHolds == part = "workspace" => Dialogue!ScreenInv

(* The screen of DialogueProofs is that of the specification (Workspace). *)
LEMMA SameScreen ==
    /\ Screen!WorkspaceInit => Dialogue!WorkspaceInit
    /\ Screen!WorkspaceNext => Dialogue!WorkspaceNext
    /\ Dialogue!ScreenIsOneConversation => Screen!ScreenIsOneConversation
    /\ Dialogue!PendingIsInFlight => Screen!PendingIsInFlight
  <1>1. Dialogue!Threads = Screen!Threads
    BY DEF Dialogue!Threads, Screen!Threads
  <1>2. Screen!WorkspaceInit => Dialogue!WorkspaceInit
    BY <1>1, SMTT(60) DEF Screen!WorkspaceInit, Dialogue!WorkspaceInit
  <1>3. \A S : Screen!Cardinality(S) = Dialogue!Cardinality(S)
    BY Zenon DEF Screen!Cardinality, Dialogue!Cardinality
  <1>11. Screen!Ask => Dialogue!Ask
    BY <1>3 DEF Screen!Ask, Dialogue!Ask, Screen!Post, Dialogue!Post, Screen!FreshId,
       Dialogue!FreshId, Screen!Ignoring, Dialogue!Ignoring
  <1>12. /\ Screen!Fail => Dialogue!Fail
         /\ Screen!Cancel => Dialogue!Cancel
    BY DEF Screen!Fail, Dialogue!Fail, Screen!Cancel, Dialogue!Cancel, Screen!Settle,
       Dialogue!Settle
  <1>10. Screen!Answer => Dialogue!Answer
    BY <1>1, Zenon DEF Screen!Answer, Dialogue!Answer
  <1>4. ASSUME NEW i PROVE Screen!Retry(i) => Dialogue!Retry(i)
    BY DEF Screen!Retry, Dialogue!Retry, Screen!Settle, Dialogue!Settle, Screen!Post,
       Dialogue!Post, Screen!Ignoring, Dialogue!Ignoring
  <1>5. ASSUME NEW source
        PROVE  Screen!StartNewAnalysis(source) => Dialogue!StartNewAnalysis(source)
    BY DEF Screen!StartNewAnalysis, Dialogue!StartNewAnalysis
  <1>6. ASSUME NEW t
        PROVE  /\ Screen!Adopt(t) => Dialogue!Adopt(t)
               /\ Screen!Open(t) => Dialogue!Open(t)
               /\ Screen!Restored(t) => Dialogue!Restored(t)
               /\ Screen!RestoreFails(t) => Dialogue!RestoreFails(t)
    BY DEF Screen!Adopt, Dialogue!Adopt, Screen!Open, Dialogue!Open, Screen!Restored,
       Dialogue!Restored, Screen!RestoreFails, Dialogue!RestoreFails, Screen!Ignoring,
       Dialogue!Ignoring
  <1>7. Screen!WorkspaceNext => Dialogue!WorkspaceNext
    BY <1>1, <1>4, <1>5, <1>6, <1>10, <1>11, <1>12 DEF Screen!WorkspaceNext, Dialogue!WorkspaceNext
  <1>8. Dialogue!ScreenIsOneConversation => Screen!ScreenIsOneConversation
    BY DEF Screen!ScreenIsOneConversation, Dialogue!ScreenIsOneConversation, Screen!Together,
       Dialogue!Together, Screen!InFlightIsShown, Dialogue!InFlightIsShown
  <1>9. Dialogue!PendingIsInFlight => Screen!PendingIsInFlight
    BY DEF Screen!PendingIsInFlight, Dialogue!PendingIsInFlight
  <1> QED
    BY <1>2, <1>7, <1>8, <1>9

(* The screen's invariant survives every step of the service. *)
LEMMA ScreenHoldsStep ==
    ASSUME ScreenHolds, [Next]_vars
    PROVE  ScreenHolds'
  <1> SUFFICES ASSUME part' = "workspace" PROVE Dialogue!ScreenInv'
    BY DEF ScreenHolds
  <1>1. part = "workspace" /\ Dialogue!ScreenInv
    BY DEF Next, vars, ScreenHolds
  <1>2. Screen!WorkspaceNext \/ UNCHANGED <<s1, s2, s3, s4, s5, s6, s7>>
    BY <1>1 DEF Next, vars, Given, Algorithms
  <1>3. [Dialogue!WorkspaceNext]_(Dialogue!workspaceVars)
    BY <1>2, SameScreen DEF Dialogue!workspaceVars
  <1> QED
    BY <1>1, <1>3, ScreenOfThisInstance, Dialogue!ScreenStep

(* A user who waits for transcripts sees one conversation and continues that one,
   with the question in flight on it, and no exchange is shown as pending but the one in
   flight (use-conversation.ts): the property ScreenIsOneConversation of this
   specification, from the theorem about the screen. *)
THEOREM ServiceShowsOneConversation ==
    Spec => []ScreenIsOneConversation
  <1>1. Init => ScreenHolds
    <2> SUFFICES ASSUME Init, part = "workspace" PROVE Dialogue!ScreenInv
      BY DEF ScreenHolds
    <2>1. Screen!WorkspaceInit
      BY DEF Init, Algorithms
    <2> QED
      BY <2>1, SameScreen, ScreenOfThisInstance, Dialogue!ScreenInitially
  <1>2. ScreenHolds /\ [Next]_vars => ScreenHolds'
    BY ScreenHoldsStep
  <1>3. ScreenHolds => ScreenIsOneConversation
    BY SameScreen DEF ScreenHolds, ScreenIsOneConversation, Dialogue!ScreenInv,
       Dialogue!ScreenIsOneConversation
  <1> QED
    BY <1>1, <1>2, <1>3, PTL DEF Spec

-----------------------------------------------------------------------------
(* The requests of this instance are well formed (Asks), and Nil is none of its
   conversations or threads. *)
LEMMA TranscriptsOfThisInstance ==
    Platform!TranscriptSettings
  <1>1. ASSUME NEW a \in Asks PROVE a \in [Turns -> Platform!Ask]
    <2>1. PICK third \in {<<"ann", "sales">>, <<"ann", "stock">>, <<"bob", "sales">>} :
             a = [t \in Turns |-> [subject |-> IF t = "t3" THEN third[1] ELSE "ann",
                                   source |-> IF t = "t3" THEN third[2] ELSE "sales",
                                   thread |-> "thread"]]
      BY <1>1, Zenon DEF Asks
    <2>2. third[1] \in {"ann", "bob"} /\ third[2] \in {"sales", "stock"}
      BY <2>1
    <2> QED
      BY <2>1, <2>2, SMTT(60) DEF Platform!Ask
  <1>2. Platform!Conversation = Conv!Conversation
    BY DEF Platform!Conversation, Conv!Conversation
  <1>3. Nil \notin Platform!Conversation \cup {"thread"}
    BY <1>2, NilAssumption
  <1>4. 3 \in Nat \ {0}
    OBVIOUS
  <1>5. Asks \subseteq [Turns -> Platform!Ask]
    BY <1>1
  <1> QED
    BY <1>3, <1>4, <1>5, Zenon DEF Platform!TranscriptSettings

(* The invariant of the transcripts, in the part that has them. *)
TranscriptsHold == part = "conversations" => Platform!TranscriptInv

(* The pages of PlatformProofs are those of the specification. *)
LEMMA SamePages ==
    /\ \A S : Conv!Cardinality(S) = Platform!Cardinality(S)
    /\ \A t : Conv!Sequences(t) = Platform!Sequences(t)
    /\ \A t : Conv!NextSequence(t) = Platform!NextSequence(t)
    /\ \A r, start : Conv!Turn(r, start) = Platform!Turn(r, start)
    /\ \A t, before : Conv!MessagesBefore(t, before) = Platform!MessagesBefore(t, before)
    /\ \A page : Conv!HasMore(page) <=> Platform!HasMore(page)
    /\ Conv!Closed = Platform!Closed
  <1>1. \A S : Conv!Cardinality(S) = Platform!Cardinality(S)
    BY Zenon DEF Conv!Cardinality, Platform!Cardinality
  <1>2. \A t : Conv!Sequences(t) = Platform!Sequences(t)
    BY Zenon DEF Conv!Sequences, Platform!Sequences
  <1>3. \A S : Conv!Max(S) = Platform!Max(S)
    BY Zenon DEF Conv!Max, Platform!Max
  <1>4. \A t : Conv!NextSequence(t) = Platform!NextSequence(t)
    BY <1>2, <1>3, Zenon DEF Conv!NextSequence, Platform!NextSequence
  <1>5. \A r, start : Conv!Turn(r, start) = Platform!Turn(r, start)
    BY Zenon DEF Conv!Turn, Platform!Turn
  <1>6. \A S : Conv!Ascending(S) = Platform!Ascending(S)
    BY Zenon DEF Conv!Ascending, Platform!Ascending, Conv!Cardinality, Platform!Cardinality
  <1>7. \A t, before : Conv!MessagesBefore(t, before) = Platform!MessagesBefore(t, before)
    BY <1>2, <1>6, Zenon DEF Conv!MessagesBefore, Platform!MessagesBefore
  <1>8. \A page : Conv!HasMore(page) <=> Platform!HasMore(page)
    BY Zenon DEF Conv!HasMore, Platform!HasMore
  <1>9. Conv!Closed = Platform!Closed
    BY Zenon DEF Conv!Closed, Platform!Closed
  <1> QED
    BY <1>1, <1>2, <1>4, <1>5, <1>7, <1>8, <1>9

(* The module PlatformProofs is about the same part as the specification
   (Conversations, with the turns of this instance). *)
LEMMA SameTranscripts ==
    /\ Conv!Init => Platform!Init
    /\ Conv!Next => Platform!Next
    /\ Platform!TranscriptIsWhole => Conv!TranscriptIsWhole
    /\ Platform!SavedOrWarned => Conv!SavedOrWarned
    /\ Platform!PagesAreSeamless => Conv!PagesAreSeamless
  <1>1. Conv!Init => Platform!Init
    BY SamePages, Zenon DEF Conv!Init, Platform!Init
  <1>2. ASSUME NEW r \in Turns
        PROVE  /\ Conv!Prepare(r) => Platform!Prepare(r)
               /\ Conv!Answer(r) => Platform!Answer(r)
               /\ Conv!Lookup(r) => Platform!Lookup(r)
               /\ Conv!Create(r) => Platform!Create(r)
               /\ Conv!Reread(r) => Platform!Reread(r)
               /\ Conv!StoreFails(r) => Platform!StoreFails(r)
    BY DEF Conv!Prepare, Platform!Prepare, Conv!Answer, Platform!Answer, Conv!Lookup,
           Platform!Lookup, Conv!Create, Platform!Create, Conv!Reread, Platform!Reread,
           Conv!StoreFails, Platform!StoreFails, Conv!Goto, Platform!Goto, Conv!Checked,
           Platform!Checked
  <1>3. ASSUME NEW r \in Turns
        PROVE  Conv!ReadNext(r) => Platform!ReadNext(r)
    BY SamePages, Zenon DEF Conv!ReadNext, Platform!ReadNext
  <1>4. ASSUME NEW r \in Turns
        PROVE  Conv!AppendTurn(r) => Platform!AppendTurn(r)
    BY SamePages, Zenon DEF Conv!AppendTurn, Platform!AppendTurn, Conv!Goto, Platform!Goto
  <1>5. ASSUME NEW s \in {"ann", "bob"}, NEW t \in {"thread"}
        PROVE  /\ Conv!Rename(s, t) => Platform!Rename(s, t)
               /\ Conv!Archive(s, t) => Platform!Archive(s, t)
    BY DEF Conv!Rename, Platform!Rename, Conv!Archive, Platform!Archive
  <1>6. ASSUME NEW s \in {"ann", "bob"}, NEW t \in {"thread"}
        PROVE  Conv!Open(s, t) => Platform!Open(s, t)
    <2>1. Conv!Listed(s) = Platform!Listed(s)
      BY Zenon DEF Conv!Listed, Platform!Listed
    <2> QED
      BY <2>1, SamePages, Zenon DEF Conv!Open, Platform!Open
  <1>7. Conv!LoadOlder => Platform!LoadOlder
    BY SamePages, Zenon DEF Conv!LoadOlder, Platform!LoadOlder
  <1>8. Conv!Next => Platform!Next
    BY <1>2, <1>3, <1>4, <1>5, <1>6, <1>7, Zenon
       DEF Conv!Next, Platform!Next, Conv!Step, Platform!Step
  <1>9. Platform!TranscriptIsWhole => Conv!TranscriptIsWhole
    BY SamePages, Zenon DEF Conv!TranscriptIsWhole, Platform!TranscriptIsWhole
  <1>10. Platform!SavedOrWarned => Conv!SavedOrWarned
    BY SamePages, Zenon DEF Conv!SavedOrWarned, Platform!SavedOrWarned
  <1>11. Platform!PagesAreSeamless => Conv!PagesAreSeamless
    BY Zenon DEF Conv!PagesAreSeamless, Platform!PagesAreSeamless
  <1> QED
    BY <1>1, <1>8, <1>9, <1>10, <1>11, Zenon

(* The transcripts' invariant survives every step of the service. *)
LEMMA TranscriptsHoldStep ==
    ASSUME TranscriptsHold, [Next]_vars
    PROVE  TranscriptsHold'
  <1> SUFFICES ASSUME part' = "conversations" PROVE Platform!TranscriptInv'
    BY SMTT(60) DEF TranscriptsHold
  <1>1. part = "conversations" /\ Platform!TranscriptInv
    BY DEF Next, vars, TranscriptsHold
  <1>2. Conv!Next \/ UNCHANGED <<s1, s2, s3, s4>>
    BY <1>1 DEF Next, vars, Given, Algorithms
  <1>3. [Platform!Next]_(Platform!vars)
    BY <1>2, SameTranscripts DEF Platform!vars
  <1> QED
    BY <1>1, <1>3, TranscriptsOfThisInstance, Platform!TranscriptStep

(* A transcript of the service is whole, an answer without the warning is in it, and
   its pages join (_record_conversation_turn in routes.py, append_turn and messages
   in postgres_conversations.py): the property TranscriptIsWhole of this
   specification, from the theorem about the transcripts. *)
THEOREM ServiceKeepsTranscripts ==
    Spec => []TranscriptIsWhole
  <1>1. Init => TranscriptsHold
    <2> SUFFICES ASSUME Init, part = "conversations" PROVE Platform!TranscriptInv
      BY DEF TranscriptsHold
    <2>1. Conv!Init
      BY SMTT(60) DEF Init, Algorithms
    <2> QED
      BY <2>1, SameTranscripts, TranscriptsOfThisInstance, Platform!TranscriptInitially
  <1>2. TranscriptsHold /\ [Next]_vars => TranscriptsHold'
    BY TranscriptsHoldStep
  <1>3. TranscriptsHold => TranscriptIsWhole
    <2> SUFFICES ASSUME TranscriptsHold, part = "conversations"
                 PROVE  Conv!TranscriptIsWhole /\ Conv!SavedOrWarned /\ Conv!PagesAreSeamless
      BY DEF TranscriptIsWhole
    <2>1. Platform!TranscriptIsWhole /\ Platform!SavedOrWarned /\ Platform!PagesAreSeamless
      BY TranscriptsOfThisInstance, Platform!SoundIsWhole DEF TranscriptsHold
    <2> QED
      BY <2>1, SameTranscripts, SMTT(60)
  <1> QED
    BY <1>1, <1>2, <1>3, PTL DEF Spec

-----------------------------------------------------------------------------
(* The invariants of the toolbox and of the model gateway, in their parts. *)
ToolboxHolds == part = "toolbox" => Dialogue!ToolboxInv /\ Dialogue!ToldInv
ModelsHold == part = "llm" => Dialogue!GatewayInv

(* The settings of this instance: times and bytes are numbers, Nil is no caller, a
   result is a sequence, and the calls are finitely many. *)
LEMMA ToolboxOfThisInstance ==
    /\ Dialogue!ToolboxSettings /\ Dialogue!ResultsAreSequences
    /\ Dialogue!IsFiniteSet(Calls)
  <1>1. Dialogue!ToolboxSettings
    BY NilAssumption DEF Dialogue!ToolboxSettings
  <1>2. Dialogue!ResultsAreSequences
    <2>1. Len(<<9>>) = 1 /\ Len(<<2, 2, 2>>) = 3
      OBVIOUS
    <2> QED
      BY <2>1 DEF Dialogue!ResultsAreSequences
  <1>3. Dialogue!IsFiniteSet(Calls)
    <2>1. IsFiniteSet(Calls)
      <3>1. IsFiniteSet({"c1"}) /\ IsFiniteSet({"c1"} \cup {"c2"})
        BY FS_Singleton, FS_AddElement
      <3>2. {"c1"} \cup {"c2"} = Calls
        BY DEF Calls
      <3> QED
        BY <3>1, <3>2, SMTT(60)
    <2> QED
      BY <2>1, Zenon DEF IsFiniteSet, Dialogue!IsFiniteSet
  <1> QED
    BY <1>1, <1>2, <1>3, SMTT(60)

(* The module DialogueProofs is about the same parts as the specification (Toolbox
   here, with the callers of this instance). *)
LEMMA SameToolbox ==
    /\ Tools!ToolboxInit => Dialogue!ToolboxInit
    /\ Tools!ToolboxNext => Dialogue!ToolboxNext
    /\ Dialogue!ReadsAreProved => Tools!ReadsAreProved
    /\ Dialogue!OneReader => Tools!OneReader
    /\ Dialogue!ToldTruly => Tools!ToldTruly
    /\ Tools!ToldByItsOwnBranch
  <1>1. Tools!Idle = Dialogue!Idle
    BY Zenon DEF Tools!Idle, Dialogue!Idle
  <1>2. \A r, pc, cause : Tools!Ended(r, pc, cause) = Dialogue!Ended(r, pc, cause)
    BY Zenon DEF Tools!Ended, Dialogue!Ended, Tools!RaisedFor, Dialogue!RaisedFor
  <1>3. \A pc, cause : Tools!RaisedFor(pc, cause) = Dialogue!RaisedFor(pc, cause)
    BY Zenon DEF Tools!RaisedFor, Dialogue!RaisedFor
  <1>4. /\ Tools!SchemaCacheValid <=> Dialogue!SchemaCacheValid
        /\ \A r, entry : Tools!Found(r, entry) = Dialogue!Found(r, entry)
        /\ \A r : Tools!Released(r) = Dialogue!Released(r)
    BY Zenon DEF Tools!SchemaCacheValid, Dialogue!SchemaCacheValid, Tools!Found, Dialogue!Found,
           Tools!Released, Dialogue!Released
  <1>5. \A rows : Tools!Bytes(rows) = Dialogue!Bytes(rows)
    BY Zenon DEF Tools!Bytes, Dialogue!Bytes, Tools!FoldFunction, Dialogue!FoldFunction,
           Tools!FoldFunctionOnSet, Dialogue!FoldFunctionOnSet, Tools!MapThenFoldSet,
           Dialogue!MapThenFoldSet
  <1>6. \A records : Tools!BoundedRows(records) = Dialogue!BoundedRows(records)
    BY <1>5, ZenonT(60) DEF Tools!BoundedRows, Dialogue!BoundedRows
  <1>7. \A class : Tools!NormalizeError(class) = Dialogue!NormalizeError(class)
    <2>1. Tools!Branches = Dialogue!Branches /\ Tools!Internal = Dialogue!Internal
      BY Zenon DEF Tools!Branches, Dialogue!Branches, Tools!Internal, Dialogue!Internal,
             Tools!Branch, Dialogue!Branch
    <2>2. \A class : Tools!Instances(class) = Dialogue!Instances(class)
      BY Zenon DEF Tools!Instances, Dialogue!Instances, Tools!Self, Dialogue!Self, Tools!Base,
             Dialogue!Base
    <2> QED
      BY ZenonT(90) DEF Tools!NormalizeError, Dialogue!NormalizeError, Tools!Branches,
             Dialogue!Branches, Tools!Internal, Dialogue!Internal, Tools!Branch, Dialogue!Branch,
             Tools!Instances, Dialogue!Instances, Tools!Self, Dialogue!Self, Tools!Base,
             Dialogue!Base
  <1>8. Tools!ToldByItsOwnBranch
    <2>1. Tools!Branches = Dialogue!Branches
      BY Zenon DEF Tools!Branches, Dialogue!Branches, Tools!Branch, Dialogue!Branch
    <2>2. Dialogue!ToldByItsOwnBranch
      BY Dialogue!EachByItsOwnBranch
    <2> QED
      BY <1>7, <2>1, <2>2, Zenon DEF Tools!ToldByItsOwnBranch, Dialogue!ToldByItsOwnBranch
  <1>9. Tools!ToolboxInit => Dialogue!ToolboxInit
    BY <1>1, Zenon DEF Tools!ToolboxInit, Dialogue!ToolboxInit
  <1>10. ASSUME NEW r \in Tokenholders
         PROVE  /\ \A op, sql : Tools!Begin(r, op, sql) => Dialogue!Begin(r, op, sql)
                /\ Tools!RefuseParameters(r) => Dialogue!RefuseParameters(r)
                /\ Tools!Ping(r) => Dialogue!Ping(r)
                /\ Tools!Search(r) => Dialogue!Search(r)
                /\ Tools!Enter(r) => Dialogue!Enter(r)
                /\ Tools!Serve(r) => Dialogue!Serve(r)
                /\ Tools!Verified(r) => Dialogue!Verified(r)
    <2>1. /\ \A op, sql : Tools!Begin(r, op, sql) => Dialogue!Begin(r, op, sql)
          /\ Tools!RefuseParameters(r) => Dialogue!RefuseParameters(r)
      BY <1>1, <1>3, Zenon DEF Tools!Begin, Dialogue!Begin, Tools!RefuseParameters,
             Dialogue!RefuseParameters
    <2>2. /\ Tools!Ping(r) => Dialogue!Ping(r)
          /\ Tools!Search(r) => Dialogue!Search(r)
      BY <1>2, <1>4, Zenon DEF Tools!Ping, Dialogue!Ping, Tools!Search, Dialogue!Search
    <2>3. /\ Tools!Enter(r) => Dialogue!Enter(r)
          /\ Tools!Serve(r) => Dialogue!Serve(r)
          /\ Tools!Verified(r) => Dialogue!Verified(r)
      BY <1>2, <1>4, ZenonT(60) DEF Tools!Enter, Dialogue!Enter, Tools!Serve, Dialogue!Serve,
             Tools!Verified, Dialogue!Verified
    <2> QED
      BY <2>1, <2>2, <2>3
  <1>11. ASSUME NEW r \in Tokenholders
         PROVE  /\ Tools!Store(r) => Dialogue!Store(r)
                /\ Tools!Validate(r) => Dialogue!Validate(r)
                /\ Tools!Run(r) => Dialogue!Run(r)
                /\ Tools!InvocationFails(r) => Dialogue!InvocationFails(r)
    <2>1. Tools!Run(r) => Dialogue!Run(r)
      BY <1>2, <1>6, Zenon DEF Tools!Run, Dialogue!Run
    <2>2. /\ Tools!Store(r) => Dialogue!Store(r)
          /\ Tools!Validate(r) => Dialogue!Validate(r)
          /\ Tools!InvocationFails(r) => Dialogue!InvocationFails(r)
      BY <1>2, <1>4, Zenon DEF Tools!Store, Dialogue!Store, Tools!Validate, Dialogue!Validate,
             Tools!InvocationFails, Dialogue!InvocationFails
    <2> QED
      BY <2>1, <2>2, SMTT(60)
  <1>12. /\ Tools!AlterRole => Dialogue!AlterRole
         /\ Tools!AlterSchema => Dialogue!AlterSchema
         /\ Tools!Tick => Dialogue!Tick
    BY Zenon DEF Tools!AlterRole, Dialogue!AlterRole, Tools!AlterSchema, Dialogue!AlterSchema,
           Tools!Tick, Dialogue!Tick
  <1>13. Tools!ToolboxNext => Dialogue!ToolboxNext
    BY <1>10, <1>11, <1>12, Zenon DEF Tools!ToolboxNext, Dialogue!ToolboxNext
  <1>14. /\ Dialogue!ReadsAreProved => Tools!ReadsAreProved
         /\ Dialogue!OneReader => Tools!OneReader
    BY Zenon DEF Tools!ReadsAreProved, Dialogue!ReadsAreProved, Tools!OneReader,
           Dialogue!OneReader
  <1>15. Dialogue!ToldTruly => Tools!ToldTruly
    BY <1>5, <1>7, Zenon DEF Tools!ToldTruly, Dialogue!ToldTruly
  <1> QED
    BY <1>8, <1>9, <1>13, <1>14, <1>15

(* The toolbox's invariants survive every step of the service. *)
LEMMA ToolboxHoldsStep ==
    ASSUME ToolboxHolds, [Next]_vars
    PROVE  ToolboxHolds'
  <1> SUFFICES ASSUME part' = "toolbox" PROVE Dialogue!ToolboxInv' /\ Dialogue!ToldInv'
    BY DEF ToolboxHolds
  <1>1. part = "toolbox" /\ Dialogue!ToolboxInv /\ Dialogue!ToldInv
    BY DEF Next, vars, ToolboxHolds
  <1>2. Tools!ToolboxNext \/ UNCHANGED <<s1, s2, s3, s4, s5, s6, s7, s8>>
    BY <1>1 DEF Next, vars, Given, Algorithms
  <1>3. [Dialogue!ToolboxNext]_(Dialogue!toolboxVars)
    BY <1>2, SameToolbox, SMTT(60) DEF Dialogue!toolboxVars
  <1> QED
    BY <1>1, <1>3, ToolboxOfThisInstance, Dialogue!ToolboxStep, Dialogue!ToldStep

(* Likewise for the model gateway (ModelGateway). *)
LEMMA SameModels ==
    /\ Llm!GatewayInit => Dialogue!GatewayInit
    /\ Llm!GatewayNext => Dialogue!GatewayNext
    /\ Dialogue!EveryReplyIsAccounted => Llm!EveryReplyIsAccounted
    /\ Dialogue!FailureIsNamed => Llm!FailureIsNamed
  <1>1. \A f : Llm!Category(f) = Dialogue!Category(f)
    BY ZenonT(60) DEF Llm!Category, Dialogue!Category
  <1>2. \A f : Llm!Raised(f) = Dialogue!Raised(f)
    <2>1. \A f, category : Llm!RaisedOn(f, category) = Dialogue!RaisedOn(f, category)
      BY ZenonT(90) DEF Llm!RaisedOn, Dialogue!RaisedOn
    <2> QED
      BY <1>1, <2>1, Zenon DEF Llm!Raised, Dialogue!Raised
  <1>3. \A r : Llm!Read(r) = Dialogue!Read(r)
    BY Zenon DEF Llm!Read, Dialogue!Read
  <1>4. Llm!GatewayInit => Dialogue!GatewayInit
    BY Zenon DEF Llm!GatewayInit, Dialogue!GatewayInit, Llm!Ends, Dialogue!Ends
  <1>5. ASSUME NEW c \in Calls
        PROVE  /\ Llm!UnknownAlias(c) => Dialogue!UnknownAlias(c)
               /\ Llm!Request(c) => Dialogue!Request(c)
               /\ \A r : Llm!Answered(c, r) => Dialogue!Answered(c, r)
               /\ \A f : Llm!Failed(c, f) => Dialogue!Failed(c, f)
    BY <1>2, <1>3, Zenon
       DEF Llm!UnknownAlias, Dialogue!UnknownAlias, Llm!Request, Dialogue!Request, Llm!Answered,
           Dialogue!Answered, Llm!Failed, Dialogue!Failed, Llm!Ends, Dialogue!Ends
  <1>6. Llm!GatewayNext => Dialogue!GatewayNext
    BY <1>5, Zenon DEF Llm!GatewayNext, Dialogue!GatewayNext
  <1>7. \A c : Llm!Class(c) = Dialogue!Class(c)
    BY Zenon DEF Llm!Class, Dialogue!Class
  <1>8. \A S : Llm!Cardinality(S) = Dialogue!Cardinality(S)
    BY Zenon DEF Llm!Cardinality, Dialogue!Cardinality
  <1>9. Dialogue!EveryReplyIsAccounted => Llm!EveryReplyIsAccounted
    BY <1>7, <1>8, Zenon DEF Llm!EveryReplyIsAccounted, Dialogue!EveryReplyIsAccounted
  <1>10. \A class : Llm!Normalized(class) = Dialogue!Normalized(class)
    BY Zenon DEF Llm!Normalized, Dialogue!Normalized
  <1>11. \A f, class : Dialogue!IsNamed(f, class) => Llm!IsNamed(f, class)
    BY <1>1, <1>10, ZenonT(60) DEF Llm!IsNamed, Dialogue!IsNamed
  <1>12. Dialogue!FailureIsNamed => Llm!FailureIsNamed
    BY <1>7, <1>11, Zenon DEF Llm!FailureIsNamed, Dialogue!FailureIsNamed
  <1> QED
    BY <1>4, <1>6, <1>9, <1>12

(* The gateway's invariant survives every step of the service. *)
LEMMA ModelsHoldStep ==
    ASSUME ModelsHold, [Next]_vars
    PROVE  ModelsHold'
  <1> SUFFICES ASSUME part' = "llm" PROVE Dialogue!GatewayInv'
    BY DEF ModelsHold
  <1>1. part = "llm" /\ Dialogue!GatewayInv
    BY DEF Next, vars, ModelsHold
  <1>2. Llm!GatewayNext \/ UNCHANGED <<s1, s2, s3, s4, s5>>
    BY <1>1, SMTT(60) DEF Next, vars, Given, Algorithms
  <1>3. [Dialogue!GatewayNext]_(Dialogue!gvars)
    BY <1>2, SameModels DEF Dialogue!gvars
  <1> QED
    BY <1>1, <1>3, ToolboxOfThisInstance, Dialogue!GatewayStep

(* Every reply of a model of the service is accounted, and its failures and the
   toolbox's are told as what they are (litellm_gateway.py, toolbox.py,
   normalize_error in errors.py): the property EveryReplyIsAccounted of this
   specification, from the theorems about the two. *)
THEOREM ServiceAccountsReplies ==
    Spec => []EveryReplyIsAccounted
  <1>1. Init => ToolboxHolds /\ ModelsHold
    <2>1. ASSUME Init, part = "toolbox" PROVE Dialogue!ToolboxInv /\ Dialogue!ToldInv
      <3>1. Tools!ToolboxInit
        BY <2>1 DEF Init, Algorithms
      <3> QED
        BY <3>1, SameToolbox, ToolboxOfThisInstance, Dialogue!ToolboxInitially,
           Dialogue!ToldInitially
    <2>2. ASSUME Init, part = "llm" PROVE Dialogue!GatewayInv
      <3>1. Llm!GatewayInit
        BY <2>2 DEF Init, Algorithms
      <3> QED
        BY <3>1, SameModels, Dialogue!GatewayInitially
    <2> QED
      BY <2>1, <2>2 DEF ToolboxHolds, ModelsHold
  <1>2. (ToolboxHolds /\ ModelsHold) /\ [Next]_vars => (ToolboxHolds /\ ModelsHold)'
    BY ToolboxHoldsStep, ModelsHoldStep, SMTT(60)
  <1>3. ToolboxHolds /\ ModelsHold => EveryReplyIsAccounted
    <2>1. ASSUME ToolboxHolds, part = "toolbox"
          PROVE  Tools!ToldTruly /\ Tools!ToldByItsOwnBranch
      <3>1. Dialogue!ToldTruly
        BY <2>1, ToolboxOfThisInstance, Dialogue!ToldSound, SMTT(60) DEF ToolboxHolds
      <3> QED
        BY <3>1, SameToolbox, SMTT(60)
    <2>2. ASSUME ModelsHold, part = "llm"
          PROVE  Llm!EveryReplyIsAccounted /\ Llm!FailureIsNamed
      <3>1. Dialogue!EveryReplyIsAccounted /\ Dialogue!FailureIsNamed
        BY <2>2, Dialogue!GatewaySound, SMTT(60) DEF ModelsHold
      <3> QED
        BY <3>1, SameModels
    <2> QED
      BY <2>1, <2>2, SMTT(60) DEF EveryReplyIsAccounted
  <1> QED
    BY <1>1, <1>2, <1>3, PTL DEF Spec

-----------------------------------------------------------------------------
(* The invariant of a preview, in its part. *)
PreviewsHold == part = "previews" => Platform!PreviewInv

(* The settings of this instance: a table is a record of one schema, and a foreign key
   refers to a column. *)
LEMMA TablesOfThisInstance ==
    Platform!PreviewSettings /\ Platform!TablesSound({Employees, Payroll})
  <1>1. /\ DOMAIN Employees = Platform!TableFields /\ DOMAIN Payroll = Platform!TableFields
        /\ Employees.name = "hr.employees" /\ Payroll.name = "hr.payroll"
        /\ Employees.schema = "hr" /\ Payroll.schema = "hr"
        /\ Employees.foreign = {} /\ \A k \in Payroll.foreign : k.referenced = {"id"}
    BY DEF Employees, Payroll, Platform!TableFields
  <1>2. UNION HumanResources = {Employees, Payroll}
    BY DEF HumanResources
  <1>3. Platform!PreviewSettings
    BY <1>1, <1>2, SMTT(60) DEF Platform!PreviewSettings
  <1>4. Platform!TablesSound({Employees, Payroll})
    BY <1>1 DEF Platform!TablesSound
  <1> QED
    BY <1>3, <1>4

(* The policies of PlatformProofs are those of this instance (Authorization). *)
LEMMA SamePolicies ==
    /\ \A grants, tables, metrics :
          /\ Preview!LocalDecision(grants, tables, metrics)
                = Platform!LocalDecision(grants, tables, metrics)
          /\ Preview!RegoDecision(grants, tables, metrics)
                = Platform!RegoDecision(grants, tables, metrics)
    /\ \A tables, decision :
          Preview!FilterAuthorizedSchema(tables, decision)
             = Platform!FilterAuthorizedSchema(tables, decision)
    /\ \A grants, tables, metrics :
          Platform!PoliciesAgree(grants, tables, metrics)
             => Preview!PoliciesAgree(grants, tables, metrics)
  <1>1. /\ \A values, candidate :
              Preview!GrantAllows(values, candidate) <=> Platform!GrantAllows(values, candidate)
        /\ \A g, name : Preview!Denied(g, name) = Platform!Denied(g, name)
    BY Zenon DEF Preview!GrantAllows, Platform!GrantAllows, Preview!Denied, Platform!Denied
  <1>2. /\ \A grants, tables, metrics :
              Preview!LocalDecision(grants, tables, metrics)
                 = Platform!LocalDecision(grants, tables, metrics)
        /\ \A grants, tables, metrics :
              Preview!RegoDecision(grants, tables, metrics)
                 = Platform!RegoDecision(grants, tables, metrics)
    BY Zenon DEF Preview!LocalDecision, Platform!LocalDecision, Preview!RegoDecision,
           Platform!RegoDecision, Preview!Decision, Platform!Decision, Preview!GrantedColumns,
           Platform!GrantedColumns, Preview!GrantedMetrics, Platform!GrantedMetrics,
           Preview!GrantAllowsColumn, Platform!GrantAllowsColumn, Preview!GrantAllowsTable,
           Platform!GrantAllowsTable, Preview!GrantAllows, Platform!GrantAllows, Preview!Denied,
           Platform!Denied
  <1>3. \A decision, name : Preview!ColumnsFor(decision, name) = Platform!ColumnsFor(decision, name)
    BY Zenon DEF Preview!ColumnsFor, Platform!ColumnsFor
  <1>4. \A tables, decision :
           Preview!FilterAuthorizedSchema(tables, decision)
              = Platform!FilterAuthorizedSchema(tables, decision)
    BY Zenon DEF Preview!FilterAuthorizedSchema, Platform!FilterAuthorizedSchema,
           Preview!ForeignKeyIsAuthorized, Platform!ForeignKeyIsAuthorized, Preview!ColumnsFor,
           Platform!ColumnsFor
  <1>5. /\ \A tables : Platform!ClosedUnderKeys(tables) => Preview!ClosedUnderKeys(tables)
        /\ \A decision, tables, metrics :
              Platform!ValidateScopeSubset(decision, tables, metrics)
                 => Preview!ValidateScopeSubset(decision, tables, metrics)
    BY Zenon DEF Platform!ClosedUnderKeys, Preview!ClosedUnderKeys, Platform!ValidateScopeSubset,
           Preview!ValidateScopeSubset
  <1>6. \A grants, tables, metrics :
           Platform!PoliciesAgree(grants, tables, metrics)
              => Preview!PoliciesAgree(grants, tables, metrics)
    BY <1>2, <1>4, <1>5, ZenonT(60) DEF Platform!PoliciesAgree, Preview!PoliciesAgree
  <1> QED
    BY <1>2, <1>4, <1>6

(* The module PlatformProofs is about the same previews (ColumnPreviews). *)
LEMMA SamePreviews ==
    /\ Preview!PreviewInit => Platform!PreviewInit
    /\ Preview!PreviewNext => Platform!PreviewNext
    /\ Platform!PreviewIsPermitted => Preview!PreviewIsPermitted
  <1>1. Preview!Idle = Platform!Idle /\ Preview!Names = Platform!Names
    BY Zenon DEF Preview!Idle, Platform!Idle, Preview!Names, Platform!Names
  <1>2. \A c : Preview!Now(c) = Platform!Now(c) /\ Preview!Now(c)' = Platform!Now(c)'
    BY Zenon DEF Preview!Now, Platform!Now, Preview!Readable, Platform!Readable, Preview!Sensitive,
           Platform!Sensitive, Preview!GrantAllowsColumn, Platform!GrantAllowsColumn,
           Preview!GrantAllowsTable, Platform!GrantAllowsTable, Preview!GrantAllows,
           Platform!GrantAllows, Preview!Denied, Platform!Denied
  <1>3. Preview!PreviewInit => Platform!PreviewInit
    BY <1>1, Zenon DEF Preview!PreviewInit, Platform!PreviewInit
  <1>4. \A from, new : Preview!PreviewStep(from, new) => Platform!PreviewStep(from, new)
    BY Zenon DEF Preview!PreviewStep, Platform!PreviewStep
  <1>5. Preview!BeginPreview => Platform!BeginPreview
    <2>1. \A grants, tables : Preview!RequireKnowledgeReviewer(grants, tables)
                              <=> Platform!RequireKnowledgeReviewer(grants, tables)
      BY SamePolicies, Zenon DEF Preview!RequireKnowledgeReviewer,
             Platform!RequireKnowledgeReviewer
    <2> QED
      BY <1>1, <1>2, <2>1, Zenon DEF Preview!BeginPreview, Platform!BeginPreview
  <1>6. Preview!ScanMetadata => Platform!ScanMetadata
    BY <1>4, Zenon DEF Preview!ScanMetadata, Platform!ScanMetadata
  <1>7. Preview!Authorize => Platform!Authorize
    BY <1>1, <1>4, SamePolicies, Zenon DEF Preview!Authorize, Platform!Authorize
  <1>8. Preview!Govern => Platform!Govern
    BY <1>4, Zenon DEF Preview!Govern, Platform!Govern
  <1>9. Preview!LoadModel => Platform!LoadModel
    <2>1. \A authorized, governed : Preview!PreviewableColumns(authorized, governed)
                                    = Platform!PreviewableColumns(authorized, governed)
      BY Zenon DEF Preview!PreviewableColumns, Platform!PreviewableColumns
    <2> QED
      BY <1>1, <1>4, <2>1, Zenon DEF Preview!LoadModel, Platform!LoadModel
  <1>10. Preview!Sample => Platform!Sample
    BY <1>4, Zenon DEF Preview!Sample, Platform!Sample
  <1>11. /\ Preview!Fail => Platform!Fail
         /\ Preview!Done => Platform!Done
    BY <1>1, <1>4, Zenon DEF Preview!Fail, Platform!Fail, Preview!Done, Platform!Done
  <1>12. Preview!Change => Platform!Change
    BY <1>1, <1>2, Zenon DEF Preview!Change, Platform!Change
  <1>13. Preview!PreviewNext => Platform!PreviewNext
    BY <1>5, <1>6, <1>7, <1>8, <1>9, <1>10, <1>11, <1>12, ZenonT(60)
       DEF Preview!PreviewNext, Platform!PreviewNext
  <1>14. Platform!PreviewIsPermitted => Preview!PreviewIsPermitted
    BY Zenon DEF Platform!PreviewIsPermitted, Preview!PreviewIsPermitted
  <1> QED
    BY <1>3, <1>13, <1>14

(* The invariant of a preview survives every step of the service. *)
LEMMA PreviewsHoldStep ==
    ASSUME PreviewsHold, [Next]_vars
    PROVE  PreviewsHold'
  <1> SUFFICES ASSUME part' = "previews" PROVE Platform!PreviewInv'
    BY DEF PreviewsHold
  <1>1. part = "previews" /\ Platform!PreviewInv
    BY DEF Next, vars, PreviewsHold
  <1>2. Preview!PreviewNext \/ UNCHANGED <<s1, s2, s3, s4, s5, s6, s7>>
    BY <1>1 DEF Next, vars, Given, Algorithms
  <1>3. [Platform!PreviewNext]_(Platform!previewVars)
    BY <1>2, SamePreviews DEF Platform!previewVars
  <1> QED
    BY <1>1, <1>3, TablesOfThisInstance, Platform!PreviewInvStep

(* What the service reads is permitted: by the database's role, by the policy under
   either engine and, for a previewed value, at some time of the request (toolbox.py,
   authorization, list_column_previews in knowledge_routes.py): the property
   ReadsArePermitted of this specification, from the theorems about the three. *)
THEOREM ServiceReadsWhatIsPermitted ==
    Spec => []ReadsArePermitted
  <1>1. Init => ToolboxHolds /\ PreviewsHold
    <2>1. ASSUME Init, part = "toolbox" PROVE Dialogue!ToolboxInv /\ Dialogue!ToldInv
      <3>1. Tools!ToolboxInit
        BY <2>1 DEF Init, Algorithms
      <3> QED
        BY <3>1, SameToolbox, ToolboxOfThisInstance, Dialogue!ToolboxInitially,
           Dialogue!ToldInitially
    <2>2. ASSUME Init, part = "previews" PROVE Platform!PreviewInv
      <3>1. Preview!PreviewInit
        BY <2>2 DEF Init, Algorithms
      <3> QED
        BY <3>1, SamePreviews, TablesOfThisInstance, Platform!PreviewInitially
    <2> QED
      BY <2>1, <2>2 DEF ToolboxHolds, PreviewsHold
  <1>2. (ToolboxHolds /\ PreviewsHold) /\ [Next]_vars => (ToolboxHolds /\ PreviewsHold)'
    BY ToolboxHoldsStep, PreviewsHoldStep
  <1>3. ToolboxHolds /\ PreviewsHold => ReadsArePermitted
    <2>1. ASSUME ToolboxHolds, part = "toolbox" PROVE Tools!ReadsAreProved /\ Tools!OneReader
      <3>1. Dialogue!ReadsAreProved /\ Dialogue!OneReader
        BY <2>1, ToolboxOfThisInstance, Dialogue!ToolboxSound, SMTT(60) DEF ToolboxHolds
      <3> QED
        BY <3>1, SameToolbox, SMTT(60)
    <2>2. ASSUME PreviewsHold, part = "previews" PROVE Preview!PreviewIsPermitted
      <3>1. Platform!PreviewIsPermitted
        BY <2>2, Platform!PreviewSound, SMTT(60) DEF PreviewsHold
      <3> QED
        BY <3>1, SamePreviews
    <2>3. Preview!PoliciesAgree(s1, {Employees, Payroll}, {"m1", "m2"})
      BY TablesOfThisInstance, Platform!PoliciesAlwaysAgree, SamePolicies, SMTT(60)
    <2> QED
      BY <2>1, <2>2, <2>3 DEF ReadsArePermitted
  <1> QED
    BY <1>1, <1>2, <1>3, PTL DEF Spec

-----------------------------------------------------------------------------
(* The invariant of the quality checks, and the inputs of the verdicts. *)
QualityHolds == part = "quality" => Platform!QualityInv
VerdictInputs == Chosen("verdicts") => s1 \in QualityInputs

(* The settings of this instance: the history keeps one verdict, and the runs are
   finitely many. *)
LEMMA QualityOfThisInstance == Platform!QualitySettings
  <1>1. Platform!IsFiniteSet(Checkers)
    BY CheckersAssumption, Zenon DEF IsFiniteSet, Platform!IsFiniteSet
  <1> QED
    BY <1>1, SMTT(60) DEF Platform!QualitySettings

(* The module PlatformProofs is about the same checks (QualityChecks). *)
LEMMA SameVerdicts ==
    /\ \A a, table : Quality!Observed(a, table) = Platform!Observed(a, table)
    /\ \A a, observed : Quality!Interpret(a, observed) = Platform!Interpret(a, observed)
    /\ \A a, table : Platform!VerdictIsTrue(a, table) => Quality!VerdictIsTrue(a, table)
  <1>1. /\ \A S : Quality!Cardinality(S) = Platform!Cardinality(S)
        /\ \A S : Quality!Min(S) = Platform!Min(S)
        /\ \A n : Quality!Whole(n) = Platform!Whole(n)
    BY Zenon DEF Quality!Cardinality, Platform!Cardinality, Quality!Min, Platform!Min,
           Quality!Whole, Platform!Whole
  <1>2. /\ \A table : Quality!Nulls(table) = Platform!Nulls(table)
        /\ \A table, values : Quality!NotAccepted(table, values) = Platform!NotAccepted(table, values)
    BY <1>1, Zenon DEF Quality!Nulls, Platform!Nulls, Quality!NotAccepted, Platform!NotAccepted
  <1>3. \A a, table : Quality!Observed(a, table) = Platform!Observed(a, table)
    BY <1>1, <1>2, Zenon DEF Quality!Observed, Platform!Observed
  <1>4. \A a, observed : Quality!Interpret(a, observed) = Platform!Interpret(a, observed)
    BY ZenonT(60) DEF Quality!Interpret, Platform!Interpret
  <1>5. \A a, table : Platform!Satisfies(a, table) <=> Quality!Satisfies(a, table)
    BY <1>2, ZenonT(60) DEF Quality!Satisfies, Platform!Satisfies
  <1>6. \A a, table : Platform!VerdictIsTrue(a, table) => Quality!VerdictIsTrue(a, table)
    BY <1>3, <1>4, <1>5, Zenon DEF Quality!VerdictIsTrue, Platform!VerdictIsTrue
  <1> QED
    BY <1>3, <1>4, <1>6, SMTT(60)

LEMMA SameQuality ==
    /\ Quality!QualityInit => Platform!QualityInit
    /\ Quality!QualityNext => Platform!QualityNext
    /\ Platform!NewestVerdictStands => Quality!NewestVerdictStands
  <1>1. /\ Quality!Ids = Platform!Ids /\ Quality!NotRunning = Platform!NotRunning
        /\ Quality!NoResult = Platform!NoResult
    BY Zenon DEF Quality!Ids, Platform!Ids, Quality!NotRunning, Platform!NotRunning,
           Quality!NoResult, Platform!NoResult
  <1>2. \A n, verdicts : Quality!Newest(n, verdicts) = Platform!Newest(n, verdicts)
    BY Zenon DEF Quality!Newest, Platform!Newest, Quality!Cardinality, Platform!Cardinality
  <1>3. \A d : Quality!Verdict(d) = Platform!Verdict(d)
    BY Zenon DEF Quality!Verdict, Platform!Verdict
  <1>4. Quality!QualityInit => Platform!QualityInit
    BY <1>1, Zenon DEF Quality!QualityInit, Platform!QualityInit
  <1>5. ASSUME NEW r \in Checkers
        PROVE  /\ Quality!StartRun(r) => Platform!StartRun(r)
               /\ Quality!Check(r) => Platform!Check(r)
               /\ Quality!RecordBegins(r) => Platform!RecordBegins(r)
               /\ Quality!RecordCommits(r) => Platform!RecordCommits(r)
               /\ Quality!EndRun(r) => Platform!EndRun(r)
    <2>1. Quality!StartRun(r) => Platform!StartRun(r)
      BY <1>1, Zenon DEF Quality!StartRun, Platform!StartRun, Quality!Ids, Platform!Ids
    <2>2. Quality!Check(r) => Platform!Check(r)
      BY SameVerdicts, Zenon DEF Quality!Check, Platform!Check
    <2>3. Quality!RecordBegins(r) => Platform!RecordBegins(r)
      BY <1>2, <1>3, Zenon DEF Quality!RecordBegins, Platform!RecordBegins
    <2>4. Quality!RecordCommits(r) => Platform!RecordCommits(r)
      BY <1>3, Zenon DEF Quality!RecordCommits, Platform!RecordCommits
    <2>5. Quality!EndRun(r) => Platform!EndRun(r)
      BY <1>1, Zenon DEF Quality!EndRun, Platform!EndRun
    <2> QED
      BY <2>1, <2>2, <2>3, <2>4, <2>5
  <1>6. /\ Quality!Load => Platform!Load
        /\ Quality!ToggleWrites => Platform!ToggleWrites
        /\ \A i : Quality!ToggleReads(i) => Platform!ToggleReads(i)
    BY Zenon DEF Quality!Load, Platform!Load, Quality!ToggleWrites, Platform!ToggleWrites,
           Quality!ToggleReads, Platform!ToggleReads
  <1>7. Quality!QualityNext => Platform!QualityNext
    BY <1>1, <1>5, <1>6, Zenon DEF Quality!QualityNext, Platform!QualityNext
  <1>8. Platform!NewestVerdictStands => Quality!NewestVerdictStands
    <2>1. \A i : Quality!Latest(i) = Platform!Latest(i)
      BY <1>2, Zenon DEF Quality!Latest, Platform!Latest
    <2>2. Quality!Concerning = Platform!Concerning
      BY Zenon DEF Quality!Concerning, Platform!Concerning
    <2>3. Quality!Warned = Platform!Warned
      BY <1>1, <2>1, <2>2, ZenonT(60) DEF Quality!Warned, Platform!Warned, Quality!Ids, Platform!Ids,
             Quality!Latest, Platform!Latest, Quality!Newest, Platform!Newest,
             Quality!Cardinality, Platform!Cardinality, Quality!Concerning, Platform!Concerning
    <2>4. \A S : Quality!Cardinality(S) = Platform!Cardinality(S)
      BY Zenon DEF Quality!Cardinality, Platform!Cardinality
    <2> QED
      BY <1>1, <2>1, <2>2, <2>3, <2>4, Zenon
      DEF Quality!NewestVerdictStands, Platform!NewestVerdictStands
  <1> QED
    BY <1>4, <1>7, <1>8

(* The invariant of the quality checks survives every step of the service. *)
LEMMA QualityHoldsStep ==
    ASSUME QualityHolds, [Next]_vars
    PROVE  QualityHolds'
  <1> SUFFICES ASSUME part' = "quality" PROVE Platform!QualityInv'
    BY DEF QualityHolds
  <1>1. part = "quality" /\ Platform!QualityInv
    BY DEF Next, vars, QualityHolds
  <1>2. Quality!QualityNext \/ UNCHANGED <<s1, s2, s3, s4, s5, s6, s7>>
    BY <1>1 DEF Next, vars, Given, Algorithms
  <1>3. [Platform!QualityNext]_(Platform!qualityVars)
    BY <1>2, SameQuality, SMTT(60) DEF Platform!qualityVars
  <1> QED
    BY <1>1, <1>3, QualityOfThisInstance, Platform!QualityInvStep

(* An input is chosen once and kept. *)
LEMMA VerdictInputsStep ==
    ASSUME VerdictInputs, [Next]_vars
    PROVE  VerdictInputs'
  <1> SUFFICES ASSUME part' = "verdicts", s1' # Nil PROVE s1' \in QualityInputs
    BY DEF VerdictInputs, Chosen, QualityInputs
  <1>1. part = "verdicts"
    BY DEF Next, vars
  <1>2. Given("verdicts", QualityInputs) \/ UNCHANGED s1
    BY <1>1 DEF Next, vars, Given
  <1>3. CASE UNCHANGED s1
    BY <1>1, <1>3, SMTT(60) DEF VerdictInputs, Chosen
  <1>4. CASE Given("verdicts", QualityInputs)
    BY <1>4 DEF Given
  <1> QED
    BY <1>2, <1>3, <1>4, SMTT(60)

(* Each input of this instance is an assertion and a table. *)
LEMMA VerdictInputsAreSound ==
    ASSUME NEW input \in QualityInputs
    PROVE  Platform!AssertionSound(input.assertion) /\ Platform!IsTable(input.table)
  <1> DEFINE Rows == [age : {1, 2, 3, 4, Nil}, value : {1, 2, Nil}]
             a == input.assertion
  <1>1. a \in Assertions /\ input.table \in UpTo(2, Rows)
    BY DEF QualityInputs
  <1>2. PICK k \in 0..2 : input.table \in [1..k -> Rows]
    BY <1>1 DEF UpTo
  <1>3. input.table \in Seq([age : Nat \cup {Nil}, value : {1, 2, Nil}])
    <2> DEFINE Wide == [age : Nat \cup {Nil}, value : {1, 2, Nil}]
    <2>1. Rows \subseteq Wide
      OBVIOUS
    <2> HIDE DEF Rows, Wide
    <2>2. input.table \in [1..k -> Wide]
      BY <1>2, <2>1, SMTT(60)
    <2>3. input.table \in Seq(Wide)
      BY <2>2
    <2> QED
      BY <2>3 DEF Wide
  <1>4. Platform!IsTable(input.table)
    BY <1>3 DEF Platform!IsTable
  <1>5. Platform!AssertionSound(a)
    BY <1>1 DEF Assertions, Platform!AssertionSound
  <1> QED
    BY <1>4, <1>5, SMTT(60)

(* The verdict the service shows is the newest recorded and true of the table it was
   measured on (record and latest in postgres_quality.py, interpret in quality.py): the
   property NewestVerdictStands of this specification, from the theorems about the
   two. *)
THEOREM ServiceShowsNewestVerdict ==
    Spec => []NewestVerdictStands
  <1>1. Init => QualityHolds /\ VerdictInputs
    <2>1. ASSUME Init, part = "quality" PROVE Platform!QualityInv
      <3>1. Quality!QualityInit
        BY <2>1 DEF Init, Algorithms
      <3> QED
        BY <3>1, SameQuality, QualityOfThisInstance, Platform!QualityInitially
    <2>2. ASSUME Init PROVE VerdictInputs
      BY <2>2 DEF Init, Algorithms, VerdictInputs, Chosen
    <2> QED
      BY <2>1, <2>2, SMTT(60) DEF QualityHolds
  <1>2. (QualityHolds /\ VerdictInputs) /\ [Next]_vars => (QualityHolds /\ VerdictInputs)'
    BY QualityHoldsStep, VerdictInputsStep
  <1>3. QualityHolds /\ VerdictInputs => NewestVerdictStands
    <2>1. ASSUME QualityHolds, part = "quality" PROVE Quality!NewestVerdictStands
      <3>1. Platform!NewestVerdictStands
        BY <2>1, Platform!QualitySound, SMTT(60) DEF QualityHolds
      <3> QED
        BY <3>1, SameQuality
    <2>2. ASSUME VerdictInputs, Chosen("verdicts")
          PROVE  Quality!VerdictIsTrue(s1.assertion, s1.table)
      <3>1. Platform!VerdictIsTrue(s1.assertion, s1.table)
        BY <2>2, VerdictInputsAreSound, Platform!VerdictsAlwaysTrue, SMTT(60) DEF VerdictInputs
      <3> QED
        BY <3>1, SameVerdicts, SMTT(60)
    <2> QED
      BY <2>1, <2>2 DEF NewestVerdictStands
  <1> QED
    BY <1>1, <1>2, <1>3, PTL DEF Spec

-----------------------------------------------------------------------------
(* The invariant of the metrics, and the inputs of the joins. *)
SelectionHolds == part = "metrics" => Platform!SelectionInv
JoinInputs == Chosen("joins") => s1 \in SliceInputs

(* The settings of this instance. *)
LEMMA MetricsOfThisInstance == Platform!SelectionSettings
  <1>1. IsFiniteSet({"m1", "m2", "m3"})
    <2>1. IsFiniteSet(({"m1"} \cup {"m2"}) \cup {"m3"})
      BY FS_Singleton, FS_AddElement
    <2> QED
      BY <2>1
  <1>2. Platform!IsFiniteSet({"m1", "m2", "m3"})
    BY <1>1, Zenon DEF IsFiniteSet, Platform!IsFiniteSet
  <1> QED
    BY <1>2 DEF Platform!SelectionSettings

(* The module PlatformProofs is about the same metrics (MetricSelection). *)
LEMMA SameSelection ==
    /\ Metric!SelectionInit => Platform!SelectionInit
    /\ Metric!SelectionNext => Platform!SelectionNext
    /\ Platform!PlannedIsOffered => Metric!PlannedIsOffered
  <1>1. /\ Metric!Certified = Platform!Certified /\ Metric!NoPlan = Platform!NoPlan
        /\ Metric!IdleRequest = Platform!IdleRequest
        /\ \A S : Metric!Cardinality(S) = Platform!Cardinality(S)
    BY Zenon DEF Metric!Certified, Platform!Certified, Metric!NoPlan, Platform!NoPlan,
           Metric!IdleRequest, Platform!IdleRequest, Metric!Cardinality, Platform!Cardinality
  <1>2. Metric!SelectionInit => Platform!SelectionInit
    BY <1>1, Zenon DEF Metric!SelectionInit, Platform!SelectionInit
  <1>3. /\ \A m, status, dims : Metric!Upsert(m, status, dims) => Platform!Upsert(m, status, dims)
        /\ \A m, status : Metric!SetStatus(m, status) => Platform!SetStatus(m, status)
    BY Zenon DEF Metric!Upsert, Platform!Upsert, Metric!SetStatus, Platform!SetStatus
  <1>4. /\ \A r : Metric!ReindexReads(r) => Platform!ReindexReads(r)
        /\ \A r : Metric!ReindexWrites(r) => Platform!ReindexWrites(r)
        /\ \A r : Metric!ReindexFails(r) => Platform!ReindexFails(r)
        /\ Metric!Restart => Platform!Restart
    BY <1>1, Zenon DEF Metric!ReindexReads, Platform!ReindexReads, Metric!ReindexWrites,
           Platform!ReindexWrites, Metric!ReindexFails, Platform!ReindexFails,
           Metric!Restart, Platform!Restart
  <1>5. \A q, a : Metric!RequestReads(q, a) => Platform!RequestReads(q, a)
    BY <1>1, Zenon DEF Metric!RequestReads, Platform!RequestReads
  <1>6. \A q, offered : Metric!Retrieves(q, offered) => Platform!Retrieves(q, offered)
    BY <1>1, ZenonT(60) DEF Metric!Retrieves, Platform!Retrieves
  <1>7. \A s, o, d : Metric!Valid(s, o, d) <=> Platform!Valid(s, o, d)
    BY Zenon DEF Metric!Valid, Platform!Valid, Metric!SharedDimensions, Platform!SharedDimensions
  <1>8. \A q, s : Metric!Selects(q, s) => Platform!Selects(q, s)
    BY <1>1, <1>7, ZenonT(60) DEF Metric!Selects, Platform!Selects, Metric!PlanOf, Platform!PlanOf
  <1>9. Metric!SelectionNext => Platform!SelectionNext
    BY <1>3, <1>4, <1>5, <1>6, <1>8, Zenon DEF Metric!SelectionNext, Platform!SelectionNext
  <1>10. Platform!PlannedIsOffered => Metric!PlannedIsOffered
    BY <1>1, Zenon DEF Metric!PlannedIsOffered, Platform!PlannedIsOffered
  <1> QED
    BY <1>2, <1>9, <1>10

LEMMA SameJoins ==
    ASSUME NEW slices, NEW null, Platform!JoinsOneToOne(slices, null)
    PROVE  Metric!JoinsOneToOne(slices, null)
  <1>1. /\ \A S : Metric!Cardinality(S) = Platform!Cardinality(S)
        /\ \A s : Metric!Groups(s) = Platform!Groups(s)
        /\ \A s, g : Metric!MeasureAt(s, g) = Platform!MeasureAt(s, g)
    BY Zenon DEF Metric!Cardinality, Platform!Cardinality, Metric!Groups, Platform!Groups,
           Metric!MeasureAt, Platform!MeasureAt
  <1>2. \A s : Metric!AtGrain(s) <=> Platform!AtGrain(s)
    BY <1>1, Zenon DEF Metric!AtGrain, Platform!AtGrain
  <1>3. /\ \A p, q : Metric!Before(p, q) <=> Platform!Before(p, q)
        /\ \A s, p : Metric!KeyAt(s, p) = Platform!KeyAt(s, p)
        /\ \A s : Metric!Places(s) = Platform!Places(s)
        /\ \A s : Metric!FirstPlaces(s) = Platform!FirstPlaces(s)
    BY Zenon DEF Metric!Before, Platform!Before, Metric!KeyAt, Platform!KeyAt, Metric!Places,
           Platform!Places, Metric!FirstPlaces, Platform!FirstPlaces
  <1>4. \A s : Metric!OrderedKeys(s) = Platform!OrderedKeys(s)
    BY Zenon DEF Metric!OrderedKeys, Platform!OrderedKeys, Metric!Before, Platform!Before,
           Metric!KeyAt, Platform!KeyAt, Metric!Places, Platform!Places, Metric!FirstPlaces,
           Platform!FirstPlaces, Metric!Cardinality, Platform!Cardinality
  <1>5. Metric!Compose(slices, null) = Platform!Compose(slices, null)
    BY <1>1, <1>2, <1>4, Zenon DEF Metric!Compose, Platform!Compose
  <1>6. \A r : Platform!OneToOne(r, slices, null) => Metric!OneToOne(r, slices, null)
    BY <1>1, ZenonT(60) DEF Metric!OneToOne, Platform!OneToOne
  <1> QED
    BY <1>5, <1>6, Zenon DEF Metric!JoinsOneToOne, Platform!JoinsOneToOne

(* The invariant of the metrics survives every step of the service. *)
LEMMA SelectionHoldsStep ==
    ASSUME SelectionHolds, [Next]_vars
    PROVE  SelectionHolds'
  <1> SUFFICES ASSUME part' = "metrics" PROVE Platform!SelectionInv'
    BY DEF SelectionHolds
  <1>1. part = "metrics" /\ Platform!SelectionInv
    BY DEF Next, vars, SelectionHolds
  <1>2. Metric!SelectionNext \/ UNCHANGED <<s1, s2, s3, s4, s5>>
    BY <1>1 DEF Next, vars, Given, Algorithms
  <1>3. [Platform!SelectionNext]_(Platform!svars)
    BY <1>2, SameSelection, SMTT(60) DEF Platform!svars
  <1> QED
    BY <1>1, <1>3, MetricsOfThisInstance, Platform!SelectionInvStep

LEMMA JoinInputsStep ==
    ASSUME JoinInputs, [Next]_vars
    PROVE  JoinInputs'
  <1> SUFFICES ASSUME part' = "joins", s1' # Nil PROVE s1' \in SliceInputs
    BY DEF JoinInputs, Chosen, SliceInputs
  <1>1. part = "joins"
    BY DEF Next, vars
  <1>2. Given("joins", SliceInputs) \/ UNCHANGED s1
    BY <1>1, SMTT(60) DEF Next, vars, Given
  <1>3. CASE UNCHANGED s1
    BY <1>1, <1>3, SMTT(60) DEF JoinInputs, Chosen
  <1>4. CASE Given("joins", SliceInputs)
    BY <1>4 DEF Given
  <1> QED
    BY <1>2, <1>3, <1>4, SMTT(60)

(* Each input of this instance is two slices. *)
LEMMA JoinInputsAreSlices ==
    ASSUME NEW slices \in SliceInputs
    PROVE  Platform!IsSlices(slices)
  <1> DEFINE Line == [group : {"g", "h"}, value : {1, 2, Nil}]
  <1>1. \A s \in Measures : s \in Seq(Line)
    <2> SUFFICES ASSUME NEW s \in Measures PROVE s \in Seq(Line)
      OBVIOUS
    <2>1. PICK k \in 0..2 : s \in [1..k -> Line]
      BY DEF Measures, UpTo
    <2> HIDE DEF Line
    <2> QED
      BY <2>1
  <1>2. slices \in Measures \X Measures
    BY DEF SliceInputs
  <1>3. slices \in Seq(Seq(Line))
    <2> DEFINE Lines == Seq(Line)
    <2>1. \A s \in Measures : s \in Lines
      BY <1>1
    <2> HIDE DEF Lines
    <2>2. slices = <<slices[1], slices[2]>> /\ slices[1] \in Lines /\ slices[2] \in Lines
      BY <1>2, <2>1
    <2>3. slices \in Seq(Lines)
      <3> DEFINE a == slices[1]
                 b == slices[2]
      <3>1. slices = <<a, b>> /\ a \in Lines /\ b \in Lines
        BY <2>2
      <3> HIDE DEF a, b
      <3>2. <<a, b>> \in Seq(Lines)
        BY <3>1
      <3> QED
        BY <3>1, <3>2
    <2> QED
      BY <2>3 DEF Lines
  <1> QED
    BY <1>3 DEF Platform!IsSlices

(* A governed plan has only what was offered to its question, and slices are joined exactly
   when each has one row per group, losing and multiplying nothing (planner.py,
   composition.py): the property PlannedIsOffered of this specification, from the theorems
   about the two. *)
THEOREM ServicePlansWhatIsOffered ==
    Spec => []PlannedIsOffered
  <1>1. Init => SelectionHolds /\ JoinInputs
    <2>1. ASSUME Init, part = "metrics" PROVE Platform!SelectionInv
      <3>1. Metric!SelectionInit
        BY <2>1 DEF Init, Algorithms
      <3> QED
        BY <3>1, SameSelection, Platform!SelectionInitially, SMTT(60)
    <2>2. ASSUME Init PROVE JoinInputs
      BY <2>2 DEF Init, Algorithms, JoinInputs, Chosen
    <2> QED
      BY <2>1, <2>2 DEF SelectionHolds
  <1>2. (SelectionHolds /\ JoinInputs) /\ [Next]_vars => (SelectionHolds /\ JoinInputs)'
    BY SelectionHoldsStep, JoinInputsStep
  <1>3. SelectionHolds /\ JoinInputs => PlannedIsOffered
    <2>1. ASSUME SelectionHolds, part = "metrics" PROVE Metric!PlannedIsOffered
      <3>1. Platform!PlannedIsOffered
        BY <2>1, Platform!SelectionSound DEF SelectionHolds
      <3> QED
        BY <3>1, SameSelection
    <2>2. ASSUME JoinInputs, Chosen("joins")
          PROVE  Metric!JoinsOneToOne(s1, Nil)
      <3>1. Platform!JoinsOneToOne(s1, Nil)
        BY <2>2, JoinInputsAreSlices, Platform!ComposeAlwaysJoins DEF JoinInputs
      <3> QED
        BY <3>1, SameJoins, SMTT(60)
    <2> QED
      BY <2>1, <2>2 DEF PlannedIsOffered
  <1> QED
    BY <1>1, <1>2, <1>3, PTL DEF Spec

-----------------------------------------------------------------------------
(* The inputs of the validator. *)
StatementInputs == Chosen("statements") => s1 \in SqlInputs

LEMMA StatementInputsStep ==
    ASSUME StatementInputs, [Next]_vars
    PROVE  StatementInputs'
  <1> SUFFICES ASSUME part' = "statements", s1' # Nil PROVE s1' \in SqlInputs
    BY DEF StatementInputs, Chosen
  <1>1. part = "statements"
    BY DEF Next, vars
  <1>2. Given("statements", SqlInputs) \/ UNCHANGED s1
    BY <1>1 DEF Next, vars, Given
  <1>3. CASE UNCHANGED s1
    BY <1>1, <1>3 DEF StatementInputs, Chosen
  <1>4. CASE Given("statements", SqlInputs)
    BY <1>4 DEF Given
  <1> QED
    BY <1>2, <1>3, <1>4

(* The settings of this instance. *)
LEMMA ValidatorOfThisInstance == Platform!ValidatorSettings
  BY DEF Platform!ValidatorSettings

(* A statement of this instance has one source, or two under different aliases. *)
LEMMA StatementInputsAreSound ==
    ASSUME NEW st \in Statements
    PROVE  Platform!StatementSound(st)
  <1>1. Statement = [parses |-> TRUE, count |-> 1, query |-> TRUE, mutates |-> FALSE,
              sources |-> <<Source("x", "analytics", "t")>>, ctes |-> <<>>, columns |-> <<>>,
              functions |-> {}, star |-> FALSE, limit |-> -1]
    BY DEF Statement
  <1>2. Source("x", "analytics", "t") \in Sources
    BY DEF Sources
  <1>3. /\ st.parses \in BOOLEAN /\ st.query \in BOOLEAN /\ st.mutates \in BOOLEAN
        /\ st.star \in BOOLEAN /\ st.limit \in {-2, -1, 0, 5, 6}
        /\ st.sources \in OneSource \cup TwoSources
        /\ st.columns \in {<<>>} \cup Columns \X Columns
    <2>1. CASE st \in Naming
      BY <1>1, <2>1 DEF Naming
    <2>2. CASE st \in Limiting
      <3>1. PICK i \in [source : Sources, functions : {{}, {"sum"}, {"setval"}, {"sum", "regexp"}},
                        limit : {-2, -1, 0, 5, 6}] :
               st = [Statement EXCEPT !.sources = <<i.source>>, !.functions = i.functions,
                                      !.limit = i.limit]
        BY <2>2 DEF Limiting
      <3>2. <<i.source>> \in OneSource
        BY <3>1, Zenon DEF OneSource
      <3> QED
        BY <1>1, <3>1, <3>2
    <2>3. CASE st \in Malformed
      <3>1. <<Source("x", "analytics", "t")>> \in OneSource
        BY <1>2, Zenon DEF OneSource
      <3> QED
        BY <1>1, <2>3, <3>1 DEF Malformed
    <2> QED
      BY <2>1, <2>2, <2>3, SMTT(60) DEF Statements
  <1>4. Len(st.columns) \in Nat
    BY <1>3
  <1>5. Len(st.sources) \in Nat /\ \A i, j \in 1..Len(st.sources) :
                                       st.sources[i].alias = st.sources[j].alias => i = j
    <2>1. CASE st.sources \in OneSource
      BY <2>1 DEF OneSource
    <2>2. CASE st.sources \in TwoSources
      <3> DEFINE p == st.sources
      <3>1. p = <<p[1], p[2]>> /\ p[1].alias # p[2].alias
        BY <2>2, SMTT(60) DEF TwoSources
      <3>2. Len(p) = 2
        BY <3>1
      <3> QED
        BY <3>1, <3>2, SMTT(60)
    <2> QED
      BY <1>3, <2>1, <2>2, SMTT(60)
  <1>6. st.limit \in Int /\ st.limit >= -2
    BY <1>3
  <1> QED
    BY <1>3, <1>4, <1>5, <1>6 DEF Platform!StatementSound

(* The module PlatformProofs is about the same validator (SqlValidation). *)
LEMMA SameValidator ==
    ASSUME NEW statement, NEW snapshot, NEW relations,
           Platform!ValidIffSafe(statement, snapshot, relations)
    PROVE  Sql!ValidIffSafe(statement, snapshot, relations)
  <1>1. /\ \A s : Sql!Elements(s) = Platform!Elements(s)
        /\ Sql!Repairable = Platform!Repairable
        /\ \A code : Sql!Invalid(code) = Platform!Invalid(code)
        /\ \A limit : Sql!BoundedLimit(limit) = Platform!BoundedLimit(limit)
        /\ \A st, s : Sql!IsCte(st, s) <=> Platform!IsCte(st, s)
    BY Zenon DEF Sql!Elements, Platform!Elements, Sql!Repairable, Platform!Repairable, Sql!Invalid,
           Platform!Invalid, Sql!BoundedLimit, Platform!BoundedLimit, Sql!IsCte, Platform!IsCte
  <1>2. /\ \A st : Sql!References(st) = Platform!References(st)
        /\ \A st : Sql!UnsupportedFunctions(st) = Platform!UnsupportedFunctions(st)
        /\ \A st, s, sn : Sql!ColumnsOf(st, s, sn) = Platform!ColumnsOf(st, s, sn)
    BY <1>1, Zenon DEF Sql!References, Platform!References, Sql!UnsupportedFunctions,
           Platform!UnsupportedFunctions, Sql!ColumnsOf, Platform!ColumnsOf, Sql!IsCte, Platform!IsCte
  <1>3. \A st, r, scope : Sql!ReferenceCode(st, r, scope) = Platform!ReferenceCode(st, r, scope)
    BY Zenon DEF Sql!ReferenceCode, Platform!ReferenceCode
  <1>4. \A st, scope : Sql!ReferencesCode(st, scope) = Platform!ReferencesCode(st, scope)
    <2> SUFFICES ASSUME NEW st, NEW scope
                 PROVE  Sql!ReferencesCode(st, scope) = Platform!ReferencesCode(st, scope)
      OBVIOUS
    <2> DEFINE first(S) == CHOOSE i \in S : \A j \in S : i <= j
               here == {i \in Sql!References(st) : Sql!ReferenceCode(st, st.sources[i], scope) # "ok"}
               there == {i \in Platform!References(st) :
                            Platform!ReferenceCode(st, st.sources[i], scope) # "ok"}
    <2>1. here = there
      BY <1>2, <1>3, Zenon
    <2>2. Sql!ReferencesCode(st, scope) =
            IF here = {} THEN "ok" ELSE Sql!ReferenceCode(st, st.sources[first(here)], scope)
      BY Zenon DEF Sql!ReferencesCode
    <2>3. Platform!ReferencesCode(st, scope) =
            IF there = {} THEN "ok" ELSE Platform!ReferenceCode(st, st.sources[first(there)], scope)
      BY Zenon DEF Platform!ReferencesCode
    <2> HIDE DEF first, here, there
    <2> QED
      BY <1>3, <2>1, <2>2, <2>3
  <1>5. \A st, c, sn : Sql!ColumnCode(st, c, sn) = Platform!ColumnCode(st, c, sn)
    BY ZenonT(60) DEF Sql!ColumnCode, Platform!ColumnCode, Sql!Elements, Platform!Elements, Sql!ColumnsOf,
           Platform!ColumnsOf, Sql!IsCte, Platform!IsCte, Sql!Cardinality, Platform!Cardinality
  <1>6. \A st, sn : Sql!ColumnsCode(st, sn) = Platform!ColumnsCode(st, sn)
    <2> SUFFICES ASSUME NEW st, NEW sn
                 PROVE  Sql!ColumnsCode(st, sn) = Platform!ColumnsCode(st, sn)
      OBVIOUS
    <2> DEFINE first(S) == CHOOSE i \in S : \A j \in S : i <= j
               here == {i \in 1..Len(st.columns) : Sql!ColumnCode(st, st.columns[i], sn) # "ok"}
               there == {i \in 1..Len(st.columns) :
                            Platform!ColumnCode(st, st.columns[i], sn) # "ok"}
    <2>1. here = there
      BY <1>5, Zenon
    <2>2. Sql!ColumnsCode(st, sn) =
            IF here = {} THEN "ok" ELSE Sql!ColumnCode(st, st.columns[first(here)], sn)
      BY Zenon DEF Sql!ColumnsCode
    <2>3. Platform!ColumnsCode(st, sn) =
            IF there = {} THEN "ok" ELSE Platform!ColumnCode(st, st.columns[first(there)], sn)
      BY Zenon DEF Platform!ColumnsCode
    <2> HIDE DEF first, here, there
    <2> QED
      BY <1>5, <2>1, <2>2, <2>3
  <1>7. \A st, sn, scope : Sql!Validate(st, sn, scope) = Platform!Validate(st, sn, scope)
    <2> SUFFICES ASSUME NEW st, NEW sn, NEW scope
                 PROVE  Sql!Validate(st, sn, scope) = Platform!Validate(st, sn, scope)
      OBVIOUS
    <2>1. /\ Sql!ReferencesCode(st, scope) = Platform!ReferencesCode(st, scope)
          /\ Sql!UnsupportedFunctions(st) = Platform!UnsupportedFunctions(st)
          /\ Sql!ColumnsCode(st, sn.tables) = Platform!ColumnsCode(st, sn.tables)
          /\ Sql!BoundedLimit(st.limit) = Platform!BoundedLimit(st.limit)
      BY <1>1, <1>2, <1>4, <1>6
    <2> QED
      BY <1>1, <2>1, SMTT(60) DEF Sql!Validate, Platform!Validate
  <1>8. /\ Sql!ScopeOf(snapshot, relations) = Platform!ScopeOf(snapshot, relations)
        /\ \A code : Sql!Refusal(code) = Platform!Refusal(code)
    BY <1>1, ZenonT(60) DEF Sql!ScopeOf, Platform!ScopeOf, Sql!Refusal, Platform!Refusal
  <1>9. \A st, s, scope : Sql!MayRead(st, s, scope) <=> Platform!MayRead(st, s, scope)
    BY <1>1, Zenon DEF Sql!MayRead, Platform!MayRead
  <1> QED
    BY <1>1, <1>7, <1>8, <1>9, ZenonT(60)
    DEF Sql!ValidIffSafe, Platform!ValidIffSafe, Sql!Elements, Platform!Elements, Sql!ColumnsOf,
        Platform!ColumnsOf, Sql!IsCte, Platform!IsCte, Sql!Cardinality, Platform!Cardinality

(* The validator of this specification accepts exactly the safe statements
   (sql_validation.py): its property ValidIffSafe, from the theorem about it. *)
THEOREM ServiceAcceptsTheSafe ==
    Spec => []ValidIffSafe
  <1>1. Init => StatementInputs
    BY DEF Init, Algorithms, StatementInputs, Chosen
  <1>2. StatementInputs /\ [Next]_vars => StatementInputs'
    BY StatementInputsStep
  <1>3. StatementInputs => ValidIffSafe
    <2> SUFFICES ASSUME StatementInputs, Chosen("statements")
                 PROVE  Sql!ValidIffSafe(s1.statement, s1.snapshot, s1.relations)
      BY DEF ValidIffSafe
    <2>1. s1.statement \in Statements
      BY DEF StatementInputs, SqlInputs
    <2>2. Platform!ValidIffSafe(s1.statement, s1.snapshot, s1.relations)
      BY <2>1, StatementInputsAreSound, ValidatorOfThisInstance, Platform!AcceptedIffSafe
    <2> QED
      BY <2>2, SameValidator, SMTT(60)
  <1> QED
    BY <1>1, <1>2, <1>3, PTL DEF Spec

-----------------------------------------------------------------------------
(* The invariant of the evaluation harness. *)
HarnessHolds == part = "harness" => Dialogue!HarnessInv

(* A sequence is one of its own elements. *)
LEMMA OfItsElements ==
    ASSUME NEW S, NEW s \in Seq(S)
    PROVE  s \in Seq({s[i] : i \in DOMAIN s})
  <1>1. Len(s) \in Nat /\ DOMAIN s = 1..Len(s)
    OBVIOUS
  <1> QED
    BY <1>1

(* The datasets and the results of this instance (Datasets, QueryRows). *)
LEMMA HarnessOfThisInstance == Dialogue!HarnessSettings
  <1> DEFINE Benchmarks == [behavior : {"allow", "block", "clarify"}, follows : BOOLEAN,
                            expected : {<<>>, <<{1, 2}, {1}>>, <<{1, 2}, {2}>>},
                            ordered : BOOLEAN, category : {"any"}]
  <1>1. \A d \in Datasets : d \in Seq(Benchmarks)
    <2> DEFINE c1 == Benchmark("allow", TRUE, <<>>, FALSE)
               c2 == Benchmark("allow", FALSE, <<{1, 2}, {1}>>, FALSE)
               c3 == Benchmark("block", FALSE, <<>>, FALSE)
               c4 == Benchmark("clarify", TRUE, <<>>, FALSE)
               c5 == Benchmark("allow", FALSE, <<{1, 2}, {2}>>, TRUE)
    <2>1. Datasets = {<<c1, c2>>, <<c3>>, <<c4>>, <<c5>>}
      BY DEF Datasets
    <2>2. c1 \in Benchmarks /\ c2 \in Benchmarks /\ c3 \in Benchmarks /\ c4 \in Benchmarks /\ c5 \in Benchmarks
      BY DEF Benchmark
    <2> HIDE DEF c1, c2, c3, c4, c5, Benchmarks
    <2>3. <<c1, c2>> \in Seq(Benchmarks)
      BY <2>2
    <2>4. <<c3>> \in Seq(Benchmarks) /\ <<c4>> \in Seq(Benchmarks)
      BY <2>2
    <2>5. <<c5>> \in Seq(Benchmarks)
      BY <2>2
    <2> QED
      BY <2>1, <2>3, <2>4, <2>5, Zenon
  <1>2. \A d \in Datasets : \A i \in DOMAIN d : d[i].behavior \in {"allow", "block", "clarify"}
    <2> SUFFICES ASSUME NEW d \in Datasets, NEW i \in DOMAIN d
                 PROVE  d[i].behavior \in {"allow", "block", "clarify"}
      OBVIOUS
    <2>1. d[i] \in Benchmarks
      <3> HIDE DEF Benchmarks
      <3> QED
        BY <1>1
    <2> QED
      BY <2>1
  <1>3. \A rows \in QueryRows : rows \in Seq({1, 2})
    <2>1. <<>> \in Seq({1, 2}) /\ <<1>> \in Seq({1, 2})
      OBVIOUS
    <2>2. <<1, 2>> \in Seq({1, 2})
      OBVIOUS
    <2>3. <<2, 1>> \in Seq({1, 2})
      OBVIOUS
    <2> QED
      BY <2>1, <2>2, <2>3, Zenon DEF QueryRows
  <1> HIDE DEF Benchmarks
  <1> QED
    BY <1>1, <1>2, <1>3, OfItsElements DEF Dialogue!HarnessSettings

(* The module DialogueProofs is about the same part as the specification
   (EvalHarness, with the datasets of this instance). *)
LEMMA SameHarness ==
    /\ Harness!HarnessInit => Dialogue!HarnessInit
    /\ Harness!HarnessNext => Dialogue!HarnessNext
    /\ Dialogue!VerdictIsAboutTheTurn => Harness!VerdictIsAboutTheTurn
  <1>1. /\ Harness!Unrun = Dialogue!Unrun /\ Harness!NoSql = Dialogue!NoSql
        /\ Harness!Statement = Dialogue!Statement /\ Harness!TurnEnds = Dialogue!TurnEnds
        /\ Harness!Case = Dialogue!Case /\ Harness!NoMetrics = Dialogue!NoMetrics
        /\ \A e : Harness!Completed(e) <=> Dialogue!Completed(e)
        /\ \A v : Harness!B(v) = Dialogue!B(v)
    BY Zenon DEF Harness!Unrun, Dialogue!Unrun, Harness!NoSql, Dialogue!NoSql, Harness!Statement,
           Dialogue!Statement, Harness!TurnEnds, Dialogue!TurnEnds, Harness!Case, Dialogue!Case,
           Harness!NoMetrics, Dialogue!NoMetrics, Harness!Completed, Dialogue!Completed,
           Harness!B, Dialogue!B
  <1>2. Harness!HarnessInit => Dialogue!HarnessInit
    BY <1>1, Zenon DEF Harness!HarnessInit, Dialogue!HarnessInit
  <1>3. Harness!StartCase => Dialogue!StartCase
    BY <1>1, Zenon DEF Harness!StartCase, Dialogue!StartCase
  <1>4. \A end, sql, ran : Harness!Records(end, sql, ran) => Dialogue!Records(end, sql, ran)
    BY <1>1 DEF Harness!Records, Dialogue!Records
  <1>5. \A end, sql, ran : Harness!AskBefore(end, sql, ran) => Dialogue!AskBefore(end, sql, ran)
    BY <1>1, <1>4, Zenon DEF Harness!AskBefore, Dialogue!AskBefore
  <1>6. \A end, sql, ran, rows, accurate, grounded :
          Harness!AskCase(end, sql, ran, rows, accurate, grounded)
            => Dialogue!AskCase(end, sql, ran, rows, accurate, grounded)
    BY <1>1, <1>4 DEF Harness!AskCase, Dialogue!AskCase
  <1>7. \A c : Harness!Score(c) = Dialogue!Score(c)
    <2> SUFFICES ASSUME NEW c PROVE Harness!Score(c) = Dialogue!Score(c)
      OBVIOUS
    <2>1. /\ Harness!GeneratedSql = Dialogue!GeneratedSql
          /\ Harness!Judged(c) = Dialogue!Judged(c)
          /\ Harness!ProvenanceComplete(c) <=> Dialogue!ProvenanceComplete(c)
          /\ Harness!Compare(c, s8.rows) <=> Dialogue!Compare(c, s8.rows)
      BY <1>1, Zenon DEF Harness!GeneratedSql, Dialogue!GeneratedSql, Harness!Judged,
             Dialogue!Judged, Harness!ProvenanceComplete, Dialogue!ProvenanceComplete,
             Harness!Compare, Dialogue!Compare
    <2>2. Harness!CaseMetrics(c) = Dialogue!CaseMetrics(c)
      <3> DEFINE infra == s8.end = "infrastructure"
                 origin == Harness!B(Harness!ProvenanceComplete(c))
                 paired == Harness!B(Harness!Compare(c, s8.rows))
                 asked == Harness!B(s8.end = "clarified" /\ ~s6.attempted
                                      /\ Harness!GeneratedSql = Harness!NoSql)
      <3>1. /\ origin = Dialogue!B(Dialogue!ProvenanceComplete(c))
            /\ paired = Dialogue!B(Dialogue!Compare(c, s8.rows))
            /\ asked = Dialogue!B(s8.end = "clarified" /\ ~s6.attempted
                                     /\ Dialogue!GeneratedSql = Dialogue!NoSql)
        BY <1>1, <2>1 DEF Harness!B, Dialogue!B
      <3>2. /\ Harness!B(s8.accurate) = Dialogue!B(s8.accurate)
            /\ Harness!B(s8.grounded) = Dialogue!B(s8.grounded)
            /\ Harness!B(s7.valid) = Dialogue!B(s7.valid)
            /\ Harness!B(s6.succeeded) = Dialogue!B(s6.succeeded)
            /\ Harness!B(Harness!Completed(s8.end)) = Dialogue!B(Dialogue!Completed(s8.end))
            /\ Harness!B(Harness!GeneratedSql.safe) = Dialogue!B(Dialogue!GeneratedSql.safe)
            /\ Harness!B(Harness!GeneratedSql.relevant) = Dialogue!B(Dialogue!GeneratedSql.relevant)
        BY <1>1, <2>1 DEF Harness!B, Dialogue!B, Harness!Completed, Dialogue!Completed
      <3>3. CASE infra
        BY <1>1, <3>3, SMTT(60) DEF Harness!CaseMetrics, Dialogue!CaseMetrics
      <3>4. CASE ~infra /\ c.behavior = "block"
        BY <1>1, <2>1, <3>4, ZenonT(60) DEF Harness!CaseMetrics, Dialogue!CaseMetrics
      <3>5. CASE ~infra /\ c.behavior = "clarify"
        BY <1>1, <2>1, <3>1, <3>2, <3>5 DEF Harness!CaseMetrics, Dialogue!CaseMetrics
      <3>6. CASE ~infra /\ c.behavior \notin {"block", "clarify"}
        BY <1>1, <2>1, <3>1, <3>2, <3>6 DEF Harness!CaseMetrics, Dialogue!CaseMetrics
      <3> QED
        BY <3>3, <3>4, <3>5, <3>6
    <2>3. \A m : /\ Harness!CasePassed(c, m) <=> Dialogue!CasePassed(c, m)
                 /\ Harness!FailedMetrics(c, m) = Dialogue!FailedMetrics(c, m)
      BY <2>1, Zenon DEF Harness!CasePassed, Dialogue!CasePassed, Harness!FailedMetrics,
             Dialogue!FailedMetrics
    <2> QED
      BY <1>1, <2>1, <2>2, <2>3 DEF Harness!Score, Dialogue!Score
  <1>8. Harness!ScoreCase => Dialogue!ScoreCase
    BY <1>1, <1>7, Zenon DEF Harness!ScoreCase, Dialogue!ScoreCase
  <1>9. Harness!HarnessNext => Dialogue!HarnessNext
    BY <1>1, <1>3, <1>5, <1>6, <1>8 DEF Harness!HarnessNext, Dialogue!HarnessNext
  <1>10. ASSUME Dialogue!VerdictIsAboutTheTurn
         PROVE  Harness!VerdictIsAboutTheTurn
    <2>1. \A c, rows : Dialogue!Pairs(c, rows) <=> Harness!Pairs(c, rows)
      BY Zenon DEF Harness!Pairs, Dialogue!Pairs
    <2>2. \A r : Dialogue!JudgedByTurn(r) <=> Harness!JudgedByTurn(r)
      BY <2>1, Zenon DEF Harness!JudgedByTurn, Dialogue!JudgedByTurn
    <2>3. \A S : Dialogue!Cardinality(S) = Harness!Cardinality(S)
      BY Zenon DEF Harness!Cardinality, Dialogue!Cardinality
    <2>4. Dialogue!Summary = Harness!Summary
      BY <2>3, Zenon DEF Harness!Summary, Dialogue!Summary, Harness!PassedCases,
             Dialogue!PassedCases, Harness!ScoredCases, Dialogue!ScoredCases, Harness!Of, Dialogue!Of,
             Harness!Cardinality, Dialogue!Cardinality
    <2>5. Dialogue!PassedByCategory = Harness!PassedByCategory
      BY <2>4, Zenon DEF Harness!PassedByCategory, Dialogue!PassedByCategory
    <2> QED
      BY <1>10, <2>2, <2>3, <2>4, <2>5, Zenon
      DEF Harness!VerdictIsAboutTheTurn, Dialogue!VerdictIsAboutTheTurn
  <1> QED
    BY <1>2, <1>9, <1>10, SMTT(60)

(* The invariant of the harness survives every step of the service. *)
LEMMA HarnessHoldsStep ==
    ASSUME HarnessHolds, [Next]_vars
    PROVE  HarnessHolds'
  <1> SUFFICES ASSUME part' = "harness" PROVE Dialogue!HarnessInv'
    BY DEF HarnessHolds
  <1>1. part = "harness" /\ Dialogue!HarnessInv
    BY DEF Next, vars, HarnessHolds
  <1>2. Harness!HarnessNext \/ UNCHANGED <<s1, s2, s3, s4, s5, s6, s7, s8, s9>>
    BY <1>1 DEF Next, vars, Given, Algorithms
  <1>3. [Dialogue!HarnessNext]_(Dialogue!hvars)
    BY <1>2, SameHarness DEF Dialogue!hvars
  <1> QED
    BY <1>1, <1>3, HarnessOfThisInstance, Dialogue!HarnessStep

(* A verdict of the harness is about the case's own turn (evals/runner.py): the
   property VerdictIsAboutTheTurn of this specification, from the theorem about the
   harness. *)
THEOREM ServiceJudgesTheTurn ==
    Spec => []VerdictIsAboutTheTurn
  <1>1. Init => HarnessHolds
    <2> SUFFICES ASSUME Init, part = "harness" PROVE Dialogue!HarnessInv
      BY DEF HarnessHolds
    <2>1. Harness!HarnessInit
      BY DEF Init, Algorithms
    <2> QED
      BY <2>1, SameHarness, HarnessOfThisInstance, Dialogue!HarnessInitially
  <1>2. HarnessHolds /\ [Next]_vars => HarnessHolds'
    BY HarnessHoldsStep
  <1>3. HarnessHolds => VerdictIsAboutTheTurn
    <2> SUFFICES ASSUME HarnessHolds, part = "harness" PROVE Harness!VerdictIsAboutTheTurn
      BY DEF VerdictIsAboutTheTurn
    <2>1. Dialogue!VerdictIsAboutTheTurn
      BY Dialogue!SummaryAddsUp DEF HarnessHolds, Dialogue!HarnessInv,
         Dialogue!VerdictIsAboutTheTurn
    <2> QED
      BY <2>1, SameHarness
  <1> QED
    BY <1>1, <1>2, <1>3, PTL DEF Spec

-----------------------------------------------------------------------------
(* The inputs of the lineage and of the checks of an answer. *)
ReadInputs == Chosen("lineages") => s1 \in LineageInputs
AnswerInputs == Chosen("answers") => s1 \in GroundingInputs

LEMMA ReadInputsStep ==
    ASSUME ReadInputs, [Next]_vars
    PROVE  ReadInputs'
  <1> SUFFICES ASSUME part' = "lineages", s1' # Nil PROVE s1' \in LineageInputs
    BY DEF ReadInputs, Chosen
  <1>1. part = "lineages"
    BY DEF Next, vars
  <1>2. Given("lineages", LineageInputs) \/ UNCHANGED s1
    BY <1>1 DEF Next, vars, Given
  <1>3. CASE UNCHANGED s1
    BY <1>1, <1>3 DEF ReadInputs, Chosen
  <1>4. CASE Given("lineages", LineageInputs)
    BY <1>4 DEF Given
  <1> QED
    BY <1>2, <1>3, <1>4, SMTT(60)

LEMMA AnswerInputsStep ==
    ASSUME AnswerInputs, [Next]_vars
    PROVE  AnswerInputs'
  <1> SUFFICES ASSUME part' = "answers", s1' # Nil PROVE s1' \in GroundingInputs
    BY DEF AnswerInputs, Chosen
  <1> DEFINE Written == {i \in GroundingInputs :
                           Ground!Decimals(i.numeral.value) <= i.numeral.places}
  <1>1. part = "answers"
    BY DEF Next, vars
  <1>2. Given("answers", Written) \/ UNCHANGED s1
    BY <1>1 DEF Next, vars, Given
  <1>3. CASE UNCHANGED s1
    BY <1>1, <1>3 DEF AnswerInputs, Chosen
  <1>4. CASE Given("answers", Written)
    BY <1>4 DEF Given
  <1> QED
    BY <1>2, <1>3, <1>4

(* A statement of this instance reads its own sources, by their aliases or
   unnamed (ReadsOf). *)
LEMMA ReadInputsAreRead ==
    ASSUME NEW statement \in LineageInputs
    PROVE  Dialogue!ReadsItsSources(statement)
  <1>1. PICK q \in Lists : statement \in ReadOf(q)
    BY DEF LineageInputs
  <1>2. /\ statement.sources = q
        /\ statement.columns \in {{p[1], p[2]} : p \in ReadsOf(q) \X ReadsOf(q)}
    BY <1>1 DEF ReadOf
  <1>3. q \in Seq({q[i] : i \in DOMAIN q})
    <2>1. PICK n \in 0..2 : q \in [1..n -> References]
      BY DEF Lists, UpTo
    <2>2. q \in Seq(References)
      <3> HIDE DEF References
      <3> QED
        BY <2>1
    <2> QED
      BY <2>2, OfItsElements
  <1>4. statement.columns \subseteq ReadsOf(q)
    BY <1>2
  <1>5. \A c \in ReadsOf(q) : \E k \in DOMAIN q : c.from = q[k].id /\ c.owner \in {"", q[k].alias}
    <2> SUFFICES ASSUME NEW c \in ReadsOf(q)
                 PROVE  \E k \in DOMAIN q : c.from = q[k].id /\ c.owner \in {"", q[k].alias}
      OBVIOUS
    <2>1. PICK k \in DOMAIN q : c \in [owner : {"", q[k].alias}, name : {"x", "y"}, from : {q[k].id}]
      BY DEF ReadsOf
    <2>2. c.from = q[k].id /\ c.owner \in {"", q[k].alias}
      BY <2>1
    <2> QED
      BY <2>2
  <1>6. \A c \in statement.columns : \E k \in DOMAIN q :
           c.from = q[k].id /\ c.owner \in {"", q[k].alias}
    BY <1>4, <1>5, Zenon
  <1> QED
    BY <1>2, <1>3, <1>6, ZenonT(60) DEF Dialogue!ReadsItsSources

(* An answer of this instance gives numbers for a result of numbers. *)
LEMMA AnswerInputsAreNumbers ==
    ASSUME NEW input \in GroundingInputs
    PROVE  /\ input.numeral.value \in Int /\ input.numeral.places \in Nat
           /\ Dialogue!NumberRows(input.rows)
  <1>1. PICK i \in [numeral : Numerals, count : 0..2, figure : Figures, labelled : BOOLEAN,
                    row : 1..2] :
          /\ input.numeral = i.numeral
          /\ input.rows = Result(i.count, i.figure, i.labelled)
    BY DEF GroundingInputs
  <1>2. i.numeral.value \in Int /\ i.numeral.places \in Nat
    BY <1>1 DEF Numerals, Figures
  <1>3. i.figure \in Int
    BY <1>1 DEF Figures
  <1> DEFINE rows == Result(i.count, i.figure, i.labelled)
             Cells == {Labelled, Cell(i.figure)}
  <1>4. rows \in [1..i.count -> [f : Cells]]
    BY DEF Result
  <1>5. rows \in Seq({rows[k] : k \in DOMAIN rows})
    <2> DEFINE Line == [f : Cells]
    <2>1. i.count \in Nat
      BY <1>1
    <2>2. rows \in [1..i.count -> Line]
      BY <1>4
    <2> HIDE DEF Line, rows
    <2>3. rows \in Seq(Line)
      BY <2>1, <2>2
    <2> QED
      BY <2>3, OfItsElements
  <1>6. \A c \in Cells : Dialogue!NumberCell(c)
    BY <1>3 DEF Dialogue!NumberCell, Labelled, Cell
  <1>7. \A k \in DOMAIN rows : \A f \in DOMAIN rows[k] : rows[k][f] \in Cells
    <2> HIDE DEF rows, Cells
    <2> QED
      BY <1>4
  <1> QED
    BY <1>1, <1>2, <1>5, <1>6, <1>7 DEF Dialogue!NumberRows

(* The module DialogueProofs is about the same lineage (Lineage) ... *)
LEMMA SameLineage ==
    ASSUME NEW statement, Dialogue!LineageIsRead(statement)
    PROVE  Origin!LineageIsRead(statement)
  <1>1. /\ \A st : Origin!RealSources(st) = Dialogue!RealSources(st)
        /\ \A S : Origin!Cardinality(S) = Dialogue!Cardinality(S)
    BY Zenon DEF Origin!RealSources, Dialogue!RealSources, Origin!Cardinality, Dialogue!Cardinality
  <1>2. /\ \A st : Origin!Real(st) = Dialogue!Real(st)
        /\ \A st, owner : Origin!Owners(st, owner) = Dialogue!Owners(st, owner)
    BY <1>1, Zenon DEF Origin!Real, Dialogue!Real, Origin!Owners, Dialogue!Owners,
           Origin!RealSources, Dialogue!RealSources
  <1>3. \A st, c : Origin!Attributed(st, c) = Dialogue!Attributed(st, c)
    BY <1>1, <1>2, Zenon DEF Origin!Attributed, Dialogue!Attributed
  <1>4. \A st : Origin!LineageFromSql(st) = Dialogue!LineageFromSql(st)
    BY <1>2, <1>3, Zenon DEF Origin!LineageFromSql, Dialogue!LineageFromSql
  <1>5. \A st : (Origin!Plain(st) <=> Dialogue!Plain(st)) /\ (Origin!Exact(st) <=> Dialogue!Exact(st))
    BY <1>4, Zenon DEF Origin!Plain, Dialogue!Plain, Origin!Exact, Dialogue!Exact
  <1> QED
    BY <1>5, Zenon DEF Origin!LineageIsRead, Dialogue!LineageIsRead

(* ... and the same checks of figures (Grounding). *)
LEMMA SameFigures ==
    ASSUME NEW numerals, NEW claims, NEW rows, Dialogue!NothingInvented(numerals, claims, rows)
    PROVE  Ground!NothingInvented(numerals, claims, rows)
  <1>1. /\ \A v : Ground!Abs(v) = Dialogue!Abs(v) /\ Ground!Decimals(v) = Dialogue!Decimals(v)
        /\ \A p : Ground!Quantum(p) = Dialogue!Quantum(p)
        /\ Ground!Unit = Dialogue!Unit
        /\ \A r : Ground!Cells(r) = Dialogue!Cells(r)
        /\ \A v, c : Ground!ValuesEqual(v, c) <=> Dialogue!ValuesEqual(v, c)
    BY Zenon DEF Ground!Abs, Dialogue!Abs, Ground!Decimals, Dialogue!Decimals, Ground!Quantum,
           Dialogue!Quantum, Ground!Unit, Dialogue!Unit, Ground!Cells, Dialogue!Cells,
           Ground!ValuesEqual, Dialogue!ValuesEqual
  <1>2. /\ \A r : Ground!Supported(r) = Dialogue!Supported(r)
        /\ \A v, q : Ground!HalfUp(v, q) = Dialogue!HalfUp(v, q)
        /\ \A n, k : Ground!Structural(n, k) <=> Dialogue!Structural(n, k)
    BY <1>1, Zenon DEF Ground!Supported, Dialogue!Supported, Ground!HalfUp, Dialogue!HalfUp,
           Ground!Structural, Dialogue!Structural, Ground!Cells, Dialogue!Cells, Ground!Abs,
           Dialogue!Abs, Ground!Unit, Dialogue!Unit
  <1>3. \A n, S : Ground!RoundedForm(n, S) <=> Dialogue!RoundedForm(n, S)
    BY <1>1, <1>2, Zenon DEF Ground!RoundedForm, Dialogue!RoundedForm
  <1>4. Ground!ValidateAnswer(numerals, claims, rows) <=> Dialogue!ValidateAnswer(numerals, claims, rows)
    BY <1>1, <1>2, <1>3, ZenonT(60) DEF Ground!ValidateAnswer, Dialogue!ValidateAnswer
  <1> QED
    BY <1>1, <1>2, <1>4, Zenon DEF Ground!NothingInvented, Dialogue!NothingInvented

(* No figure of an answer is invented, and neither is where it came from
   (grounding.py, lineage.py): the property NothingInvented of this specification,
   from the theorems about the two. *)
THEOREM ServiceInventsNothing ==
    Spec => []NothingInvented
  <1>1. Init => ReadInputs /\ AnswerInputs
    BY SMTT(60) DEF Init, Algorithms, ReadInputs, AnswerInputs, Chosen
  <1>2. (ReadInputs /\ AnswerInputs) /\ [Next]_vars => (ReadInputs /\ AnswerInputs)'
    BY ReadInputsStep, AnswerInputsStep
  <1>3. ReadInputs /\ AnswerInputs => NothingInvented
    <2>1. ASSUME ReadInputs, Chosen("lineages")
          PROVE  Origin!LineageIsRead(s1)
      <3>1. Dialogue!LineageIsRead(s1)
        BY <2>1, ReadInputsAreRead, Dialogue!LineageIsTrue DEF ReadInputs
      <3> QED
        BY <3>1, SameLineage, SMTT(60)
    <2>2. ASSUME AnswerInputs, Chosen("answers"), NEW claims
          PROVE  Ground!NothingInvented({s1.numeral}, claims, s1.rows)
      <3>1. /\ Dialogue!NumberRows(s1.rows)
            /\ \A n \in {s1.numeral} : n.value \in Int /\ n.places \in Nat
        BY <2>2, AnswerInputsAreNumbers, SMTT(60) DEF AnswerInputs
      <3>2. Dialogue!NothingInvented({s1.numeral}, claims, s1.rows)
        BY <3>1, Dialogue!NoFigureIsInvented
      <3> QED
        BY <3>2, SameFigures, SMTT(60)
    <2> QED
      BY <2>1, <2>2, Zenon DEF NothingInvented
  <1> QED
    BY <1>1, <1>2, <1>3, PTL DEF Spec

-----------------------------------------------------------------------------
(* The invariant of the benchmark runs, and the inputs of the comparisons. *)
EvalHolds == part = "evaluations" => Platform!EvalInv
ComparisonInputs == Chosen("comparisons") => s1 \in EvaluationInputs

(* The module PlatformProofs is about the same runs (Evaluations). *)
LEMMA SameRuns ==
    /\ Eval!EvalInit => Platform!EvalInit
    /\ Eval!EvalNext => Platform!EvalNext
    /\ Platform!RunIsWhole => Eval!RunIsWhole
    /\ Platform!MovementsAddUp => Eval!MovementsAddUp
  <1>1. /\ \A S : Eval!Cardinality(S) = Platform!Cardinality(S)
        /\ Eval!EvalOutcomes = Platform!EvalOutcomes
        /\ \A f, c, o : Eval!WithResult(f, c, o) = Platform!WithResult(f, c, o)
        /\ \A S : Eval!NewestRun(S) = Platform!NewestRun(S)
        /\ \A r : Eval!Earlier(r) = Platform!Earlier(r)
        /\ \A f, g : Eval!Movements(f, g) = Platform!Movements(f, g)
    BY Zenon DEF Eval!Cardinality, Platform!Cardinality, Eval!EvalOutcomes, Platform!EvalOutcomes,
       Eval!WithResult, Platform!WithResult, Eval!NewestRun, Platform!NewestRun, Eval!Earlier,
       Platform!Earlier, Eval!Movements, Platform!Movements
  <1>2. Eval!EvalInit => Platform!EvalInit
    BY DEF Eval!EvalInit, Platform!EvalInit
  <1>3. ASSUME NEW c \in {"c1", "c2"}
        PROVE  Eval!SaveCase(c) => Platform!SaveCase(c)
    BY DEF Eval!SaveCase, Platform!SaveCase
  <1>4. ASSUME NEW r \in {"e1", "e2"}
        PROVE  /\ Eval!StartEvaluation(r) => Platform!StartEvaluation(r)
               /\ Eval!RecordRun(r) => Platform!RecordRun(r)
               /\ Eval!Report(r) => Platform!Report(r)
    BY <1>1 DEF Eval!StartEvaluation, Platform!StartEvaluation, Eval!RecordRun, Platform!RecordRun,
           Eval!Report, Platform!Report
  <1>5. ASSUME NEW r \in {"e1", "e2"}, NEW c \in {"c1", "c2"}
        PROVE  /\ Eval!AskQuestion(r, c) => Platform!AskQuestion(r, c)
               /\ Eval!Evaluated(r, c) => Platform!Evaluated(r, c)
    BY <1>1 DEF Eval!AskQuestion, Platform!AskQuestion, Eval!Evaluated, Platform!Evaluated
  <1>6. Eval!EvalNext => Platform!EvalNext
    BY <1>3, <1>4, <1>5, SMTT(60) DEF Eval!EvalNext, Platform!EvalNext
  <1>7. Platform!RunIsWhole => Eval!RunIsWhole
    BY <1>1 DEF Platform!RunIsWhole, Eval!RunIsWhole
  <1>8. Eval!Listing = Platform!Listing
    BY <1>1, Zenon DEF Eval!Listing, Platform!Listing
  <1>9. Platform!MovementsAddUp => Eval!MovementsAddUp
    BY <1>1, <1>8, ZenonT(60) DEF Platform!MovementsAddUp, Eval!MovementsAddUp
  <1> QED
    BY <1>2, <1>6, <1>7, <1>9

(* The module PlatformProofs is about the same comparison (EvaluationCompare). *)
LEMMA SameComparison ==
    ASSUME NEW case, NEW rows, Platform!PassesByPairing(case, rows)
    PROVE  Eval!PassesByPairing(case, rows)
  <1>1. /\ \A v : Eval!Number(v) = Platform!Number(v)
        /\ \A m, n : Eval!Distance(m, n) = Platform!Distance(m, n)
    BY Zenon DEF Eval!Number, Platform!Number, Eval!Distance, Platform!Distance
  <1>2. \A v : Eval!Canonical(v) = Platform!Canonical(v)
    BY <1>1, Zenon DEF Eval!Canonical, Platform!Canonical
  <1>3. \A v, w, t : Eval!Matches(v, w, t) <=> Platform!Matches(v, w, t)
    BY <1>1, <1>2, Zenon DEF Eval!Matches, Platform!Matches
  <1>4. \A e, a, t : Eval!RowsMatch(e, a, t) <=> Platform!RowsMatch(e, a, t)
    BY <1>3, Zenon DEF Eval!RowsMatch, Platform!RowsMatch
  <1>5. Eval!TakesFirst(case, rows) <=> Platform!TakesFirst(case, rows)
    BY <1>4, Zenon DEF Eval!TakesFirst, Platform!TakesFirst
  <1>6. Eval!CompareTable(case, rows) <=> Platform!CompareTable(case, rows)
    BY <1>4, <1>5, Zenon DEF Eval!CompareTable, Platform!CompareTable
  <1>7. Eval!Pairing(case, rows) <=> Platform!Pairing(case, rows)
    BY <1>4, Zenon DEF Eval!Pairing, Platform!Pairing
  <1> QED
    BY <1>6, <1>7, Zenon DEF Eval!PassesByPairing, Platform!PassesByPairing

LEMMA EvalHoldsStep ==
    ASSUME EvalHolds, [Next]_vars
    PROVE  EvalHolds'
  <1> SUFFICES ASSUME part' = "evaluations" PROVE Platform!EvalInv'
    BY DEF EvalHolds
  <1>1. part = "evaluations" /\ Platform!EvalInv
    BY DEF Next, vars, EvalHolds
  <1>2. Eval!EvalNext \/ UNCHANGED <<s1, s2, s3, s4>>
    BY <1>1 DEF Next, vars, Given, Algorithms
  <1>3. [Platform!EvalNext]_(Platform!evars)
    BY <1>2, SameRuns DEF Platform!evars
  <1>4. Platform!EvalSettings
    BY DEF Platform!EvalSettings
  <1> QED
    BY <1>1, <1>3, <1>4, Platform!EvalStep

LEMMA ComparisonInputsStep ==
    ASSUME ComparisonInputs, [Next]_vars
    PROVE  ComparisonInputs'
  <1> SUFFICES ASSUME part' = "comparisons", s1' # Nil PROVE s1' \in EvaluationInputs
    BY DEF ComparisonInputs, Chosen
  <1>1. part = "comparisons"
    BY DEF Next, vars
  <1>2. Given("comparisons", EvaluationInputs) \/ UNCHANGED s1
    BY <1>1 DEF Next, vars, Given
  <1>3. CASE UNCHANGED s1
    BY <1>1, <1>3 DEF ComparisonInputs, Chosen
  <1>4. CASE Given("comparisons", EvaluationInputs)
    BY <1>4 DEF Given
  <1> QED
    BY <1>2, <1>3, <1>4

(* The rows of this instance are numbers under their columns. *)
LEMMA ComparisonInputsAreRows ==
    ASSUME NEW input \in EvaluationInputs
    PROVE  Platform!ComparisonInput(input.case, input.rows)
  <1>1. \A row \in Sales : \A col \in DOMAIN row : Platform!IsValue(row[col])
    <2>1. \A n \in Int : Platform!IsValue(Numeral(n))
      BY DEF Platform!IsValue, Platform!Number, Numeral
    <2>2. ASSUME NEW row \in Sales, NEW col \in DOMAIN row
          PROVE  row[col] \in {Numeral(n) : n \in 1..3}
      BY <2>2 DEF Sales
    <2> QED
      BY <2>1, <2>2
  <1>2. ASSUME NEW list \in UpTo(3, Sales)
        PROVE  /\ Len(list) \in Nat /\ DOMAIN list = 1..Len(list)
               /\ \A i \in DOMAIN list : list[i] \in Sales
    <2>1. PICK k \in 0..3 : list \in [1..k -> Sales]
      BY DEF UpTo
    <2>2. list \in Seq(Sales)
      BY <2>1
    <2> QED
      BY <2>1, <2>2
  <1>3. input.case.rows \in UpTo(3, Sales) /\ input.rows \in UpTo(3, Sales)
    BY DEF EvaluationInputs, Expectations
  <1>4. Nil \notin Int
    BY NilAssumption
  <1> QED
    BY <1>1, <1>2, <1>3, <1>4 DEF Platform!ComparisonInput

(* A recorded run of the service answers for the cases active at its start, the
   movements between runs add up, and a case passes only by pairing its rows off
   (evaluation_runner.py, evaluation.py): the property RunIsWhole of this
   specification, from the theorems about runs and comparisons. *)
THEOREM ServiceRunsAreWhole ==
    Spec => []RunIsWhole
  <1>1. Init => EvalHolds /\ ComparisonInputs
    <2>1. ASSUME Init, part = "evaluations" PROVE Platform!EvalInv
      <3>1. Eval!EvalInit
        BY <2>1 DEF Init, Algorithms
      <3>2. Platform!EvalSettings
        BY DEF Platform!EvalSettings
      <3> QED
        BY <3>1, <3>2, SameRuns, Platform!EvalInitially
    <2>2. ASSUME Init PROVE ComparisonInputs
      BY <2>2 DEF Init, Algorithms, ComparisonInputs, Chosen
    <2> QED
      BY <2>1, <2>2 DEF EvalHolds
  <1>2. (EvalHolds /\ ComparisonInputs) /\ [Next]_vars => (EvalHolds /\ ComparisonInputs)'
    BY EvalHoldsStep, ComparisonInputsStep
  <1>3. EvalHolds /\ ComparisonInputs => RunIsWhole
    <2>1. ASSUME EvalHolds, part = "evaluations" PROVE Eval!RunIsWhole /\ Eval!MovementsAddUp
      <3>1. Platform!RunIsWhole /\ Platform!MovementsAddUp
        BY <2>1, Platform!RunsAreSound DEF EvalHolds
      <3> QED
        BY <3>1, SameRuns
    <2>2. ASSUME ComparisonInputs, Chosen("comparisons")
          PROVE  Eval!PassesByPairing(s1.case, s1.rows)
      <3>1. Platform!PassesByPairing(s1.case, s1.rows)
        BY <2>2, ComparisonInputsAreRows, Platform!PassesOnlyByPairing, SMTT(60) DEF ComparisonInputs
      <3> QED
        BY <3>1, SameComparison, SMTT(60)
    <2> QED
      BY <2>1, <2>2 DEF RunIsWhole
  <1> QED
    BY <1>1, <1>2, <1>3, PTL DEF Spec

-----------------------------------------------------------------------------
(* Periods *)

(* The module DialogueProofs is about the same calendar (TimePeriods) ... *)
LEMMA SameCalendar ==
    /\ \A y, m, d : Time!Date(y, m, d) = Dialogue!Date(y, m, d)
    /\ \A d : Time!Ordinal(d) = Dialogue!Ordinal(d)
    /\ \A n : Time!DateOf(n) = Dialogue!DateOf(n)
    /\ \A d, n : Time!AddMonths(d, n) = Dialogue!AddMonths(d, n)
    /\ \A d, n : Time!PlusDays(d, n) = Dialogue!PlusDays(d, n)
    /\ \A d, policy : Time!WeekStart(d, policy) = Dialogue!WeekStart(d, policy)
    /\ \A d : Time!QuarterStart(d) = Dialogue!QuarterStart(d)
    /\ \A d, u, n : Time!Move(d, u, n) = Dialogue!Move(d, u, n)
  <1>1. /\ \A y, m, d : Time!Date(y, m, d) = Dialogue!Date(y, m, d)
        /\ \A y : Time!Leap(y) <=> Dialogue!Leap(y)
        /\ \A y : Time!Lengths(y) = Dialogue!Lengths(y)
        /\ \A y, m : Time!DaysInMonth(y, m) = Dialogue!DaysInMonth(y, m)
        /\ \A m : Time!Before(m) = Dialogue!Before(m)
    BY Zenon DEF Time!Date, Dialogue!Date, Time!Leap, Dialogue!Leap, Time!Lengths, Dialogue!Lengths,
       Time!DaysInMonth, Dialogue!DaysInMonth, Time!Before, Dialogue!Before
  <1>2. \A d : Time!Ordinal(d) = Dialogue!Ordinal(d)
    BY Zenon DEF Time!Ordinal, Dialogue!Ordinal, Time!Leap, Dialogue!Leap, Time!Before, Dialogue!Before
  <1>3. \A n : Time!DateOf(n) = Dialogue!DateOf(n)
    <2>1. \A n : Time!YearOf(n) = Dialogue!YearOf(n)
      BY Zenon DEF Time!YearOf, Dialogue!YearOf, Time!Ordinal, Dialogue!Ordinal, Time!Leap,
         Dialogue!Leap, Time!Before, Dialogue!Before, Time!Date, Dialogue!Date
    <2>2. \A y, n : Time!MonthIn(y, n) = Dialogue!MonthIn(y, n)
      BY ZenonT(60) DEF Time!MonthIn, Dialogue!MonthIn, Time!Ordinal, Dialogue!Ordinal, Time!Leap,
         Dialogue!Leap, Time!Before, Dialogue!Before, Time!Date, Dialogue!Date, Time!DaysInMonth,
         Dialogue!DaysInMonth, Time!Lengths, Dialogue!Lengths
    <2> QED
      BY <1>1, <1>2, <2>1, <2>2, Zenon DEF Time!DateOf, Dialogue!DateOf
  <1>4. /\ \A d, n : Time!AddMonths(d, n) = Dialogue!AddMonths(d, n)
        /\ \A d : Time!QuarterStart(d) = Dialogue!QuarterStart(d)
    BY <1>1, ZenonT(60) DEF Time!AddMonths, Dialogue!AddMonths, Time!DaysInMonth, Dialogue!DaysInMonth,
       Time!Date, Dialogue!Date, Time!Lengths, Dialogue!Lengths, Time!Leap, Dialogue!Leap,
       Time!QuarterStart, Dialogue!QuarterStart
  <1>5. \A d, n : Time!PlusDays(d, n) = Dialogue!PlusDays(d, n)
    BY <1>2, <1>3, Zenon DEF Time!PlusDays, Dialogue!PlusDays
  <1>6. \A d, policy : Time!WeekStart(d, policy) = Dialogue!WeekStart(d, policy)
    BY <1>2, <1>5, Zenon DEF Time!WeekStart, Dialogue!WeekStart, Time!Weekday, Dialogue!Weekday
  <1>7. \A d, u, n : Time!Move(d, u, n) = Dialogue!Move(d, u, n)
    BY <1>4, <1>5, Zenon DEF Time!Move, Dialogue!Move
  <1> QED
    BY <1>1, <1>2, <1>3, <1>4, <1>5, <1>6, <1>7

(* ... the same fiscal years ... *)
LEMMA SameFiscalYears ==
    /\ \A d, policy : Time!FiscalYearStart(d, policy) = Dialogue!FiscalYearStart(d, policy)
    /\ \A d, policy : Time!FiscalQuarterStart(d, policy) = Dialogue!FiscalQuarterStart(d, policy)
    /\ \A d, policy : Time!FiscalLabel(d, policy) = Dialogue!FiscalLabel(d, policy)
    /\ \A l, policy : Time!NamedFiscalYearStart(l, policy) = Dialogue!NamedFiscalYearStart(l, policy)
    /\ \A i, policy : Time!NamedQuarterStart(i, policy) = Dialogue!NamedQuarterStart(i, policy)
  <1>1. \A d, policy : Time!FiscalYearStart(d, policy) = Dialogue!FiscalYearStart(d, policy)
    BY SameCalendar, Zenon DEF Time!FiscalYearStart, Dialogue!FiscalYearStart
  <1>2. \A d, policy : Time!FiscalQuarterStart(d, policy) = Dialogue!FiscalQuarterStart(d, policy)
    BY SameCalendar, <1>1, Zenon DEF Time!FiscalQuarterStart, Dialogue!FiscalQuarterStart
  <1>3. \A d, policy : Time!FiscalLabel(d, policy) = Dialogue!FiscalLabel(d, policy)
    BY SameCalendar, Zenon DEF Time!FiscalLabel, Dialogue!FiscalLabel
  <1>4. \A l, policy : Time!NamedFiscalYearStart(l, policy) = Dialogue!NamedFiscalYearStart(l, policy)
    BY SameCalendar, Zenon DEF Time!NamedFiscalYearStart, Dialogue!NamedFiscalYearStart,
       Time!FiscalYearIsCalendar, Dialogue!FiscalYearIsCalendar
  <1>5. \A i, policy : Time!NamedQuarterStart(i, policy) = Dialogue!NamedQuarterStart(i, policy)
    BY SameCalendar, <1>4, Zenon DEF Time!NamedQuarterStart, Dialogue!NamedQuarterStart
  <1> QED
    BY <1>1, <1>2, <1>3, <1>4, <1>5

(* ... and the same periods. *)
LEMMA SamePeriods ==
    /\ \A t, policy : Time!LocalDate(t, policy) = Dialogue!LocalDate(t, policy)
    /\ \A i, policy, t : Time!Primary(i, policy, t) = Dialogue!Primary(i, policy, t)
    /\ \A i, policy, t : Time!Resolve(i, policy, t) = Dialogue!Resolve(i, policy, t)
    /\ \A p, t : Time!Covers(p, t) <=> Dialogue!Covers(p, t)
    /\ \A a, b : Time!Meet(a, b) <=> Dialogue!Meet(a, b)
  <1>1. /\ \A t, policy : Time!LocalDate(t, policy) = Dialogue!LocalDate(t, policy)
        /\ \A d, policy : Time!InstantAt(d, policy) = Dialogue!InstantAt(d, policy)
    BY SameCalendar, Zenon DEF Time!LocalDate, Dialogue!LocalDate, Time!InstantAt, Dialogue!InstantAt
  <1>2. \A i, today : Time!RollingStart(i, today) = Dialogue!RollingStart(i, today)
    BY SameCalendar, Zenon DEF Time!RollingStart, Dialogue!RollingStart, Time!RollingUnits,
       Dialogue!RollingUnits
  <1>3. \A i, policy, today, of : Time!Origin(i, policy, today, of) = Dialogue!Origin(i, policy, today, of)
    BY SameCalendar, SameFiscalYears, <1>2, ZenonT(60) DEF Time!Origin, Dialogue!Origin
  <1>4. Time!Shapes = Dialogue!Shapes
    BY Zenon DEF Time!Shapes, Dialogue!Shapes, Time!Shape, Dialogue!Shape
  <1>5. \A d, s, policy, t : Time!Spanning(d, s, policy, t) = Dialogue!Spanning(d, s, policy, t)
    BY SameCalendar, <1>1, Zenon DEF Time!Spanning, Dialogue!Spanning
  <1>6. \A i, policy, t : Time!Primary(i, policy, t) = Dialogue!Primary(i, policy, t)
    BY SameCalendar, <1>1, <1>3, <1>4, <1>5, Zenon DEF Time!Primary, Dialogue!Primary
  <1>7. \A t, n, policy : Time!ShiftYears(t, n, policy) = Dialogue!ShiftYears(t, n, policy)
    BY SameCalendar, <1>1, Zenon DEF Time!ShiftYears, Dialogue!ShiftYears
  <1>8. \A i, policy, p : Time!Comparison(i, policy, p) = Dialogue!Comparison(i, policy, p)
    BY <1>7, Zenon DEF Time!Comparison, Dialogue!Comparison
  <1>9. \A i, policy, p : Time!WithComparison(i, policy, p) = Dialogue!WithComparison(i, policy, p)
    BY <1>8, ZenonT(60) DEF Time!WithComparison, Dialogue!WithComparison, Time!Planned, Dialogue!Planned,
       Time!Ordered, Dialogue!Ordered, Time!Unresolved, Dialogue!Unresolved
  <1>10. \A i : Time!NeedsFiscalCalendar(i) <=> Dialogue!NeedsFiscalCalendar(i)
    BY Zenon DEF Time!NeedsFiscalCalendar, Dialogue!NeedsFiscalCalendar, Time!FiscalPeriods,
       Dialogue!FiscalPeriods
  <1>11. \A i, policy, t : Time!Resolve(i, policy, t) = Dialogue!Resolve(i, policy, t)
    BY <1>6, <1>9, <1>10, Zenon DEF Time!Resolve, Dialogue!Resolve, Time!Unresolved, Dialogue!Unresolved
  <1>12. /\ \A p, t : Time!Covers(p, t) <=> Dialogue!Covers(p, t)
         /\ \A a, b : Time!Meet(a, b) <=> Dialogue!Meet(a, b)
    BY Zenon DEF Time!Covers, Dialogue!Covers, Time!Meet, Dialogue!Meet
  <1> QED
    BY <1>1, <1>6, <1>11, <1>12

(* Periods tile one way in both (Tiles) ... *)
LEMMA SameTiling ==
    ASSUME NEW policy, NEW t, Dialogue!Tiles(policy, t)
    PROVE  Time!Tiles(policy, t)
  <1> DEFINE plain == (Dialogue!CalendarPeriods \cup Dialogue!FiscalPeriods)
                         \ {"NAMED_FISCAL_YEAR", "NAMED_QUARTER"}
             label == Dialogue!FiscalLabel(
                         Dialogue!FiscalYearStart(Dialogue!LocalDate(t, policy), policy), policy)
             at == [p \in plain |-> Dialogue!Primary(Dialogue!Only(p), policy, t)]
             named == Dialogue!Primary(Dialogue!Year(label), policy, t)
             quarter == [i \in 1..4 |-> Dialogue!Primary(Dialogue!Quarter(label, i), policy, t)]
  <1>1. /\ \A p : Time!Only(p) = Dialogue!Only(p)
        /\ \A l : Time!Year(l) = Dialogue!Year(l)
        /\ \A l, i : Time!Quarter(l, i) = Dialogue!Quarter(l, i)
        /\ Time!CalendarPeriods = Dialogue!CalendarPeriods
        /\ Time!FiscalPeriods = Dialogue!FiscalPeriods
    BY Zenon DEF Time!Only, Dialogue!Only, Time!Year, Dialogue!Year, Time!Quarter, Dialogue!Quarter,
       Time!Intent, Dialogue!Intent, Time!CalendarPeriods, Dialogue!CalendarPeriods,
       Time!FiscalPeriods, Dialogue!FiscalPeriods
  <1>2. Dialogue!Tiled(at, named, quarter, t)
    BY Zenon DEF Dialogue!Tiles
  <1>3. \A a, n, q : Time!Tiled(a, n, q, t) <=> Dialogue!Tiled(a, n, q, t)
    BY ZenonT(60) DEF Time!Tiled, Dialogue!Tiled, Time!Covers, Dialogue!Covers, Time!Meet, Dialogue!Meet
  <1>4. [p \in plain |-> Time!Primary(Time!Only(p), policy, t)] = at
    BY <1>1, SamePeriods
  <1>5. [i \in 1..4 |-> Time!Primary(Time!Quarter(label, i), policy, t)] = quarter
    BY <1>1, SamePeriods
  <1>6. /\ Time!FiscalLabel(Time!FiscalYearStart(Time!LocalDate(t, policy), policy), policy) = label
        /\ Time!Primary(Time!Year(label), policy, t) = named
        /\ (Time!CalendarPeriods \cup Time!FiscalPeriods) \ {"NAMED_FISCAL_YEAR", "NAMED_QUARTER"} = plain
    BY <1>1, SameFiscalYears, SamePeriods, Zenon
  <1>7. Time!Tiled(at, named, quarter, t)
    BY <1>2, <1>3, Zenon
  <1> HIDE DEF at, named, quarter, label, plain
  <1> QED
    BY <1>4, <1>5, <1>6, <1>7, Zenon DEF Time!Tiles

(* ... comparisons have one shape ... *)
LEMMA SameComparisons ==
    ASSUME NEW policy, NEW t, NEW i, Dialogue!SameShape(i, policy, t)
    PROVE  Time!SameShape(i, policy, t)
  <1>1. \A p : Time!Shaped(i, p) <=> Dialogue!Shaped(i, p)
    <2>1. Time!OneYear = Dialogue!OneYear
      BY Zenon DEF Time!OneYear, Dialogue!OneYear
    <2> QED
      BY <2>1, Zenon DEF Time!Shaped, Dialogue!Shaped, Time!Length, Dialogue!Length, Time!Meet,
         Dialogue!Meet
  <1> QED
    BY <1>1, SamePeriods, Zenon DEF Time!SameShape, Dialogue!SameShape

(* ... a question is read one way (Parse) ... *)
LEMMA SameReading ==
    /\ \A said : Time!Parse(said) = Dialogue!Parse(said)
    /\ \A i : Time!NamesNothing(i) <=> Dialogue!NamesNothing(i)
    /\ \A i : Time!IsTemporal(i) <=> Dialogue!IsTemporal(i)
  <1>1. /\ Time!PhraseMatches = Dialogue!PhraseMatches
        /\ Time!PatternOrder = Dialogue!PatternOrder
        /\ \A said : Time!MatchComparison(said) = Dialogue!MatchComparison(said)
        /\ \A said : Time!MatchGrain(said) = Dialogue!MatchGrain(said)
        /\ Time!FiscalPhrases = Dialogue!FiscalPhrases
    BY Zenon DEF Time!PhraseMatches, Dialogue!PhraseMatches, Time!PatternOrder, Dialogue!PatternOrder,
       Time!MatchComparison, Dialogue!MatchComparison, Time!ComparisonMatches,
       Dialogue!ComparisonMatches, Time!MatchGrain, Dialogue!MatchGrain, Time!FiscalPhrases,
       Dialogue!FiscalPhrases
  <1>2. \A said : Time!MatchPeriod(said) = Dialogue!MatchPeriod(said)
    BY Zenon DEF Time!MatchPeriod, Dialogue!MatchPeriod, Time!PhraseMatches, Dialogue!PhraseMatches,
       Time!PatternOrder, Dialogue!PatternOrder
  <1>3. ASSUME NEW said
        PROVE  Time!Parse(said) = Dialogue!Parse(said)
    <2>1. /\ Time!MatchComparison(said) = Dialogue!MatchComparison(said)
          /\ Time!MatchGrain(said) = Dialogue!MatchGrain(said)
          /\ Time!MatchPeriod(said) = Dialogue!MatchPeriod(said)
          /\ Time!FiscalPhrases = Dialogue!FiscalPhrases
      BY <1>1, <1>2
    <2> QED
      BY <2>1, SMT DEF Time!Parse, Dialogue!Parse
  <1> QED
    BY <1>3, Zenon DEF Time!NamesNothing, Dialogue!NamesNothing, Time!IsTemporal, Dialogue!IsTemporal

(* ... and planned for one way (PlanTime). *)
LEMMA SamePlans ==
    ASSUME NEW said, NEW policy, NEW ds, NEW tables, NEW binding, NEW named, NEW t,
           Dialogue!Decided(said, policy, ds, tables, binding, named, t)
    PROVE  Time!Decided(said, policy, ds, tables, binding, named, t)
  <1>1. /\ Time!NoDimension = Dialogue!NoDimension
        /\ \A s : Time!Sole(s) <=> Dialogue!Sole(s)
        /\ \A l, r, n : Time!Rungs(l, tables, r, n) = Dialogue!Rungs(l, tables, r, n)
        /\ \A r : Time!Preferred(r) = Dialogue!Preferred(r)
    BY ZenonT(60) DEF Time!NoDimension, Dialogue!NoDimension, Time!Sole, Dialogue!Sole, Time!Rungs,
       Dialogue!Rungs, Time!CandidatesForTables, Dialogue!CandidatesForTables, Time!Preferred,
       Dialogue!Preferred
  <1>2. \A l, r, n : Time!Choose(l, tables, r, n) = Dialogue!Choose(l, tables, r, n)
    BY <1>1, ZenonT(60) DEF Time!Choose, Dialogue!Choose
  <1>3. \A l : Time!PlanTime(said, policy, l, tables, binding, named, t) =
                   Dialogue!PlanTime(said, policy, l, tables, binding, named, t)
    BY <1>1, <1>2, SameReading, SamePeriods, Zenon DEF Time!PlanTime, Dialogue!PlanTime
  <1>4. \A l : Time!Reversed(l) = Dialogue!Reversed(l)
    BY Zenon DEF Time!Reversed, Dialogue!Reversed
  <1>5. \A p, q, a, u, c : Time!Undropped(p, q, a, u, c, binding, named) <=>
                               Dialogue!Undropped(p, q, a, u, c, binding, named)
    BY Zenon DEF Time!Undropped, Dialogue!Undropped, Time!Alike, Dialogue!Alike
  <1> QED
    BY <1>3, <1>4, <1>5, SameReading, Zenon DEF Time!Decided, Dialogue!Decided

(* The inputs of the calendar and of the choice of a column. *)
CalendarInputs == Chosen("calendars") => s1 \in Calendars
PlanningInputs == Chosen("plans") => s1 \in PlanInputs

LEMMA PeriodInputsStep ==
    ASSUME CalendarInputs, PlanningInputs, [Next]_vars
    PROVE  CalendarInputs' /\ PlanningInputs'
  <1>1. CalendarInputs'
    <2> SUFFICES ASSUME part' = "calendars", s1' # Nil PROVE s1' \in Calendars
      BY DEF CalendarInputs, Chosen
    <2>1. part = "calendars"
      BY DEF Next, vars
    <2>2. Given("calendars", Calendars) \/ UNCHANGED s1
      BY <2>1 DEF Next, vars, Given
    <2>3. CASE UNCHANGED s1
      BY <2>1, <2>3 DEF CalendarInputs, Chosen
    <2>4. CASE Given("calendars", Calendars)
      BY <2>4 DEF Given
    <2> QED
      BY <2>2, <2>3, <2>4, SMTT(60)
  <1>2. PlanningInputs'
    <2> SUFFICES ASSUME part' = "plans", s1' # Nil PROVE s1' \in PlanInputs
      BY DEF PlanningInputs, Chosen
    <2>1. part = "plans"
      BY DEF Next, vars
    <2>2. Given("plans", PlanInputs) \/ UNCHANGED s1
      BY <2>1 DEF Next, vars, Given
    <2>3. CASE UNCHANGED s1
      BY <2>1, <2>3 DEF PlanningInputs, Chosen
    <2>4. CASE Given("plans", PlanInputs)
      BY <2>4 DEF Given
    <2> QED
      BY <2>2, <2>3, <2>4, SMTT(60)
  <1> QED
    BY <1>1, <1>2

(* The moments, calendars and periods of this instance are such as the theorems about
   them ask for. *)
LEMMA MomentsAreAmid ==
    ASSUME NEW moment \in Moments
    PROVE  Dialogue!Amid(moment)
  <1>1. PICK t \in Today : moment = 24 * Time!Ordinal(Time!Date(2024, t[1], t[2])) + 3
    BY DEF Moments
  <1> DEFINE m == t[1]
             d == t[2]
             day == Dialogue!Date(2024, m, d)
  <1>2. /\ m \in 1..12 /\ d \in {1, 15, 27, 28, 29, 30, 31}
        /\ d <= <<31, 29, 31, 30, 31, 30, 31, 31, 30, 31, 30, 31>>[m]
    BY DEF Today
  <1>3. moment = 24 * Dialogue!Ordinal(day) + 3
    BY <1>1, SameCalendar
  <1>4. Dialogue!DaysInMonth(2024, m) = <<31, 29, 31, 30, 31, 30, 31, 31, 30, 31, 30, 31>>[m]
    BY <1>2 DEF Dialogue!DaysInMonth, Dialogue!Lengths, Dialogue!Leap
  <1>5. Dialogue!DaysInMonth(2024, m) \in Nat /\ d \in Int /\ 1 <= d
    <2> DEFINE y == 2024
    <2>1. y \in Int
      OBVIOUS
    <2> HIDE DEF m, d, y
    <2>2. Dialogue!DaysInMonth(y, m) \in Nat
      BY <1>2, <2>1, Dialogue!MonthSizes
    <2> QED
      BY <1>2, <2>2 DEF y
  <1>6. day.year = 2024 /\ day.month = m /\ day.day = d /\ day = Dialogue!Date(day.year, day.month, day.day)
    BY DEF Dialogue!Date
  <1> HIDE DEF m, d, day
  <1>7. d \in 1..Dialogue!DaysInMonth(2024, m)
    BY <1>2, <1>4, <1>5, SMTT(60)
  <1>8. Dialogue!IsDate(day)
    BY <1>2, <1>6, <1>7, SMTT(60) DEF Dialogue!IsDate
  <1>9. 1900 <= day.year /\ day.year <= 2999 /\ 3 \in 0..23
    BY <1>6
  <1> QED
    BY <1>3, <1>8, <1>9, Dialogue!YearsAreAmid

LEMMA CalendarsTurnAlike ==
    ASSUME NEW policy \in Calendars
    PROVE  /\ policy \in Dialogue!Policy /\ Dialogue!TurnsAlike(policy)
           /\ Dialogue!ValidFiscalStart(policy.month, policy.day)
  <1>1. /\ policy \in [offset : {-5, 2}, week_start : {0, 5}, month : {1, 2, 7, 8}, day : {1, 28},
                       label : {"START_YEAR", "END_YEAR"}, status : {"CONFIRMED"}]
    BY DEF Calendars
  <1>2. policy \in Dialogue!Policy
    BY <1>1 DEF Dialogue!Policy
  <1>3. policy.day \in {1, 28} /\ policy.month \in 1..12
    BY <1>1
  <1>4. ASSUME NEW m \in 1..12
        PROVE  Dialogue!ValidFiscalStart(m, policy.day)
    <2> DEFINE y == 2025
    <2>1. y \in Int
      OBVIOUS
    <2> HIDE DEF y
    <2>2. Dialogue!DaysInMonth(y, m) \in Nat /\ 28 <= Dialogue!DaysInMonth(y, m)
      BY <2>1, Dialogue!MonthSizes
    <2>3. Dialogue!DaysInMonth(y, m) = Dialogue!Lengths(y)[m]
      BY DEF Dialogue!DaysInMonth
    <2>4. policy.day <= Dialogue!Lengths(y)[m]
      BY <1>3, <2>2, <2>3, SMTT(60)
    <2> QED
      BY <2>4 DEF Dialogue!ValidFiscalStart, y
  <1> QED
    BY <1>2, <1>3, <1>4, SMTT(60) DEF Dialogue!TurnsAlike

LEMMA ComparedAreReal ==
    ASSUME NEW intent \in Compared
    PROVE  /\ Dialogue!DescribesARealPeriod(intent)
           /\ intent.period \in DOMAIN Dialogue!Shapes \cup {"NONE"}
  <1>1. /\ intent.period \in {"TODAY", "LAST_WEEK", "MONTH_TO_DATE", "LAST_QUARTER", "YEAR_TO_DATE",
                              "FISCAL_QUARTER_TO_DATE", "NAMED_FISCAL_YEAR", "NAMED_QUARTER", "ROLLING"}
        /\ intent.value = 3 /\ intent.unit = "MONTH" /\ intent.year = 2023 /\ intent.quarter = 2
    BY DEF Compared
  <1>2. "MONTH" \in DOMAIN Dialogue!MaxRolling /\ 3 \in 1..Dialogue!MaxRolling["MONTH"]
    BY DEF Dialogue!MaxRolling
  <1>3. 2023 \in Int /\ 1900 <= 2023 /\ 2023 <= 2999 /\ 2 \in 1..4
    OBVIOUS
  <1>4. Dialogue!DescribesARealPeriod(intent)
    <2>1. intent.unit \in DOMAIN Dialogue!MaxRolling /\ intent.value \in 1..Dialogue!MaxRolling[intent.unit]
      BY <1>1, <1>2
    <2>2. intent.year \in Int /\ 1900 <= intent.year /\ intent.year <= 2999
      BY <1>1, <1>3, SMTT(60)
    <2>3. intent.quarter \in 1..4
      BY <1>1, <1>3, SMTT(60)
    <2> QED
      BY <2>1, <2>2, <2>3, SMTT(60) DEF Dialogue!DescribesARealPeriod
  <1>5. DOMAIN Dialogue!Shapes =
           {"TODAY", "YESTERDAY", "WEEK_TO_DATE", "LAST_WEEK",
            "MONTH_TO_DATE", "LAST_MONTH", "QUARTER_TO_DATE", "LAST_QUARTER",
            "YEAR_TO_DATE", "LAST_YEAR", "FISCAL_YEAR_TO_DATE", "FISCAL_YEAR",
            "LAST_FISCAL_YEAR", "FISCAL_QUARTER_TO_DATE", "LAST_FISCAL_QUARTER", "NAMED_FISCAL_YEAR",
            "NAMED_QUARTER", "ROLLING"}
    BY Dialogue!ShapesAre
  <1>6. intent.period \in DOMAIN Dialogue!Shapes
    BY <1>1, <1>5
  <1> QED
    BY <1>4, <1>6

LEMMA DimensionsAreListed ==
    ASSUME NEW ds \in Dimensions
    PROVE  Dialogue!Listed(ds, {"a", "b"}, {"t", "u"}, {"CONFIRMED", "PROPOSED"}, {"EVENT_TIME", "OTHER"})
  <1> DEFINE Line == [id : {"a", "b"}, table : {"t", "u"}, status : {"CONFIRMED", "PROPOSED"},
                      role : {"EVENT_TIME", "OTHER"}, default : BOOLEAN]
  <1>1. PICK r1 \in {"EVENT_TIME", "OTHER"}, r2 \in {"EVENT_TIME", "OTHER"}, d1 \in BOOLEAN,
             d2 \in BOOLEAN, t2 \in {"t", "u"}, confirmed \in {"CONFIRMED", "PROPOSED"} :
          ds = <<Dimension("a", "t", "CONFIRMED", r1, d1), Dimension("b", t2, confirmed, r2, d2)>>
    BY DEF Dimensions
  <1> DEFINE x == Dimension("a", "t", "CONFIRMED", r1, d1)
             y == Dimension("b", t2, confirmed, r2, d2)
  <1>2. x \in Line /\ y \in Line /\ x.id = "a" /\ y.id = "b"
    BY DEF Dimension
  <1> HIDE DEF x, y, Line
  <1>3. ds = <<x, y>>
    BY <1>1 DEF x, y
  <1>4. ds \in Seq(Line) /\ Len(ds) = 2 /\ ds[1] = x /\ ds[2] = y
    BY <1>2, <1>3
  <1>5. \A i, j \in 1..Len(ds) : ds[i].id = ds[j].id => i = j
    <2> SUFFICES ASSUME NEW i \in 1..2, NEW j \in 1..2, ds[i].id = ds[j].id
                 PROVE  i = j
      BY <1>4
    <2>1. (i = 1 \/ i = 2) /\ (j = 1 \/ j = 2)
      OBVIOUS
    <2> QED
      BY <1>2, <1>4, <2>1, SMTT(60)
  <1> QED
    BY <1>4, <1>5, SMTT(60) DEF Dialogue!Listed, Line

(* A question's period is exact and its column never guessed (resolver.py, dimensions.py,
   planning.py): the property PeriodsAreExact of this specification, from the theorems
   about the calendar and the planning. *)
THEOREM ServicePeriodsAreExact ==
    Spec => []PeriodsAreExact
  <1>1. Init => CalendarInputs /\ PlanningInputs
    BY DEF Init, Algorithms, CalendarInputs, PlanningInputs, Chosen
  <1>2. (CalendarInputs /\ PlanningInputs) /\ [Next]_vars => (CalendarInputs /\ PlanningInputs)'
    BY PeriodInputsStep
  <1>3. CalendarInputs /\ PlanningInputs => PeriodsAreExact
    <2>1. ASSUME CalendarInputs, Chosen("calendars"), NEW moment \in Moments
          PROVE  /\ Time!Tiles(s1, moment)
                 /\ \A intent \in Compared : Time!SameShape(intent, s1, moment)
      <3>1. /\ s1 \in Dialogue!Policy /\ Dialogue!TurnsAlike(s1)
            /\ Dialogue!ValidFiscalStart(s1.month, s1.day)
        BY <2>1, CalendarsTurnAlike DEF CalendarInputs
      <3>2. Dialogue!Amid(moment)
        BY MomentsAreAmid
      <3>3. Time!Tiles(s1, moment)
        BY <3>1, <3>2, Dialogue!CalendarTiles, SameTiling
      <3>4. ASSUME NEW intent \in Compared
            PROVE  Time!SameShape(intent, s1, moment)
        <4>1. Dialogue!SameShape(intent, s1, moment)
          BY <3>1, <3>2, ComparedAreReal, Dialogue!ComparisonsKeepShape
        <4> QED
          BY <4>1, SameComparisons
      <3> QED
        BY <3>3, <3>4
    <2>2. ASSUME PlanningInputs, Chosen("plans"), NEW policy, NEW moment
          PROVE  Time!Decided(s1.said, policy, s1.dimensions, s1.tables, s1.binding, s1.named, moment)
      <3>1. s1.dimensions \in Dimensions
        BY <2>2 DEF PlanningInputs, PlanInputs
      <3>2. Dialogue!Decided(s1.said, policy, s1.dimensions, s1.tables, s1.binding, s1.named, moment)
        BY <3>1, DimensionsAreListed, Dialogue!PlansAreDecided, SMTT(60)
      <3> QED
        BY <3>2, SamePlans
    <2> QED
      BY <2>1, <2>2, SMTT(60) DEF PeriodsAreExact
  <1> QED
    BY <1>1, <1>2, <1>3, PTL DEF Spec

-----------------------------------------------------------------------------
(* Names are read ... *)
LEMMA SameWords ==
    /\ \A text, n : Ent!Places(text, n) = Dialogue!Places(text, n)
    /\ \A text : Ent!Words(text) = Dialogue!Words(text)
    /\ \A text, i, n : Ent!Window(text, i, n) = Dialogue!Window(text, i, n)
    /\ \A q, v : Ent!ContainsWord(q, v) <=> Dialogue!ContainsWord(q, v)
  <1>1. \A text, n : Ent!Places(text, n) = Dialogue!Places(text, n)
    BY Zenon DEF Ent!Places, Dialogue!Places
  <1>2. \A text : Ent!Words(text) = Dialogue!Words(text)
    BY Zenon DEF Ent!Words, Dialogue!Words, Ent!Places, Dialogue!Places,
       Ent!Cardinality, Dialogue!Cardinality
  <1>3. \A text, i, n : Ent!Window(text, i, n) = Dialogue!Window(text, i, n)
    BY Zenon DEF Ent!Window, Dialogue!Window
  <1>4. \A q, v : Ent!ContainsWord(q, v) <=> Dialogue!ContainsWord(q, v)
    BY <1>3, Zenon DEF Ent!ContainsWord, Dialogue!ContainsWord
  <1> QED
    BY <1>1, <1>2, <1>3, <1>4

(* ... looked up ... *)
LEMMA SameLookup ==
    /\ \A f : Ent!Range(f) = Dialogue!Range(f)
    /\ \A text : Ent!SearchTerms(text) = Dialogue!SearchTerms(text)
    /\ \A rows, text : Ent!Answering(rows, text) = Dialogue!Answering(rows, text)
    /\ \A rows, text : Ent!Lookup(rows, text) = Dialogue!Lookup(rows, text)
    /\ \A es, as, al, c : Ent!Bindings(es, as, al, c) = Dialogue!Bindings(es, as, al, c)
  <1>1. /\ \A f : Ent!Range(f) = Dialogue!Range(f)
        /\ \A n, s : Ent!Foremost(n, s) = Dialogue!Foremost(n, s)
        /\ \A text : Ent!Fragments(text) = Dialogue!Fragments(text)
        /\ \A f : Ent!TooShort(f) <=> Dialogue!TooShort(f)
        /\ \A u, v : Ent!BeginsWith(u, v) <=> Dialogue!BeginsWith(u, v)
        /\ Ent!Strategies = Dialogue!Strategies
    BY Zenon DEF Ent!Range, Dialogue!Range, Ent!Foremost, Dialogue!Foremost, Ent!Fragments,
       Dialogue!Fragments, Ent!TooShort, Dialogue!TooShort, Ent!BeginsWith, Dialogue!BeginsWith,
       Ent!Strategies, Dialogue!Strategies, Ent!Cardinality, Dialogue!Cardinality
  <1>2. \A text : Ent!SearchTerms(text) = Dialogue!SearchTerms(text)
    BY <1>1, Zenon DEF Ent!SearchTerms, Dialogue!SearchTerms
  <1>3. \A r, z, t : Ent!Satisfies(r, z, t) <=> Dialogue!Satisfies(r, z, t)
    BY DEF Ent!Satisfies, Dialogue!Satisfies, Ent!BeginsWith, Dialogue!BeginsWith,
       Ent!EndsWith, Dialogue!EndsWith
  <1>4. \A rows, text : Ent!Answering(rows, text) = Dialogue!Answering(rows, text)
    <2> TAKE rows, text
    <2> DEFINE
          ours(a) == {r \in DOMAIN rows :
                         Ent!Satisfies(rows[r], Ent!Strategies[a[1]], Ent!SearchTerms(text)[a[2]])}
          theirs(a) == {r \in DOMAIN rows :
                         Dialogue!Satisfies(rows[r], Dialogue!Strategies[a[1]],
                                            Dialogue!SearchTerms(text)[a[2]])}
          ourHits == {a \in (1..4) \X DOMAIN Ent!SearchTerms(text) : ours(a) # {}}
          theirHits == {a \in (1..4) \X DOMAIN Dialogue!SearchTerms(text) : theirs(a) # {}}
          first(places) == CHOOSE a \in places :
                              \A b \in places : a[1] < b[1] \/ (a[1] = b[1] /\ a[2] <= b[2])
    <2>1. \A a : ours(a) = theirs(a)
      BY <1>1, <1>2, <1>3, SMTT(60)
    <2>2. ourHits = theirHits
      BY <1>2, <2>1
    <2>3. /\ Ent!Answering(rows, text) = IF ourHits = {} THEN {} ELSE ours(first(ourHits))
          /\ Dialogue!Answering(rows, text) =
                IF theirHits = {} THEN {} ELSE theirs(first(theirHits))
      BY Zenon DEF Ent!Answering, Dialogue!Answering
    <2> HIDE DEF ourHits, theirHits, ours, theirs, first
    <2> QED
      BY <2>1, <2>2, <2>3, SMTT(60)
  <1>5. \A rows, text : Ent!Lookup(rows, text) = Dialogue!Lookup(rows, text)
    <2> TAKE rows, text
    <2>1. Ent!Foremost(2, Ent!Answering(rows, text)) = Dialogue!Foremost(2, Dialogue!Answering(rows, text))
      BY <1>1, <1>4, SMTT(60)
    <2> QED
      BY <2>1, Zenon DEF Ent!Lookup, Dialogue!Lookup
  <1>6. \A es, as, al, c : Ent!Bindings(es, as, al, c) = Dialogue!Bindings(es, as, al, c)
    <2> TAKE es, as, al, c
    <2> DEFINE
          usable(e) == {i \in DOMAIN as : /\ as[i].confirmed /\ as[i].entity = e.name
                                         /\ as[i].column \in al[e.table]}
          keys(e) == {i \in usable(e) : as[i].identifier}
          labels(e) == {i \in usable(e) : ~as[i].identifier /\ as[i].label}
          bound(e, k, d) == [entity |-> e.name, key |-> as[k].column, display |-> as[d].column]
          ours(e) == {bound(e, k, d) : k \in Ent!Foremost(1, keys(e)), d \in Ent!Foremost(1, labels(e))}
          theirs(e) == {bound(e, k, d) : k \in Dialogue!Foremost(1, keys(e)),
                                         d \in Dialogue!Foremost(1, labels(e))}
          meant == {x \in es : x.confirmed /\ x.table \in DOMAIN al /\ c \in {"any", x.name}}
    <2>1. \A e : ours(e) = theirs(e)
      <3> HIDE DEF keys, labels, bound
      <3> QED
        BY <1>1
    <2>2. /\ Ent!Bindings(es, as, al, c) = UNION {ours(e) : e \in meant}
          /\ Dialogue!Bindings(es, as, al, c) = UNION {theirs(e) : e \in meant}
      BY DEF Ent!Bindings, Dialogue!Bindings
    <2> HIDE DEF ours, theirs, meant
    <2> QED
      BY <2>1, <2>2, SMTT(60)
  <1> QED
    BY <1>1, <1>2, <1>4, <1>5, <1>6

(* ... and matched one way, in both modules (Entities). *)
LEMMA SameMatcher ==
    /\ \A k, q, v : Ent!Scores(k, q, v) <=> Dialogue!Scores(k, q, v)
    /\ Ent!Ladder = Dialogue!Ladder
    /\ \A k, q, r : Ent!NamedBy(k, q, r) <=> Dialogue!NamedBy(k, q, r)
    /\ \A text, c : Ent!ResolveCandidates(text, c) = Dialogue!ResolveCandidates(text, c)
    /\ \A text, b, data : Ent!ResolveLive(text, b, data) = Dialogue!ResolveLive(text, b, data)
    /\ \A text, v : Ent!ResolveSampled(text, v) = Dialogue!ResolveSampled(text, v)
  <1>1. \A k, q, v : Ent!Scores(k, q, v) <=> Dialogue!Scores(k, q, v)
    BY SameWords, ZenonT(90) DEF Ent!Scores, Dialogue!Scores
  <1>0. \A k, q, r : Ent!NamedBy(k, q, r) <=> Dialogue!NamedBy(k, q, r)
    BY <1>1, SameWords, Zenon DEF Ent!NamedBy, Dialogue!NamedBy
  <1>2. \A k, q, c : Ent!MatchCandidates(k, q, c) = Dialogue!MatchCandidates(k, q, c)
    BY <1>0, Zenon DEF Ent!MatchCandidates, Dialogue!MatchCandidates
  <1>3. Ent!Ladder = Dialogue!Ladder /\ \A f, n : Ent!FirstBut(f, n) = Dialogue!FirstBut(f, n)
    BY Zenon DEF Ent!Ladder, Dialogue!Ladder, Ent!FirstBut, Dialogue!FirstBut
  <1>4. \A text, c : Ent!ResolveCandidates(text, c) = Dialogue!ResolveCandidates(text, c)
    BY <1>2, <1>3, SameWords, Zenon DEF Ent!ResolveCandidates, Dialogue!ResolveCandidates
  <1>5. \A text, b, data : Ent!ResolveLive(text, b, data) = Dialogue!ResolveLive(text, b, data)
    <2> TAKE text, b, data
    <2> DEFINE ours(x) == {[entity |-> x.entity, key |-> r.key, display |-> r.display] :
                             r \in Ent!Lookup(data[x.entity], text)}
               theirs(x) == {[entity |-> x.entity, key |-> r.key, display |-> r.display] :
                               r \in Dialogue!Lookup(data[x.entity], text)}
    <2>1. \A x : ours(x) = theirs(x)
      BY SameLookup, Zenon
    <2>2. UNION {ours(x) : x \in b} = UNION {theirs(x) : x \in b}
      <3> HIDE DEF ours, theirs
      <3> QED
        BY <2>1
    <2> QED
      BY <1>4, <2>2, Zenon DEF Ent!ResolveLive, Dialogue!ResolveLive
  <1>6. \A text, v : Ent!ResolveSampled(text, v) = Dialogue!ResolveSampled(text, v)
    BY <1>1, <1>3, SameWords, Zenon DEF Ent!ResolveSampled, Dialogue!ResolveSampled
  <1> QED
    BY <1>0, <1>1, <1>3, <1>4, <1>5, <1>6

LEMMA SameNames ==
    ASSUME NEW text, NEW rows, NEW entities, NEW attributes, NEW allowed, NEW data
    PROVE  /\ Dialogue!AgreesWithSamples(text, rows) => Ent!AgreesWithSamples(text, rows)
           /\ Dialogue!ResolvesToTheOne(text, entities, attributes, allowed, data) =>
                 Ent!ResolvesToTheOne(text, entities, attributes, allowed, data)
  <1>1. Dialogue!AgreesWithSamples(text, rows) => Ent!AgreesWithSamples(text, rows)
    BY SameWords, SameLookup, SameMatcher, Zenon DEF Dialogue!AgreesWithSamples, Ent!AgreesWithSamples
  <1>2. Dialogue!ResolvesToTheOne(text, entities, attributes, allowed, data) =>
           Ent!ResolvesToTheOne(text, entities, attributes, allowed, data)
    <2> DEFINE ours == Ent!Bindings(entities, attributes, allowed, "any")
               theirs == Dialogue!Bindings(entities, attributes, allowed, "any")
    <2>1. \A c : Ent!Reviewed(c, entities, attributes, allowed) <=>
                     Dialogue!Reviewed(c, entities, attributes, allowed)
      BY Zenon DEF Ent!Reviewed, Dialogue!Reviewed
    <2>2. /\ \A t : Ent!Words(t) = Dialogue!Words(t)
          /\ \A r : Ent!Answering(r, text) = Dialogue!Answering(r, text)
          /\ \A k, q, r : Ent!NamedBy(k, q, r) <=> Dialogue!NamedBy(k, q, r)
          /\ Ent!Ladder = Dialogue!Ladder /\ ours = theirs
          /\ Ent!ResolveLive(text, ours, data) = Dialogue!ResolveLive(text, theirs, data)
      BY SameWords, SameLookup, SameMatcher, Zenon
    <2>3. \A S : Ent!Cardinality(S) = Dialogue!Cardinality(S)
      BY Zenon DEF Ent!Cardinality, Dialogue!Cardinality
    <2>4. \A r : Ent!CutOff(r, text) <=> Dialogue!CutOff(r, text)
      BY <2>2, <2>3, Zenon DEF Ent!CutOff, Dialogue!CutOff
    <2>5. ASSUME NEW c, Dialogue!Called(c, Dialogue!Words(text))
          PROVE  Ent!Called(c, Ent!Words(text))
      <3> DEFINE q == Dialogue!Words(text)
                 label == Dialogue!Words(c.display)
      <3>1. \/ Dialogue!ContainsWord(q, Norms[c.key])
            \/ Dialogue!ContainsWord(q, <<label[1]>>)
            \/ \E i \in DOMAIN q : <<Dialogue!Window(q, i, Len(label)), label>> \in NearlySpelled
        BY <2>5, Zenon DEF Dialogue!Called
      <3>2. Ent!Called(c, Ent!Words(text)) <=>
                \/ Ent!ContainsWord(Ent!Words(text), Norms[c.key])
                \/ Ent!ContainsWord(Ent!Words(text), <<Ent!Words(c.display)[1]>>)
                \/ \E i \in DOMAIN Ent!Words(text) :
                     <<Ent!Window(Ent!Words(text), i, Len(Ent!Words(c.display))), Ent!Words(c.display)>>
                        \in NearlySpelled
        BY Zenon DEF Ent!Called
      <3>3. Ent!Words(text) = q /\ Ent!Words(c.display) = label
        BY <2>2, Zenon
      <3> HIDE DEF q, label
      <3> QED
        BY <3>1, <3>2, <3>3, SameWords, Zenon
    <2> HIDE DEF ours, theirs
    <2>6. \A c : Dialogue!NamedBest(c, text, theirs, data) => Ent!NamedBest(c, text, ours, data)
      BY <2>2, <2>4, ZenonT(60) DEF Ent!NamedBest, Dialogue!NamedBest
    <2>7. \A c, r : Dialogue!AloneUnderItsLabel(c, text, r) => Ent!AloneUnderItsLabel(c, text, r)
      <3>1. \A r : Ent!Range(r) = Dialogue!Range(r)
        BY SameLookup
      <3> QED
        BY <2>2, <2>4, <3>1, SameWords, Zenon DEF Ent!AloneUnderItsLabel, Dialogue!AloneUnderItsLabel
    <2> DEFINE found == Dialogue!ResolveLive(text, theirs, data)
    <2>8. Dialogue!ResolvesToTheOne(text, entities, attributes, allowed, data) =>
             \A c \in found : found = {c} =>
                /\ Dialogue!Reviewed(c, entities, attributes, allowed)
                /\ Dialogue!Called(c, Dialogue!Words(text))
                /\ Dialogue!NamedBest(c, text, theirs, data)
                /\ Dialogue!AloneUnderItsLabel(c, text, data[c.entity])
      BY Zenon DEF Dialogue!ResolvesToTheOne, theirs
    <2>9. Ent!ResolvesToTheOne(text, entities, attributes, allowed, data) <=>
             \A c \in Ent!ResolveLive(text, ours, data) : Ent!ResolveLive(text, ours, data) = {c} =>
                /\ Ent!Reviewed(c, entities, attributes, allowed)
                /\ Ent!Called(c, Ent!Words(text))
                /\ Ent!NamedBest(c, text, ours, data)
                /\ Ent!AloneUnderItsLabel(c, text, data[c.entity])
      BY Zenon DEF Ent!ResolvesToTheOne, ours
    <2>10. Ent!ResolveLive(text, ours, data) = found
      BY <2>2
    <2> HIDE DEF found
    <2> QED
      BY <2>1, <2>5, <2>6, <2>7, <2>8, <2>9, <2>10, ZenonT(60)
  <1> QED
    BY <1>1, <1>2

(* The inputs of the lookup. *)
NameInputs == Chosen("entities") => s1 \in EntityInputs

LEMMA NameInputsStep ==
    ASSUME NameInputs, [Next]_vars
    PROVE  NameInputs'
  <1> SUFFICES ASSUME part' = "entities", s1' # Nil PROVE s1' \in EntityInputs
    BY DEF NameInputs, Chosen
  <1>1. part = "entities"
    BY DEF Next, vars
  <1>2. Given("entities", EntityInputs) \/ UNCHANGED s1
    BY <1>1 DEF Next, vars, Given
  <1>3. CASE UNCHANGED s1
    BY <1>1, <1>3 DEF NameInputs, Chosen
  <1>4. CASE Given("entities", EntityInputs)
    BY <1>4 DEF Given
  <1> QED
    BY <1>2, <1>3, <1>4, SMTT(60)

(* The tokens of this instance, and the words they have. *)
Said == {Tokens[i] : i \in DOMAIN Tokens}
Vocabulary == Said \cup {"prj", "14"}

LEMMA TokensHaveWords ==
    /\ Dialogue!LookupSettings(Said)
    /\ Norms \in [Said -> Seq(Vocabulary)] /\ DOMAIN Norms = Said
    /\ \A t \in Said : Norms[t] # <<>>
  <1>1. Tokens \in Seq(Said)
    <2>1. Tokens \in [1..11 -> Said]
      BY DEF Tokens, Said
    <2>2. \A S : \A n \in Nat : \A f \in [1..n -> S] : f \in Seq(S)
      OBVIOUS
    <2>3. 11 \in Nat
      OBVIOUS
    <2> QED
      BY <2>1, <2>2, <2>3, Zenon
  <1>2. \A t \in Said : <<t>> \in Seq(Vocabulary) /\ <<t>> # <<>>
    BY DEF Vocabulary
  <1>3. <<"prj", "14">> \in Seq(Vocabulary) /\ <<"prj", "14">> # <<>>
    BY DEF Vocabulary
  <1>4. Norms = [t \in Said |-> IF t = "prj-14" THEN <<"prj", "14">> ELSE <<t>>]
    BY DEF Norms, Said
  <1> HIDE DEF Said, Vocabulary
  <1> QED
    BY <1>1, <1>2, <1>3, <1>4 DEF Dialogue!LookupSettings

LEMMA NamesOfThisInstance ==
    ASSUME NEW input \in EntityInputs
    PROVE  Dialogue!Spoken(input.text, Said, Vocabulary) /\ Dialogue!Keyed(input.rows, Said)
  <1> DEFINE Label == {<<"falcon">>, <<"falcon", "ops">>, <<"falcon", "unit">>,
                       <<"devops", "unit">>, <<"ops">>, <<"prj14">>}
             Entry == [key : Said, display : Label]
  <1>1. input.text \in Seq(Said)
    <2>1. PICK n \in 1..3 : input.text \in [1..n -> DOMAIN Norms \ {"a", "b", "c"}]
      BY DEF EntityInputs
    <2>2. input.text \in [1..n -> Said] /\ n \in Nat
      BY <2>1, TokensHaveWords
    <2> QED
      BY <2>2
  <1>2. \A x \in Label : x \in Seq(Said) /\ 1 \in 1..Len(x)
    <2>1. {"falcon", "ops", "devops", "unit", "prj14"} \subseteq Said
      <3>1. /\ Tokens[2] = "falcon" /\ Tokens[7] = "ops" /\ Tokens[1] = "devops"
            /\ Tokens[6] = "unit" /\ Tokens[5] = "prj14"
            /\ 1 \in DOMAIN Tokens /\ 2 \in DOMAIN Tokens /\ 5 \in DOMAIN Tokens
            /\ 6 \in DOMAIN Tokens /\ 7 \in DOMAIN Tokens
        BY DEF Tokens
      <3> QED
        BY <3>1 DEF Said
    <2>2. \A S : \A a, b \in S : /\ <<a>> \in Seq(S) /\ 1 \in 1..Len(<<a>>)
                                 /\ <<a, b>> \in Seq(S) /\ 1 \in 1..Len(<<a, b>>)
      OBVIOUS
    <2>3. /\ "falcon" \in Said /\ "ops" \in Said /\ "devops" \in Said /\ "unit" \in Said
          /\ "prj14" \in Said
      BY <2>1
    <2> QED
      BY <2>2, <2>3, Zenon
  <1>3. ASSUME NEW x \in Label
        PROVE  Dialogue!Words(x) # <<>>
    <2>1. Dialogue!Spoken(x, Said, Vocabulary)
      BY <1>2, TokensHaveWords DEF Dialogue!Spoken
    <2>2. 1 \in 1..Len(x) /\ x[1] \in Said
      BY <1>2, SMTT(60)
    <2>3. Norms[x[1]] # <<>>
      BY <2>2, TokensHaveWords
    <2> QED
      BY <2>1, <2>2, <2>3, Dialogue!SomethingIsSaid
  <1>4. input.rows \in Seq(Entry)
    <2>1. {"prj14", "prj-14", "unit", "a", "b", "c"} \subseteq Said
      <3>1. /\ Tokens[5] = "prj14" /\ Tokens[3] = "prj-14" /\ Tokens[6] = "unit"
            /\ Tokens[9] = "a" /\ Tokens[10] = "b" /\ Tokens[11] = "c"
            /\ 3 \in DOMAIN Tokens /\ 5 \in DOMAIN Tokens /\ 6 \in DOMAIN Tokens
            /\ 9 \in DOMAIN Tokens /\ 10 \in DOMAIN Tokens /\ 11 \in DOMAIN Tokens
        BY DEF Tokens
      <3> QED
        BY <3>1 DEF Said
    <2>2. \A k \in {"prj14", "prj-14", "unit", "a", "b", "c"} : \A x \in Label : Unit(k, x) \in Entry
      BY <2>1 DEF Unit
    <2>3. Names \subseteq Label
      BY DEF Names
    <2>4. \/ \E x \in Names, y \in Names : input.rows = <<Unit("prj14", x), Unit("unit", y)>>
          \/ input.rows = <<Unit("prj-14", <<"falcon">>), Unit("unit", <<"ops">>)>>
          \/ input.rows = <<Unit("a", <<"falcon">>), Unit("b", <<"prj14">>)>>
          \/ input.rows = <<Unit("a", <<"falcon">>), Unit("b", <<"falcon">>), Unit("c", <<"falcon", "ops">>)>>
      BY DEF EntityInputs
    <2>5. <<"falcon">> \in Label /\ <<"ops">> \in Label /\ <<"prj14">> \in Label /\ <<"falcon", "ops">> \in Label
      OBVIOUS
    <2> HIDE DEF Entry, Label
    <2>6. \A a, b, c \in Entry : <<a, b>> \in Seq(Entry) /\ <<a, b, c>> \in Seq(Entry)
      OBVIOUS
    <2>7. /\ \A x, y \in Names : Unit("prj14", x) \in Entry /\ Unit("unit", y) \in Entry
          /\ Unit("prj-14", <<"falcon">>) \in Entry /\ Unit("unit", <<"ops">>) \in Entry
          /\ Unit("a", <<"falcon">>) \in Entry /\ Unit("b", <<"prj14">>) \in Entry
          /\ Unit("b", <<"falcon">>) \in Entry /\ Unit("c", <<"falcon", "ops">>) \in Entry
      BY <2>2, <2>3, <2>5, SMTT(60)
    <2> QED
      BY <2>4, <2>6, <2>7, Zenon
  <1>5. Dialogue!Keyed(input.rows, Said)
    <2>1. \A i \in 1..Len(input.rows) : input.rows[i] \in Entry
      <3> HIDE DEF Entry
      <3> QED
        BY <1>4
    <2>2. input.rows \in Seq([key : Said, display : Seq(Said)])
      <3>1. \A i \in 1..Len(input.rows) : input.rows[i] \in [key : Said, display : Seq(Said)]
        BY <2>1, <1>2
      <3> DEFINE S == [key : Said, display : Seq(Said)]
      <3>2. input.rows \in Seq(Entry) /\ \A i \in 1..Len(input.rows) : input.rows[i] \in S
        BY <1>4, <3>1
      <3> HIDE DEF Entry, S
      <3>3. input.rows \in Seq(S)
        BY <3>2
      <3> QED
        BY <3>3 DEF S
    <2>3. \A i \in 1..Len(input.rows) : Dialogue!Words(input.rows[i].display) # <<>>
      BY <2>1, <1>3
    <2> QED
      BY <2>2, <2>3 DEF Dialogue!Keyed
  <1> QED
    BY <1>1, <1>5, TokensHaveWords, SMTT(60) DEF Dialogue!Spoken

(* A question resolves to a row only if the caller may read it and the question names no
   other row found as well, nor is another row of the same label (entity_values.py,
   entities.py): the property ResolvesToTheOne of this specification, from the theorems
   about the lookup and the samples. *)
THEOREM ServiceResolvesToTheOne ==
    Spec => []ResolvesToTheOne
  <1>1. Init => NameInputs
    BY DEF Init, Algorithms, NameInputs, Chosen
  <1>2. NameInputs /\ [Next]_vars => NameInputs'
    BY NameInputsStep
  <1>3. NameInputs => ResolvesToTheOne
    <2>1. ASSUME NameInputs, Chosen("entities")
          PROVE  /\ Ent!AgreesWithSamples(s1.text, s1.rows)
                 /\ \A entity, label \in BOOLEAN,
                       allowed \in {[t |-> {"k", "d"}], [t |-> {"d"}], [u |-> {"k"}]} :
                      Ent!ResolvesToTheOne(s1.text,
                          {[name |-> "unit", table |-> "t", confirmed |-> entity]},
                          <<Attribute("k", TRUE, FALSE, TRUE), Attribute("x", FALSE, FALSE, TRUE),
                            Attribute("d", FALSE, TRUE, label)>>,
                          allowed, [unit |-> s1.rows])
      <3>1. /\ Dialogue!Spoken(s1.text, Said, Vocabulary) /\ Dialogue!Keyed(s1.rows, Said)
            /\ Dialogue!LookupSettings(Said)
        BY <2>1, NamesOfThisInstance, TokensHaveWords DEF NameInputs
      <3>2. Ent!AgreesWithSamples(s1.text, s1.rows)
        BY <3>1, Dialogue!SamplesAgreeWithRows, SameNames, SMTT(60)
      <3>3. ASSUME NEW entity \in BOOLEAN, NEW label \in BOOLEAN,
                   NEW allowed \in {[t |-> {"k", "d"}], [t |-> {"d"}], [u |-> {"k"}]}
            PROVE  Ent!ResolvesToTheOne(s1.text,
                       {[name |-> "unit", table |-> "t", confirmed |-> entity]},
                       <<Attribute("k", TRUE, FALSE, TRUE), Attribute("x", FALSE, FALSE, TRUE),
                         Attribute("d", FALSE, TRUE, label)>>,
                       allowed, [unit |-> s1.rows])
        <4> DEFINE es == {[name |-> "unit", table |-> "t", confirmed |-> entity]}
                   as == <<Attribute("k", TRUE, FALSE, TRUE), Attribute("x", FALSE, FALSE, TRUE),
                           Attribute("d", FALSE, TRUE, label)>>
                   data == [unit |-> s1.rows]
                   S == [entity : {"unit"}, column : {"k", "x", "d"}, identifier : BOOLEAN,
                         label : BOOLEAN, confirmed : BOOLEAN]
        <4>1. as \in Seq(S)
          <5>1. /\ Attribute("k", TRUE, FALSE, TRUE) \in S /\ Attribute("x", FALSE, FALSE, TRUE) \in S
                /\ Attribute("d", FALSE, TRUE, label) \in S
            BY DEF Attribute
          <5> HIDE DEF S
          <5>2. \A a, b, c \in S : <<a, b, c>> \in Seq(S)
            OBVIOUS
          <5> QED
            BY <5>1, <5>2, Zenon
        <4>2. \A e \in es : Dialogue!Keyed(data[e.name], Said)
          <5>1. \A e \in es : e.name = "unit"
            OBVIOUS
          <5>2. data["unit"] = s1.rows
            OBVIOUS
          <5> HIDE DEF es, data
          <5> QED
            BY <5>1, <5>2, <3>1, SMTT(60)
        <4> HIDE DEF es, as, data
        <4>3. Dialogue!ResolvesToTheOne(s1.text, es, as, allowed, data)
          BY <3>1, <4>1, <4>2, Dialogue!NamesResolveToOne DEF S
        <4>4. Ent!ResolvesToTheOne(s1.text, es, as, allowed, data)
          BY <4>3, SameNames
        <4> QED
          BY <4>4 DEF es, as, data
      <3> QED
        BY <3>2, <3>3
    <2> QED
      BY <2>1 DEF ResolvesToTheOne
  <1> QED
    BY <1>1, <1>2, <1>3, PTL DEF Spec

=============================================================================

----------------------------- MODULE MCService -----------------------------
(***************************************************************************)
(* The parts of the service that share no state with one another, each on  *)
(* its own small instance.  A behaviour is of one part, named by part; the *)
(* nine variables are that part's, and a part with fewer leaves the rest   *)
(* at Nil.  The parts "inputs ..." are algorithms: one step chooses an     *)
(* input, and the property compares what the code makes of it with its     *)
(* reference.                                                              *)
(***************************************************************************)
EXTENDS MCServiceInputs

CONSTANTS
    Tokenholders,  \* authentications
    SigningKeys,   \* keys of the issuer
    Checkers       \* runs of the quality checks

VARIABLES part, s1, s2, s3, s4, s5, s6, s7, s8, s9

vars == <<part, s1, s2, s3, s4, s5, s6, s7, s8, s9>>

Symmetry == Permutations(Tokenholders) \cup Permutations(SigningKeys) \cup Permutations(Checkers)

Conv == INSTANCE Conversations WITH
    Requests <- Turns, Subjects <- {"ann", "bob"}, Sources <- {"sales", "stock"},
    Threads <- {"thread"}, Asks <- Asks, Page <- 3, None <- Nil,
    conv <- s1, msgs <- s2, req <- s3, reader <- s4

Quality == INSTANCE QualityChecks WITH
    Null <- Nil, Assertions <- Freshness, Tables <- Contents, Runners <- Checkers,
    MaxChecks <- 4, Retained <- 1,
    data <- s1, enabled <- s2, results <- s3, clock <- s4, runner <- s5, toggling <- s6,
    newest <- s7

Eval == INSTANCE Evaluations WITH
    NaN <- Nil, Cases <- {"c1", "c2"}, RunIds <- {"e1", "e2"}, Concurrency <- 1, NoRun <- Nil,
    active <- s1, evals <- s2, stored <- s3, instant <- s4

Llm == INSTANCE ModelGateway WITH
    phase <- s1, outcome <- s2, counted <- s3, recorded <- s4, priced <- s5

Metric == INSTANCE MetricSelection WITH
    Metrics <- {"m1", "m2", "m3"}, Dims <- {"d1"}, Seeds <- {"m1", "m2"}, Questions <- {"q1"},
    Reindexers <- {"r1", "r2"}, Limit <- 2, MaxReviews <- 2,
    registry <- s1, index <- s2, reindex <- s3, question <- s4, reviews <- s5

Route == INSTANCE Routing WITH
    Metrics <- Catalogue, Scopes <- {{"m1", "m2"}, {"m2"}}, MaxTurns <- 4, Nothing <- Nil,
    context <- s1, query <- s2, ran <- s3, turns <- s4, thread <- s5

Migrate == INSTANCE Migrations WITH
    Processes <- {"p1", "p2"}, MaxStarts <- 3, log <- s1, schema <- s2, proc <- s3

Rotation == INSTANCE TokenKeys WITH
    Keys <- SigningKeys, CacheSeconds <- 1, FetchSeconds <- 1,
    MaxTime <- 3, Never <- Nil,
    published <- s1, cache <- s2, lock <- s3, auth <- s4, now <- s5

Harness == INSTANCE EvalHarness WITH
    Rows <- QueryRows, Backends <- {"fake", "postgres"}, Modes <- {"full", "sql"},
    backend <- s1, mode <- s2, dataset <- s3, case <- s4, stage <- s5, db <- s6, llm <- s7,
    turn <- s8, results <- s9

Screen == INSTANCE Workspace WITH
    Stored <- {"c1", "c2"}, Minted <- <<"n1">>, SourceOf <- [c1 |-> "sales", c2 |-> "stock"],
    Sources <- {"sales", "stock"}, Ids <- {"x1", "x2"}, None <- Nil,
    screen <- s1, exchanges <- s2, inflight <- s3, opening <- s4, adopting <- s5, home <- s6,
    strayed <- s7

(* The runs of the checks are finitely many.                               *)
ASSUME CheckersAssumption == IsFiniteSet(Checkers)

(* No conversation, datasource, question, caller or number is Nil, which   *)
(* stands for None.                                                        *)
ASSUME NilAssumption ==
    /\ Nil \notin Int
    /\ Nil \notin Tokenholders
    /\ Nil \notin Conv!Conversation \cup {"thread"}
    /\ Nil \notin Screen!Threads \cup {"sales", "stock"} /\ Nil \notin Screen!Outgoing

Tools == INSTANCE Toolbox WITH
    Requests <- Tokenholders, Schemas <- {{"t"}, {"t", "u"}}, Statements <- {{"t"}, {"u"}},
    CacheSeconds <- 1, TimeoutSeconds <- 1, MaxTime <- 2, MaxBytes <- 9, Results <- {<<9>>, <<2, 2, 2>>}, Null <- Nil,
    readOnly <- s1, schema <- s2, cache <- s3, verified <- s4, lock <- s5, request <- s6,
    now <- s7, proved <- s8

Preview == INSTANCE ColumnPreviews WITH
    Schemas <- HumanResources, Policies <- Policies, Columns <- Previewed, MaxChanges <- 2,
    datasource <- s1, policy <- s2, classified <- s3, proposed <- s4, request <- s5, seen <- s6,
    changes <- s7

Origin == INSTANCE Lineage

Time == INSTANCE TimePlanning

Sql == INSTANCE SqlValidation WITH
    AllowedSchemas <- {"analytics"}, AllowedTables <- {"t", "u"}, AllowedFunctions <- {"sum"},
    ProhibitedFunctions <- {"setval"}, SystemTables <- System, MaxRows <- 5

Ent == INSTANCE Entities WITH
    ByLength <- Tokens, Norm <- Norms, Short <- {"of", "a", "b", "c"},
    Identifiers <- {"prj14", "prj-14"}, Heads <- {"falcon", "devops", "falco", "prj14", "unit"},
    StartOf <- {<<"falco", "falcon">>}, EndOf <- {<<"ops", "devops">>},
    PartOf <- {<<"falco", "falcon">>, <<"ops", "devops">>}, Similar <- NearlySpelled,
    MaxTerms <- 5, MaxCandidates <- 2

Ground == INSTANCE Grounding WITH NoNumber <- Nil

----------------------------------------------------------------------------
(* The unused variables of a part with fewer than nine.                    *)
After8 == <<s9>>
After7 == <<s8, s9>>
After5 == <<s6, s7, s8, s9>>
After4 == <<s5, s6, s7, s8, s9>>
After3 == <<s4, s5, s6, s7, s8, s9>>
After1 == <<s2, s3, s4, s5, s6, s7, s8, s9>>

Algorithms == {"verdicts", "comparisons", "joins", "calendars", "plans", "statements",
               "entities", "answers", "grants", "lineages"}

Init ==
    \/ /\ part = "conversations" /\ Conv!Init
       /\ s5 = Nil /\ s6 = Nil /\ s7 = Nil /\ s8 = Nil /\ s9 = Nil
    \/ /\ part = "quality" /\ Quality!QualityInit
       /\ s8 = Nil /\ s9 = Nil
    \/ /\ part = "evaluations" /\ Eval!EvalInit
       /\ s5 = Nil /\ s6 = Nil /\ s7 = Nil /\ s8 = Nil /\ s9 = Nil
    \/ /\ part = "llm" /\ Llm!GatewayInit
       /\ s6 = Nil /\ s7 = Nil /\ s8 = Nil /\ s9 = Nil
    \/ /\ part = "metrics" /\ Metric!SelectionInit
       /\ s6 = Nil /\ s7 = Nil /\ s8 = Nil /\ s9 = Nil
    \/ /\ part = "routing" /\ Route!RoutingInit
       /\ s6 = Nil /\ s7 = Nil /\ s8 = Nil /\ s9 = Nil
    \/ /\ part = "migrations" /\ Migrate!MigrationsInit
       /\ s4 = Nil /\ s5 = Nil /\ s6 = Nil /\ s7 = Nil /\ s8 = Nil /\ s9 = Nil
    \/ /\ part = "keys" /\ Rotation!KeysInit
       /\ s6 = Nil /\ s7 = Nil /\ s8 = Nil /\ s9 = Nil
    \/ /\ part = "harness" /\ Harness!HarnessInit
    \/ /\ part = "workspace" /\ Screen!WorkspaceInit
       /\ s8 = Nil /\ s9 = Nil
    \/ /\ part = "toolbox" /\ Tools!ToolboxInit
       /\ s9 = Nil
    \/ /\ part = "previews" /\ Preview!PreviewInit
       /\ s8 = Nil /\ s9 = Nil
    \/ /\ part \in Algorithms /\ s1 = Nil
       /\ s2 = Nil /\ s3 = Nil /\ s4 = Nil /\ s5 = Nil /\ s6 = Nil /\ s7 = Nil /\ s8 = Nil
       /\ s9 = Nil

(* An algorithm is given one of its inputs, once.                          *)
Given(algorithm, inputs) ==
    part = algorithm /\ s1 = Nil /\ s1' \in inputs /\ UNCHANGED After1

Next ==
    /\ UNCHANGED part
    /\ \/ part = "conversations" /\ Conv!Next /\ UNCHANGED After4
       \/ part = "quality" /\ Quality!QualityNext /\ UNCHANGED After7
       \/ part = "evaluations" /\ Eval!EvalNext /\ UNCHANGED After4
       \/ part = "llm" /\ Llm!GatewayNext /\ UNCHANGED After5
       \/ part = "metrics" /\ Metric!SelectionNext /\ UNCHANGED After5
       \/ part = "routing" /\ Route!RoutingNext /\ UNCHANGED After5
       \/ part = "migrations" /\ Migrate!MigrationsNext /\ UNCHANGED After3
       \/ part = "keys" /\ Rotation!KeysNext /\ UNCHANGED After5
       \/ part = "harness" /\ Harness!HarnessNext
       \/ part = "workspace" /\ Screen!WorkspaceNext /\ UNCHANGED After7
       \/ part = "toolbox" /\ Tools!ToolboxNext /\ UNCHANGED After8
       \/ part = "previews" /\ Preview!PreviewNext /\ UNCHANGED After7
       \/ Given("verdicts", QualityInputs)
       \/ Given("comparisons", EvaluationInputs)
       \/ Given("joins", SliceInputs)
       \/ Given("calendars", Calendars)
       \/ Given("plans", PlanInputs)
       \/ Given("statements", SqlInputs)
       \/ Given("entities", EntityInputs)
       \/ Given("grants", GrantInputs)
       \/ Given("lineages", LineageInputs)
       \/ Given("answers", {i \in GroundingInputs :
                             Ground!Decimals(i.numeral.value) <= i.numeral.places})

Spec == Init /\ [][Next]_vars

Chosen(algorithm) == part = algorithm /\ s1 # Nil

----------------------------------------------------------------------------
(* A transcript holds every answered turn whole, in order, under its       *)
(* owner's thread and datasource; an answer without the warning is in it   *)
(* once; its pages join without gap or overlap while turns are appended    *)
(* (_record_conversation_turn in routes.py, append_turn and messages in    *)
(* postgres_conversations.py).                                             *)
TranscriptIsWhole ==
    part = "conversations" =>
        Conv!TranscriptIsWhole /\ Conv!SavedOrWarned /\ Conv!PagesAreSeamless

(* As long as every transcript loads and the user waits for it, the screen *)
(* shows one conversation and continues that one, and the question in      *)
(* flight is on it; whatever the user does, an exchange shown as pending   *)
(* is the one in flight (use-conversation.ts, workspace.tsx).              *)
ScreenIsOneConversation ==
    part = "workspace" => Screen!ScreenIsOneConversation /\ Screen!PendingIsInFlight

(* The datasource is read only through a role proved unable to write and   *)
(* on a schema no older than the cache allows; the policy leaves a caller  *)
(* the same under both engines; a value is previewed only of a column      *)
(* permitted during the request (toolbox.py, authorization, list_column_   *)
(* previews in knowledge_routes.py).                                       *)
ReadsArePermitted ==
    /\ part = "toolbox" => Tools!ReadsAreProved /\ Tools!OneReader
    /\ part = "previews" => Preview!PreviewIsPermitted
    /\ Chosen("grants") =>
         Preview!PoliciesAgree(s1, {Employees, Payroll}, {"m1", "m2"})

(* The verdict shown is the newest recorded, whatever runs overlap, and a  *)
(* verdict is true of the table it was measured on (record and latest in   *)
(* postgres_quality.py, interpret in quality.py).                          *)
NewestVerdictStands ==
    /\ part = "quality" => Quality!NewestVerdictStands
    /\ Chosen("verdicts") => Quality!VerdictIsTrue(s1.assertion, s1.table)

(* A recorded run answers for the cases active at its start, the movements *)
(* between runs add up, and a case passes only by pairing its rows off     *)
(* (evaluation_runner.py, evaluation.py).                                  *)
RunIsWhole ==
    /\ part = "evaluations" => Eval!RunIsWhole /\ Eval!MovementsAddUp
    /\ Chosen("comparisons") => Eval!PassesByPairing(s1.case, s1.rows)

(* Every reply of a model is counted and recorded although calls           *)
(* interleave and fail, and a failure, of a model or of the database       *)
(* toolbox, is told as what it is (litellm_gateway.py, toolbox.py,         *)
(* normalize_error in errors.py).                                          *)
EveryReplyIsAccounted ==
    /\ part = "llm" => Llm!EveryReplyIsAccounted /\ Llm!FailureIsNamed
    /\ part = "toolbox" => Tools!ToldTruly /\ Tools!ToldByItsOwnBranch

(* A governed plan has only metrics and dimensions that were certified,    *)
(* authorized and offered to its request, and the composed rows neither    *)
(* multiply nor lose a measure (planner.py, composition.py).               *)
PlannedIsOffered ==
    /\ part = "metrics" => Metric!PlannedIsOffered
    /\ Chosen("joins") => Metric!JoinsOneToOne(s1, Nil)

(* A governed query that runs is of a metric allowed on this turn and is   *)
(* what the conversation asked for (router.py, routing/planner.py).        *)
RanIsAskedFor ==
    part = "routing" => Route!RanIsAskedFor

(* The recorded migrations are the schema, once each and in order, and a   *)
(* process that is up runs on its own files (migrations.py).               *)
HistoryIsTheSchema ==
    part = "migrations" => Migrate!HistoryIsTheSchema

(* A key in service is found and a withdrawn one forgotten in time, while  *)
(* requests share one cached copy (oidc.py).                               *)
RotationIsFollowed ==
    part = "keys" => Rotation!RotationIsFollowed

(* The harness judges a case by what its own turn did (evals/runner.py).   *)
VerdictIsAboutTheTurn ==
    part = "harness" => Harness!VerdictIsAboutTheTurn

(* Days of a leap year, at three in the morning UTC.                       *)
Moments == {24 * Time!Ordinal(Time!Date(2024, t[1], t[2])) + 3 : t \in Today}

Utc(status) == [offset |-> 0, week_start |-> 0, month |-> 4, day |-> 1,
                label |-> "END_YEAR", status |-> status]

(* Periods tile the calendar, comparisons have the shape of their period,  *)
(* and a question's period is resolved on a confirmed column or not at all *)
(* (resolver.py, dimensions.py, planning.py).                              *)
PeriodsAreExact ==
    /\ Chosen("calendars") =>
         \A now \in Moments :
            /\ Time!Tiles(s1, now)
            /\ \A intent \in Compared : Time!SameShape(intent, s1, now)
    /\ Chosen("plans") =>
         Time!Decided(s1.said, Utc(s1.status), s1.dimensions, s1.tables, s1.binding, s1.named,
                      24 * Time!Ordinal(Time!Date(2024, 3, 31)) + 3)

(* The validator accepts a statement exactly when it is one bounded read   *)
(* of permitted relations, columns and functions (sql_validation.py).      *)
ValidIffSafe ==
    Chosen("statements") => Sql!ValidIffSafe(s1.statement, s1.snapshot, s1.relations)

(* A question resolves to a row only if the caller may read it and the     *)
(* question names no other row found as well, nor is another row of the    *)
(* same label (entity_values.py, entities.py).                             *)
ResolvesToTheOne ==
    Chosen("entities") =>
        /\ Ent!AgreesWithSamples(s1.text, s1.rows)
        /\ \A entity, label \in BOOLEAN, allowed \in {[t |-> {"k", "d"}], [t |-> {"d"}], [u |-> {"k"}]} :
             Ent!ResolvesToTheOne(s1.text,
                {[name |-> "unit", table |-> "t", confirmed |-> entity]},
                <<Attribute("k", TRUE, FALSE, TRUE), Attribute("x", FALSE, FALSE, TRUE),
                  Attribute("d", FALSE, TRUE, label)>>,
                allowed, [unit |-> s1.rows])

(* No figure of an accepted answer is invented (grounding.py), and neither *)
(* is where it came from (lineage.py).                                     *)
NothingInvented ==
    /\ Chosen("lineages") => Origin!LineageIsRead(s1)
    /\ Chosen("answers") =>
        Ground!NothingInvented({s1.numeral},
            IF s1.rows = <<>> THEN <<>>
            ELSE <<{[row |-> s1.row, field |-> "f", value |-> s1.rows[1].f]}>>,
            s1.rows)

----------------------------------------------------------------------------
(* What the source says of five parts and these instances do not show     *)
(* (MCServiceDisagreements.cfg).                                           *)

(* "An identifier-like token quoted verbatim, e.g. PRJ-14 or a UUID" finds *)
(* its row (entities.py:505).                                              *)
IdentifierResolves ==
    Chosen("entities") => Ent!IdentifierResolves(s1.text, s1.rows)

(* A question that only changes the comparison names no period of its own  *)
(* (parser.py:148).                                                        *)
ReadAsSaid ==
    part = "plans" => \A phrase \in Time!Phrases : Time!ReadAsSaid(phrase, {})

(* A metric certified and reindexed can be retrieved (knowledge/runtime.py). *)
CertifiedIsRetrievable ==
    part = "metrics" => Metric!CertifiedIsRetrievable

(* "A new chat cannot silently continue the previous conversation's        *)
(* analytical context" (use-conversation.ts:284).                          *)
NewChatIsNew ==
    part = "workspace" => Screen!NewChatIsNew

(* An exchange is "one question and its outcome" (use-conversation.ts:26). *)
QuestionKeepsItsOutcome ==
    part = "workspace" => Screen!QuestionKeepsItsOutcome

(* "the follow-up the user types next continues the same analytical        *)
(* context that produced the history they are looking at"                  *)
(* (use-conversation.ts:302).                                              *)
FollowUpContinuesHistory ==
    part = "workspace" => Screen!FollowUpContinuesHistory

(* "Columns are attributed only when the reference says which table it     *)
(* came from" (lineage.py:122).                                            *)
LineageIsExact ==
    Chosen("lineages") => Origin!LineageIsExact(s1)
=============================================================================

------------------------------ MODULE AgentTurn ------------------------------
(***************************************************************************)
(* The analytics graph on one conversation thread.  A turn is one run of   *)
(* the compiled graph: its nodes run one after another on a state of named *)
(* channels, the checkpointer saves the state after every node, and the    *)
(* next turn on the thread starts from the state saved last, whatever      *)
(* became of the turn that saved it.  Several requests may run turns of    *)
(* the same thread at the same time (a second tab, a retry after a client  *)
(* timeout), each on its own copy of the state.                            *)
(*                                                                         *)
(* A channel is modelled by the turn that wrote it, 0 meaning that nothing *)
(* is there: what the properties tell apart is whether a turn uses what it *)
(* produced itself or something an earlier turn left behind.               *)
(*                                                                         *)
(* The graph is the one query_analytics builds: the router is enabled and  *)
(* governed routing is semantic, so plan_metric_request is not reached and *)
(* finalize_sql_result, which only evaluations use, is not either.         *)
(***************************************************************************)
EXTENDS Integers

CONSTANTS
    Requests,   \* requests that run turns of the thread
    MaxTurns    \* bound: turns asked on the thread

ASSUME TurnsAssumption == MaxTurns \in Nat

VARIABLES
    checkpoint,  \* the state the checkpointer saved last
    run,         \* where each request is, and its copy of the state
    turns,       \* turns asked so far; a turn is known by its number
    evidence,    \* query_execution_evidence, with what each row rested on
    replied      \* the turns whose clarification a recorded turn answered

vars == <<checkpoint, run, turns, evidence, replied>>

None == 0

Turns == 0 .. MaxTurns

\* A statement is known by its turn and by whether it is the repaired one.
NoSql == <<None, FALSE>>

Statements == Turns \X BOOLEAN

Routes == {"adhoc_analytics", "governed_metric", "clarify", "block"}

\* AnalyticalContext, as far as a later turn reads it.
NoContext == [clarification_state |-> "none", execution_route |-> "none",
              pending_entity_choice |-> None]

AgentState ==
    [question : Turns,                \* the turn that asked
     resolved_question : Turns,       \* the turn whose question is answered
     pinned_entity_context : BOOLEAN, \* the user chose, in reply
     authorized_scope : Turns,
     execution_route : Routes,
     model_action : {"execute", "clarify", "block"},
     needs_clarification : BOOLEAN,
     pending_entity_choice : Turns,   \* the turn whose options were offered
     generated_sql : Statements,
     validated_sql : Statements,
     is_valid : BOOLEAN,              \* sql_validation_result.is_valid
     sql_repair_attempted : BOOLEAN,
     temporal_repair_hint : Turns,
     query_id : Turns,
     query_result : Turns,            \* None: no rows
     analytical_result : Turns,
     metric_query : Turns,
     metric_result : Turns,
     applied_guidance : Turns,        \* applied_instruction_*, applied_example_ids
     status : {"none", "completed", "empty", "clarification_required", "blocked"},
     claims : Turns,
     analytical_context : [clarification_state : {"none", "required", "blocked"},
                           execution_route : {"none", "adhoc_analytics", "governed_metric"},
                           pending_entity_choice : Turns]]

\* A thread nothing was asked on.
NewThread ==
    [question |-> None, resolved_question |-> None, pinned_entity_context |-> FALSE,
     authorized_scope |-> None, execution_route |-> "adhoc_analytics",
     model_action |-> "execute", needs_clarification |-> FALSE,
     pending_entity_choice |-> None, generated_sql |-> NoSql, validated_sql |-> NoSql,
     is_valid |-> FALSE, sql_repair_attempted |-> FALSE, temporal_repair_hint |-> None,
     query_id |-> None, query_result |-> None, analytical_result |-> None,
     metric_query |-> None, metric_result |-> None, applied_guidance |-> None,
     status |-> "none", claims |-> None, analytical_context |-> NoContext]

Nodes == {"prepare_request", "authorize_request", "resolve_question_entities",
          "route_query", "plan_metric_intent", "resolve_metric_entities",
          "execute_metric", "retrieve_schema", "generate_sql", "validate_sql",
          "repair_sql", "execute_sql", "ground_answer", "clarify", "block",
          "record_context"}

Idle == [at |-> "idle", st |-> NewThread]

\* A qualifying run: the question stored, the statement, and the rows and the
\* claims it rested on.
EvidenceRow == [question : Turns, sql : Statements, rows : Turns, claims : Turns]

\* One type invariant: the channels hold what the annotations of AgentState in
\* state.py allow, and a request is idle, at a node of the graph or responding.
TypeOK ==
    /\ checkpoint \in AgentState
    /\ run \in [Requests -> [at : Nodes \union {"idle", "respond"}, st : AgentState]]
    /\ turns \in Turns
    /\ evidence \subseteq EvidenceRow
    /\ replied \subseteq Turns

Init ==
    /\ checkpoint = NewThread
    /\ run = [p \in Requests |-> Idle]
    /\ turns = 0
    /\ evidence = {}
    /\ replied = {}

------------------------------------------------------------------------------
(***************************************************************************)
(* The graph library: a run loads the saved state, a finished node saves   *)
(* its update, an exception ends the run and leaves what was saved.        *)
(***************************************************************************)

\* Request p is at a node, which finishes with the channels of s; next follows.
Finish(p, s, next) ==
    /\ run' = [run EXCEPT ![p] = [at |-> next, st |-> s]]
    /\ checkpoint' = s
    /\ UNCHANGED turns

\* The same, for every node but record_context, which also learns.
Step(p, s, next) ==
    /\ Finish(p, s, next)
    /\ UNCHANGED <<evidence, replied>>

\* ainvoke: a question arrives on the thread.
Ask(p) ==
    LET s == [checkpoint EXCEPT !.question = turns + 1]
    IN  /\ run[p].at = "idle"
        /\ turns < MaxTurns
        /\ turns' = turns + 1
        /\ run' = [run EXCEPT ![p] = [at |-> "prepare_request", st |-> s]]
        /\ checkpoint' = s
        /\ UNCHANGED <<evidence, replied>>

\* Any node may raise: access is denied, a provider or the database fails, a
\* statement is refused, an answer does not ground, metrics do not compose, the
\* process dies.
Raise(p) ==
    /\ run[p].at \in Nodes
    /\ run' = [run EXCEPT ![p] = Idle]
    /\ UNCHANGED <<checkpoint, turns, evidence, replied>>

------------------------------------------------------------------------------
(***************************************************************************)
(* The nodes up to the choice of a route.                                  *)
(***************************************************************************)

\* _resume_clarified_request: a turn is a reply to the last clarification when
\* its text `names' exactly one of the options recorded with it.
IsReply(s, names) ==
    /\ s.analytical_context.clarification_state = "required"
    /\ s.analytical_context.pending_entity_choice # None
    /\ names

\* What prepare_request resets.  It leaves metric_query, metric_result,
\* analytical_result, the applied guidance, the temporal repair hint and the
\* execution metadata as they were.
Prepared(s, resumed) ==
    [s EXCEPT
       !.resolved_question = IF resumed THEN s.analytical_context.pending_entity_choice
                                        ELSE s.question,
       !.pinned_entity_context = resumed,
       !.generated_sql = NoSql,
       !.validated_sql = NoSql,
       !.needs_clarification = FALSE,
       !.pending_entity_choice = None,
       !.model_action = "execute",
       !.query_result = None,
       !.claims = None,
       !.query_id = None,
       !.execution_route = "adhoc_analytics",
       !.sql_repair_attempted = FALSE]

\* Mutant: the options offered last are not cleared.
PrepareRequest_KeepsPendingChoice(p) ==
    /\ run[p].at = "prepare_request"
    /\ \E names \in BOOLEAN :
          Step(p, [Prepared(run[p].st, IsReply(run[p].st, names)) EXCEPT
                     !.pending_entity_choice = run[p].st.pending_entity_choice],
               "authorize_request")

PrepareRequest(p) ==
    /\ run[p].at = "prepare_request"
    /\ \E names \in BOOLEAN :
          Step(p, Prepared(run[p].st, IsReply(run[p].st, names)), "authorize_request")

\* The scope the policy grants this turn; a refusal raises.
AuthorizeRequest(p) ==
    /\ run[p].at = "authorize_request"
    /\ Step(p, [run[p].st EXCEPT !.authorized_scope = run[p].st.question],
            "resolve_question_entities")

\* The channels of a turn that asks back.
AskedBack(s) ==
    [s EXCEPT !.execution_route = "clarify",
              !.model_action = "clarify",
              !.needs_clarification = TRUE]

\* An entity the question names ambiguously is asked about, and the options are
\* recorded; a pinned choice is not resolved again.
ResolveQuestionEntities(p) ==
    /\ run[p].at = "resolve_question_entities"
    /\ \/ Step(p, run[p].st, "route_query")
       \/ /\ ~run[p].st.pinned_entity_context
          /\ Step(p, [AskedBack(run[p].st) EXCEPT
                        !.pending_entity_choice = run[p].st.question],
                  "clarify")

\* The deterministic router: a write is blocked; a follow-up is asked about when
\* the thread has nothing to continue and the turn answers no clarification;
\* anything else goes to semantic planning.
RouteQuery(p) ==
    LET s == run[p].st
    IN  /\ run[p].at = "route_query"
        /\ \/ \E route \in {"adhoc_analytics", "governed_metric"} :
                 Step(p, [s EXCEPT !.execution_route = route, !.model_action = "execute"],
                      "plan_metric_intent")
           \/ Step(p, [s EXCEPT !.execution_route = "block", !.model_action = "block"],
                   "block")
           \/ /\ s.analytical_context.execution_route = "none"
              /\ s.analytical_context.clarification_state # "required"
              /\ Step(p, AskedBack(s), "clarify")

\* The planner asks back, finds no certified metric, or plans a governed query.
PlanMetricIntent(p) ==
    LET s == run[p].st
    IN  /\ run[p].at = "plan_metric_intent"
        /\ \/ Step(p, AskedBack(s), "clarify")
           \/ Step(p, [s EXCEPT !.execution_route = "adhoc_analytics"], "retrieve_schema")
           \/ Step(p, [s EXCEPT !.execution_route = "governed_metric",
                                !.metric_query = s.question],
                   "resolve_metric_entities")

------------------------------------------------------------------------------
(***************************************************************************)
(* The governed route.                                                     *)
(***************************************************************************)

\* Mutant: an ambiguous entity asks back and the metric runs all the same.
ResolveMetricEntities_RunsAnyway(p) ==
    /\ run[p].at = "resolve_metric_entities"
    /\ \/ Step(p, [run[p].st EXCEPT !.execution_route = "governed_metric"],
               "execute_metric")
       \/ Step(p, AskedBack(run[p].st), "execute_metric")

\* An ambiguous entity is asked about, its options in the question only.
ResolveMetricEntities(p) ==
    /\ run[p].at = "resolve_metric_entities"
    /\ \/ Step(p, [run[p].st EXCEPT !.execution_route = "governed_metric"],
               "execute_metric")
       \/ Step(p, AskedBack(run[p].st), "clarify")

\* The channels of a turn whose query ran and returned rows, or none.
Executed(s, rows) ==
    [s EXCEPT !.query_id = s.question,
              !.query_result = IF rows THEN s.question ELSE None,
              !.analytical_result = s.question,
              !.status = IF rows THEN "completed" ELSE "empty"]

\* The governed result is recorded with the source that answered it.
FromMetric(s) == [s EXCEPT !.metric_result = s.question]

\* Mutant: the governed result reaches the rows and not the analytical result.
ExecuteMetric_KeepsAnalyticalResult(p) ==
    /\ run[p].at = "execute_metric"
    /\ \E rows \in BOOLEAN :
          Step(p, [Executed(FromMetric(run[p].st), rows) EXCEPT
                     !.analytical_result = run[p].st.analytical_result],
               "ground_answer")

ExecuteMetric(p) ==
    /\ run[p].at = "execute_metric"
    /\ \E rows \in BOOLEAN : Step(p, Executed(FromMetric(run[p].st), rows), "ground_answer")

------------------------------------------------------------------------------
(***************************************************************************)
(* The ad-hoc route: generate, validate, repair at most once, execute.     *)
(***************************************************************************)

\* Selects schema; nothing it selects outlives the turn in the model.
RetrieveSchema(p) ==
    /\ run[p].at = "retrieve_schema"
    /\ Step(p, run[p].st, "generate_sql")

\* The model answers with a statement, a question or a refusal.
GenerateSql(p) ==
    LET s == [run[p].st EXCEPT !.applied_guidance = run[p].st.question]
    IN  /\ run[p].at = "generate_sql"
        /\ \/ Step(p, [s EXCEPT !.model_action = "execute",
                                !.needs_clarification = FALSE,
                                !.generated_sql = <<s.question, FALSE>>],
                   "validate_sql")
           \/ Step(p, [s EXCEPT !.model_action = "clarify", !.needs_clarification = TRUE],
                   "clarify")
           \/ Step(p, [s EXCEPT !.model_action = "block", !.needs_clarification = FALSE],
                   "block")

\* Mutant: validity alone decides, not that the statement was also accepted.
RouteAfterValidation_ValidityAlone(s) ==
    IF s.is_valid THEN "execute_sql" ELSE "repair_sql"

RouteAfterValidation(s) ==
    IF s.validated_sql # NoSql /\ s.is_valid THEN "execute_sql" ELSE "repair_sql"

\* The verdict on a statement: accepted; well formed but without the period the
\* question asked for; or a mistake a repair may mend.  After a repair the last
\* two raise, as every other mistake does at once.
Validated(s, verdict) ==
    [s EXCEPT
       !.is_valid = verdict # "repairable",
       !.validated_sql = IF verdict = "valid" THEN s.generated_sql ELSE @,
       !.temporal_repair_hint = IF verdict = "unbounded" THEN s.question ELSE @]

\* Mutant: the repair already made does not count.
ValidateSql_RepairsAgain(p) ==
    /\ run[p].at = "validate_sql"
    /\ run[p].st.generated_sql # NoSql
    /\ \E verdict \in {"valid", "unbounded", "repairable"} :
          LET s == Validated(run[p].st, verdict)
          IN  Step(p, s, RouteAfterValidation(s))

ValidateSql(p) ==
    /\ run[p].at = "validate_sql"
    /\ run[p].st.generated_sql # NoSql
    /\ \E verdict \in {"valid", "unbounded", "repairable"} :
          LET s == Validated(run[p].st, verdict)
          IN  /\ verdict # "valid" => ~s.sql_repair_attempted
              /\ Step(p, s, RouteAfterValidation(s))

RepairSql(p) ==
    /\ run[p].at = "repair_sql"
    /\ Step(p, [run[p].st EXCEPT !.generated_sql = <<run[p].st.question, TRUE>>,
                                 !.sql_repair_attempted = TRUE],
            "validate_sql")

ExecuteSql(p) ==
    /\ run[p].at = "execute_sql"
    /\ run[p].st.validated_sql # NoSql
    /\ \E rows \in BOOLEAN : Step(p, Executed(run[p].st, rows), "ground_answer")

------------------------------------------------------------------------------
(***************************************************************************)
(* The end of a turn.                                                      *)
(***************************************************************************)

\* Claims must rest on rows when there are rows, and there are none without;
\* an answer that does not raises.
GroundAnswer(p) ==
    /\ run[p].at = "ground_answer"
    /\ Step(p, [run[p].st EXCEPT !.claims = run[p].st.query_result], "record_context")

Clarify(p) ==
    /\ run[p].at = "clarify"
    /\ Step(p, [run[p].st EXCEPT !.query_result = None,
                                 !.status = "clarification_required"],
            "record_context")

Block(p) ==
    /\ run[p].at = "block"
    /\ Step(p, [run[p].st EXCEPT !.query_result = None, !.status = "blocked"],
            "record_context")

\* Mutant: that the statement was validated is enough.
QualifiesAsEvidence_Ungrounded(s) ==
    /\ s.execution_route = "adhoc_analytics"
    /\ s.validated_sql # NoSql

QualifiesAsEvidence(s) ==
    /\ s.execution_route = "adhoc_analytics"
    /\ s.validated_sql # NoSql
    /\ s.status = "completed"
    /\ s.claims # None

\* The route a follow-up may continue.
ContextRoute(s) ==
    IF s.execution_route \in {"adhoc_analytics", "governed_metric"}
    THEN s.execution_route ELSE "none"

\* What the turn leaves for the next one, and what the run teaches.  Question
\* memory and the generation trigger are LearningLoop's.
RecordContext(p) ==
    LET s == run[p].st
        context ==
          [clarification_state |-> IF s.needs_clarification THEN "required"
                                   ELSE IF s.model_action = "block" THEN "blocked" ELSE "none",
           execution_route |-> ContextRoute(s),
           pending_entity_choice |-> s.pending_entity_choice]
        row == [question |-> s.question, sql |-> s.validated_sql,
                rows |-> s.query_result, claims |-> s.claims]
    IN  /\ run[p].at = "record_context"
        /\ Finish(p, [s EXCEPT !.analytical_context = context], "respond")
        /\ evidence' = IF QualifiesAsEvidence(s) THEN evidence \union {row} ELSE evidence
        /\ replied' = IF s.pinned_entity_context
                      THEN replied \union {s.resolved_question} ELSE replied

\* _routing_provenance and _provenance_source, as build_internal_provenance puts
\* them together at the end of a turn: each entry is read from its channel as it
\* stands, on whatever route the turn went.
Provenance(s) ==
    [query_id |-> s.query_id, validated_sql |-> s.validated_sql,
     metric_id |-> s.metric_query, source |-> s.metric_result,
     applied_guidance |-> s.applied_guidance]

\* query_analytics returns the response it builds from the final state.
Respond(p) ==
    /\ run[p].at = "respond"
    /\ run' = [run EXCEPT ![p] = Idle]
    /\ UNCHANGED <<checkpoint, turns, evidence, replied>>

NodeStep(p) ==
    \/ PrepareRequest(p) \/ AuthorizeRequest(p) \/ ResolveQuestionEntities(p)
    \/ RouteQuery(p) \/ PlanMetricIntent(p) \/ ResolveMetricEntities(p)
    \/ ExecuteMetric(p) \/ RetrieveSchema(p) \/ GenerateSql(p) \/ ValidateSql(p)
    \/ RepairSql(p) \/ ExecuteSql(p) \/ GroundAnswer(p) \/ Clarify(p) \/ Block(p)
    \/ RecordContext(p) \/ Respond(p)

Next == \E p \in Requests : Ask(p) \/ NodeStep(p) \/ Raise(p)

Spec == Init /\ [][Next]_vars

\* A turn that runs keeps running: the graph awaits each node, and every call a
\* node makes is bounded by a timeout after which it raises.
FairSpec == Spec /\ \A p \in Requests : WF_vars(NodeStep(p) \/ Raise(p))

------------------------------------------------------------------------------
(***************************************************************************)
(* Properties.                                                             *)
(***************************************************************************)

\* _route_after_validation and _execute_sql: the statement that runs is the very
\* one this turn generated (or repaired) last and validated, under the scope
\* this turn was granted, whatever earlier or concurrent turns left in the state.
ExecutesOnlyWhatItValidated ==
    \A p \in Requests :
        run[p].at = "execute_sql" =>
            /\ run[p].st.validated_sql = run[p].st.generated_sql
            /\ run[p].st.validated_sql[1] = run[p].st.question
            /\ run[p].st.authorized_scope = run[p].st.question

\* A turn that asks back or refuses ran no query (ADR 0004, "CLARIFY and BLOCK
\* execute no query"), and claims nothing.
AskingBackRunsNoQuery ==
    \A p \in Requests :
        /\ run[p].at = "respond"
        /\ run[p].st.needs_clarification \/ run[p].st.model_action = "block"
        => run[p].st.query_id = None /\ run[p].st.claims = None

\* A turn that ran a query answers from it: the rows of the response are those of
\* this turn's query, the claims are grounded in them, and the provenance names
\* this query and what it rested on: on the governed route the metric and the
\* source that answered it, and no statement; on the other the statement and the
\* guidance.  That it names nothing else is not so: ProvenanceNamesWhatShaped.
AnswersRestOnTheirQuery ==
    \A p \in Requests :
        LET s == run[p].st
            named == Provenance(s)
        IN  /\ run[p].at = "respond"
            /\ s.status \in {"completed", "empty"}
            => /\ s.analytical_result = s.question
               /\ s.claims = s.query_result
               /\ named.query_id = s.question
               /\ s.execution_route = "governed_metric" =>
                     /\ named.metric_id = s.question
                     /\ named.source = s.question
                     /\ named.validated_sql = NoSql
               /\ s.execution_route = "adhoc_analytics" =>
                     /\ named.validated_sql[1] = s.question
                     /\ named.applied_guidance = s.question

\* qualifies_as_evidence: a statement kept as evidence was validated in the turn
\* that stored it, returned rows in that turn, and the answer's claims were
\* grounded in those rows.
EvidenceIsEarned ==
    \A e \in evidence :
        /\ e.sql[1] = e.question
        /\ e.rows = e.question
        /\ e.claims = e.question

\* On a thread asked one turn at a time, a clarification is resumed by one answered
\* turn and the next "inherits nothing" from it, while a reply that fails midway
\* may be given again (_resume_clarified_request).
ClarificationIsResumedOnce ==
    \A p \in Requests :
        run[p].at = "record_context" /\ run[p].st.pinned_entity_context =>
            run[p].st.resolved_question \notin replied

\* Every turn ends, in a response or an error: the repair cycle of the graph is
\* left.
TurnEnds == \A p \in Requests : run[p].at # "idle" ~> run[p].at = "idle"

(***************************************************************************)
(* The inductive invariants: what the channels hold at each node.          *)
(***************************************************************************)

\* The nodes from authorization to the query, or to asking back.
BeforeQuery == Nodes \ {"prepare_request", "ground_answer", "record_context"}

\* The nodes of the ad-hoc route that have a statement.
WithStatement == {"validate_sql", "repair_sql", "execute_sql"}

\* The query ran for this turn's question, on the route that is recorded.
Queried(s) ==
    /\ s.status \in {"completed", "empty"}
    /\ s.query_id = s.question
    /\ s.analytical_result = s.question
    /\ s.query_result = IF s.status = "completed" THEN s.question ELSE None
    /\ \/ /\ s.execution_route = "governed_metric"
          /\ s.metric_query = s.question
          /\ s.metric_result = s.question
          /\ s.validated_sql = NoSql
       \/ /\ s.execution_route = "adhoc_analytics"
          /\ s.applied_guidance = s.question
          /\ s.validated_sql[1] = s.question

\* What a turn at a node has produced, and what it has cleared.
Sound(at, s) ==
    /\ at # "idle" => s.question # None
    /\ at \in BeforeQuery =>
          s.query_id = None /\ s.query_result = None /\ s.claims = None
    /\ at \in BeforeQuery \ {"authorize_request"} => s.authorized_scope = s.question
    /\ at \in BeforeQuery \ WithStatement => s.generated_sql = NoSql
    /\ at \in BeforeQuery \ {"execute_sql"} => s.validated_sql = NoSql
    /\ at \in WithStatement =>
          s.generated_sql[1] = s.question /\ s.applied_guidance = s.question
    /\ at = "execute_sql" => s.validated_sql = s.generated_sql
    /\ at \in {"retrieve_schema", "generate_sql"} \union WithStatement =>
          s.execution_route = "adhoc_analytics"
    /\ at \in {"resolve_metric_entities", "execute_metric"} =>
          s.execution_route = "governed_metric" /\ s.metric_query = s.question
    /\ at \in (BeforeQuery \ {"clarify", "block"}) \union {"ground_answer"} =>
          ~s.needs_clarification /\ s.model_action = "execute"
    /\ at = "ground_answer" => Queried(s)
    /\ at \in {"record_context", "respond"} =>
          \/ /\ Queried(s)
             /\ s.claims = s.query_result
             /\ ~s.needs_clarification
             /\ s.model_action = "execute"
          \/ /\ s.status \in {"clarification_required", "blocked"}
             /\ s.query_id = None
             /\ s.claims = None

IndInv ==
    /\ TypeOK
    /\ \A p \in Requests : Sound(run[p].at, run[p].st)
    /\ EvidenceIsEarned

\* On a thread of which p is the only request: p works on the state saved last,
\* the options offered last were not answered yet, and what was offered or
\* answered was asked before the turn that runs.
Resumable(p) ==
    LET at == run[p].at
        s == checkpoint
        offered == s.analytical_context.pending_entity_choice
    IN  /\ at # "idle" => run[p].st = s /\ s.question = turns
        /\ replied \subseteq 1 .. turns
        /\ at \in Nodes => turns \notin replied /\ offered # turns
        /\ offered <= turns
        /\ offered \notin replied
        /\ at \in Nodes \ {"prepare_request"} =>
              /\ s.pending_entity_choice \in {None, s.question}
              /\ s.pinned_entity_context =>
                    /\ s.resolved_question = offered
                    /\ offered # None
                    /\ s.pending_entity_choice = None

(***************************************************************************)
(* What the documentation says and the code does not do.                   *)
(***************************************************************************)

\* README: "No cached answer or remembered number replaces the live database
\* result."  The response takes its rows from analytical_result when the state
\* has one.
AnswersCarryLiveRows ==
    \A p \in Requests :
        run[p].at = "respond" =>
            run[p].st.analytical_result \in {None, run[p].st.question}

\* InternalProvenance (analytics.py:218) on reviewed knowledge: "Reviewed knowledge
\* that actually shaped this answer. Recorded so an auditor can tell whether an
\* approved business definition was applied, and equally that an unrelated one was
\* not."  No channel of the metric or of the guidance is reset, so an answer names
\* the metric, its source and its tables, or the guidance, of an earlier turn that
\* went the other way.
ProvenanceNamesWhatShaped ==
    \A p \in Requests :
        LET s == run[p].st
            named == Provenance(s)
        IN  /\ run[p].at = "respond"
            /\ s.status \in {"completed", "empty"}
            => IF s.execution_route = "governed_metric"
               THEN named.applied_guidance = None
               ELSE named.metric_id = None /\ named.source = None

\* AgentState (state.py:57) on the hint: "Set when a valid statement dropped the
\* requested period, so the one bounded repair attempt knows what to put back."
\* Nothing resets it, and _sql_repair_prompt adds whatever hint there is as the
\* "Required correction": the repair of another mistake is told to put back the
\* period an earlier turn asked for.
RepairHintIsOwn ==
    \A p \in Requests :
        run[p].at = "repair_sql" =>
            run[p].st.temporal_repair_hint =
                IF run[p].st.is_valid THEN run[p].st.question ELSE None
=============================================================================

--------------------------- MODULE AgentTurnProofs ---------------------------
(***************************************************************************)
(* Proofs about AgentTurn, for any requests and any number of turns.       *)
(* Sound says of one turn what its node may rely on; a step changes one    *)
(* turn only, so that each node is a lemma about the record of channels it *)
(* finishes with, and Keeps carries it over to the thread.                 *)
(***************************************************************************)
EXTENDS AgentTurn, TLAPS

\* A turn that moves on with sound channels leaves the rest of the thread alone.
LEMMA Keeps ==
    ASSUME IndInv, NEW p \in Requests, NEW s \in AgentState,
           NEW next \in Nodes \union {"respond"},
           Step(p, s, next), Sound(next, s)
    PROVE  IndInv'
<1>1. run' = [run EXCEPT ![p] = [at |-> next, st |-> s]] /\ checkpoint' = s
  BY DEF Step, Finish
<1>2. UNCHANGED <<turns, evidence, replied>>
  BY DEF Step, Finish
<1>3. TypeOK'
  BY <1>1, <1>2 DEF IndInv, TypeOK
<1>4. \A q \in Requests : Sound(run'[q].at, run'[q].st)
  <2>. TAKE q \in Requests
  <2>1. CASE q = p
    BY <1>1, <2>1 DEF IndInv, TypeOK
  <2>2. CASE q # p
    BY <1>1, <2>2 DEF IndInv, TypeOK
  <2>. QED
    BY <2>1, <2>2
<1>5. EvidenceIsEarned'
  BY <1>2 DEF IndInv, EvidenceIsEarned
<1>. QED
  BY <1>3, <1>4, <1>5 DEF IndInv

\* What a lemma about a node starts from.
LEMMA Running ==
    ASSUME IndInv, NEW p \in Requests
    PROVE  run[p].st \in AgentState /\ Sound(run[p].at, run[p].st)
  BY DEF IndInv, TypeOK

\* An empty channel is well formed.
LEMMA Empties == None \in Turns /\ NoSql \in Statements
<1>1. None \in Turns
  BY TurnsAssumption DEF None, Turns
<1>. QED
  BY <1>1 DEF NoSql, Statements

\* Nothing is left of the turn before once a turn is prepared.
LEMMA PreparedIsSound ==
    ASSUME NEW s \in AgentState, NEW resumed \in BOOLEAN, s.question # None
    PROVE  /\ Prepared(s, resumed) \in AgentState
           /\ Sound("authorize_request", Prepared(s, resumed))
<1>1. Prepared(s, resumed) \in AgentState
  <2>1. /\ None \in Turns /\ NoSql \in Statements /\ "adhoc_analytics" \in Routes
        /\ s.analytical_context.pending_entity_choice \in Turns /\ s.question \in Turns
    BY Empties DEF AgentState, Routes
  <2>. DEFINE said == IF resumed THEN s.analytical_context.pending_entity_choice ELSE s.question
  <2>2. said \in Turns
    BY <2>1
  <2>. HIDE DEF said
  <2>3. PICK x : x = [s EXCEPT !.resolved_question = said, !.pinned_entity_context = resumed,
                               !.generated_sql = NoSql, !.validated_sql = NoSql]
    OBVIOUS
  <2>4. x \in AgentState
    BY <2>1, <2>2, <2>3, ZenonT(60) DEF AgentState
  <2>5. PICK y : y = [x EXCEPT !.needs_clarification = FALSE, !.pending_entity_choice = None,
                               !.model_action = "execute", !.query_result = None]
    OBVIOUS
  <2>6. y \in AgentState
    BY <2>1, <2>4, <2>5, ZenonT(60) DEF AgentState
  <2>7. [y EXCEPT !.claims = None, !.query_id = None, !.execution_route = "adhoc_analytics",
                  !.sql_repair_attempted = FALSE] \in AgentState
    BY <2>1, <2>6, ZenonT(60) DEF AgentState
  <2>. QED
    BY <2>3, <2>5, <2>7 DEF Prepared, said
<1>2. Sound("authorize_request", Prepared(s, resumed))
  BY DEF AgentState, Prepared, Sound, BeforeQuery, WithStatement, Nodes
<1>. QED
  BY <1>1, <1>2

LEMMA PrepareRequestKeeps ==
    ASSUME IndInv, NEW p \in Requests, PrepareRequest(p) PROVE IndInv'
<1>1. run[p].st \in AgentState /\ Sound("prepare_request", run[p].st)
  BY Running DEF PrepareRequest
<1>2. PICK names \in BOOLEAN :
        Step(p, Prepared(run[p].st, IsReply(run[p].st, names)), "authorize_request")
  BY DEF PrepareRequest
<1>3. IsReply(run[p].st, names) \in BOOLEAN
  BY SMTT(60) DEF IsReply
<1>4. /\ Prepared(run[p].st, IsReply(run[p].st, names)) \in AgentState
      /\ Sound("authorize_request", Prepared(run[p].st, IsReply(run[p].st, names)))
  BY <1>1, <1>3, PreparedIsSound DEF Sound
<1>. QED
  BY <1>2, <1>4, Keeps DEF Nodes

\* The scope of this turn replaces whatever an earlier one was granted.
LEMMA AuthorizeRequestKeeps ==
    ASSUME IndInv, NEW p \in Requests, AuthorizeRequest(p) PROVE IndInv'
<1>. DEFINE s == run[p].st
            t == [s EXCEPT !.authorized_scope = s.question]
<1>1. s \in AgentState /\ Sound("authorize_request", s)
  BY Running DEF AuthorizeRequest
<1>2. t \in AgentState
  BY <1>1 DEF AgentState
<1>3. Sound("resolve_question_entities", t)
  BY <1>1 DEF Sound, AgentState, BeforeQuery, WithStatement, Nodes
<1>. QED
  BY <1>2, <1>3, Keeps DEF AuthorizeRequest, Nodes

\* Asking back clears the way to the query: nothing was run or claimed yet.
LEMMA AskedBackIsSound ==
    ASSUME NEW s \in AgentState, NEW at \in BeforeQuery \ WithStatement,
           at # "authorize_request", Sound(at, s)
    PROVE  /\ AskedBack(s) \in AgentState
           /\ Sound("clarify", AskedBack(s))
<1>1. AskedBack(s) \in AgentState
  BY ZenonT(60) DEF AskedBack, AgentState, Routes
<1>2. Sound("clarify", AskedBack(s))
  BY DEF AskedBack, AgentState, Sound, BeforeQuery, WithStatement, Nodes
<1>. QED
  BY <1>1, <1>2

LEMMA ResolveQuestionEntitiesKeeps ==
    ASSUME IndInv, NEW p \in Requests, ResolveQuestionEntities(p) PROVE IndInv'
<1>. DEFINE s == run[p].st
            t == [AskedBack(s) EXCEPT !.pending_entity_choice = s.question]
<1>1. s \in AgentState /\ Sound("resolve_question_entities", s)
  BY Running DEF ResolveQuestionEntities
<1>2. Sound("route_query", s)
  BY <1>1 DEF Sound, BeforeQuery, WithStatement, Nodes
<1>3. AskedBack(s) \in AgentState /\ Sound("clarify", AskedBack(s))
  BY <1>1, AskedBackIsSound DEF BeforeQuery, WithStatement, Nodes
<1>4. t \in AgentState
  BY <1>1, <1>3 DEF AgentState
<1>5. Sound("clarify", t)
  BY <1>1, <1>3 DEF Sound, AgentState, BeforeQuery, WithStatement, Nodes
<1>. QED
  BY <1>1, <1>2, <1>4, <1>5, Keeps DEF ResolveQuestionEntities, Nodes

\* Whatever the router decides, nothing of an earlier route is left.
LEMMA RouteQueryKeeps ==
    ASSUME IndInv, NEW p \in Requests, RouteQuery(p) PROVE IndInv'
<1>. DEFINE s == run[p].st
            t(route) == [s EXCEPT !.execution_route = route, !.model_action = "execute"]
            u == [s EXCEPT !.execution_route = "block", !.model_action = "block"]
<1>1. s \in AgentState /\ Sound("route_query", s)
  BY Running DEF RouteQuery
<1>2. ASSUME NEW route \in {"adhoc_analytics", "governed_metric"}
      PROVE  t(route) \in AgentState /\ Sound("plan_metric_intent", t(route))
  <2>1. t(route) \in AgentState
    BY <1>1, ZenonT(60) DEF AgentState, Routes
  <2>2. Sound("plan_metric_intent", t(route))
    BY <1>1 DEF Sound, AgentState, BeforeQuery, WithStatement, Nodes
  <2>. QED
    BY <2>1, <2>2
<1>3. u \in AgentState
  BY <1>1, ZenonT(60) DEF AgentState, Routes
<1>4. Sound("block", u)
  BY <1>1 DEF Sound, AgentState, BeforeQuery, WithStatement, Nodes
<1>5. AskedBack(s) \in AgentState /\ Sound("clarify", AskedBack(s))
  BY <1>1, AskedBackIsSound DEF BeforeQuery, WithStatement, Nodes
<1>. QED
  BY <1>2, <1>3, <1>4, <1>5, Keeps DEF RouteQuery, Nodes

\* The plan decides the route.
LEMMA PlanMetricIntentKeeps ==
    ASSUME IndInv, NEW p \in Requests, PlanMetricIntent(p) PROVE IndInv'
<1>. DEFINE s == run[p].st
            t == [s EXCEPT !.execution_route = "adhoc_analytics"]
            u == [s EXCEPT !.execution_route = "governed_metric",
                           !.metric_query = s.question]
<1>1. s \in AgentState /\ Sound("plan_metric_intent", s)
  BY Running DEF PlanMetricIntent
<1>2. AskedBack(s) \in AgentState /\ Sound("clarify", AskedBack(s))
  BY <1>1, AskedBackIsSound DEF BeforeQuery, WithStatement, Nodes
<1>3. t \in AgentState /\ u \in AgentState
  BY <1>1, ZenonT(60) DEF AgentState, Routes
<1>4. Sound("retrieve_schema", t)
  BY <1>1 DEF Sound, AgentState, BeforeQuery, WithStatement, Nodes
<1>5. Sound("resolve_metric_entities", u)
  BY <1>1 DEF Sound, AgentState, BeforeQuery, WithStatement, Nodes
<1>. QED
  BY <1>2, <1>3, <1>4, <1>5, Keeps DEF PlanMetricIntent, Nodes

LEMMA ResolveMetricEntitiesKeeps ==
    ASSUME IndInv, NEW p \in Requests, ResolveMetricEntities(p) PROVE IndInv'
<1>. DEFINE s == run[p].st
            t == [s EXCEPT !.execution_route = "governed_metric"]
<1>1. s \in AgentState /\ Sound("resolve_metric_entities", s)
  BY Running DEF ResolveMetricEntities
<1>2. AskedBack(s) \in AgentState /\ Sound("clarify", AskedBack(s))
  BY <1>1, AskedBackIsSound DEF BeforeQuery, WithStatement, Nodes
<1>3. t \in AgentState
  BY <1>1 DEF AgentState, Routes
<1>4. Sound("execute_metric", t)
  BY <1>1 DEF Sound, AgentState, BeforeQuery, WithStatement, Nodes
<1>. QED
  BY <1>2, <1>3, <1>4, Keeps DEF ResolveMetricEntities, Nodes

\* A query that ran leaves its identity and its rows, of this turn.
LEMMA ExecutedIsQueried ==
    ASSUME NEW s \in AgentState, NEW rows \in BOOLEAN,
           \/ /\ s.execution_route = "governed_metric"
              /\ s.metric_query = s.question
              /\ s.metric_result = s.question
              /\ s.validated_sql = NoSql
           \/ /\ s.execution_route = "adhoc_analytics"
              /\ s.applied_guidance = s.question
              /\ s.validated_sql[1] = s.question
    PROVE  Executed(s, rows) \in AgentState /\ Queried(Executed(s, rows))
<1>1. Executed(s, rows) \in AgentState
  BY Empties, ZenonT(60) DEF Executed, AgentState
<1>2. Queried(Executed(s, rows))
  BY DEF Executed, AgentState, Queried
<1>. QED
  BY <1>1, <1>2

\* The governed result names its source before it is recorded as the rows.
LEMMA ExecuteMetricKeeps ==
    ASSUME IndInv, NEW p \in Requests, ExecuteMetric(p) PROVE IndInv'
<1>. DEFINE s == run[p].st
            m == FromMetric(s)
<1>1. s \in AgentState /\ Sound("execute_metric", s)
  BY Running DEF ExecuteMetric
<1>2. m \in AgentState
  BY <1>1, ZenonT(60) DEF FromMetric, AgentState
<1>3. /\ m.question # None /\ ~m.needs_clarification /\ m.model_action = "execute"
      /\ m.execution_route = "governed_metric" /\ m.metric_query = m.question
      /\ m.metric_result = m.question /\ m.validated_sql = NoSql
  BY <1>1, SMTT(30) DEF FromMetric, AgentState, Sound, BeforeQuery, WithStatement, Nodes
<1>. HIDE DEF m
<1>4. ASSUME NEW rows \in BOOLEAN
      PROVE  Executed(m, rows) \in AgentState /\ Sound("ground_answer", Executed(m, rows))
  <2>1. Executed(m, rows) \in AgentState /\ Queried(Executed(m, rows))
    BY <1>2, <1>3, ExecutedIsQueried
  <2>2. /\ Executed(m, rows).question = m.question
        /\ Executed(m, rows).needs_clarification = m.needs_clarification
        /\ Executed(m, rows).model_action = m.model_action
    BY <1>2, SMTT(30) DEF Executed, AgentState
  <2>. QED
    BY <1>3, <2>1, <2>2 DEF Sound, BeforeQuery, WithStatement, Nodes
<1>. QED
  BY <1>4, Keeps DEF ExecuteMetric, Nodes, m

LEMMA RetrieveSchemaKeeps ==
    ASSUME IndInv, NEW p \in Requests, RetrieveSchema(p) PROVE IndInv'
<1>1. run[p].st \in AgentState /\ Sound("retrieve_schema", run[p].st)
  BY Running DEF RetrieveSchema
<1>2. Sound("generate_sql", run[p].st)
  BY <1>1 DEF Sound, BeforeQuery, WithStatement, Nodes
<1>. QED
  BY <1>1, <1>2, Keeps DEF RetrieveSchema, Nodes

\* A statement is this turn's, with this turn's guidance.
LEMMA GenerateSqlKeeps ==
    ASSUME IndInv, NEW p \in Requests, GenerateSql(p) PROVE IndInv'
<1>. DEFINE o == run[p].st
            s == [o EXCEPT !.applied_guidance = o.question]
            t == [s EXCEPT !.model_action = "execute", !.needs_clarification = FALSE,
                           !.generated_sql = <<s.question, FALSE>>]
            u == [s EXCEPT !.model_action = "clarify", !.needs_clarification = TRUE]
            v == [s EXCEPT !.model_action = "block", !.needs_clarification = FALSE]
<1>1. o \in AgentState /\ Sound("generate_sql", o)
  BY Running, SMTT(60) DEF GenerateSql
<1>2. s \in AgentState /\ u \in AgentState /\ v \in AgentState
  BY <1>1, ZenonT(60) DEF AgentState
<1>3. t \in AgentState
  <2>1. <<s.question, FALSE>> \in Statements
    BY <1>2, ZenonT(60) DEF AgentState, Statements
  <2>2. PICK x : x = [s EXCEPT !.model_action = "execute", !.needs_clarification = FALSE]
    BY SMTT(60)
  <2>3. x \in AgentState
    BY <1>2, <2>2, ZenonT(90) DEF AgentState
  <2>4. [x EXCEPT !.generated_sql = <<s.question, FALSE>>] \in AgentState
    BY <2>1, <2>3, ZenonT(60) DEF AgentState
  <2>. QED
    BY <2>2, <2>4
<1>4. Sound("validate_sql", t)
  BY <1>1 DEF Sound, AgentState, BeforeQuery, WithStatement, Nodes
<1>5. Sound("clarify", u) /\ Sound("block", v)
  BY <1>1 DEF Sound, AgentState, BeforeQuery, WithStatement, Nodes
<1>. QED
  BY <1>2, <1>3, <1>4, <1>5, Keeps DEF GenerateSql, Nodes

\* An accepted statement goes on to run; any other is repaired.
LEMMA ValidateSqlKeeps ==
    ASSUME IndInv, NEW p \in Requests, ValidateSql(p) PROVE IndInv'
<1>. DEFINE s == run[p].st
            t(verdict) == Validated(s, verdict)
<1>1. s \in AgentState /\ Sound("validate_sql", s) /\ s.generated_sql # NoSql
  BY Running, SMTT(60) DEF ValidateSql
<1>2. ASSUME NEW verdict \in {"valid", "unbounded", "repairable"}
      PROVE  t(verdict) \in AgentState
  BY <1>1, ZenonT(90) DEF Validated, AgentState
<1>3. Sound("execute_sql", t("valid")) /\ RouteAfterValidation(t("valid")) = "execute_sql"
  BY <1>1, ZenonT(60) DEF Validated, RouteAfterValidation, Sound, AgentState, BeforeQuery,
              WithStatement, Nodes
<1>4. ASSUME NEW verdict \in {"unbounded", "repairable"}
      PROVE  /\ Sound("repair_sql", t(verdict))
             /\ RouteAfterValidation(t(verdict)) = "repair_sql"
  BY <1>1 DEF Validated, RouteAfterValidation, Sound, AgentState, BeforeQuery,
              WithStatement, Nodes
<1>5. PICK verdict \in {"valid", "unbounded", "repairable"} :
        Step(p, t(verdict), RouteAfterValidation(t(verdict)))
  BY DEF ValidateSql
<1>. HIDE DEF t
<1>. QED
  BY <1>2, <1>3, <1>4, <1>5, Keeps DEF Nodes

LEMMA RepairSqlKeeps ==
    ASSUME IndInv, NEW p \in Requests, RepairSql(p) PROVE IndInv'
<1>. DEFINE s == run[p].st
            t == [s EXCEPT !.generated_sql = <<s.question, TRUE>>,
                           !.sql_repair_attempted = TRUE]
<1>1. s \in AgentState /\ Sound("repair_sql", s)
  BY Running DEF RepairSql
<1>2. t \in AgentState
  BY <1>1, ZenonT(60) DEF AgentState, Statements
<1>3. Sound("validate_sql", t)
  BY <1>1 DEF Sound, AgentState, BeforeQuery, WithStatement, Nodes
<1>. QED
  BY <1>2, <1>3, Keeps DEF RepairSql, Nodes

LEMMA ExecuteSqlKeeps ==
    ASSUME IndInv, NEW p \in Requests, ExecuteSql(p) PROVE IndInv'
<1>. DEFINE s == run[p].st
<1>1. s \in AgentState /\ Sound("execute_sql", s)
  BY Running DEF ExecuteSql
<1>2. ASSUME NEW rows \in BOOLEAN
      PROVE  Executed(s, rows) \in AgentState /\ Sound("ground_answer", Executed(s, rows))
  <2>1. Executed(s, rows) \in AgentState /\ Queried(Executed(s, rows))
    BY <1>1, ExecutedIsQueried DEF Sound, BeforeQuery, WithStatement, Nodes
  <2>2. /\ Executed(s, rows).question = s.question
        /\ Executed(s, rows).needs_clarification = s.needs_clarification
        /\ Executed(s, rows).model_action = s.model_action
    BY <1>1 DEF Executed, AgentState
  <2>3. s.question # None /\ ~s.needs_clarification /\ s.model_action = "execute"
    BY <1>1 DEF Sound, BeforeQuery, WithStatement, Nodes
  <2>. QED
    BY <2>1, <2>2, <2>3 DEF Sound, BeforeQuery, WithStatement, Nodes
<1>. QED
  BY <1>2, Keeps DEF ExecuteSql, Nodes

\* The claims are grounded in the rows of this turn's query.
LEMMA GroundAnswerKeeps ==
    ASSUME IndInv, NEW p \in Requests, GroundAnswer(p) PROVE IndInv'
<1>. DEFINE s == run[p].st
            t == [s EXCEPT !.claims = s.query_result]
<1>1. s \in AgentState /\ Sound("ground_answer", s)
  BY Running DEF GroundAnswer
<1>2. t \in AgentState
  BY <1>1 DEF AgentState
<1>3. Sound("record_context", t)
  BY <1>1 DEF Sound, Queried, AgentState, BeforeQuery, WithStatement, Nodes
<1>. QED
  BY <1>2, <1>3, Keeps DEF GroundAnswer, Nodes

\* A turn that asks back or refuses ran no query.
LEMMA DeclinedKeeps ==
    ASSUME IndInv, NEW p \in Requests, Clarify(p) \/ Block(p) PROVE IndInv'
<1>. DEFINE s == run[p].st
            t(status) == [s EXCEPT !.query_result = None, !.status = status]
<1>1. s \in AgentState /\ run[p].at \in {"clarify", "block"} /\ Sound(run[p].at, s)
  BY Running DEF Clarify, Block
<1>2. PICK status \in {"clarification_required", "blocked"} :
        Step(p, t(status), "record_context")
  BY DEF Clarify, Block
<1>3. t(status) \in AgentState
  BY <1>1, Empties, ZenonT(60) DEF AgentState
<1>4. Sound("record_context", t(status))
  BY <1>1 DEF Sound, AgentState, BeforeQuery, WithStatement, Nodes
<1>. QED
  BY <1>2, <1>3, <1>4, Keeps DEF Nodes

\* The only node that learns: what it keeps as evidence was earned.
LEMMA RecordContextKeeps ==
    ASSUME IndInv, NEW p \in Requests, RecordContext(p) PROVE IndInv'
<1>. DEFINE s == run[p].st
            context ==
              [clarification_state |-> IF s.needs_clarification THEN "required"
                                       ELSE IF s.model_action = "block" THEN "blocked" ELSE "none",
               execution_route |-> ContextRoute(s),
               pending_entity_choice |-> s.pending_entity_choice]
            row == [question |-> s.question, sql |-> s.validated_sql,
                    rows |-> s.query_result, claims |-> s.claims]
            t == [s EXCEPT !.analytical_context = context]
<1>1. s \in AgentState /\ Sound("record_context", s)
  BY Running DEF RecordContext
<1>2. context \in [clarification_state : {"none", "required", "blocked"},
                   execution_route : {"none", "adhoc_analytics", "governed_metric"},
                   pending_entity_choice : Turns]
  BY <1>1 DEF AgentState, ContextRoute
<1>3. t \in AgentState
  <2>. HIDE DEF context
  <2>. QED
    BY <1>1, <1>2 DEF AgentState
<1>4. Sound("respond", t)
  <2>. HIDE DEF context
  <2>. QED
    BY <1>1 DEF Sound, Queried, AgentState, BeforeQuery, WithStatement, Nodes
<1>5. run' = [run EXCEPT ![p] = [at |-> "respond", st |-> t]] /\ checkpoint' = t
  BY DEF RecordContext, Finish
<1>6. UNCHANGED turns /\ evidence' = IF QualifiesAsEvidence(s) THEN evidence \union {row}
                                     ELSE evidence
  BY DEF RecordContext, Finish
<1>7. replied' = IF s.pinned_entity_context THEN replied \union {s.resolved_question}
                 ELSE replied
  BY DEF RecordContext
<1>8. row \in EvidenceRow
  BY <1>1 DEF AgentState, EvidenceRow
<1>9. QualifiesAsEvidence(s) => row.sql[1] = row.question /\ row.rows = row.question
                                /\ row.claims = row.question
  BY <1>1 DEF QualifiesAsEvidence, Sound, Queried, NoSql
<1>. HIDE DEF context, row, t
<1>10. TypeOK'
  <2>1. run' \in [Requests -> [at : Nodes \union {"idle", "respond"}, st : AgentState]]
    BY <1>3, <1>5 DEF IndInv, TypeOK
  <2>2. replied' \subseteq Turns
    BY <1>1, <1>7 DEF IndInv, TypeOK, AgentState
  <2>. QED
    BY <1>3, <1>5, <1>6, <1>8, <2>1, <2>2 DEF IndInv, TypeOK
<1>11. \A q \in Requests : Sound(run'[q].at, run'[q].st)
  <2>. TAKE q \in Requests
  <2>. QED
    BY <1>4, <1>5 DEF IndInv, TypeOK
<1>12. EvidenceIsEarned'
  BY <1>6, <1>9 DEF IndInv, EvidenceIsEarned
<1>. QED
  BY <1>10, <1>11, <1>12 DEF IndInv

\* A request that is idle, or that leaves the graph, relies on nothing.
LEMMA EdgesKeep ==
    ASSUME IndInv, NEW p \in Requests, Ask(p) \/ Raise(p) \/ Respond(p) PROVE IndInv'
<1>1. NewThread \in AgentState
  BY Empties DEF NewThread, AgentState, NoContext, Routes
<1>2. CASE Ask(p)
  <2>. DEFINE s == [checkpoint EXCEPT !.question = turns + 1]
  <2>1. turns + 1 \in Turns /\ turns + 1 # None
    BY <1>2, TurnsAssumption DEF Ask, IndInv, TypeOK, Turns, None
  <2>2. s \in AgentState /\ s.question # None
    BY <2>1, SMTT(60) DEF IndInv, TypeOK, AgentState
  <2>3. /\ run' = [run EXCEPT ![p] = [at |-> "prepare_request", st |-> s]]
        /\ checkpoint' = s /\ turns' = turns + 1
        /\ UNCHANGED <<evidence, replied>>
    BY <1>2 DEF Ask
  <2>. HIDE DEF s
  <2>4. TypeOK'
    BY <2>1, <2>2, <2>3 DEF IndInv, TypeOK, Nodes
  <2>5. Sound("prepare_request", s)
    BY <2>2 DEF Sound, BeforeQuery, WithStatement, Nodes
  <2>6. \A q \in Requests : Sound(run'[q].at, run'[q].st)
    BY <2>3, <2>5 DEF IndInv, TypeOK
  <2>. QED
    BY <2>3, <2>4, <2>6 DEF IndInv, EvidenceIsEarned
<1>3. CASE Raise(p) \/ Respond(p)
  <2>1. run' = [run EXCEPT ![p] = Idle] /\ UNCHANGED <<checkpoint, turns, evidence, replied>>
    BY <1>3 DEF Raise, Respond
  <2>2. TypeOK'
    BY <1>1, <2>1 DEF IndInv, TypeOK, Idle
  <2>3. Sound(Idle.at, Idle.st)
    BY DEF Idle, Sound, BeforeQuery, WithStatement, Nodes
  <2>4. \A q \in Requests : Sound(run'[q].at, run'[q].st)
    BY <2>1, <2>3 DEF IndInv, TypeOK
  <2>. QED
    BY <2>1, <2>2, <2>4 DEF IndInv, EvidenceIsEarned
<1>. QED
  BY <1>2, <1>3

\* IndInv holds in every reachable state, whatever turns run at the same time.
THEOREM TurnInvariance == Spec => []IndInv
<1>1. Init => IndInv
  <2>. SUFFICES ASSUME Init PROVE IndInv
    OBVIOUS
  <2>1. NewThread \in AgentState
    BY Empties DEF NewThread, AgentState, NoContext, Routes
  <2>2. TypeOK
    BY <2>1, Empties DEF Init, TypeOK, Idle, None
  <2>3. \A p \in Requests : Sound(run[p].at, run[p].st)
    BY ZenonT(60) DEF Init, Idle, Sound, BeforeQuery, WithStatement, Nodes
  <2>. QED
    BY <2>2, <2>3 DEF Init, IndInv, EvidenceIsEarned
<1>2. IndInv /\ [Next]_vars => IndInv'
  <2>. SUFFICES ASSUME IndInv, [Next]_vars PROVE IndInv'
    OBVIOUS
  <2>1. ASSUME NEW p \in Requests, NodeStep(p) PROVE IndInv'
    BY <2>1, PrepareRequestKeeps, AuthorizeRequestKeeps, ResolveQuestionEntitiesKeeps,
       RouteQueryKeeps, PlanMetricIntentKeeps, ResolveMetricEntitiesKeeps,
       ExecuteMetricKeeps, RetrieveSchemaKeeps, GenerateSqlKeeps, ValidateSqlKeeps,
       RepairSqlKeeps, ExecuteSqlKeeps, GroundAnswerKeeps, DeclinedKeeps,
       RecordContextKeeps, EdgesKeep DEF NodeStep
  <2>2. ASSUME NEW p \in Requests, Ask(p) \/ Raise(p) PROVE IndInv'
    BY <2>2, EdgesKeep
  <2>3. CASE UNCHANGED vars
    BY <2>3 DEF vars, IndInv, TypeOK, EvidenceIsEarned
  <2>. QED
    BY <2>1, <2>2, <2>3 DEF Next
<1>. QED
  BY <1>1, <1>2, PTL DEF Spec

\* The statement that runs is the one this turn generated and validated, under
\* this turn's scope, whatever runs at the same time (graph.py, _execute_sql).
THEOREM ValidatedRuns == Spec => []ExecutesOnlyWhatItValidated
<1>1. IndInv => ExecutesOnlyWhatItValidated
  BY DEF IndInv, ExecutesOnlyWhatItValidated, Sound, BeforeQuery, WithStatement, Nodes
<1>. QED
  BY <1>1, TurnInvariance, PTL

\* A turn that asks back or refuses ran no query and claims nothing.
THEOREM DeclinedRunsNothing == Spec => []AskingBackRunsNoQuery
<1>1. IndInv => AskingBackRunsNoQuery
  BY DEF IndInv, AskingBackRunsNoQuery, Sound, Queried
<1>. QED
  BY <1>1, TurnInvariance, PTL

\* An answer rests on the rows of its own query, and its provenance names that
\* query and the metric with its source, or the statement with its guidance, that
\* answered it (graph.py, _routing_provenance).
THEOREM AnswersAreOwn == Spec => []AnswersRestOnTheirQuery
<1>1. IndInv => AnswersRestOnTheirQuery
  BY DEF IndInv, AnswersRestOnTheirQuery, Provenance, Sound, Queried
<1>. QED
  BY <1>1, TurnInvariance, PTL

\* Evidence was validated, returned rows and was grounded in the turn it names.
THEOREM EvidenceHolds == Spec => []EvidenceIsEarned
<1>1. IndInv => EvidenceIsEarned
  BY DEF IndInv
<1>. QED
  BY <1>1, TurnInvariance, PTL

\* The channels keep to the annotations of AgentState (state.py) at every node.
THEOREM TurnTypes == Spec => []TypeOK
<1>1. IndInv => TypeOK
  BY DEF IndInv
<1>. QED
  BY <1>1, TurnInvariance, PTL

------------------------------------------------------------------------------
(***************************************************************************)
(* A thread asked one turn at a time.                                      *)
(***************************************************************************)

\* What no node between prepare_request and record_context touches, but for the
\* options a turn that was not pinned may offer.
Continues(s, t) ==
    /\ t.question = s.question
    /\ t.resolved_question = s.resolved_question
    /\ t.pinned_entity_context = s.pinned_entity_context
    /\ t.analytical_context = s.analytical_context
    /\ \/ t.pending_entity_choice = s.pending_entity_choice
       \/ ~s.pinned_entity_context /\ t.pending_entity_choice = s.question

Between(p) ==
    \/ AuthorizeRequest(p) \/ ResolveQuestionEntities(p)
    \/ RouteQuery(p) \/ PlanMetricIntent(p) \/ ResolveMetricEntities(p)
    \/ ExecuteMetric(p) \/ RetrieveSchema(p) \/ GenerateSql(p) \/ ValidateSql(p)
    \/ RepairSql(p) \/ ExecuteSql(p) \/ GroundAnswer(p) \/ Clarify(p) \/ Block(p)

LEMMA BetweenContinues ==
    ASSUME IndInv, NEW p \in Requests, Between(p)
    PROVE  /\ run[p].at \in Nodes \ {"prepare_request"}
           /\ \E t, next : /\ next \in Nodes \ {"prepare_request"}
                           /\ Step(p, t, next)
                           /\ Continues(run[p].st, t)
<1>. DEFINE s == run[p].st
            Goal == \E t, next : /\ next \in Nodes \ {"prepare_request"}
                                 /\ Step(p, t, next)
                                 /\ Continues(s, t)
<1>0. s \in AgentState
  BY Running, SMTT(60)
<1>1. run[p].at \in Nodes \ {"prepare_request"}
  BY DEF Between, AuthorizeRequest, ResolveQuestionEntities, RouteQuery, PlanMetricIntent,
         ResolveMetricEntities, ExecuteMetric, RetrieveSchema, GenerateSql, ValidateSql,
         RepairSql, ExecuteSql, GroundAnswer, Clarify, Block, Nodes
<1>2. ASSUME NEW t, NEW next \in Nodes \ {"prepare_request"}, Step(p, t, next),
             Continues(s, t)
      PROVE  Goal
  BY <1>2
<1>3. Continues(s, s) /\ Continues(s, AskedBack(s))
  BY <1>0 DEF Continues, AgentState, AskedBack
<1>4. ASSUME NEW rows PROVE Continues(s, Executed(s, rows))
  BY <1>0 DEF Continues, AgentState, Executed
<1>. SUFFICES Goal
  BY <1>1
<1>. HIDE DEF Goal
<1>5. CASE AuthorizeRequest(p)
  <2>1. Continues(s, [s EXCEPT !.authorized_scope = s.question])
    BY <1>0 DEF Continues, AgentState
  <2>. QED
    BY <1>2, <1>5, <2>1 DEF AuthorizeRequest, Nodes
<1>6. CASE ResolveQuestionEntities(p)
  <2>1. ~s.pinned_entity_context =>
          Continues(s, [AskedBack(s) EXCEPT !.pending_entity_choice = s.question])
    BY <1>0, SMTT(60) DEF Continues, AgentState, AskedBack
  <2>. QED
    BY <1>2, <1>3, <1>6, <2>1 DEF ResolveQuestionEntities, Nodes
<1>7. CASE RouteQuery(p)
  <2>1. ASSUME NEW route, NEW action
        PROVE  Continues(s, [s EXCEPT !.execution_route = route, !.model_action = action])
    BY <1>0 DEF Continues, AgentState
  <2>. QED
    BY <1>2, <1>3, <1>7, <2>1 DEF RouteQuery, Nodes
<1>8. CASE PlanMetricIntent(p)
  <2>1. /\ Continues(s, [s EXCEPT !.execution_route = "adhoc_analytics"])
        /\ Continues(s, [s EXCEPT !.execution_route = "governed_metric",
                                  !.metric_query = s.question])
    BY <1>0 DEF Continues, AgentState
  <2>. QED
    BY <1>2, <1>3, <1>8, <2>1 DEF PlanMetricIntent, Nodes
<1>9. CASE ResolveMetricEntities(p)
  <2>1. Continues(s, [s EXCEPT !.execution_route = "governed_metric"])
    BY <1>0 DEF Continues, AgentState
  <2>. QED
    BY <1>2, <1>3, <1>9, <2>1 DEF ResolveMetricEntities, Nodes
<1>10. CASE ExecuteMetric(p)
  <2>1. ASSUME NEW rows PROVE Continues(s, Executed(FromMetric(s), rows))
    BY <1>0 DEF Continues, AgentState, Executed, FromMetric
  <2>. QED
    BY <1>2, <1>10, <2>1 DEF ExecuteMetric, Nodes
<1>11. CASE RetrieveSchema(p)
  BY <1>2, <1>3, <1>11 DEF RetrieveSchema, Nodes
<1>12. CASE GenerateSql(p)
  <2>. DEFINE o == [s EXCEPT !.applied_guidance = s.question]
              t == [o EXCEPT !.model_action = "execute", !.needs_clarification = FALSE,
                             !.generated_sql = <<o.question, FALSE>>]
              u == [o EXCEPT !.model_action = "clarify", !.needs_clarification = TRUE]
              v == [o EXCEPT !.model_action = "block", !.needs_clarification = FALSE]
  <2>1. Continues(s, t) /\ Continues(s, u) /\ Continues(s, v)
    BY <1>0 DEF Continues, AgentState
  <2>2. Step(p, t, "validate_sql") \/ Step(p, u, "clarify") \/ Step(p, v, "block")
    BY <1>12 DEF GenerateSql
  <2>. HIDE DEF t, u, v
  <2>. QED
    BY <1>2, <2>1, <2>2 DEF Nodes
<1>13. CASE ValidateSql(p)
  <2>1. PICK verdict \in {"valid", "unbounded", "repairable"} :
          Step(p, Validated(s, verdict), RouteAfterValidation(Validated(s, verdict)))
    BY <1>13 DEF ValidateSql
  <2>2. Continues(s, Validated(s, verdict))
    BY <1>0 DEF Continues, AgentState, Validated
  <2>3. RouteAfterValidation(Validated(s, verdict)) \in {"execute_sql", "repair_sql"}
    BY DEF RouteAfterValidation
  <2>. QED
    BY <1>2, <2>1, <2>2, <2>3 DEF Nodes
<1>14. CASE RepairSql(p)
  <2>1. Continues(s, [s EXCEPT !.generated_sql = <<s.question, TRUE>>,
                               !.sql_repair_attempted = TRUE])
    BY <1>0 DEF Continues, AgentState
  <2>. QED
    BY <1>2, <1>14, <2>1 DEF RepairSql, Nodes
<1>15. CASE ExecuteSql(p)
  BY <1>2, <1>4, <1>15 DEF ExecuteSql, Nodes
<1>16. CASE GroundAnswer(p)
  <2>1. Continues(s, [s EXCEPT !.claims = s.query_result])
    BY <1>0 DEF Continues, AgentState
  <2>. QED
    BY <1>2, <1>16, <2>1 DEF GroundAnswer, Nodes
<1>17. CASE Clarify(p) \/ Block(p)
  <2>1. ASSUME NEW status
        PROVE  Continues(s, [s EXCEPT !.query_result = None, !.status = status])
    BY <1>0 DEF Continues, AgentState
  <2>. QED
    BY <1>2, <1>17, <2>1 DEF Clarify, Block, Nodes
<1>. QED
  BY <1>5, <1>6, <1>7, <1>8, <1>9, <1>10, <1>11, <1>12, <1>13, <1>14, <1>15, <1>16, <1>17
     DEF Between

\* Only a reply that was recorded uses a clarification up, and only a turn that
\* was not pinned leaves a new one.
LEMMA StepResumable ==
    ASSUME NEW p, Requests = {p}, IndInv, Resumable(p), Next
    PROVE  Resumable(p)'
<1>. DEFINE s == run[p].st
            offered == checkpoint.analytical_context.pending_entity_choice
<1>0. /\ p \in Requests /\ turns \in Nat /\ checkpoint \in AgentState /\ s \in AgentState
      /\ offered \in Nat /\ s.pending_entity_choice \in Nat
  BY TurnsAssumption DEF IndInv, TypeOK, Turns, AgentState
<1>1. CASE Ask(p)
  <2>1. /\ run' = [run EXCEPT ![p] =
                     [at |-> "prepare_request",
                      st |-> [checkpoint EXCEPT !.question = turns + 1]]]
        /\ checkpoint' = [checkpoint EXCEPT !.question = turns + 1]
        /\ turns' = turns + 1 /\ replied' = replied
    BY <1>1 DEF Ask
  <2>2. /\ run'[p].at = "prepare_request" /\ run'[p].st = checkpoint'
        /\ checkpoint'.question = turns'
        /\ checkpoint'.analytical_context = checkpoint.analytical_context
    BY <1>0, <2>1 DEF IndInv, TypeOK, AgentState
  <2>. QED
    BY <1>0, <2>1, <2>2 DEF Resumable, Nodes
<1>2. CASE PrepareRequest(p)
  <2>1. PICK names \in BOOLEAN : Step(p, Prepared(s, IsReply(s, names)), "authorize_request")
    BY <1>2 DEF PrepareRequest
  <2>. DEFINE resumed == IsReply(s, names)
              t == Prepared(s, resumed)
  <2>2. /\ run' = [run EXCEPT ![p] = [at |-> "authorize_request", st |-> t]]
        /\ checkpoint' = t
        /\ turns' = turns /\ replied' = replied
    BY <2>1 DEF Step, Finish
  <2>3. /\ t.question = s.question /\ t.analytical_context = s.analytical_context
        /\ t.pending_entity_choice = None
        /\ t.pinned_entity_context = resumed
        /\ resumed => t.resolved_question = s.analytical_context.pending_entity_choice
    BY <1>0 DEF Prepared, AgentState
  <2>4. resumed => s.analytical_context.pending_entity_choice # None
    BY DEF IsReply
  <2>5. run'[p].at = "authorize_request" /\ run'[p].st = t
    BY <1>0, <2>2 DEF IndInv, TypeOK
  <2>. HIDE DEF t, resumed
  <2>6. s = checkpoint /\ s.question = turns
    BY <1>2 DEF Resumable, PrepareRequest
  <2>. QED
    BY <1>2, <2>2, <2>3, <2>4, <2>5, <2>6 DEF Resumable, PrepareRequest, Nodes
<1>3. CASE Between(p)
  <2>1. run[p].at \in Nodes \ {"prepare_request"}
    BY <1>0, <1>3, BetweenContinues
  <2>2. PICK t, next : /\ next \in Nodes \ {"prepare_request"}
                       /\ Step(p, t, next) /\ Continues(s, t)
    BY <1>0, <1>3, BetweenContinues
  <2>3. /\ run'[p].at = next /\ run'[p].st = t
        /\ checkpoint' = t /\ turns' = turns /\ replied' = replied
    BY <1>0, <2>2 DEF Step, Finish, IndInv, TypeOK
  <2>4. s = checkpoint /\ s.question = turns
    BY <2>1 DEF Resumable, Nodes
  <2>. QED
    BY <2>1, <2>2, <2>3, <2>4 DEF Resumable, Continues
<1>4. CASE RecordContext(p)
  <2>. DEFINE t == checkpoint'
  <2>1. /\ run' = [run EXCEPT ![p] = [at |-> "respond", st |-> t]]
        /\ t.question = s.question
        /\ t.analytical_context.pending_entity_choice = s.pending_entity_choice
    BY <1>0, <1>4 DEF RecordContext, Finish, AgentState
  <2>2. /\ turns' = turns
        /\ replied' = IF s.pinned_entity_context THEN replied \union {s.resolved_question}
                      ELSE replied
    BY <1>4 DEF RecordContext, Finish
  <2>3. run'[p].at = "respond" /\ run'[p].st = t
    BY <1>0, <2>1 DEF IndInv, TypeOK
  <2>4. /\ s = checkpoint /\ s.question = turns
        /\ turns \notin replied /\ offered <= turns
        /\ replied \subseteq 1 .. turns
        /\ s.pending_entity_choice \in {None, turns}
        /\ s.pinned_entity_context =>
              /\ s.resolved_question = offered
              /\ offered # None /\ offered # turns
              /\ s.pending_entity_choice = None
    BY <1>4 DEF Resumable, RecordContext, Nodes
  <2>5. replied' \subseteq 1 .. turns
    <3>1. offered # None => offered \in 1 .. turns
      BY <1>0, <2>4 DEF None
    <3>. HIDE DEF offered
    <3>. QED
      BY <2>2, <2>4, <3>1
  <2>6. s.pending_entity_choice \notin replied'
    BY <1>0, <2>2, <2>4, <2>5 DEF None
  <2>7. s.pending_entity_choice <= turns
    BY <1>0, <2>4 DEF None
  <2>. QED
    BY <2>1, <2>2, <2>3, <2>4, <2>5, <2>6, <2>7 DEF Resumable, Nodes
<1>5. CASE Raise(p) \/ Respond(p)
  <2>1. /\ run'[p].at = "idle"
        /\ UNCHANGED <<checkpoint, turns, replied>>
    BY <1>0, <1>5 DEF Raise, Respond, Idle, IndInv, TypeOK
  <2>. QED
    BY <2>1 DEF Resumable, Nodes
<1>. QED
  BY <1>1, <1>2, <1>3, <1>4, <1>5 DEF Next, NodeStep, Between

\* On a thread that only one request uses, a clarification is resumed by one
\* recorded turn (graph.py, _resume_clarified_request).
THEOREM ClarificationIsUsedUp ==
    ASSUME NEW p, Requests = {p} PROVE Spec => []ClarificationIsResumedOnce
<1>1. Init => Resumable(p)
  BY DEF Init, Idle, NewThread, NoContext, Resumable, Nodes, None
<1>2. IndInv /\ Resumable(p) /\ [Next]_vars => Resumable(p)'
  <2>1. CASE UNCHANGED vars
    BY <2>1 DEF vars, Resumable
  <2>. QED
    BY <2>1, StepResumable
<1>3. Resumable(p) => ClarificationIsResumedOnce
  BY DEF Resumable, ClarificationIsResumedOnce, Nodes
<1>. QED
  BY <1>1, <1>2, <1>3, TurnInvariance, PTL DEF Spec

=============================================================================

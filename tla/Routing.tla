------------------------------ MODULE Routing ------------------------------
(***************************************************************************)
(* The turns of one conversation through the deterministic router          *)
(* (app/routing/router.py), the planner of governed requests               *)
(* (app/routing/planner.py, app/metrics/catalog.py) and the context the    *)
(* graph records for the next turn (app/agent/graph.py). What the caller   *)
(* may read is decided anew on every turn.                                 *)
(*                                                                         *)
(* A question is abstracted to what the router's patterns and the          *)
(* planner's aliases find in its text. The ad-hoc path is the module       *)
(* AgentTurn, and the selection of registered metrics MetricSelection.     *)
(***************************************************************************)
EXTENDS Naturals, Sequences, FiniteSets

CONSTANTS
    Questions,   \* questions the user may ask
    Metrics,     \* GOVERNED_METRICS: metric -> [dims, timed]
    Scopes,      \* sets of metrics an authorization decision may allow
    MaxTurns,    \* bound on the turns
    Nothing      \* no context, no query, no value

VARIABLES
    context,     \* analytical_context
    query,       \* metric_query of the graph's state, kept between turns
    ran,         \* what the last turn executed, and under which scope
    turns,       \* turns so far
    thread       \* history: the questions the recorded query rests on

rvars == <<context, query, ran, turns, thread>>

Dims == UNION {Metrics[m].dims : m \in DOMAIN Metrics}

(* write, followup, continuation, composite, lookup, aggregate and calculates
   say which of the router's patterns the text matches; metrics the catalog
   metrics named; by the dimensions asked for; entity the value resolved for a
   dimension; monthly a time grain; top a limit. *)
Question == [write : BOOLEAN, followup : BOOLEAN, continuation : BOOLEAN,
             composite : BOOLEAN, lookup : BOOLEAN, aggregate : BOOLEAN,
             calculates : BOOLEAN, metrics : SUBSET DOMAIN Metrics, by : SUBSET Dims,
             entity : [Dims -> STRING], monthly : BOOLEAN, top : Nat]

-----------------------------------------------------------------------------
(* The router *)

Decision(route, reason, metrics) == [route |-> route, reason |-> reason, metrics |-> metrics]

(* _unauthorized_metric_decision in place of a decision over other metrics. *)
Authorized(decision, allowed) ==
    IF decision.metrics \subseteq allowed THEN decision
    ELSE Decision("block", "unauthorized_metric", decision.metrics)

(* _route_fresh_question *)
RouteFresh(q, allowed) ==
    CASE q.composite -> Decision("adhoc_analytics", "adhoc_default", q.metrics)
      [] ~q.composite /\ q.metrics # {} /\ q.lookup /\ ~q.aggregate ->
            Decision("adhoc_analytics", "row_level_lookup", q.metrics)
      [] ~q.composite /\ q.metrics # {} /\ ~(q.lookup /\ ~q.aggregate)
           /\ (q.aggregate \/ q.calculates) ->
            Authorized(IF Cardinality(q.metrics) > 1
                       THEN Decision("adhoc_analytics", "composite_metric_request", q.metrics)
                       ELSE Decision("governed_metric", "metric_match", q.metrics), allowed)
      [] OTHER -> Decision("adhoc_analytics", "adhoc_default", {})

(* _followup_decision *)
RouteFollowup(q, prior) ==
    LET before == IF prior.query = Nothing THEN {} ELSE {prior.query.metric}
    IN CASE Cardinality(q.metrics) > 1 ->
              Decision("adhoc_analytics", "composite_metric_request", q.metrics)
         [] Cardinality(q.metrics) = 1 /\ q.metrics # before ->
              Decision("governed_metric", "followup_metric_switch", q.metrics)
         [] OTHER -> Decision(prior.route, "followup_reference",
                              IF prior.route = "governed_metric" THEN before ELSE {})

Continuable(q, prior) ==
    prior # Nothing /\ prior.route # "none" /\ (q.followup \/ q.continuation)

(* route *)
Route(q, prior, allowed) ==
    CASE q.write -> Decision("block", "write_intent", {})
      [] ~q.write /\ Continuable(q, prior) -> Authorized(RouteFollowup(q, prior), allowed)
      [] ~q.write /\ ~Continuable(q, prior) /\ q.followup
           /\ ~(prior # Nothing /\ prior.clarification = "required") ->
            Decision("clarify", "followup_without_context", {})
      [] OTHER -> RouteFresh(q, allowed)

-----------------------------------------------------------------------------
(* The planner *)

DefaultLimit == 100

Fresh(metric) == [metric |-> metric, dims |-> {}, filters |-> {}, monthly |-> FALSE,
                  limit |-> DefaultLimit, ranked |-> FALSE]

(* validate_metric_query *)
ValidMetricQuery(plan) ==
    /\ plan.dims \subseteq Metrics[plan.metric].dims
    /\ {f.dim : f \in plan.filters} \subseteq Metrics[plan.metric].dims
    /\ plan.monthly => Metrics[plan.metric].timed

Named(q, definition) == {[dim |-> d, value |-> q.entity[d]] :
                            d \in {e \in definition.dims : q.entity[e] # Nothing}}

(* A slip: the filter a follow-up replaces is kept beside the new one. *)
Plan_KeepsOldFilter(q, decision, prior) ==
    LET metric == CHOOSE m \in decision.metrics : TRUE
        definition == Metrics[metric]
        base == IF decision.reason = "followup_reference" THEN prior.query ELSE Fresh(metric)
        limit == IF q.top > 0 THEN q.top ELSE base.limit
    IN  [metric |-> metric, dims |-> base.dims \cup (q.by \cap definition.dims),
         filters |-> base.filters \cup Named(q, definition),
         monthly |-> base.monthly \/ q.monthly, limit |-> limit,
         ranked |-> base.ranked \/ q.top > 0 \/ limit = 1]

(* MetricRequestPlanner.plan: a reference to the query before inherits it, any
   other decision starts afresh; what the question names is added, and a value
   replaces the one its dimension had. *)
Plan(q, decision, prior) ==
    LET metric == CHOOSE m \in decision.metrics : TRUE
        definition == Metrics[metric]
        base == IF decision.reason = "followup_reference" THEN prior.query ELSE Fresh(metric)
        named == Named(q, definition)
        limit == IF q.top > 0 THEN q.top ELSE base.limit
    IN  [metric |-> metric, dims |-> base.dims \cup (q.by \cap definition.dims),
         filters |-> {f \in base.filters : \A g \in named : g.dim # f.dim} \cup named,
         monthly |-> base.monthly \/ q.monthly, limit |-> limit,
         ranked |-> base.ranked \/ q.top > 0 \/ limit = 1]

(* MetricPlanningError or MetricQueryValidationError *)
Refused(q, decision, prior) ==
    \/ Cardinality(decision.metrics) # 1
    \/ q.monthly /\ ~Metrics[CHOOSE m \in decision.metrics : TRUE].timed
    \/ ~ValidMetricQuery(Plan(q, decision, prior))

-----------------------------------------------------------------------------
(* The turns *)

RoutingInit ==
    /\ context = Nothing /\ query = Nothing /\ ran = Nothing /\ turns = 0 /\ thread = <<>>

(* _record_context: only the two routes that execute are remembered; the
   metric query is whatever the state holds, this turn's or an earlier one's. *)
Recorded(route, clarification, plan) ==
    [route |-> IF route \in {"governed_metric", "adhoc_analytics"} THEN route ELSE "none",
     clarification |-> clarification, query |-> plan]

Starts == turns < MaxTurns /\ turns' = turns + 1

(* A turn that ends in an error records no context. *)
TurnFails(q, allowed) ==
    LET d == Route(q, context, allowed)
    IN  /\ Starts
        /\ ran' = Nothing
        /\ query' = IF d.route = "governed_metric" /\ ~Refused(q, d, context)
                    THEN Plan(q, d, context) ELSE query
        /\ UNCHANGED <<context, thread>>

(* route_query, plan_metric_request and the governed execution. *)
TurnGoverned(q, allowed) ==
    LET d == Route(q, context, allowed)
        plan == Plan(q, d, context)
    IN  /\ Starts
        /\ d.route = "governed_metric"
        /\ ~Refused(q, d, context)
        /\ plan.metric \in allowed
        /\ query' = plan
        /\ context' = Recorded("governed_metric", "none", plan)
        /\ ran' = [query |-> plan, allowed |-> allowed, write |-> q.write]
        /\ thread' = IF d.reason = "followup_reference" THEN Append(thread, q) ELSE <<q>>

(* The ad-hoc path answers, asks back or refuses. *)
TurnAdhoc(q, allowed) ==
    LET d == Route(q, context, allowed)
    IN  /\ Starts
        /\ d.route = "adhoc_analytics"
        /\ \E clarification \in {"none", "required", "blocked"} :
             context' = Recorded("adhoc_analytics", clarification, query)
        /\ ran' = Nothing
        /\ UNCHANGED <<query, thread>>

(* The router itself asks back or blocks; a metric out of scope is an error. *)
TurnStops(q, allowed) ==
    LET d == Route(q, context, allowed)
    IN  /\ Starts
        /\ d.route \in {"clarify", "block"}
        /\ d.reason # "unauthorized_metric"
        /\ context' = Recorded(d.route, IF d.route = "clarify" THEN "required" ELSE "blocked",
                               query)
        /\ ran' = Nothing
        /\ UNCHANGED <<query, thread>>

RoutingNext ==
    \E q \in Questions, allowed \in Scopes :
        \/ TurnFails(q, allowed) \/ TurnGoverned(q, allowed)
        \/ TurnAdhoc(q, allowed) \/ TurnStops(q, allowed)

RoutingSpec == RoutingInit /\ [][RoutingNext]_rvars

-----------------------------------------------------------------------------
(* The questions of a thread that give a dimension a value, that set a limit,
   and the newest of some. *)
Valued(d, questions) == {i \in DOMAIN questions : questions[i].entity[d] # Nothing}
Limited(questions) == {i \in DOMAIN questions : questions[i].top > 0}
Newest(places) == CHOOSE i \in places : \A j \in places : j <= i

(* What a chain of questions about one metric asks for: every dimension asked
   for, the newest value of each dimension, a time grain once asked for, and
   the newest limit. *)
AskedFor(metric, questions) ==
    LET dims == Metrics[metric].dims
        limits == Limited(questions)
    IN  [metric |-> metric,
         dims |-> dims \cap UNION {questions[i].by : i \in DOMAIN questions},
         filters |-> {[dim |-> d, value |-> questions[Newest(Valued(d, questions))].entity[d]] :
                        d \in {e \in dims : Valued(e, questions) # {}}},
         monthly |-> \E i \in DOMAIN questions : questions[i].monthly,
         limit |-> IF limits = {} THEN DefaultLimit ELSE questions[Newest(limits)].top,
         ranked |-> limits # {}]

(* A governed query that runs is of a metric the caller may read on this very
   turn, however old the query it continues; and it is what the user asked for
   since the metric was last named afresh, neither dropping a condition nor
   carrying one over from another metric or from a turn that failed
   (planner.py:98-176, graph.py:1625-1650). *)
RanIsAskedFor ==
    ran # Nothing =>
        /\ ran.query.metric \in ran.allowed
        /\ ~ran.write
        /\ ran.query = AskedFor(ran.query.metric, thread)

-----------------------------------------------------------------------------
(* The inductive invariant. *)
QuestionsSound ==
    \A q \in Questions : q.write \in BOOLEAN /\ q.monthly \in BOOLEAN

(* The context a reference continues is what its thread asked for. *)
ContextIsAskedFor ==
    context # Nothing /\ context.route = "governed_metric" =>
        context.query = AskedFor(context.query.metric, thread)

RoutingInv == thread \in Seq(Questions) /\ ContextIsAskedFor /\ RanIsAskedFor
=============================================================================

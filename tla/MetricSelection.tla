-------------------------- MODULE MetricSelection --------------------------
(***************************************************************************)
(* How a question reaches certified metrics: the registry                  *)
(* (app/knowledge/postgres_metrics.py), the retrieval index over it        *)
(* (retrieval.py, runtime.reindex), the model's selection and its          *)
(* validation (planner.py, graph._plan_metric_intent), and the composition *)
(* of the governed results (composition.py).                               *)
(*                                                                         *)
(* Reviewers change the registry while requests and reindexes are between  *)
(* their awaits. Scores are abstracted: retrieval returns any Limit of the *)
(* candidates that rank. A model may select anything, offered or not.      *)
(***************************************************************************)
EXTENDS Integers, Sequences, FiniteSets

CONSTANTS
    Metrics,        \* metric keys of one datasource
    Dims,           \* dimension keys
    Seeds,          \* metrics seeded at the first start, with no dimension
    Questions,      \* governed requests in flight
    Reindexers,     \* calls of the reindex endpoint
    Limit,          \* candidate_limit
    MaxReviews      \* bound on the reviewers' changes

VARIABLES
    registry,       \* metric -> [status, dims]
    index,          \* keys of the retriever's documents
    reindex,        \* per reindexer: [pc, keys read]
    question,       \* per request: [pc, authorized, definitions read, documents, plan]
    reviews         \* changes made so far

svars == <<registry, index, reindex, question, reviews>>

-----------------------------------------------------------------------------
(* Registry *)

(* registry.certified *)
Certified == {m \in Metrics : registry[m].status = "CERTIFIED"}

(* PostgresMetricRegistry.upsert: one transaction replaces the definition and
   all of its dimensions. *)
Upsert(m, status, dims) ==
    /\ reviews < MaxReviews
    /\ registry' = [registry EXCEPT ![m] = [status |-> status, dims |-> dims]]
    /\ reviews' = reviews + 1
    /\ UNCHANGED <<index, reindex, question>>

(* set_status: refused when no row was updated. *)
SetStatus(m, status) ==
    /\ reviews < MaxReviews
    /\ registry[m].status # "ABSENT"
    /\ registry' = [registry EXCEPT ![m].status = status]
    /\ reviews' = reviews + 1
    /\ UNCHANGED <<index, reindex, question>>

-----------------------------------------------------------------------------
(* Retrieval index *)

(* reindex reads the certified metrics and embeds their documents... *)
ReindexReads(r) ==
    /\ reindex[r].pc = "idle"
    /\ reindex' = [reindex EXCEPT ![r] = [pc |-> "embedding", keys |-> Certified]]
    /\ UNCHANGED <<registry, index, question, reviews>>

(* ...and replaces the datasource's documents when the embedder answers. *)
ReindexWrites(r) ==
    /\ reindex[r].pc = "embedding"
    /\ index' = reindex[r].keys
    /\ reindex' = [reindex EXCEPT ![r].pc = "done"]
    /\ UNCHANGED <<registry, question, reviews>>

(* The embedder fails: the endpoint answers 502 and the documents stand. *)
ReindexFails(r) ==
    /\ reindex[r].pc = "embedding"
    /\ reindex[r].keys # {}
    /\ reindex' = [reindex EXCEPT ![r].pc = "done"]
    /\ UNCHANGED <<registry, index, question, reviews>>

(* build_knowledge_runtime on a restart: seeds that are missing are written,
   reviewed work is left alone, and the index is built from the registry. *)
Restart ==
    /\ \A q \in Questions : question[q].pc = "idle"
    /\ \A r \in Reindexers : reindex[r].pc # "embedding"
    /\ registry' = [m \in Metrics |->
            IF m \in Seeds /\ registry[m].status = "ABSENT"
            THEN [status |-> "CERTIFIED", dims |-> {}] ELSE registry[m]]
    /\ index' = {m \in Metrics : registry'[m].status = "CERTIFIED"}
    /\ UNCHANGED <<reindex, question, reviews>>

-----------------------------------------------------------------------------
(* Questions *)

NoPlan == [intent |-> "none", metrics |-> {}, dims |-> {}]

(* _plan_metric_intent up to the embedder: the certified metrics the caller
   is authorized for, and the documents of the moment. *)
RequestReads(q, authorized) ==
    /\ question[q].pc = "idle"
    /\ LET read == Certified \cap authorized
       IN  question' = [question EXCEPT ![q] =
             [pc |-> IF read = {} \/ index = {} THEN "planned" ELSE "embedding",
              allowed |-> read, defs |-> [m \in Metrics |-> registry[m].dims],
              documents |-> index, offered |-> {},
              plan |-> IF read = {} \/ index = {} THEN [NoPlan EXCEPT !.intent = "adhoc"]
                       ELSE NoPlan]]
    /\ UNCHANGED <<registry, index, reindex, reviews>>

(* MetricRetriever.retrieve after the await: the indexed documents that are
   allowed, and no more than Limit of them. *)
Retrieves(q, offered) ==
    /\ question[q].pc = "embedding"
    /\ LET ranked == question[q].documents \cap question[q].allowed
       IN  /\ offered \subseteq ranked
           /\ Cardinality(offered) = IF Cardinality(ranked) < Limit
                                     THEN Cardinality(ranked) ELSE Limit
    /\ question' = [question EXCEPT
            ![q].pc = IF offered = {} THEN "planned" ELSE "selecting",
            ![q].offered = offered,
            ![q].plan.intent = IF offered = {} THEN "adhoc" ELSE "none"]
    /\ UNCHANGED <<registry, index, reindex, reviews>>

(* _shared_dimensions: those of every chosen metric. *)
SharedDimensions(metrics, defs) ==
    {d \in Dims : metrics # {} /\ \A m \in metrics : d \in defs[m]}

(* MetricIntentValidator.validate *)
Valid(selection, offered, defs) ==
    /\ selection.metrics # {}
    /\ selection.metrics \subseteq offered
    /\ selection.dims \subseteq SharedDimensions(selection.metrics, defs)

(* A slip: the selection is held against all that ranked, not against the
   Limit that the model was shown. *)
PlanOf_AnyRanked(r, selection) ==
    IF selection.intent # "governed" THEN [NoPlan EXCEPT !.intent = selection.intent]
    ELSE IF Valid(selection, r.allowed \cap r.documents, r.defs) THEN selection
    ELSE [NoPlan EXCEPT !.intent = "adhoc"]

(* What the validator refuses falls through to ad-hoc SQL, it is never
   executed. *)
PlanOf(r, selection) ==
    IF selection.intent # "governed" THEN [NoPlan EXCEPT !.intent = selection.intent]
    ELSE IF Valid(selection, r.offered, r.defs) THEN selection
    ELSE [NoPlan EXCEPT !.intent = "adhoc"]

(* MetricIntentPlanner.plan once the model has answered. *)
Selects(q, selection) ==
    /\ question[q].pc = "selecting"
    /\ question' = [question EXCEPT ![q].pc = "planned",
                                    ![q].plan = PlanOf(question[q], selection)]
    /\ UNCHANGED <<registry, index, reindex, reviews>>

-----------------------------------------------------------------------------
(* The specification *)

IdleRequest == [pc |-> "idle", allowed |-> {}, defs |-> [m \in Metrics |-> {}],
                documents |-> {}, offered |-> {}, plan |-> NoPlan]

SelectionInit ==
    /\ registry = [m \in Metrics |-> [status |-> IF m \in Seeds THEN "CERTIFIED" ELSE "ABSENT",
                                      dims |-> {}]]
    /\ index = Seeds
    /\ reindex = [r \in Reindexers |-> [pc |-> "idle", keys |-> {}]]
    /\ question = [q \in Questions |-> IdleRequest]
    /\ reviews = 0

SelectionNext ==
    \/ \E m \in Metrics, dims \in SUBSET Dims : Upsert(m, "CERTIFIED", dims)
    \/ \E m \in Metrics : SetStatus(m, "DEPRECATED")
    \/ \E r \in Reindexers : ReindexReads(r) \/ ReindexWrites(r) \/ ReindexFails(r)
    \/ Restart
    \/ \E q \in Questions :
        \/ \E a \in SUBSET Metrics : RequestReads(q, a)
        \/ \E offered \in SUBSET Metrics : Retrieves(q, offered)
        \/ \E i \in {"governed", "adhoc", "clarify"}, ms \in SUBSET Metrics, ds \in SUBSET Dims :
              Selects(q, [intent |-> i, metrics |-> ms, dims |-> ds])

SelectionSpec == SelectionInit /\ [][SelectionNext]_svars

-----------------------------------------------------------------------------
(* Composition: a slice maps nothing; it is a sequence of rows, each with the
   group it is for and the measure, as one metric's provider returned it. *)

Groups(slice) == {slice[i].group : i \in 1..Len(slice)}

(* _assert_unique_grain *)
AtGrain(slice) == Cardinality(Groups(slice)) = Len(slice)

MeasureAt(slice, group) == LET i == CHOOSE i \in 1..Len(slice) : slice[i].group = group
                           IN  slice[i].value

(* Where the rows are, and which comes first: slice after slice, row after row. *)
Places(slices) == UNION {{<<i, k>> : k \in 1..Len(slices[i])} : i \in 1..Len(slices)}

Before(p, q) == p[1] < q[1] \/ (p[1] = q[1] /\ p[2] < q[2])

KeyAt(slices, p) == slices[p[1]][p[2]].group

(* Where a key appears for the first time. *)
FirstPlaces(slices) ==
    {p \in Places(slices) :
        \A q \in Places(slices) : Before(q, p) => KeyAt(slices, q) # KeyAt(slices, p)}

(* Keys in order of first appearance over the slices. *)
OrderedKeys(slices) ==
    LET first == FirstPlaces(slices)
    IN  [j \in 1..Cardinality(first) |->
            KeyAt(slices, CHOOSE p \in first : Cardinality({q \in first : Before(q, p)}) = j - 1)]

(* A slip: only the groups of the first metric survive the join. *)
Compose_LeftJoin(slices, null) ==
    LET keys == [j \in 1..Len(slices[1]) |-> slices[1][j].group]
    IN  [composed |-> TRUE,
         rows |-> [j \in 1..Len(keys) |->
            [group |-> keys[j],
             measures |-> [i \in 1..Len(slices) |->
                IF keys[j] \in Groups(slices[i]) THEN MeasureAt(slices[i], keys[j]) ELSE null]]]]

(* compose: refused unless every slice has one row per group; then one row
   per group of any slice, absent measures null. *)
Compose(slices, null) ==
    IF \E i \in 1..Len(slices) : ~AtGrain(slices[i])
    THEN [composed |-> FALSE, rows |-> <<>>]
    ELSE LET keys == OrderedKeys(slices)
         IN  [composed |-> TRUE,
              rows |-> [j \in 1..Len(keys) |->
                [group |-> keys[j],
                 measures |-> [i \in 1..Len(slices) |->
                    IF keys[j] \in Groups(slices[i]) THEN MeasureAt(slices[i], keys[j]) ELSE null]]]]

-----------------------------------------------------------------------------
(* Properties *)

(* A governed plan is made only of metrics that were offered to the model for
   this question, and of dimensions every one of them had when the request
   read the registry; no more than Limit were offered, each certified and
   authorized at that reading and indexed then, however the registry and the
   index changed between the request's awaits and whatever the model named
   (planner.py:98-160, retrieval.py, graph.py:747-790). *)
PlannedIsOffered ==
    \A q \in Questions :
        LET r == question[q]
        IN  r.plan.intent = "governed" =>
                /\ r.plan.metrics # {} /\ r.plan.metrics \subseteq r.offered
                /\ r.offered \subseteq r.allowed \cap r.documents
                /\ Cardinality(r.offered) <= Limit
                /\ \A m \in r.plan.metrics : r.plan.dims \subseteq r.defs[m]

(* "Called after a metric is certified, deprecated or edited -- without it a
   newly certified metric stays invisible until restart" (runtime.py:133):
   while no reindex is under way, every certified metric can be retrieved. *)
CertifiedIsRetrievable ==
    (\A r \in Reindexers : reindex[r].pc # "embedding") => Certified \subseteq index

(* Slices are joined exactly when each of them has one row per group. The join
   then neither multiplies nor loses: no two composed rows are of one group,
   every row a provider returned is one of them with its measure, null or
   not, and nothing else is: a measure is of a row its provider returned, or
   null where the provider returned none for the group, and every group is
   some provider's. *)
OneToOne(result, slices, null) ==
    LET rows == result.rows
        n == Len(rows)
    IN  /\ result.composed <=>
              \A i \in 1..Len(slices) : \A j, k \in 1..Len(slices[i]) :
                  slices[i][j].group = slices[i][k].group => j = k
        /\ result.composed =>
              /\ \A j, k \in 1..n : rows[j].group = rows[k].group => j = k
              /\ \A i \in 1..Len(slices) : \A k \in 1..Len(slices[i]) : \E j \in 1..n :
                    /\ rows[j].group = slices[i][k].group
                    /\ rows[j].measures[i] = slices[i][k].value
              /\ \A j \in 1..n :
                    /\ \A i \in 1..Len(slices) :
                          \/ \E k \in 1..Len(slices[i]) :
                                slices[i][k] = [group |-> rows[j].group,
                                                value |-> rows[j].measures[i]]
                          \/ /\ rows[j].group \notin Groups(slices[i])
                             /\ rows[j].measures[i] = null
                    /\ \E i \in 1..Len(slices) : rows[j].group \in Groups(slices[i])

JoinsOneToOne(slices, null) == OneToOne(Compose(slices, null), slices, null)
=============================================================================

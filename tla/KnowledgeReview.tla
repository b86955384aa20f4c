--------------------------- MODULE KnowledgeReview ---------------------------
(***************************************************************************)
(* Review of knowledge candidates and their promotion: CandidateReview and *)
(* the generator's admission check (candidates.py), the review and         *)
(* instruction routes (knowledge_routes.py), the expression checks         *)
(* (expressions.py) and the registry they write (postgres_metrics.py).     *)
(*                                                                         *)
(* A route is a series of statements, each committed on its own, and       *)
(* several reviewers work at once: a copy of the candidate is read, the    *)
(* certified metrics are read in two statements, the destination is        *)
(* written, and the candidate's row is written back from the copy.  One    *)
(* generation runs per candidate (ExclusiveGeneration of LearningLoop).    *)
(*                                                                         *)
(* A metric is its set of dependencies; its expression, dimensions and     *)
(* wording are left out, and so is deprecation: no route calls set_status. *)
(* `rank' is history: the order in which metrics were first certified.     *)
(***************************************************************************)
EXTENDS Integers, FiniteSets

CONSTANTS Names,       \* metric keys
          Titles,      \* titles of business rules, and questions of examples
          Seeds,       \* the metrics certified at start-up
          Candidates,  \* one per recurring cluster
          Reviewers,   \* review requests that may run at once
          Types,       \* what the model proposes
          MaxDependencies  \* bound: the metrics one expression refers to

ASSUME NamesAssumption ==
    /\ Seeds \subseteq Names
    /\ Titles # {}
    /\ "none" \notin Candidates
    /\ Types \subseteq {"METRIC", "BUSINESS_RULE", "QUERY_EXAMPLE"}
    /\ MaxDependencies \in Nat

VARIABLES candidate,   \* knowledge_candidates
          generation,  \* what each generation saw of the registry
          metric,      \* metric_definitions and metric_dependencies
          rank,        \* history: when a name was first certified, 0 if never
          clock,       \* history: the latest rank given
          rules,       \* titles in business_instructions
          examples,    \* candidates with a row in approved_query_examples
          review       \* the review requests under way

vars == <<candidate, generation, metric, rank, clock, rules, examples, review>>

------------------------------------------------------------------------------
(***************************************************************************)
(* State.                                                                  *)
(***************************************************************************)

Row == [status : {"NONE", "PROPOSED", "APPROVED", "REJECTED"},
        type : {"METRIC", "BUSINESS_RULE", "QUERY_EXAMPLE"},
        name : Names \union Titles,
        dependencies : SUBSET Names]

NoRow == [status |-> "NONE", type |-> "QUERY_EXAMPLE",
          name |-> CHOOSE t \in Titles : TRUE, dependencies |-> {}]

\* No candidate: source_candidate_id is null for a seed.
NoCandidate == "none"

Metric == [dependencies : SUBSET Names, source : Candidates \union {NoCandidate}]

Certified == {n \in Names : rank[n] # 0}

\* A review request: where it is, the candidate, the copy it works from and the
\* certified keys it read.
Request == [at : {"idle", "reject", "certified", "children", "promote", "settle"},
            of : Candidates \union {NoCandidate}, row : Row, keys : SUBSET Names]

Quiet == [at |-> "idle", seen |-> {}]

Idle == [at |-> "idle", of |-> NoCandidate, row |-> NoRow, keys |-> {}]

\* One type invariant: rows, requests and generations keep the shapes the
\* dataclasses and the tables give them.
TypeOK ==
    /\ candidate \in [Candidates -> Row]
    /\ generation \in [Candidates -> [at : {"idle", "thinking"}, seen : SUBSET Names]]
    /\ metric \in [Names -> Metric]
    /\ rank \in [Names -> Nat]
    /\ clock \in Nat
    /\ rules \subseteq Titles
    /\ examples \subseteq Candidates
    /\ review \in [Reviewers -> Request]

\* _seed_default_metrics has run; a seed depends on nothing.
Init ==
    /\ candidate = [c \in Candidates |-> NoRow]
    /\ generation = [c \in Candidates |-> Quiet]
    /\ metric = [n \in Names |-> [dependencies |-> {}, source |-> NoCandidate]]
    /\ rank = [n \in Names |-> IF n \in Seeds THEN 1 ELSE 0]
    /\ clock = 1
    /\ rules = {}
    /\ examples = {}
    /\ review = [r \in Reviewers |-> Idle]

------------------------------------------------------------------------------
(***************************************************************************)
(* The checks of expressions.py.                                           *)
(***************************************************************************)

\* validate_expression: at least one dependency, not the metric itself, all
\* certified when the registry was read.
ValidExpression(name, dependencies, available) ==
    /\ dependencies # {}
    /\ name \notin dependencies
    /\ dependencies \subseteq available

\* What `visit' walks from name in the graph g.
Reachable(name, g) ==
    {n \in Names : \A T \in SUBSET Names :
        name \in T /\ (\A k \in T : g[k] \subseteq T) => n \in T}

\* No set of metrics each of which needs another of the set.
WellFounded(S, g) ==
    \A T \in SUBSET S : T # {} => \E k \in T : g[k] \intersect T = {}

\* assert_acyclic over the metrics read, with the proposed definition added.
Acyclic(name, dependencies, keys) ==
    LET g == [n \in Names |-> IF n = name THEN dependencies
                              ELSE IF n \in keys THEN metric[n].dependencies ELSE {}]
    IN  WellFounded(Reachable(name, g), g)

------------------------------------------------------------------------------
(***************************************************************************)
(* Generation.                                                             *)
(***************************************************************************)

\* propose_for_cluster: nothing is on record, and the certified metrics go into
\* the prompt.
ReadRegistry(c) ==
    /\ generation[c].at = "idle"
    /\ candidate[c].status = "NONE"
    /\ generation' = [generation EXCEPT ![c] = [at |-> "thinking", seen |-> Certified]]
    /\ UNCHANGED <<candidate, metric, rank, clock, rules, examples, review>>

\* Mutant: a proposal may name a metric that is certified already.
Admitted_OverCertified(type, name, dependencies, seen) ==
    type = "METRIC" => ValidExpression(name, dependencies, seen)

\* A metric proposal is dropped when its key was certified or its expression
\* does not validate over the metrics that were read before the model call.
Admitted(type, name, dependencies, seen) ==
    type = "METRIC" =>
        /\ name \notin seen
        /\ ValidExpression(name, dependencies, seen)

Propose(c) ==
    /\ generation[c].at = "thinking"
    /\ \E type \in Types, name \in Names \union Titles, dependencies \in SUBSET Names :
          /\ IF type = "METRIC"
             THEN name \in Names /\ Cardinality(dependencies) <= MaxDependencies
             ELSE name \in Titles /\ dependencies = {}
          /\ Admitted(type, name, dependencies, generation[c].seen)
          /\ candidate' = [candidate EXCEPT ![c] =
                [status |-> "PROPOSED", type |-> type, name |-> name,
                 dependencies |-> dependencies]]
    /\ generation' = [generation EXCEPT ![c] = Quiet]
    /\ UNCHANGED <<metric, rank, clock, rules, examples, review>>

\* The model declines, fails, or proposes what is dropped.
Decline(c) ==
    /\ generation[c].at = "thinking"
    /\ generation' = [generation EXCEPT ![c] = Quiet]
    /\ UNCHANGED <<candidate, metric, rank, clock, rules, examples, review>>

------------------------------------------------------------------------------
(***************************************************************************)
(* Review.                                                                 *)
(***************************************************************************)

\* A candidate is rejected whatever its status.
StartReject(r) ==
    /\ review[r].at = "idle"
    /\ \E c \in Candidates :
          /\ candidate[c].status # "NONE"
          /\ review' = [review EXCEPT ![r] =
                [at |-> "reject", of |-> c, row |-> candidate[c], keys |-> {}]]
    /\ UNCHANGED <<candidate, generation, metric, rank, clock, rules, examples>>

Reject(r) ==
    /\ review[r].at = "reject"
    /\ candidate' = [candidate EXCEPT ![review[r].of] =
                        [review[r].row EXCEPT !.status = "REJECTED"]]
    /\ review' = [review EXCEPT ![r] = Idle]
    /\ UNCHANGED <<generation, metric, rank, clock, rules, examples>>

\* The copy an approval works from; one that is rejected raises.
StartApprove(r) ==
    /\ review[r].at = "idle"
    /\ \E c \in Candidates :
          /\ candidate[c].status \in {"PROPOSED", "APPROVED"}
          /\ review' = [review EXCEPT ![r] =
                [at |-> IF candidate[c].type = "METRIC" THEN "certified" ELSE "promote",
                 of |-> c, row |-> candidate[c], keys |-> {}]]
    /\ UNCHANGED <<candidate, generation, metric, rank, clock, rules, examples>>

\* registry.certified: the definitions first.
ReadCertified(r) ==
    /\ review[r].at = "certified"
    /\ review' = [review EXCEPT ![r].at = "children", ![r].keys = Certified]
    /\ UNCHANGED <<candidate, generation, metric, rank, clock, rules, examples>>

\* Then their dependencies, and the checks on what was read.
ReadChildren(r) ==
    LET row == review[r].row
    IN  /\ review[r].at = "children"
        /\ ValidExpression(row.name, row.dependencies, review[r].keys)
        /\ Acyclic(row.name, row.dependencies, review[r].keys)
        /\ review' = [review EXCEPT ![r].at = "promote"]
        /\ UNCHANGED <<candidate, generation, metric, rank, clock, rules, examples>>

\* Mutant: the dependencies of a metric already on record are left as they are.
Upserted_KeepsChildren(r) ==
    [metric EXCEPT ![review[r].row.name] =
        [dependencies |-> IF rank[review[r].row.name] = 0
                          THEN review[r].row.dependencies ELSE @.dependencies,
         source |-> review[r].of]]

\* registry.upsert: by key, with its children replaced.
Upserted(r) ==
    [metric EXCEPT ![review[r].row.name] =
        [dependencies |-> review[r].row.dependencies, source |-> review[r].of]]

PromoteMetric(r) ==
    LET name == review[r].row.name
    IN  /\ review[r].at = "promote"
        /\ review[r].row.type = "METRIC"
        /\ metric' = Upserted(r)
        /\ rank' = [rank EXCEPT ![name] = IF @ = 0 THEN clock + 1 ELSE @]
        /\ clock' = IF rank[name] = 0 THEN clock + 1 ELSE clock
        /\ review' = [review EXCEPT ![r].at = "settle"]
        /\ UNCHANGED <<candidate, generation, rules, examples>>

\* Mutant: approval is a change of status only.
PromoteRule_StatusOnly(r) ==
    /\ review[r].at = "promote"
    /\ review[r].row.type = "BUSINESS_RULE"
    /\ review' = [review EXCEPT ![r].at = "settle"]
    /\ UNCHANGED <<candidate, generation, metric, rank, clock, rules, examples>>

\* approve_instruction: by title.
PromoteRule(r) ==
    /\ review[r].at = "promote"
    /\ review[r].row.type = "BUSINESS_RULE"
    /\ rules' = rules \union {review[r].row.name}
    /\ review' = [review EXCEPT ![r].at = "settle"]
    /\ UNCHANGED <<candidate, generation, metric, rank, clock, examples>>

\* approve_example, once the recorded statement still validates (SemanticCatalog).
PromoteExample(r) ==
    /\ review[r].at = "promote"
    /\ review[r].row.type = "QUERY_EXAMPLE"
    /\ examples' = examples \union {review[r].of}
    /\ review' = [review EXCEPT ![r].at = "settle"]
    /\ UNCHANGED <<candidate, generation, metric, rank, clock, rules>>

\* The copy goes back as APPROVED.
Settle(r) ==
    /\ review[r].at = "settle"
    /\ candidate' = [candidate EXCEPT ![review[r].of] =
                        [review[r].row EXCEPT !.status = "APPROVED"]]
    /\ review' = [review EXCEPT ![r] = Idle]
    /\ UNCHANGED <<generation, metric, rank, clock, rules, examples>>

\* A check refuses (among them shared dimensions and the re-validation of an
\* example), a statement fails, or the process dies.
Abort(r) ==
    /\ review[r].at # "idle"
    /\ review' = [review EXCEPT ![r] = Idle]
    /\ UNCHANGED <<candidate, generation, metric, rank, clock, rules, examples>>

\* author_business_instruction writes a rule of its own.
AuthorInstruction ==
    /\ \E title \in Titles : rules' = rules \union {title}
    /\ UNCHANGED <<candidate, generation, metric, rank, clock, examples, review>>

Next ==
    \/ \E c \in Candidates : ReadRegistry(c) \/ Propose(c) \/ Decline(c)
    \/ \E r \in Reviewers :
          \/ StartReject(r) \/ Reject(r)
          \/ StartApprove(r) \/ ReadCertified(r) \/ ReadChildren(r)
          \/ PromoteMetric(r) \/ PromoteRule(r) \/ PromoteExample(r)
          \/ Settle(r) \/ Abort(r)
    \/ AuthorInstruction

Spec == Init /\ [][Next]_vars

------------------------------------------------------------------------------
(***************************************************************************)
(* Properties.                                                             *)
(***************************************************************************)

\* assert_acyclic, "or evaluation would never terminate": whatever approvals
\* race each other and whatever metric is certified again, no certified metric
\* depends on itself through others.
NoCircularMetric ==
    WellFounded(Names, [n \in Names |-> metric[n].dependencies])

\* approve_metric and registry.upsert: a certified metric is, dependencies
\* included, the proposal of the candidate it names as its source, and what it
\* depends on is certified.
CertifiedAsProposed ==
    \A n \in Certified :
        /\ metric[n].dependencies \subseteq Certified
        /\ metric[n].source = NoCandidate => n \in Seeds /\ metric[n].dependencies = {}
        /\ metric[n].source # NoCandidate =>
              /\ candidate[metric[n].source].type = "METRIC"
              /\ candidate[metric[n].source].name = n
              /\ candidate[metric[n].source].dependencies = metric[n].dependencies

\* The order of the writes in approve_*: a candidate that reads APPROVED has its
\* place in the store the runtime answers from, even after a crash between the
\* two writes or a rejection in between.
ApprovedIsPromoted ==
    \A c \in Candidates : candidate[c].status = "APPROVED" =>
        /\ candidate[c].type = "METRIC" => candidate[c].name \in Certified
        /\ candidate[c].type = "BUSINESS_RULE" => candidate[c].name \in rules
        /\ candidate[c].type = "QUERY_EXAMPLE" => c \in examples

------------------------------------------------------------------------------
(***************************************************************************)
(* What makes the properties inductive.  The check that matters is made    *)
(* before the model call, on a reading of the registry that may be old: a  *)
(* metric proposed from it depends on metrics certified before its own     *)
(* name could be.  That order is never lost, so racing approvals cannot    *)
(* close a cycle, although assert_acyclic does not see each other's write. *)
(***************************************************************************)

\* d was certified, and before n if n was.
Older(d, n) == rank[d] # 0 /\ (rank[n] = 0 \/ rank[d] < rank[n])

RanksAreGiven ==
    /\ \A n \in Names : rank[n] <= clock
    /\ \A n \in Names : rank[n] = 0 => metric[n].dependencies = {}

SnapshotsAreOld ==
    \A c \in Candidates : generation[c].at = "thinking" =>
        /\ candidate[c].status = "NONE"
        /\ \A d \in generation[c].seen : rank[d] # 0
        /\ \A d \in generation[c].seen : \A n \in Names \ generation[c].seen : Older(d, n)

ProposalsAreOld ==
    \A c \in Candidates : candidate[c].type = "METRIC" =>
        /\ candidate[c].name \in Names
        /\ \A d \in candidate[c].dependencies : Older(d, candidate[c].name)

OtherNamesAreTitles ==
    \A c \in Candidates : candidate[c].type # "METRIC" => candidate[c].name \in Titles

MetricsAreOld ==
    \A n \in Names : \A d \in metric[n].dependencies : Older(d, n)

SourcesStand ==
    \A n \in Names : metric[n].source # NoCandidate =>
        candidate[metric[n].source].status # "NONE"

\* A request's copy differs from the stored row in its status at most.
CopiesAreTrue ==
    \A r \in Reviewers : review[r].at # "idle" =>
        /\ review[r].of \in Candidates
        /\ candidate[review[r].of].status # "NONE"
        /\ review[r].row.type = candidate[review[r].of].type
        /\ review[r].row.name = candidate[review[r].of].name
        /\ review[r].row.dependencies = candidate[review[r].of].dependencies

SettledIsPromoted ==
    \A r \in Reviewers : review[r].at = "settle" =>
        /\ review[r].row.type = "METRIC" => review[r].row.name \in Certified
        /\ review[r].row.type = "BUSINESS_RULE" => review[r].row.name \in rules
        /\ review[r].row.type = "QUERY_EXAMPLE" => review[r].of \in examples

IndInv ==
    /\ TypeOK
    /\ RanksAreGiven
    /\ SnapshotsAreOld
    /\ ProposalsAreOld
    /\ OtherNamesAreTitles
    /\ MetricsAreOld
    /\ SourcesStand
    /\ CopiesAreTrue
    /\ SettledIsPromoted
    /\ CertifiedAsProposed
    /\ ApprovedIsPromoted
==============================================================================

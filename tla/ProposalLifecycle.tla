-------------------------- MODULE ProposalLifecycle --------------------------
(***************************************************************************)
(* What the learning loop promises a reviewer, with no jobs, no workers    *)
(* and no requests in it: question memory counts what was asked, a cluster *)
(* that met its thresholds may produce ONE candidate, ever, and from then  *)
(* on only a reviewer changes that candidate.  LearningLoop, the           *)
(* translation of the code, is shown to implement this specification.      *)
(***************************************************************************)
EXTENDS Integers

CONSTANTS
    Clusters,        \* question clusters of one datasource
    MinOccurrences,  \* settings.question_cluster_min_occurrences
    MinSuccessful,   \* settings.question_cluster_min_successful
    MaxQuestions,    \* bound: questions asked per cluster
    ProposedTypes    \* the kinds of knowledge the model proposes

VARIABLES
    clusters,    \* the counters of every cluster
    evidence,    \* the clusters with a validated statement on record
    candidates   \* the candidate of each kind for each cluster, or Absent

vars == <<clusters, evidence, candidates>>

\* The kinds a reviewer can be shown.
CandidateTypes == {"METRIC", "QUERY_EXAMPLE", "BUSINESS_RULE"}

Verdicts == {"APPROVED", "REJECTED"}

Absent == "ABSENT"

Eligible(c) ==
    /\ clusters[c].occurrence_count >= MinOccurrences
    /\ clusters[c].successful_count >= MinSuccessful

Init ==
    /\ clusters = [c \in Clusters |->
                      [occurrence_count |-> 0, successful_count |-> 0]]
    /\ evidence = {}
    /\ candidates = [c \in Clusters |-> [t \in CandidateTypes |-> Absent]]

\* A finished question is counted, once, in the cluster of its structure.
Ask(c) ==
    /\ clusters[c].occurrence_count < MaxQuestions
    /\ \E trusted \in {0, 1} :
         clusters' = [clusters EXCEPT
                        ![c].occurrence_count = @ + 1,
                        ![c].successful_count = @ + trusted]
    /\ UNCHANGED <<evidence, candidates>>

\* The statement of a trusted run is kept.
KeepEvidence(c) ==
    /\ clusters[c].successful_count > 0
    /\ evidence' = evidence \union {c}
    /\ UNCHANGED <<clusters, candidates>>

\* The one proposal of a cluster: only over nothing, only once the cluster met
\* its thresholds, and a query example only with a statement behind it.
Propose(c, t) ==
    /\ Eligible(c)
    /\ \A u \in CandidateTypes : candidates[c][u] = Absent
    /\ t = "QUERY_EXAMPLE" => c \in evidence
    /\ candidates' = [candidates EXCEPT ![c][t] = "PROPOSED"]
    /\ UNCHANGED <<clusters, evidence>>

\* A reviewer's verdict on a candidate that exists.
Review(c, t, verdict) ==
    /\ candidates[c][t] # Absent
    /\ candidates' = [candidates EXCEPT ![c][t] = verdict]
    /\ UNCHANGED <<clusters, evidence>>

Next ==
    \E c \in Clusters :
        \/ Ask(c)
        \/ KeepEvidence(c)
        \/ \E t \in ProposedTypes : Propose(c, t)
        \/ \E t \in CandidateTypes, verdict \in Verdicts : Review(c, t, verdict)

Spec == Init /\ [][Next]_vars
==============================================================================

----------------------------- MODULE LearningLoop -----------------------------
(***************************************************************************)
(* The learning loop of one datasource, from a finished question to a      *)
(* candidate in front of a reviewer.  Three kinds of process share the     *)
(* knowledge database:                                                     *)
(*                                                                         *)
(*   - requests, which after answering record the question in its cluster, *)
(*     keep the statement that answered it, and run CandidateTrigger;      *)
(*   - workers (one KnowledgeJobWorker per API process), which poll the    *)
(*     job table, call the model and store a PROPOSED candidate;           *)
(*   - reviewers, who set the status of a candidate.                       *)
(*                                                                         *)
(* Every await on the database or on the model is a step boundary, because *)
(* other processes run there.  A scan of the candidate table over the      *)
(* candidate types (eight SELECTs) is one step: candidates are never       *)
(* deleted, so a scan that finds nothing found nothing at its start and a  *)
(* scan that finds something finds it at its end.                          *)
(***************************************************************************)
EXTENDS Integers, Sequences, FiniteSets

CONSTANTS
    Clusters,               \* question clusters of one datasource
    AdhocClusters,          \* those whose questions were answered by SQL
    Requests,               \* concurrent analytics requests
    Workers,                \* API processes that run a worker
    MinOccurrences,         \* settings.question_cluster_min_occurrences
    MinSuccessful,          \* settings.question_cluster_min_successful
    MaxGenerationAttempts,  \* jobs.MAX_GENERATION_ATTEMPTS
    MaxJobsPerTick,         \* worker.MAX_JOBS_PER_TICK
    ProposedTypes,          \* the kinds of knowledge the model proposes
    MaxQuestions,           \* bound: questions asked per cluster
    MaxJobs,                \* bound: rows of the job table
    MaxFaults               \* bound: worker stops and failed ticks

VARIABLES
    clusters,    \* question_clusters: the counters of every cluster
    evidence,    \* query_execution_evidence: clusters with a statement
    candidates,  \* knowledge_candidates: status by cluster and type
    jobs,        \* knowledge_generation_jobs, in order of created_at
    request,     \* where each request is after its answer
    worker,      \* where each worker is in its loop
    faults       \* stops and failed ticks so far

vars == <<clusters, evidence, candidates, jobs, request, worker, faults>>

CandidateTypes ==
    {"METRIC", "QUERY_EXAMPLE", "BUSINESS_RULE", "FILTER", "SYNONYM",
     "ENTITY_ALIAS", "JOIN_RULE", "DESCRIPTION_IMPROVEMENT"}

CandidateStatus == {"PROPOSED", "APPROVED", "REJECTED"}

Verdicts == {"APPROVED", "REJECTED"}

Absent == "ABSENT"

JobStatus == {"PENDING", "RUNNING", "SUCCEEDED", "FAILED"}

OpenStatus == {"PENDING", "RUNNING"}

ASSUME ConstantsAssumption ==
    /\ AdhocClusters \subseteq Clusters
    /\ ProposedTypes \subseteq CandidateTypes
    /\ MinOccurrences \in Nat \ {0}
    /\ MinSuccessful \in Nat \ {0}
    /\ MaxGenerationAttempts \in Nat \ {0}
    /\ MaxJobsPerTick \in Nat \ {0}
    /\ MaxQuestions \in Nat
    /\ MaxJobs \in Nat
    /\ MaxFaults \in Nat

NoJob == 0

NoDraft == "NONE"

NoCluster == "NONE"

------------------------------------------------------------------------------
(***************************************************************************)
(* Question memory and the trigger.                                        *)
(***************************************************************************)

\* Mutant: failures count towards the thresholds.
IsEligible_AnyOutcome(row) ==
    row.occurrence_count >= MinOccurrences

IsEligible(row) ==
    /\ row.occurrence_count >= MinOccurrences
    /\ row.successful_count >= MinSuccessful

\* _to_candidate rebuilds a row with the METRIC, the QUERY_EXAMPLE or else the
\* BUSINESS_RULE contract; a payload of any other type does not validate and
\* the row is skipped.
ReadableTypes == {"METRIC", "QUERY_EXAMPLE", "BUSINESS_RULE"}

\* PostgresCandidateStore.get: an unreadable row reads as no row.
StoredCandidate(c, t) ==
    IF t \in ReadableTypes THEN candidates[c][t] ELSE Absent

\* Mutant: a rejected candidate does not suppress regeneration.
AlreadyRepresented_IgnoresRejected(c) ==
    \E t \in CandidateTypes : StoredCandidate(c, t) \notin {Absent, "REJECTED"}

AlreadyRepresented(c) ==
    \E t \in CandidateTypes : StoredCandidate(c, t) # Absent

\* Mutant: the index forgets RUNNING rows.
OpenJobFor_PendingOnly(c) ==
    \E i \in DOMAIN jobs : jobs[i].cluster = c /\ jobs[i].status = "PENDING"

\* The partial unique index over PENDING and RUNNING rows.
OpenJobFor(c) ==
    \E i \in DOMAIN jobs : jobs[i].cluster = c /\ jobs[i].status \in OpenStatus

Idle == [at |-> "idle", cluster |-> NoCluster, eligible |-> FALSE]

\* memory.record: one transaction bumps the counters of the cluster and inserts
\* the event.  The row it returns is the one the trigger judges.
RecordQuestion(r, c, trusted) ==
    LET row == [occurrence_count |-> clusters[c].occurrence_count + 1,
                successful_count |-> clusters[c].successful_count
                                       + (IF trusted THEN 1 ELSE 0)]
    IN  /\ request[r].at = "idle"
        /\ clusters[c].occurrence_count < MaxQuestions
        /\ clusters' = [clusters EXCEPT ![c] = row]
        /\ request' = [request EXCEPT ![r] =
                         [at |-> IF trusted /\ c \in AdhocClusters
                                 THEN "evidence" ELSE "consider",
                          cluster |-> c,
                          eligible |-> IsEligible(row)]]
        /\ UNCHANGED <<evidence, candidates, jobs, worker, faults>>

\* _record_execution_evidence: a failed write is logged and swallowed.
RecordEvidence(r) ==
    /\ request[r].at = "evidence"
    /\ \/ evidence' = evidence \union {request[r].cluster}
       \/ evidence' = evidence
    /\ request' = [request EXCEPT ![r].at = "consider"]
    /\ UNCHANGED <<clusters, candidates, jobs, worker, faults>>

\* CandidateTrigger.consider up to the insert: the thresholds on the row memory
\* returned, then the scan for a candidate of any type and status.
Consider(r) ==
    /\ request[r].at = "consider"
    /\ request' = IF request[r].eligible /\ ~AlreadyRepresented(request[r].cluster)
                  THEN [request EXCEPT ![r].at = "enqueue"]
                  ELSE [request EXCEPT ![r] = Idle]
    /\ UNCHANGED <<clusters, evidence, candidates, jobs, worker, faults>>

\* The insert; a unique violation means the cluster is already queued.
Enqueue(r) ==
    /\ request[r].at = "enqueue"
    /\ \/ /\ ~OpenJobFor(request[r].cluster)
          /\ Len(jobs) < MaxJobs
          /\ jobs' = Append(jobs, [cluster |-> request[r].cluster,
                                   status |-> "PENDING",
                                   attempt_count |-> 0])
       \/ /\ OpenJobFor(request[r].cluster)
          /\ jobs' = jobs
    /\ request' = [request EXCEPT ![r] = Idle]
    /\ UNCHANGED <<clusters, evidence, candidates, worker, faults>>

\* The process dies, or consider swallows an exception: nothing is retried.
AbandonRequest(r) ==
    /\ request[r].at # "idle"
    /\ request' = [request EXCEPT ![r] = Idle]
    /\ UNCHANGED <<clusters, evidence, candidates, jobs, worker, faults>>

------------------------------------------------------------------------------
(***************************************************************************)
(* The worker loop.  `claims' is the sequence of rows drain_once claimed   *)
(* since it was called: its length is the loop counter of the tick.        *)
(***************************************************************************)

BusyAt == {"claimed", "generating", "storing", "complete", "release", "fail"}

Stopped == [at |-> "stopped", job |-> NoJob, draft |-> NoDraft, claims |-> <<>>]

Waiting == [Stopped EXCEPT !.at = "waiting"]

Draining == [Stopped EXCEPT !.at = "draining"]

\* The cluster of the job a worker holds.
ClusterOf(w) == jobs[worker[w].job].cluster

\* A worker moves on; nothing else changes.
Moves(w, at) ==
    /\ worker' = [worker EXCEPT ![w].at = at]
    /\ UNCHANGED <<clusters, evidence, candidates, jobs, request, faults>>

\* start(): _run drains before its first wait.
StartWorker(w) ==
    /\ worker[w].at = "stopped"
    /\ worker' = [worker EXCEPT ![w] = Draining]
    /\ UNCHANGED <<clusters, evidence, candidates, jobs, request, faults>>

\* The poll interval elapses.
PollElapses(w) ==
    /\ worker[w].at = "waiting"
    /\ worker' = [worker EXCEPT ![w] = Draining]
    /\ UNCHANGED <<clusters, evidence, candidates, jobs, request, faults>>

Claimable ==
    {i \in DOMAIN jobs : /\ jobs[i].status = "PENDING"
                         /\ jobs[i].attempt_count < MaxGenerationAttempts}

\* claim_next: the oldest claimable row becomes RUNNING and spends an attempt,
\* in one transaction.
ClaimNext(w) ==
    /\ worker[w].at = "draining"
    /\ Len(worker[w].claims) < MaxJobsPerTick
    /\ \E i \in Claimable :
         /\ \A j \in Claimable : i <= j
         /\ jobs' = [jobs EXCEPT ![i].status = "RUNNING",
                                 ![i].attempt_count = @ + 1]
         /\ worker' = [worker EXCEPT ![w].at = "claimed",
                                     ![w].job = i,
                                     ![w].claims = Append(@, i)]
    /\ UNCHANGED <<clusters, evidence, candidates, request, faults>>

\* drain_once returns: its loop is spent or nothing is claimable.
EndTick(w) ==
    /\ worker[w].at = "draining"
    /\ Len(worker[w].claims) = MaxJobsPerTick \/ Claimable = {}
    /\ worker' = [worker EXCEPT ![w] = Waiting]
    /\ UNCHANGED <<clusters, evidence, candidates, jobs, request, faults>>

\* Mutant: the generator trusts the scan the trigger made.
CheckExisting_TrustsTrigger(w) ==
    /\ worker[w].at = "claimed"
    /\ Moves(w, "generating")

\* propose_for_cluster up to the model call: skip a cluster that already has a
\* candidate of any type and status.
CheckExisting(w) ==
    /\ worker[w].at = "claimed"
    /\ Moves(w, IF AlreadyRepresented(ClusterOf(w)) THEN "complete" ELSE "generating")

\* Mutant: a query example is proposed without looking for its statement.
ModelProposes_WithoutEvidence(w, t) ==
    /\ worker[w].at = "generating"
    /\ worker' = [worker EXCEPT ![w].at = "storing", ![w].draft = t]
    /\ UNCHANGED <<clusters, evidence, candidates, jobs, request, faults>>

\* The model answers with a proposal of type t.  A query example without an
\* evidence row is dropped; the row is read after the answer.
ModelProposes(w, t) ==
    /\ worker[w].at = "generating"
    /\ worker' = IF t = "QUERY_EXAMPLE" /\ ClusterOf(w) \notin evidence
                 THEN [worker EXCEPT ![w].at = "complete"]
                 ELSE [worker EXCEPT ![w].at = "storing", ![w].draft = t]
    /\ UNCHANGED <<clusters, evidence, candidates, jobs, request, faults>>

\* The model proposes nothing, or a metric whose key is certified already or
\* whose expression does not validate.
ModelDeclines(w) ==
    /\ worker[w].at = "generating"
    /\ Moves(w, "complete")

\* LLMRateLimitError or another LLMGatewayError.
ModelUnavailable(w) ==
    /\ worker[w].at = "generating"
    /\ Moves(w, "release")

\* Any other exception inside the try block of _process.
GenerationFails(w) ==
    /\ worker[w].at \in {"claimed", "generating", "storing"}
    /\ worker' = [worker EXCEPT ![w].at = "fail", ![w].draft = NoDraft]
    /\ UNCHANGED <<clusters, evidence, candidates, jobs, request, faults>>

\* The candidate upsert: ON CONFLICT overwrites the row of the same type,
\* status included.
StoreCandidate(w) ==
    /\ worker[w].at = "storing"
    /\ candidates' = [candidates EXCEPT
                        ![ClusterOf(w)][worker[w].draft] = "PROPOSED"]
    /\ worker' = [worker EXCEPT ![w].at = "complete", ![w].draft = NoDraft]
    /\ UNCHANGED <<clusters, evidence, jobs, request, faults>>

\* Mutant: the attempt that reaches the limit is released once more.
Released_OffByOne(row) ==
    [row EXCEPT !.status = IF row.attempt_count > MaxGenerationAttempts
                           THEN "FAILED" ELSE "PENDING"]

\* The row after release_for_retry.
Released(row) ==
    [row EXCEPT !.status = IF row.attempt_count >= MaxGenerationAttempts
                           THEN "FAILED" ELSE "PENDING"]

\* Mutant: a released row is left RUNNING.
FinishJob_ForgetsRelease(w) ==
    /\ worker[w].at \in {"complete", "release", "fail"}
    /\ jobs' = [jobs EXCEPT ![worker[w].job].status =
                  CASE worker[w].at = "complete" -> "SUCCEEDED"
                    [] worker[w].at = "fail"     -> "FAILED"
                    [] worker[w].at = "release"  -> @]
    /\ worker' = [worker EXCEPT ![w].at = "draining", ![w].job = NoJob]
    /\ UNCHANGED <<clusters, evidence, candidates, request, faults>>

\* The UPDATE that ends _process: complete, fail or release_for_retry.  None
\* of the three looks at the status the row has.
FinishJob(w) ==
    /\ worker[w].at \in {"complete", "release", "fail"}
    /\ jobs' = [jobs EXCEPT ![worker[w].job] =
                  CASE worker[w].at = "complete" -> [@ EXCEPT !.status = "SUCCEEDED"]
                    [] worker[w].at = "fail"     -> [@ EXCEPT !.status = "FAILED"]
                    [] worker[w].at = "release"  -> Released(@)]
    /\ worker' = [worker EXCEPT ![w].at = "draining", ![w].job = NoJob]
    /\ UNCHANGED <<clusters, evidence, candidates, request, faults>>

\* A database error outside the try block ends the tick; _run logs it and
\* waits for the next poll.  A claimed row stays as it is.
TickFails(w) ==
    /\ worker[w].at \in {"draining", "claimed", "complete", "release", "fail"}
    /\ faults < MaxFaults
    /\ faults' = faults + 1
    /\ worker' = [worker EXCEPT ![w] = Waiting]
    /\ UNCHANGED <<clusters, evidence, candidates, jobs, request>>

\* Mutant: a stopped worker keeps its row.
StopWorker_KeepsJob(w) ==
    /\ worker[w].at # "stopped"
    /\ faults < MaxFaults
    /\ faults' = faults + 1
    /\ worker' = [worker EXCEPT ![w].at = "stopped"]
    /\ UNCHANGED <<clusters, evidence, candidates, jobs, request>>

\* stop() cancels the task, or the process dies.  A claimed row stays RUNNING.
StopWorker(w) ==
    /\ worker[w].at # "stopped"
    /\ faults < MaxFaults
    /\ faults' = faults + 1
    /\ worker' = [worker EXCEPT ![w] = Stopped]
    /\ UNCHANGED <<clusters, evidence, candidates, jobs, request>>

------------------------------------------------------------------------------
\* A reviewer's verdict reaches the candidate row: the last write of reject and
\* of every approve_*.  Only a row that can be read back can be reviewed.
Review(c, t, verdict) ==
    /\ StoredCandidate(c, t) # Absent
    /\ candidates[c][t] # verdict
    /\ candidates' = [candidates EXCEPT ![c][t] = verdict]
    /\ UNCHANGED <<clusters, evidence, jobs, request, worker, faults>>

Init ==
    /\ clusters = [c \in Clusters |->
                      [occurrence_count |-> 0, successful_count |-> 0]]
    /\ evidence = {}
    /\ candidates = [c \in Clusters |-> [t \in CandidateTypes |-> Absent]]
    /\ jobs = <<>>
    /\ request = [r \in Requests |-> Idle]
    /\ worker = [w \in Workers |-> Stopped]
    /\ faults = 0

RequestStep(r) ==
    \/ \E c \in Clusters, trusted \in BOOLEAN : RecordQuestion(r, c, trusted)
    \/ RecordEvidence(r)
    \/ Consider(r)
    \/ Enqueue(r)
    \/ AbandonRequest(r)

\* What the event loop of a live process does without anything going wrong.
WorkerStep(w) ==
    \/ StartWorker(w)
    \/ PollElapses(w)
    \/ ClaimNext(w)
    \/ EndTick(w)
    \/ CheckExisting(w)
    \/ \E t \in ProposedTypes : ModelProposes(w, t)
    \/ ModelDeclines(w)
    \/ ModelUnavailable(w)
    \/ GenerationFails(w)
    \/ StoreCandidate(w)
    \/ FinishJob(w)

Next ==
    \/ \E r \in Requests : RequestStep(r)
    \/ \E w \in Workers : WorkerStep(w) \/ TickFails(w) \/ StopWorker(w)
    \/ \E c \in Clusters, t \in CandidateTypes, verdict \in Verdicts :
         Review(c, t, verdict)

Spec == Init /\ [][Next]_vars

\* A live worker keeps being scheduled: its polls elapse and its calls return,
\* the model call included, which the gateway ends with a timeout.
Fairness == \A w \in Workers : WF_vars(WorkerStep(w))

FairSpec == Spec /\ Fairness

------------------------------------------------------------------------------
(***************************************************************************)
(* Properties.                                                             *)
(***************************************************************************)

JobRow == [cluster : Clusters, status : JobStatus,
           attempt_count : 0 .. MaxGenerationAttempts]

WorkerLocals == [at : BusyAt \union {"stopped", "waiting", "draining"},
                 job : Nat, draft : CandidateTypes \union {NoDraft},
                 claims : Seq(Nat)]

\* The stores hold well-formed rows, and a worker holds a row exactly while it
\* is processing one (the local `job' of drain_once), with a draft exactly
\* while it is about to store one.
TypeOK ==
    /\ clusters \in [Clusters -> [occurrence_count : Nat, successful_count : Nat]]
    /\ evidence \in SUBSET Clusters
    /\ candidates \in [Clusters -> [CandidateTypes -> CandidateStatus \union {Absent}]]
    /\ jobs \in Seq(JobRow)
    /\ request \in [Requests ->
                      [at : {"idle", "evidence", "consider", "enqueue"},
                       cluster : Clusters \union {NoCluster}, eligible : BOOLEAN]]
    /\ \A r \in Requests : request[r].at # "idle" => request[r].cluster \in Clusters
    /\ worker \in [Workers -> WorkerLocals]
    /\ \A w \in Workers :
         /\ worker[w].at \in BusyAt => worker[w].job \in DOMAIN jobs
         /\ worker[w].at \notin BusyAt => worker[w].job = NoJob
         /\ worker[w].at = "storing" <=> worker[w].draft # NoDraft
    /\ faults \in 0 .. MaxFaults

\* "Exactly one proceeds" (jobs.py): two workers are never processing the same
\* cluster at the same time, whether through one row claimed twice or through
\* two rows of one cluster.
ExclusiveGeneration ==
    \A v, w \in Workers :
        /\ v # w
        /\ worker[v].at \in BusyAt
        /\ worker[w].at \in BusyAt
        => ClusterOf(v) # ClusterOf(w)

\* A row waiting to be retried can be: release_for_retry and claim_next agree on
\* where the attempts end, so no row is left PENDING that no poll will take.
PendingIsClaimable ==
    \A i \in DOMAIN jobs :
        jobs[i].status = "PENDING" => i \in Claimable

\* A cluster shows a reviewer at most one candidate, however its requests, jobs
\* and workers interleave: the trigger's scan is stale by the time of the insert,
\* so a second job is possible and a second candidate is not.  (Of the types that
\* cannot be read back there may be more; nobody can review those.)
OneCandidatePerCluster ==
    \A c \in Clusters : \A t, u \in ReadableTypes :
        candidates[c][t] # Absent /\ candidates[c][u] # Absent => t = u

\* Every candidate rests on a cluster that met its thresholds with trusted
\* runs, and a query example on a statement some run validated.
CandidatesRestOnEvidence ==
    \A c \in Clusters : \A t \in CandidateTypes :
        candidates[c][t] # Absent =>
            /\ clusters[c].occurrence_count >= MinOccurrences
            /\ clusters[c].successful_count >= MinSuccessful
            /\ t = "QUERY_EXAMPLE" => c \in evidence

\* Generation never takes back a reviewer's verdict: the upsert that could
\* overwrite an APPROVED or REJECTED row with PROPOSED does not happen.
ReviewOutlivesGeneration ==
    [][\A c \in Clusters : \A t \in CandidateTypes :
          candidates[c][t] \in Verdicts => candidates'[c][t] \in Verdicts]_vars

\* The strengthening that makes the safety properties inductive: what each
\* process relies on between two of its steps.
OneOpenJobPerCluster ==
    \A i, j \in DOMAIN jobs :
        /\ jobs[i].status \in OpenStatus
        /\ jobs[j].status \in OpenStatus
        /\ jobs[i].cluster = jobs[j].cluster
        => i = j

HeldIsRunning ==
    \A w \in Workers :
        worker[w].at \in BusyAt => jobs[worker[w].job].status = "RUNNING"

HeldOnce ==
    \A v, w \in Workers :
        /\ worker[v].at \in BusyAt
        /\ worker[w].at \in BusyAt
        /\ worker[v].job = worker[w].job
        => v = w

GeneratesOverUnseen ==
    \A w \in Workers :
        worker[w].at \in {"generating", "storing"} =>
            \A t \in ReadableTypes : candidates[ClusterOf(w)][t] = Absent

DraftsRestOnEvidence ==
    \A w \in Workers :
        worker[w].at = "storing" =>
            /\ worker[w].draft \in ProposedTypes
            /\ worker[w].draft = "QUERY_EXAMPLE" => ClusterOf(w) \in evidence

RequestsRestOnEvidence ==
    \A r \in Requests :
        /\ request[r].at = "evidence" =>
              clusters[request[r].cluster].successful_count > 0
        /\ request[r].at # "idle" /\ request[r].eligible =>
              IsEligible(clusters[request[r].cluster])
        /\ request[r].at = "enqueue" => request[r].eligible

JobsRestOnEvidence ==
    \A i \in DOMAIN jobs : IsEligible(clusters[jobs[i].cluster])

VerdictsAreReadable ==
    \A c \in Clusters : \A t \in CandidateTypes :
        candidates[c][t] \in Verdicts => t \in ReadableTypes

IndInv ==
    /\ TypeOK
    /\ OneOpenJobPerCluster
    /\ HeldIsRunning
    /\ HeldOnce
    /\ PendingIsClaimable
    /\ GeneratesOverUnseen
    /\ DraftsRestOnEvidence
    /\ RequestsRestOnEvidence
    /\ JobsRestOnEvidence
    /\ VerdictsAreReadable
    /\ OneCandidatePerCluster
    /\ CandidatesRestOnEvidence

\* Row i exists and its status is one of S.
JobIs(i, S) == i \in DOMAIN jobs /\ jobs[i].status \in S

\* A RUNNING row that no worker holds.
Orphaned(i) ==
    /\ JobIs(i, {"RUNNING"})
    /\ \A w \in Workers : worker[w].job # i

\* A row is lost to a fault and to nothing else: each stop or failed tick
\* strands at most one RUNNING row.
OrphansComeFromFaults ==
    Cardinality({i \in DOMAIN jobs : Orphaned(i)}) <= faults

\* Every queued row is eventually finished, unless a stop or a failed tick
\* strands it while it is RUNNING: retries are bounded and older rows, which
\* claim_next prefers, run out of attempts.
QueuedIsServed ==
    \A i \in 1 .. MaxJobs :
        JobIs(i, {"PENDING"}) ~> (JobIs(i, {"SUCCEEDED", "FAILED"}) \/ Orphaned(i))

\* worker.stop: "A job already claimed is left RUNNING rather than force-failed;
\* its attempt is recorded, and another worker may retry it within the bounded
\* attempt limit": a RUNNING row does not stay RUNNING for ever.
ClaimedIsRetried ==
    \A i \in 1 .. MaxJobs :
        JobIs(i, {"RUNNING"}) ~> ~JobIs(i, {"RUNNING"})

\* "A recurring cluster may justify one bounded generation call"
\* (candidates.py): the model is only ever asked, and its answer only ever
\* stored, for a cluster that has no candidate of any type or status.
GeneratesOverNothing ==
    \A w \in Workers :
        worker[w].at \in {"generating", "storing"} =>
            \A t \in CandidateTypes : candidates[ClusterOf(w)][t] = Absent

\* The candidates a reviewer can be shown: the rows that can be read back.
Shown == [c \in Clusters |-> [t \in ReadableTypes |-> candidates[c][t]]]

\* What the loop promises, without its machinery.
Lifecycle == INSTANCE ProposalLifecycle
               WITH candidates <- Shown, ProposedTypes <- ProposedTypes \intersect ReadableTypes

\* The loop implements ProposalLifecycle: one proposal shown per cluster, only
\* after its thresholds, and only a reviewer changes it afterwards.
ImplementsLifecycle == Lifecycle!Spec
==============================================================================

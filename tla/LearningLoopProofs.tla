-------------------------- MODULE LearningLoopProofs --------------------------
(***************************************************************************)
(* Proofs about LearningLoop, for any number of clusters, requests,        *)
(* workers, attempts and jobs.  One lemma per action shows that it         *)
(* preserves the inductive invariant IndInv; the theorems at the end       *)
(* collect them.                                                           *)
(*                                                                         *)
(* The model may propose any type.  What the theorems say of candidates    *)
(* holds for the ones the store can read back (ReadableTypes) where they   *)
(* name those; the run learning_unreadable shows why they must.            *)
(***************************************************************************)
EXTENDS LearningLoop, SequenceTheorems, FiniteSetTheorems, TLAPS

\* A row written over a row of a table leaves a table of the same length.
LEMMA WriteRow ==
    ASSUME NEW S, NEW s \in Seq(S), NEW i \in DOMAIN s, NEW row \in S
    PROVE  /\ [s EXCEPT ![i] = row] \in Seq(S)
           /\ DOMAIN [s EXCEPT ![i] = row] = DOMAIN s
           /\ \A k \in DOMAIN s :
                [s EXCEPT ![i] = row][k] = IF k = i THEN row ELSE s[k]
  BY ExceptSeq

\* A row inserted into a table leaves the rows it had.
LEMMA AddRow ==
    ASSUME NEW S, NEW s \in Seq(S), NEW row \in S
    PROVE  /\ Append(s, row) \in Seq(S)
           /\ DOMAIN Append(s, row) = DOMAIN s \union {Len(s) + 1}
           /\ Append(s, row)[Len(s) + 1] = row
           /\ \A k \in DOMAIN s : Append(s, row)[k] = s[k]
           /\ Len(s) + 1 \notin DOMAIN s
  OBVIOUS

\* Worker w moves to `at' with a row and a draft; the other workers do not move.
Goes(w, at, job, draft) ==
    /\ worker' \in [Workers -> WorkerLocals]
    /\ worker'[w].at = at
    /\ worker'[w].job = job
    /\ worker'[w].draft = draft
    /\ \A v \in Workers : v # w => worker'[v] = worker[v]

USE DEF BusyAt, OpenStatus, JobStatus, NoJob, ClusterOf

\* What can be read back are candidates, and no verdict looks like no row.
LEMMA TypesAndVerdicts ==
    ReadableTypes \subseteq CandidateTypes /\ Absent \notin Verdicts /\ "PROPOSED" \notin Verdicts
  BY DEF ReadableTypes, CandidateTypes, Absent, Verdicts

\* What a row of the job table looks like.
LEMMA RowType ==
    ASSUME TypeOK, NEW i \in DOMAIN jobs
    PROVE  /\ jobs[i] \in JobRow
           /\ jobs[i].cluster \in Clusters
           /\ jobs[i].status \in JobStatus
           /\ jobs[i].attempt_count \in 0 .. MaxGenerationAttempts
<1>1. jobs[i] \in JobRow
  BY ElementOfSeq DEF TypeOK
<1> QED BY <1>1 DEF JobRow

\* The empty stores satisfy the invariant.
LEMMA InitEstablishes ==
    ASSUME Init PROVE IndInv
<1>1. TypeOK
  BY ConstantsAssumption DEF Init, TypeOK, Idle, Stopped, JobRow, WorkerLocals
<1>2. DOMAIN jobs = {}
  BY DEF Init
<1> QED
  BY <1>1, <1>2, TypesAndVerdicts DEF Init, IndInv, Idle, Stopped, OneOpenJobPerCluster,
     HeldIsRunning, HeldOnce, PendingIsClaimable, GeneratesOverUnseen,
     DraftsRestOnEvidence, RequestsRestOnEvidence, JobsRestOnEvidence,
     VerdictsAreReadable, OneCandidatePerCluster, CandidatesRestOnEvidence

------------------------------------------------------------------------------
(* The steps of a request. *)

\* Counters only grow, so what met its thresholds keeps meeting them.
LEMMA RecordQuestionKeeps ==
    ASSUME IndInv, NEW r \in Requests, NEW c \in Clusters, NEW trusted \in BOOLEAN,
           RecordQuestion(r, c, trusted)
    PROVE  IndInv'
<1>1. TypeOK'
  BY SMTT(60) DEF IndInv, TypeOK, RecordQuestion, IsEligible
<1>2. \A d \in Clusters :
        /\ IsEligible(clusters[d]) => IsEligible(clusters'[d])
        /\ clusters[d].successful_count > 0 => clusters'[d].successful_count > 0
  BY ConstantsAssumption, SMTT(60) DEF IndInv, TypeOK, RecordQuestion, IsEligible
<1>3. RequestsRestOnEvidence'
  <2> SUFFICES ASSUME NEW q \in Requests
               PROVE  /\ request'[q].at = "evidence" =>
                           clusters'[request'[q].cluster].successful_count > 0
                      /\ request'[q].at # "idle" /\ request'[q].eligible =>
                           IsEligible(clusters'[request'[q].cluster])
                      /\ request'[q].at = "enqueue" => request'[q].eligible
    BY DEF RequestsRestOnEvidence, IsEligible
  <2>1. CASE q = r
    BY <2>1 DEF IndInv, TypeOK, RecordQuestion, IsEligible
  <2>2. CASE q # r
    <3>1. request'[q] = request[q]
      BY <2>2 DEF IndInv, TypeOK, RecordQuestion
    <3> QED
      BY <1>2, <3>1 DEF IndInv, TypeOK, RequestsRestOnEvidence
  <2> QED BY <2>1, <2>2
<1>4. JobsRestOnEvidence' /\ CandidatesRestOnEvidence'
  <2>1. \A i \in DOMAIN jobs : jobs[i].cluster \in Clusters
    BY RowType DEF IndInv
  <2>2. JobsRestOnEvidence'
    BY <1>2, <2>1 DEF IndInv, RecordQuestion, JobsRestOnEvidence, IsEligible
  <2>3. CandidatesRestOnEvidence'
    BY <1>2, SMTT(60) DEF IndInv, RecordQuestion, CandidatesRestOnEvidence, IsEligible
  <2> QED BY <2>2, <2>3
<1>5. /\ OneOpenJobPerCluster' /\ HeldIsRunning' /\ HeldOnce' /\ PendingIsClaimable'
      /\ GeneratesOverUnseen' /\ DraftsRestOnEvidence'
      /\ VerdictsAreReadable' /\ OneCandidatePerCluster'
  BY DEF IndInv, RecordQuestion, OneOpenJobPerCluster, HeldIsRunning, HeldOnce,
     PendingIsClaimable, Claimable, GeneratesOverUnseen, DraftsRestOnEvidence,
     VerdictsAreReadable, OneCandidatePerCluster
<1> QED BY <1>1, <1>3, <1>4, <1>5 DEF IndInv

\* Evidence only grows, and a request that moves on keeps what it knew.
LEMMA RecordEvidenceKeeps ==
    ASSUME IndInv, NEW r \in Requests, RecordEvidence(r) PROVE IndInv'
<1>1. TypeOK'
  BY ZenonT(60) DEF IndInv, TypeOK, RecordEvidence
<1>2. evidence \subseteq evidence'
  BY DEF RecordEvidence
<1>3. RequestsRestOnEvidence'
  BY DEF IndInv, TypeOK, RecordEvidence, RequestsRestOnEvidence, IsEligible
<1>4. CandidatesRestOnEvidence' /\ DraftsRestOnEvidence'
  BY <1>2, SMTT(60) DEF IndInv, RecordEvidence, CandidatesRestOnEvidence,
     DraftsRestOnEvidence, IsEligible
<1>5. /\ OneOpenJobPerCluster' /\ HeldIsRunning' /\ HeldOnce' /\ PendingIsClaimable'
      /\ GeneratesOverUnseen' /\ JobsRestOnEvidence'
      /\ VerdictsAreReadable' /\ OneCandidatePerCluster'
  BY DEF IndInv, RecordEvidence, OneOpenJobPerCluster, HeldIsRunning, HeldOnce,
     PendingIsClaimable, Claimable, GeneratesOverUnseen, JobsRestOnEvidence,
     VerdictsAreReadable, OneCandidatePerCluster, IsEligible
<1> QED BY <1>1, <1>3, <1>4, <1>5 DEF IndInv

\* Looking, and giving up, change nothing but the request.
LEMMA ConsiderKeeps ==
    ASSUME IndInv, NEW r \in Requests, Consider(r) \/ AbandonRequest(r)
    PROVE  IndInv'
<1>0. UNCHANGED <<clusters, evidence, candidates, jobs, worker, faults>>
  BY DEF Consider, AbandonRequest
<1>1. \/ request' = [request EXCEPT ![r] = Idle]
      \/ /\ request[r].at = "consider"
         /\ request[r].eligible
         /\ request' = [request EXCEPT ![r].at = "enqueue"]
  BY DEF Consider, AbandonRequest
<1>2. TypeOK' /\ RequestsRestOnEvidence'
  <2>1. CASE request' = [request EXCEPT ![r] = Idle]
    <3>1. TypeOK'
      BY <1>0, <2>1 DEF IndInv, TypeOK, Idle
    <3>2. RequestsRestOnEvidence'
      BY <1>0, <2>1 DEF IndInv, TypeOK, RequestsRestOnEvidence, IsEligible, Idle
    <3> QED BY <3>1, <3>2
  <2>2. CASE /\ request[r].at = "consider"
             /\ request[r].eligible
             /\ request' = [request EXCEPT ![r].at = "enqueue"]
    <3>1. TypeOK'
      BY <1>0, <2>2, SMTT(60) DEF IndInv, TypeOK
    <3>2. RequestsRestOnEvidence'
      BY <1>0, <2>2 DEF IndInv, TypeOK, RequestsRestOnEvidence, IsEligible
    <3> QED BY <3>1, <3>2
  <2> QED BY <1>1, <2>1, <2>2
<1>4. /\ OneOpenJobPerCluster' /\ HeldIsRunning' /\ HeldOnce' /\ PendingIsClaimable'
      /\ GeneratesOverUnseen' /\ DraftsRestOnEvidence' /\ JobsRestOnEvidence'
      /\ VerdictsAreReadable' /\ OneCandidatePerCluster' /\ CandidatesRestOnEvidence'
  BY <1>0 DEF IndInv, OneOpenJobPerCluster, HeldIsRunning, HeldOnce,
     PendingIsClaimable, Claimable, GeneratesOverUnseen, DraftsRestOnEvidence,
     JobsRestOnEvidence, VerdictsAreReadable, OneCandidatePerCluster,
     CandidatesRestOnEvidence, IsEligible
<1> QED BY <1>2, <1>4 DEF IndInv

\* The partial unique index keeps one open row per cluster.
LEMMA EnqueueKeeps ==
    ASSUME IndInv, NEW r \in Requests, Enqueue(r) PROVE IndInv'
<1> DEFINE row == [cluster |-> request[r].cluster, status |-> "PENDING",
                   attempt_count |-> 0]
<1>1. /\ request[r].cluster \in Clusters
      /\ request' = [request EXCEPT ![r] = Idle]
      /\ UNCHANGED <<clusters, evidence, candidates, worker, faults>>
  BY DEF IndInv, TypeOK, Enqueue
<1>2. row \in JobRow
  BY <1>1, ConstantsAssumption DEF JobRow
<1>3. VerdictsAreReadable' /\ OneCandidatePerCluster' /\ CandidatesRestOnEvidence'
  BY <1>1 DEF IndInv, VerdictsAreReadable, OneCandidatePerCluster,
     CandidatesRestOnEvidence, IsEligible
<1>4. CASE /\ ~OpenJobFor(request[r].cluster)
           /\ jobs' = Append(jobs, row)
  <2>1. /\ jobs' \in Seq(JobRow)
        /\ DOMAIN jobs' = DOMAIN jobs \union {Len(jobs) + 1}
        /\ jobs'[Len(jobs) + 1] = row
        /\ \A k \in DOMAIN jobs : jobs'[k] = jobs[k]
        /\ Len(jobs) + 1 \notin DOMAIN jobs
    BY <1>2, <1>4, AddRow DEF IndInv, TypeOK
  <2>2. TypeOK'
    BY <1>1, <2>1, SMTT(60) DEF IndInv, TypeOK, Idle
  <2>3. OneOpenJobPerCluster'
    BY <1>1, <1>4, <2>1 DEF IndInv, OneOpenJobPerCluster, OpenJobFor
  <2>4. HeldIsRunning' /\ HeldOnce'
    BY <1>1, <2>1, SMTT(60) DEF IndInv, TypeOK, HeldIsRunning, HeldOnce
  <2>5. PendingIsClaimable'
    BY <1>1, <2>1, ConstantsAssumption DEF IndInv, PendingIsClaimable, Claimable
  <2>6. GeneratesOverUnseen' /\ DraftsRestOnEvidence'
    BY <1>1, <2>1, SMTT(60) DEF IndInv, TypeOK, GeneratesOverUnseen, DraftsRestOnEvidence
  <2>7. RequestsRestOnEvidence' /\ JobsRestOnEvidence'
    BY <1>1, <2>1, SMTT(60) DEF IndInv, TypeOK, Enqueue, RequestsRestOnEvidence,
       JobsRestOnEvidence, IsEligible, Idle
  <2> QED BY <1>3, <2>2, <2>3, <2>4, <2>5, <2>6, <2>7 DEF IndInv
<1>5. CASE jobs' = jobs
  <2>1. TypeOK'
    BY <1>1, <1>5, SMTT(60) DEF IndInv, TypeOK, Idle
  <2>2. RequestsRestOnEvidence' /\ JobsRestOnEvidence'
    BY <1>1, <1>5, SMTT(60) DEF IndInv, TypeOK, RequestsRestOnEvidence,
       JobsRestOnEvidence, IsEligible, Idle
  <2>3. /\ OneOpenJobPerCluster' /\ HeldIsRunning' /\ HeldOnce'
        /\ PendingIsClaimable' /\ GeneratesOverUnseen' /\ DraftsRestOnEvidence'
    BY <1>1, <1>5 DEF IndInv, OneOpenJobPerCluster, HeldIsRunning, HeldOnce,
       PendingIsClaimable, Claimable, GeneratesOverUnseen, DraftsRestOnEvidence
  <2> QED BY <1>3, <2>1, <2>2, <2>3 DEF IndInv
<1> QED BY <1>4, <1>5 DEF Enqueue

------------------------------------------------------------------------------
(* The steps of a worker. *)

\* A worker that lets go of its row, or has none, keeps the invariant.
LEMMA LetGoKeeps ==
    ASSUME IndInv, NEW w \in Workers, NEW at \in {"stopped", "waiting", "draining"},
           Goes(w, at, NoJob, NoDraft),
           faults' \in 0 .. MaxFaults,
           UNCHANGED <<clusters, evidence, candidates, jobs, request>>
    PROVE  IndInv'
<1>1. TypeOK'
  BY SMTT(60) DEF IndInv, TypeOK, Goes
<1>2. HeldIsRunning' /\ HeldOnce'
  BY DEF IndInv, HeldIsRunning, HeldOnce, Goes
<1>3. GeneratesOverUnseen' /\ DraftsRestOnEvidence'
  BY DEF IndInv, GeneratesOverUnseen, DraftsRestOnEvidence, Goes
<1>4. /\ OneOpenJobPerCluster' /\ PendingIsClaimable'
      /\ RequestsRestOnEvidence' /\ JobsRestOnEvidence'
      /\ VerdictsAreReadable' /\ OneCandidatePerCluster' /\ CandidatesRestOnEvidence'
  BY DEF IndInv, OneOpenJobPerCluster, PendingIsClaimable, Claimable,
     RequestsRestOnEvidence, JobsRestOnEvidence, VerdictsAreReadable,
     OneCandidatePerCluster, CandidatesRestOnEvidence, IsEligible
<1> QED BY <1>1, <1>2, <1>3, <1>4 DEF IndInv

\* The steps by which a worker starts a tick, ends one or loses its row.
LEMMA LoopKeeps ==
    ASSUME IndInv, NEW w \in Workers,
           \/ StartWorker(w) \/ PollElapses(w) \/ EndTick(w)
           \/ TickFails(w) \/ StopWorker(w)
    PROVE  IndInv'
<1>1. /\ Stopped  = [at |-> "stopped", job |-> NoJob, draft |-> NoDraft, claims |-> <<>>]
      /\ Waiting  = [at |-> "waiting", job |-> NoJob, draft |-> NoDraft, claims |-> <<>>]
      /\ Draining = [at |-> "draining", job |-> NoJob, draft |-> NoDraft, claims |-> <<>>]
  BY DEF Stopped, Waiting, Draining
<1>2. UNCHANGED <<clusters, evidence, candidates, jobs, request>>
  BY DEF StartWorker, PollElapses, EndTick, TickFails, StopWorker
<1>3. faults' \in 0 .. MaxFaults
  BY ConstantsAssumption DEF IndInv, TypeOK, StartWorker, PollElapses, EndTick,
     TickFails, StopWorker
<1>4. PICK at \in {"stopped", "waiting", "draining"} :
        worker' = [worker EXCEPT ![w] =
                     [at |-> at, job |-> NoJob, draft |-> NoDraft, claims |-> <<>>]]
  BY <1>1 DEF StartWorker, PollElapses, EndTick, TickFails, StopWorker
<1>5. Goes(w, at, NoJob, NoDraft)
  BY <1>4 DEF IndInv, TypeOK, Goes, WorkerLocals
<1> QED BY <1>2, <1>3, <1>5, LetGoKeeps

\* A worker that goes on with the row it holds keeps the invariant if what its
\* place says of the row's cluster is so.
LEMMA GoOnKeeps ==
    ASSUME IndInv, NEW w \in Workers, NEW at \in BusyAt,
           NEW draft \in ProposedTypes \union {NoDraft},
           worker[w].at \in BusyAt,
           Goes(w, at, worker[w].job, draft),
           UNCHANGED <<clusters, evidence, candidates, jobs, request, faults>>,
           at = "storing" <=> draft # NoDraft,
           at \in {"generating", "storing"} =>
             \A t \in ReadableTypes : candidates[ClusterOf(w)][t] = Absent,
           draft = "QUERY_EXAMPLE" => ClusterOf(w) \in evidence
    PROVE  IndInv'
<1>1. TypeOK'
  BY SMTT(60) DEF IndInv, TypeOK, Goes
<1>2. HeldIsRunning' /\ HeldOnce'
  BY DEF IndInv, HeldIsRunning, HeldOnce, Goes
<1>3. GeneratesOverUnseen' /\ DraftsRestOnEvidence'
  BY SMTT(60) DEF IndInv, GeneratesOverUnseen, DraftsRestOnEvidence, Goes
<1>4. /\ OneOpenJobPerCluster' /\ PendingIsClaimable'
      /\ RequestsRestOnEvidence' /\ JobsRestOnEvidence'
      /\ VerdictsAreReadable' /\ OneCandidatePerCluster' /\ CandidatesRestOnEvidence'
  BY DEF IndInv, OneOpenJobPerCluster, PendingIsClaimable, Claimable,
     RequestsRestOnEvidence, JobsRestOnEvidence, VerdictsAreReadable,
     OneCandidatePerCluster, CandidatesRestOnEvidence, IsEligible
<1> QED BY <1>1, <1>2, <1>3, <1>4, SMTT(60) DEF IndInv

\* What a scan that finds nothing says.
LEMMA NothingRepresented ==
    ASSUME NEW c \in Clusters, ~AlreadyRepresented(c)
    PROVE  \A t \in ReadableTypes : candidates[c][t] = Absent
  BY DEF AlreadyRepresented, StoredCandidate, ReadableTypes, CandidateTypes

\* Between claiming a row and finishing it a worker only looks and asks.
LEMMA ProcessKeeps ==
    ASSUME IndInv, NEW w \in Workers,
           \/ CheckExisting(w)
           \/ \E t \in ProposedTypes : ModelProposes(w, t)
           \/ ModelDeclines(w) \/ ModelUnavailable(w) \/ GenerationFails(w)
    PROVE  IndInv'
<1>1. /\ UNCHANGED <<clusters, evidence, candidates, jobs, request, faults>>
      /\ worker[w].at \in {"claimed", "generating", "storing"}
  BY DEF CheckExisting, ModelProposes, ModelDeclines, ModelUnavailable,
     GenerationFails, Moves
<1>2. ClusterOf(w) \in Clusters
  BY <1>1, RowType DEF IndInv, TypeOK
<1>3. ASSUME NEW at \in BusyAt, Moves(w, at), worker[w].at # "storing"
      PROVE  Goes(w, at, worker[w].job, NoDraft)
  BY <1>3, ZenonT(90) DEF IndInv, TypeOK, Moves, Goes, WorkerLocals
<1>4. ASSUME NEW at \in {"complete", "release", "fail"},
             Goes(w, at, worker[w].job, NoDraft)
      PROVE  IndInv'
  BY <1>1, <1>4, GoOnKeeps DEF NoDraft
<1>5. CASE CheckExisting(w)
  <2>1. CASE AlreadyRepresented(ClusterOf(w))
    BY <1>3, <1>4, <1>5, <2>1 DEF CheckExisting
  <2>2. CASE ~AlreadyRepresented(ClusterOf(w))
    <3>1. Goes(w, "generating", worker[w].job, NoDraft)
      BY <1>3, <1>5, <2>2 DEF CheckExisting
    <3>2. \A t \in ReadableTypes : candidates[ClusterOf(w)][t] = Absent
      BY <1>2, <2>2, NothingRepresented
    <3> QED BY <1>1, <3>1, <3>2, GoOnKeeps DEF NoDraft
  <2> QED BY <2>1, <2>2
<1>6. CASE ModelDeclines(w) \/ ModelUnavailable(w)
  BY <1>3, <1>4, <1>6 DEF ModelDeclines, ModelUnavailable
<1>7. CASE GenerationFails(w)
  <2>1. Goes(w, "fail", worker[w].job, NoDraft)
    BY <1>7, ZenonT(90) DEF IndInv, TypeOK, GenerationFails, Goes, WorkerLocals
  <2> QED BY <1>4, <2>1
<1>8. ASSUME NEW t \in ProposedTypes, ModelProposes(w, t)
      PROVE  IndInv'
  <2>1. /\ worker[w].at = "generating"
        /\ \A u \in ReadableTypes : candidates[ClusterOf(w)][u] = Absent
    BY <1>8 DEF IndInv, GeneratesOverUnseen, ModelProposes
  <2>2. CASE t = "QUERY_EXAMPLE" /\ ClusterOf(w) \notin evidence
    <3>1. Goes(w, "complete", worker[w].job, NoDraft)
      BY <1>8, <2>1, <2>2, ZenonT(90) DEF IndInv, TypeOK, ModelProposes, Goes, WorkerLocals
    <3> QED BY <1>4, <3>1, SMTT(60)
  <2>3. CASE ~(t = "QUERY_EXAMPLE" /\ ClusterOf(w) \notin evidence)
    <3>1. t \in CandidateTypes /\ t # NoDraft
      BY ConstantsAssumption DEF CandidateTypes, NoDraft
    <3>2. Goes(w, "storing", worker[w].job, t)
      BY <1>8, <2>3, <3>1, ZenonT(90) DEF IndInv, TypeOK, ModelProposes, Goes, WorkerLocals
    <3> QED BY <1>1, <2>1, <2>3, <3>1, <3>2, GoOnKeeps
  <2> QED BY <2>2, <2>3
<1> QED BY <1>5, <1>6, <1>7, <1>8

\* claim_next turns a PENDING row, which nobody holds, into a RUNNING one.
LEMMA ClaimKeeps ==
    ASSUME IndInv, NEW w \in Workers, ClaimNext(w) PROVE IndInv'
<1>1. PICK i \in Claimable :
        /\ jobs' = [jobs EXCEPT ![i].status = "RUNNING", ![i].attempt_count = @ + 1]
        /\ worker' = [worker EXCEPT ![w].at = "claimed", ![w].job = i,
                                    ![w].claims = Append(@, i)]
  BY DEF ClaimNext
<1> DEFINE row == [jobs[i] EXCEPT !.status = "RUNNING", !.attempt_count = @ + 1]
<1>2. /\ i \in DOMAIN jobs
      /\ i \in Nat
      /\ jobs[i].status = "PENDING"
      /\ jobs[i].attempt_count < MaxGenerationAttempts
  BY DEF Claimable, IndInv, TypeOK
<1>3. /\ row \in JobRow
      /\ row.cluster = jobs[i].cluster
      /\ row.status = "RUNNING"
  <2>1. /\ jobs[i] \in JobRow
        /\ jobs[i].attempt_count + 1 \in 0 .. MaxGenerationAttempts
    BY <1>2, RowType, ConstantsAssumption DEF IndInv
  <2> QED BY <2>1 DEF JobRow
<1>4. jobs' = [jobs EXCEPT ![i] = row]
  BY <1>1
<1> HIDE DEF row
<1>5. /\ jobs' \in Seq(JobRow)
      /\ DOMAIN jobs' = DOMAIN jobs
      /\ \A k \in DOMAIN jobs : jobs'[k] = IF k = i THEN row ELSE jobs[k]
  BY <1>2, <1>3, <1>4, WriteRow DEF IndInv, TypeOK
<1>6. Goes(w, "claimed", i, NoDraft)
  <2>1. /\ worker[w].at = "draining" /\ worker[w].draft = NoDraft
        /\ worker[w] \in WorkerLocals
        /\ Append(worker[w].claims, i) \in Seq(Nat)
    BY <1>2 DEF IndInv, TypeOK, ClaimNext, WorkerLocals
  <2> DEFINE locals == [worker[w] EXCEPT !.at = "claimed", !.job = i,
                                         !.claims = Append(@, i)]
  <2>2. /\ locals \in WorkerLocals
        /\ locals.at = "claimed" /\ locals.job = i /\ locals.draft = NoDraft
    BY <1>2, <2>1 DEF WorkerLocals
  <2>3. worker' = [worker EXCEPT ![w] = locals]
    BY <1>1
  <2> HIDE DEF locals
  <2> QED BY <2>2, <2>3 DEF IndInv, TypeOK, Goes
<1>7. \A v \in Workers : worker[v].at \in BusyAt =>
         /\ worker[v].job \in DOMAIN jobs
         /\ worker[v].job # i
  BY <1>2 DEF IndInv, TypeOK, HeldIsRunning
<1>8. TypeOK'
  BY <1>2, <1>5, <1>6 DEF IndInv, TypeOK, ClaimNext, Goes
<1>9. OneOpenJobPerCluster'
  BY <1>2, <1>3, <1>5 DEF IndInv, OneOpenJobPerCluster
<1>10. HeldIsRunning' /\ HeldOnce'
  BY <1>2, <1>3, <1>5, <1>6, <1>7, SMTT(60) DEF IndInv, HeldIsRunning, HeldOnce, Goes
<1>11. PendingIsClaimable'
  BY <1>3, <1>5 DEF IndInv, PendingIsClaimable, Claimable
<1>12. GeneratesOverUnseen' /\ DraftsRestOnEvidence'
  <2>1. UNCHANGED <<candidates, evidence>>
    BY DEF ClaimNext
  <2>2. GeneratesOverUnseen'
    BY <1>5, <1>6, <1>7, <2>1, SMTT(60) DEF IndInv, GeneratesOverUnseen, Goes
  <2>3. DraftsRestOnEvidence'
    BY <1>5, <1>6, <1>7, <2>1, SMTT(60) DEF IndInv, DraftsRestOnEvidence, Goes
  <2> QED BY <2>2, <2>3
<1>13. JobsRestOnEvidence'
  BY <1>2, <1>3, <1>5 DEF IndInv, JobsRestOnEvidence, IsEligible, ClaimNext
<1>14. /\ RequestsRestOnEvidence' /\ VerdictsAreReadable'
       /\ OneCandidatePerCluster' /\ CandidatesRestOnEvidence'
  BY DEF IndInv, ClaimNext, RequestsRestOnEvidence, VerdictsAreReadable,
     OneCandidatePerCluster, CandidatesRestOnEvidence, IsEligible
<1> QED BY <1>8, <1>9, <1>10, <1>11, <1>12, <1>13, <1>14 DEF IndInv

\* A finished row is closed, or PENDING with an attempt left.
LEMMA FinishKeeps ==
    ASSUME IndInv, NEW w \in Workers, FinishJob(w) PROVE IndInv'
<1> DEFINE i == worker[w].job
           row == CASE worker[w].at = "complete" -> [jobs[i] EXCEPT !.status = "SUCCEEDED"]
                    [] worker[w].at = "fail"     -> [jobs[i] EXCEPT !.status = "FAILED"]
                    [] worker[w].at = "release"  -> Released(jobs[i])
<1>1. /\ i \in DOMAIN jobs
      /\ worker[w].at \in {"complete", "release", "fail"}
      /\ jobs[i].status = "RUNNING"
      /\ worker[w].draft = NoDraft
  BY DEF FinishJob, IndInv, TypeOK, HeldIsRunning
<1>2. /\ row \in JobRow
      /\ row.cluster = jobs[i].cluster
      /\ row.status = "PENDING" => row.attempt_count < MaxGenerationAttempts
  <2>1. /\ jobs[i] \in JobRow
        /\ jobs[i].attempt_count \in 0 .. MaxGenerationAttempts
    BY <1>1, RowType DEF IndInv
  <2> QED BY <1>1, <2>1, ConstantsAssumption DEF JobRow, Released
<1>3. jobs' = [jobs EXCEPT ![i] = row]
  BY DEF FinishJob
<1> HIDE DEF row
<1>4. /\ jobs' \in Seq(JobRow)
      /\ DOMAIN jobs' = DOMAIN jobs
      /\ \A k \in DOMAIN jobs : jobs'[k] = IF k = i THEN row ELSE jobs[k]
  BY <1>1, <1>2, <1>3, WriteRow DEF IndInv, TypeOK
<1>5. Goes(w, "draining", NoJob, NoDraft)
  BY <1>1, ZenonT(90) DEF IndInv, TypeOK, FinishJob, Goes, WorkerLocals
<1>6. \A v \in Workers : v # w /\ worker[v].at \in BusyAt =>
         /\ worker[v].job \in DOMAIN jobs
         /\ worker[v].job # i
  BY <1>1 DEF IndInv, TypeOK, HeldOnce
<1>7. TypeOK'
  BY <1>4, <1>5 DEF IndInv, TypeOK, FinishJob, Goes
<1>8. OneOpenJobPerCluster'
  BY <1>1, <1>2, <1>4 DEF IndInv, OneOpenJobPerCluster
<1>9. HeldIsRunning' /\ HeldOnce'
  BY <1>4, <1>5, <1>6, SMTT(60) DEF IndInv, HeldIsRunning, HeldOnce, Goes
<1>10. PendingIsClaimable'
  BY <1>2, <1>4 DEF IndInv, PendingIsClaimable, Claimable
<1>11. GeneratesOverUnseen' /\ DraftsRestOnEvidence'
  <2>1. UNCHANGED <<candidates, evidence>>
    BY DEF FinishJob
  <2>2. GeneratesOverUnseen'
    BY <1>4, <1>5, <1>6, <2>1, SMTT(60) DEF IndInv, GeneratesOverUnseen, Goes
  <2>3. DraftsRestOnEvidence'
    BY <1>4, <1>5, <1>6, <2>1, SMTT(60) DEF IndInv, DraftsRestOnEvidence, Goes
  <2> QED BY <2>2, <2>3
<1>12. JobsRestOnEvidence'
  BY <1>1, <1>2, <1>4 DEF IndInv, JobsRestOnEvidence, IsEligible, FinishJob
<1>13. /\ RequestsRestOnEvidence' /\ VerdictsAreReadable'
       /\ OneCandidatePerCluster' /\ CandidatesRestOnEvidence'
  BY DEF IndInv, FinishJob, RequestsRestOnEvidence, VerdictsAreReadable,
     OneCandidatePerCluster, CandidatesRestOnEvidence, IsEligible
<1> QED BY <1>7, <1>8, <1>9, <1>10, <1>11, <1>12, <1>13 DEF IndInv

\* The upsert overwrites no row a reviewer can see.
LEMMA StoreKeeps ==
    ASSUME IndInv, NEW w \in Workers, StoreCandidate(w)
    PROVE  IndInv'
<1> DEFINE c == ClusterOf(w)
           t == worker[w].draft
<1>1. /\ worker[w].at = "storing"
      /\ worker[w].job \in DOMAIN jobs
      /\ UNCHANGED <<clusters, evidence, jobs, request, faults>>
  BY DEF StoreCandidate, IndInv, TypeOK
<1>2. /\ c \in Clusters
      /\ IsEligible(clusters[c])
  BY <1>1, RowType DEF IndInv, JobsRestOnEvidence
<1>3. /\ t \in CandidateTypes
      /\ t = "QUERY_EXAMPLE" => c \in evidence
      /\ \A u \in ReadableTypes : candidates[c][u] = Absent
  BY <1>1, ConstantsAssumption DEF IndInv, DraftsRestOnEvidence, GeneratesOverUnseen
<1>4. Goes(w, "complete", worker[w].job, NoDraft)
  BY <1>1, SMTT(60) DEF IndInv, TypeOK, StoreCandidate, Goes, WorkerLocals
<1>5. /\ candidates' \in [Clusters -> [CandidateTypes -> CandidateStatus \union {Absent}]]
      /\ \A d \in Clusters : \A u \in CandidateTypes :
           candidates'[d][u] = IF d = c /\ u = t THEN "PROPOSED" ELSE candidates[d][u]
  <2>1. candidates' = [candidates EXCEPT ![c][t] = "PROPOSED"]
    BY DEF StoreCandidate
  <2>2. candidates \in [Clusters -> [CandidateTypes -> CandidateStatus \union {Absent}]]
    BY DEF IndInv, TypeOK
  <2> HIDE DEF c, t
  <2> QED BY <1>2, <1>3, <2>1, <2>2 DEF CandidateStatus
<1>6. \A v \in Workers : v # w /\ worker[v].at \in BusyAt =>
         /\ ClusterOf(v) \in Clusters
         /\ ClusterOf(v) # c
  BY <1>1, RowType, ZenonT(60) DEF IndInv, TypeOK, HeldIsRunning, HeldOnce, OneOpenJobPerCluster
<1>7. TypeOK'
  BY <1>1, <1>4, <1>5 DEF IndInv, TypeOK, Goes
<1>8. HeldIsRunning' /\ HeldOnce'
  BY <1>1, <1>4 DEF IndInv, HeldIsRunning, HeldOnce, Goes
<1>9. GeneratesOverUnseen' /\ DraftsRestOnEvidence'
  <2> SUFFICES ASSUME NEW v \in Workers, worker'[v].at \in {"generating", "storing"}
               PROVE  /\ v # w
                      /\ worker'[v] = worker[v]
                      /\ ClusterOf(v) \in Clusters
                      /\ ClusterOf(v) # c
    BY <1>1, <1>5, TypesAndVerdicts DEF IndInv, GeneratesOverUnseen, DraftsRestOnEvidence
  <2> QED BY <1>4, <1>6, SMTT(60) DEF Goes
<1>10. VerdictsAreReadable' /\ OneCandidatePerCluster' /\ CandidatesRestOnEvidence'
  BY <1>1, <1>2, <1>3, <1>5, TypesAndVerdicts DEF IndInv, VerdictsAreReadable,
     OneCandidatePerCluster, CandidatesRestOnEvidence, IsEligible
<1>11. /\ OneOpenJobPerCluster' /\ PendingIsClaimable'
       /\ RequestsRestOnEvidence' /\ JobsRestOnEvidence'
  BY <1>1 DEF IndInv, OneOpenJobPerCluster, PendingIsClaimable, Claimable,
     RequestsRestOnEvidence, JobsRestOnEvidence, IsEligible
<1> QED BY <1>7, <1>8, <1>9, <1>10, <1>11 DEF IndInv

------------------------------------------------------------------------------
(* The step of a reviewer, and the theorems. *)

\* A verdict is given on a candidate that exists, so no candidate appears.
LEMMA ReviewKeeps ==
    ASSUME IndInv, NEW c \in Clusters, NEW t \in CandidateTypes,
           NEW verdict \in Verdicts, Review(c, t, verdict)
    PROVE  IndInv'
<1>1. /\ candidates' \in [Clusters -> [CandidateTypes -> CandidateStatus \union {Absent}]]
      /\ \A d \in Clusters : \A u \in CandidateTypes :
           candidates'[d][u] = IF d = c /\ u = t THEN verdict ELSE candidates[d][u]
  BY DEF IndInv, TypeOK, Review, CandidateStatus, Verdicts
<1>2. /\ UNCHANGED <<clusters, evidence, jobs, request, worker, faults>>
      /\ t \in ReadableTypes
      /\ candidates[c][t] # Absent
      /\ verdict # Absent
  BY DEF Review, StoredCandidate, Verdicts, Absent
<1>3. \A d \in Clusters : \A u \in CandidateTypes :
        candidates'[d][u] = Absent <=> candidates[d][u] = Absent
  BY <1>1, <1>2
<1>4. TypeOK'
  BY <1>1, <1>2 DEF IndInv, TypeOK
<1>5. VerdictsAreReadable' /\ OneCandidatePerCluster' /\ CandidatesRestOnEvidence'
  BY <1>1, <1>2, <1>3, TypesAndVerdicts DEF IndInv, VerdictsAreReadable, OneCandidatePerCluster,
     CandidatesRestOnEvidence, IsEligible
<1>6. GeneratesOverUnseen'
  <2>1. \A w \in Workers : worker[w].at \in BusyAt => ClusterOf(w) \in Clusters
    BY RowType DEF IndInv, TypeOK
  <2> QED BY <1>2, <1>3, <2>1, TypesAndVerdicts DEF IndInv, GeneratesOverUnseen
<1>7. /\ OneOpenJobPerCluster' /\ HeldIsRunning' /\ HeldOnce' /\ PendingIsClaimable'
      /\ DraftsRestOnEvidence' /\ RequestsRestOnEvidence' /\ JobsRestOnEvidence'
  BY <1>2, SMTT(60) DEF IndInv, OneOpenJobPerCluster, HeldIsRunning, HeldOnce,
     PendingIsClaimable, Claimable, DraftsRestOnEvidence,
     RequestsRestOnEvidence, JobsRestOnEvidence, IsEligible
<1> QED BY <1>4, <1>5, <1>6, <1>7 DEF IndInv

\* Stuttering keeps everything.
LEMMA StutterKeeps ==
    ASSUME IndInv, UNCHANGED vars PROVE IndInv'
  BY DEF IndInv, vars, TypeOK, OneOpenJobPerCluster, HeldIsRunning, HeldOnce,
     PendingIsClaimable, Claimable, GeneratesOverUnseen, DraftsRestOnEvidence,
     RequestsRestOnEvidence, JobsRestOnEvidence, VerdictsAreReadable,
     OneCandidatePerCluster, CandidatesRestOnEvidence, IsEligible

\* IndInv is an invariant of the learning loop, whatever the number of
\* clusters, requests, workers, attempts and faults, and whatever types the model
\* proposes.
THEOREM Invariance ==
    Spec => []IndInv
<1>1. Init => IndInv
  BY InitEstablishes
<1>2. IndInv /\ [Next]_vars => IndInv'
  <2> SUFFICES ASSUME IndInv, [Next]_vars PROVE IndInv'
    OBVIOUS
  <2>1. ASSUME NEW r \in Requests, RequestStep(r) PROVE IndInv'
    BY <2>1, RecordQuestionKeeps, RecordEvidenceKeeps, ConsiderKeeps, EnqueueKeeps
       DEF RequestStep
  <2>2. ASSUME NEW w \in Workers, WorkerStep(w) \/ TickFails(w) \/ StopWorker(w)
        PROVE  IndInv'
    BY <2>2, LoopKeeps, ProcessKeeps, ClaimKeeps, StoreKeeps, FinishKeeps
       DEF WorkerStep
  <2>3. ASSUME NEW c \in Clusters, NEW t \in CandidateTypes, NEW verdict \in Verdicts,
               Review(c, t, verdict)
        PROVE  IndInv'
    BY <2>3, ReviewKeeps
  <2>4. CASE UNCHANGED vars
    BY <2>4, StutterKeeps
  <2> QED BY <2>1, <2>2, <2>3, <2>4 DEF Next
<1> QED BY <1>1, <1>2, PTL DEF Spec

\* The stores and the workers keep the shape TypeOK gives them.
THEOREM TypeCorrect ==
    Spec => []TypeOK
<1>1. IndInv => TypeOK
  BY DEF IndInv
<1> QED BY <1>1, Invariance, PTL

\* Any number of workers: no two are ever generating for the same cluster.
THEOREM GenerationIsExclusive ==
    Spec => []ExclusiveGeneration
<1>1. IndInv => ExclusiveGeneration
  BY ZenonT(90) DEF IndInv, TypeOK, ExclusiveGeneration, HeldIsRunning, HeldOnce,
     OneOpenJobPerCluster
<1> QED BY <1>1, Invariance, PTL

\* A PENDING row always has an attempt left, for any attempt limit.
THEOREM PendingRowsAreClaimable ==
    Spec => []PendingIsClaimable
<1>1. IndInv => PendingIsClaimable
  BY DEF IndInv
<1> QED BY <1>1, Invariance, PTL

\* A cluster never has two candidates that a reviewer can see.
THEOREM OneCandidate ==
    Spec => []OneCandidatePerCluster
<1>1. IndInv => OneCandidatePerCluster
  BY DEF IndInv
<1> QED BY <1>1, Invariance, PTL

\* No candidate without the questions, and no example without the statement,
\* that justify it, for any thresholds.
THEOREM CandidatesAreJustified ==
    Spec => []CandidatesRestOnEvidence
<1>1. IndInv => CandidatesRestOnEvidence
  BY DEF IndInv
<1> QED BY <1>1, Invariance, PTL

\* What a step of the loop does to the candidates: nothing, or the first
\* proposal of a cluster, or a verdict on a candidate that exists.
LEMMA CandidateSteps ==
    ASSUME [Next]_vars
    PROVE  \/ UNCHANGED candidates
           \/ \E w \in Workers : StoreCandidate(w)
           \/ \E c \in Clusters, t \in CandidateTypes, verdict \in Verdicts :
                Review(c, t, verdict)
  BY ZenonT(60) DEF Next, vars, RequestStep, WorkerStep, RecordQuestion, RecordEvidence,
     Consider, Enqueue, AbandonRequest, StartWorker, PollElapses, ClaimNext,
     EndTick, CheckExisting, ModelProposes, ModelDeclines, ModelUnavailable,
     GenerationFails, FinishJob, TickFails, StopWorker, Moves

\* A verdict is never taken back by generation.
THEOREM VerdictsStand ==
    Spec => ReviewOutlivesGeneration
<1> DEFINE Stands == \A c \in Clusters : \A t \in CandidateTypes :
             candidates[c][t] \in Verdicts => candidates'[c][t] \in Verdicts
<1>1. IndInv /\ [Next]_vars => [Stands]_vars
  <2> SUFFICES ASSUME IndInv, [Next]_vars,
                      NEW c \in Clusters, NEW t \in CandidateTypes,
                      candidates[c][t] \in Verdicts
               PROVE  candidates'[c][t] \in Verdicts
    OBVIOUS
  <2>1. CASE UNCHANGED candidates
    BY <2>1
  <2>2. ASSUME NEW w \in Workers, StoreCandidate(w)
        PROVE  candidates'[c][t] \in Verdicts
    <3>1. /\ worker[w].at = "storing"
          /\ \A u \in ReadableTypes : candidates[ClusterOf(w)][u] = Absent
          /\ candidates' = [candidates EXCEPT ![ClusterOf(w)][worker[w].draft] = "PROPOSED"]
      BY <2>2 DEF IndInv, GeneratesOverUnseen, StoreCandidate
    <3>2. t \in ReadableTypes
      BY SMTT(60) DEF IndInv, VerdictsAreReadable
    <3>3. ClusterOf(w) # c
      BY <3>1, <3>2, TypesAndVerdicts
    <3> QED BY <3>1, <3>3 DEF IndInv, TypeOK
  <2>3. ASSUME NEW d \in Clusters, NEW u \in CandidateTypes, NEW verdict \in Verdicts,
               Review(d, u, verdict)
        PROVE  candidates'[c][t] \in Verdicts
    BY <2>3 DEF IndInv, TypeOK, Review
  <2> QED BY <2>1, <2>2, <2>3, CandidateSteps
<1> QED BY <1>1, Invariance, PTL DEF Spec, ReviewOutlivesGeneration

\* The learning loop implements ProposalLifecycle: hide the jobs, the workers
\* and the requests, and what is left is a cluster that produces one candidate.
THEOREM Refinement ==
    Spec => ImplementsLifecycle
<1>1. Init => Lifecycle!Init
  BY TypesAndVerdicts DEF Init, Lifecycle!Init, Lifecycle!CandidateTypes, ReadableTypes,
     Lifecycle!Absent, Absent, Shown
<1>2. IndInv /\ [Next]_vars => [Lifecycle!Next]_(Lifecycle!vars)
  <2> SUFFICES ASSUME IndInv, [Next]_vars
               PROVE  Lifecycle!Next \/ UNCHANGED Lifecycle!vars
    OBVIOUS
  <2> USE DEF Lifecycle!Next, Lifecycle!vars
  <2>1. ASSUME NEW r \in Requests, NEW c \in Clusters, NEW trusted \in BOOLEAN,
               RecordQuestion(r, c, trusted)
        PROVE  Lifecycle!Ask(c)
    <3> DEFINE n == IF trusted THEN 1 ELSE 0
    <3>1. /\ clusters[c].occurrence_count < MaxQuestions
          /\ UNCHANGED <<evidence, Shown>>
          /\ n \in {0, 1}
          /\ clusters' = [clusters EXCEPT ![c] =
                            [occurrence_count |-> clusters[c].occurrence_count + 1,
                             successful_count |-> clusters[c].successful_count + n]]
      BY <2>1 DEF RecordQuestion, Shown
    <3> HIDE DEF n
    <3>2. [clusters EXCEPT ![c].occurrence_count = @ + 1, ![c].successful_count = @ + n]
            = [clusters EXCEPT ![c] =
                 [occurrence_count |-> clusters[c].occurrence_count + 1,
                  successful_count |-> clusters[c].successful_count + n]]
      <4> DEFINE row == [clusters[c] EXCEPT !.occurrence_count = @ + 1,
                                            !.successful_count = @ + n]
      <4>1. clusters[c] \in [occurrence_count : Nat, successful_count : Nat]
        BY DEF IndInv, TypeOK
      <4>2. row \in [occurrence_count : {clusters[c].occurrence_count + 1},
                     successful_count : {clusters[c].successful_count + n}]
        BY <4>1
      <4>3. [clusters EXCEPT ![c].occurrence_count = @ + 1, ![c].successful_count = @ + n]
              = [clusters EXCEPT ![c] = row]
        OBVIOUS
      <4> HIDE DEF row
      <4> QED BY <4>2, <4>3
    <3> QED BY <3>1, <3>2 DEF Lifecycle!Ask
  <2>2. ASSUME NEW r \in Requests, RecordEvidence(r)
        PROVE  Lifecycle!Next \/ UNCHANGED Lifecycle!vars
    <3>1. /\ request[r].cluster \in Clusters
          /\ clusters[request[r].cluster].successful_count > 0
      BY <2>2 DEF IndInv, TypeOK, RequestsRestOnEvidence, RecordEvidence
    <3> QED BY <2>2, <3>1 DEF RecordEvidence, Lifecycle!KeepEvidence, Shown
  <2>3. ASSUME NEW w \in Workers, StoreCandidate(w)
        PROVE  Lifecycle!Next \/ UNCHANGED Lifecycle!vars
    <3>1. /\ worker[w].at = "storing"
          /\ worker[w].job \in DOMAIN jobs
          /\ ClusterOf(w) \in Clusters
      BY <2>3, RowType DEF IndInv, TypeOK, StoreCandidate
    <3>2. /\ IsEligible(clusters[ClusterOf(w)])
          /\ \A u \in ReadableTypes : candidates[ClusterOf(w)][u] = Absent
          /\ worker[w].draft \in ProposedTypes
          /\ worker[w].draft = "QUERY_EXAMPLE" => ClusterOf(w) \in evidence
      BY <3>1 DEF IndInv, JobsRestOnEvidence, GeneratesOverUnseen, DraftsRestOnEvidence
    <3> DEFINE c == ClusterOf(w)
               t == worker[w].draft
    <3>3. /\ candidates' = [candidates EXCEPT ![c][t] = "PROPOSED"]
          /\ candidates \in [Clusters -> [CandidateTypes -> CandidateStatus \union {Absent}]]
          /\ UNCHANGED <<clusters, evidence>>
      BY <2>3 DEF StoreCandidate, IndInv, TypeOK
    <3>4. c \in Clusters /\ t \in CandidateTypes
      BY <3>1, <3>2, ConstantsAssumption
    <3> HIDE DEF c, t
    <3>5. CASE t \in ReadableTypes
      <4>1. Shown' = [Shown EXCEPT ![c][t] = "PROPOSED"]
        BY <3>3, <3>4, <3>5, TypesAndVerdicts DEF Shown
      <4>2. \A u \in ReadableTypes : Shown[c][u] = Absent
        BY <3>2, <3>4 DEF Shown, c
      <4>3. Lifecycle!Propose(c, t)
        <5>1. Lifecycle!Eligible(c)
          BY <3>2 DEF IsEligible, Lifecycle!Eligible, c
        <5>2. t = "QUERY_EXAMPLE" => c \in evidence
          BY <3>2 DEF c, t
        <5> QED BY <3>3, <4>1, <4>2, <5>1, <5>2 DEF Lifecycle!Propose,
                   Lifecycle!CandidateTypes, ReadableTypes, Lifecycle!Absent, Absent
      <4>4. t \in ProposedTypes \intersect ReadableTypes
        BY <3>2, <3>5 DEF t
      <4> QED BY <3>4, <4>3, <4>4
    <3>6. CASE t \notin ReadableTypes
      <4>1. Shown' = Shown
        BY <3>3, <3>4, <3>6, TypesAndVerdicts DEF Shown
      <4> QED BY <3>3, <4>1
    <3> QED BY <3>5, <3>6
  <2>4. ASSUME NEW c \in Clusters, NEW t \in CandidateTypes, NEW verdict \in Verdicts,
               Review(c, t, verdict)
        PROVE  t \in ReadableTypes /\ Lifecycle!Review(c, t, verdict)
    <3>1. /\ t \in ReadableTypes
          /\ candidates[c][t] # Absent
          /\ candidates' = [candidates EXCEPT ![c][t] = verdict]
          /\ UNCHANGED <<clusters, evidence>>
      BY <2>4 DEF Review, StoredCandidate
    <3>2. Shown' = [Shown EXCEPT ![c][t] = verdict]
      BY <3>1, TypesAndVerdicts, ZenonT(60) DEF IndInv, TypeOK, Shown
    <3>3. Shown[c][t] # Absent
      BY <3>1 DEF Shown
    <3> QED BY <3>1, <3>2, <3>3 DEF Lifecycle!Review, Lifecycle!Absent, Absent
  <2>5. \/ UNCHANGED <<clusters, evidence, candidates>>
        \/ \E r \in Requests : RecordEvidence(r)
        \/ \E r \in Requests, c \in Clusters, trusted \in BOOLEAN :
             RecordQuestion(r, c, trusted)
        \/ \E w \in Workers : StoreCandidate(w)
        \/ \E c \in Clusters, t \in CandidateTypes, verdict \in Verdicts :
             Review(c, t, verdict)
    BY ZenonT(60) DEF Next, vars, RequestStep, WorkerStep, Consider, Enqueue, AbandonRequest,
       StartWorker, PollElapses, ClaimNext, EndTick, CheckExisting, ModelProposes,
       ModelDeclines, ModelUnavailable, GenerationFails, FinishJob, TickFails,
       StopWorker, Moves
  <2>6. ReadableTypes = Lifecycle!CandidateTypes /\ Verdicts = Lifecycle!Verdicts
    BY DEF ReadableTypes, Lifecycle!CandidateTypes, Verdicts, Lifecycle!Verdicts
  <2>7. UNCHANGED <<clusters, evidence, candidates>> => UNCHANGED Lifecycle!vars
    BY DEF Shown
  <2> QED BY <2>1, <2>2, <2>3, <2>4, <2>5, <2>6, <2>7
<1> QED BY <1>1, <1>2, Invariance, PTL DEF Spec, ImplementsLifecycle, Lifecycle!Spec

------------------------------------------------------------------------------
(* Rows lost to faults. *)

\* The RUNNING rows nobody holds.
Orphans == {i \in DOMAIN jobs : Orphaned(i)}

\* Rows that nobody has written while nobody let one go.
LEMMA NoneLost ==
    ASSUME IndInv, UNCHANGED jobs,
           \A v \in Workers : worker'[v].job = worker[v].job \/ worker[v].job = NoJob
    PROVE  Orphans' \subseteq Orphans
<1>1. \A i \in DOMAIN jobs : i # NoJob
  BY LenProperties DEF IndInv, TypeOK
<1> QED BY <1>1 DEF Orphans, Orphaned, JobIs

\* A request inserts a PENDING row.
LEMMA RequestsLoseNone ==
    ASSUME IndInv, NEW r \in Requests, RequestStep(r)
    PROVE  Orphans' \subseteq Orphans /\ UNCHANGED faults
<1>1. UNCHANGED <<worker, faults>>
  BY DEF RequestStep, RecordQuestion, RecordEvidence, Consider, Enqueue, AbandonRequest
<1>2. CASE UNCHANGED jobs
  BY <1>1, <1>2, NoneLost
<1>3. CASE Enqueue(r) /\ ~ UNCHANGED jobs
  <2> DEFINE row == [cluster |-> request[r].cluster, status |-> "PENDING", attempt_count |-> 0]
  <2>1. jobs' = Append(jobs, row)
    BY <1>3 DEF Enqueue
  <2>2. /\ DOMAIN jobs' = DOMAIN jobs \union {Len(jobs) + 1}
        /\ jobs'[Len(jobs) + 1] = row
        /\ \A k \in DOMAIN jobs : jobs'[k] = jobs[k]
    <3>1. row \in JobRow
      BY <1>3, ConstantsAssumption DEF IndInv, TypeOK, Enqueue, JobRow
    <3>2. jobs \in Seq(JobRow)
      BY DEF IndInv, TypeOK
    <3> HIDE DEF row
    <3> QED BY <2>1, <3>1, <3>2, AddRow
  <2>3. jobs'[Len(jobs) + 1].status = "PENDING"
    BY <2>2
  <2> QED BY <1>1, <2>2, <2>3 DEF Orphans, Orphaned, JobIs
<1> QED
  BY <1>2, <1>3 DEF RequestStep, RecordQuestion, RecordEvidence, Consider, AbandonRequest

\* A worker that goes about its loop holds its row until it has written it.
LEMMA WorkersLoseNone ==
    ASSUME IndInv, NEW w \in Workers, WorkerStep(w)
    PROVE  Orphans' \subseteq Orphans /\ UNCHANGED faults
<1>1. UNCHANGED faults
  BY DEF WorkerStep, StartWorker, PollElapses, ClaimNext, EndTick, CheckExisting,
     ModelProposes, ModelDeclines, ModelUnavailable, GenerationFails, StoreCandidate,
     FinishJob, Moves
<1>2. worker \in [Workers -> WorkerLocals] /\ jobs \in Seq(JobRow)
  BY DEF IndInv, TypeOK
<1>3. ASSUME StartWorker(w) \/ PollElapses(w) \/ EndTick(w)
      PROVE  Orphans' \subseteq Orphans
  <2>1. worker[w].job = NoJob /\ UNCHANGED jobs
    BY <1>3 DEF IndInv, TypeOK, StartWorker, PollElapses, EndTick
  <2>2. \A v \in Workers : v # w => worker'[v] = worker[v]
    BY <1>2, <1>3 DEF StartWorker, PollElapses, EndTick
  <2> QED BY <2>1, <2>2, NoneLost
<1>4. ASSUME \/ CheckExisting(w) \/ ModelDeclines(w) \/ ModelUnavailable(w)
             \/ GenerationFails(w) \/ StoreCandidate(w)
             \/ \E t \in ProposedTypes : ModelProposes(w, t)
      PROVE  Orphans' \subseteq Orphans
  <2>1. UNCHANGED jobs
    BY <1>4 DEF CheckExisting, ModelProposes, ModelDeclines, ModelUnavailable,
       GenerationFails, StoreCandidate, Moves
  <2>2. \A v \in Workers : worker'[v].job = worker[v].job
    <3>1. CASE CheckExisting(w) \/ ModelDeclines(w) \/ ModelUnavailable(w)
      <4>1. PICK at : worker' = [worker EXCEPT ![w].at = at]
        BY <3>1 DEF CheckExisting, ModelDeclines, ModelUnavailable, Moves
      <4> QED BY <1>2, <4>1 DEF WorkerLocals
    <3>2. CASE GenerationFails(w) \/ StoreCandidate(w)
      <4>1. PICK at : worker' = [worker EXCEPT ![w].at = at, ![w].draft = NoDraft]
        BY <3>2 DEF GenerationFails, StoreCandidate
      <4> QED BY <1>2, <4>1, SMTT(60) DEF WorkerLocals
    <3>3. ASSUME NEW t \in ProposedTypes, ModelProposes(w, t)
          PROVE  \A v \in Workers : worker'[v].job = worker[v].job
      BY <1>2, <3>3 DEF ModelProposes, WorkerLocals
    <3> QED BY <1>4, <3>1, <3>2, <3>3
  <2> QED BY <2>1, <2>2, NoneLost
<1>5. ASSUME ClaimNext(w) PROVE Orphans' \subseteq Orphans
  <2>1. PICK i \in Claimable :
          /\ jobs' = [jobs EXCEPT ![i].status = "RUNNING", ![i].attempt_count = @ + 1]
          /\ worker' = [worker EXCEPT ![w].at = "claimed", ![w].job = i,
                                      ![w].claims = Append(@, i)]
    BY <1>5 DEF ClaimNext
  <2>2. DOMAIN jobs' = DOMAIN jobs /\ \A k \in DOMAIN jobs : k # i => jobs'[k] = jobs[k]
    BY <2>1
  <2>3. worker'[w].job = i /\ worker[w].job = NoJob
    BY <1>2, <1>5, <2>1, ZenonT(90) DEF IndInv, TypeOK, ClaimNext, WorkerLocals
  <2>4. \A v \in Workers : v # w => worker'[v] = worker[v]
    BY <1>2, <2>1
  <2>5. \A k \in DOMAIN jobs : k # NoJob
    BY <1>2, LenProperties
  <2> QED BY <2>2, <2>3, <2>4, <2>5 DEF Orphans, Orphaned, JobIs
<1>6. ASSUME FinishJob(w) PROVE Orphans' \subseteq Orphans
  <2> DEFINE j == worker[w].job
  <2>1. j \in DOMAIN jobs
    BY <1>6 DEF IndInv, TypeOK, FinishJob
  <2>2. jobs'[j].status # "RUNNING" /\ DOMAIN jobs' = DOMAIN jobs
    <3>1. jobs[j] \in JobRow
      BY <2>1, RowType DEF IndInv
    <3>2. DOMAIN jobs' = DOMAIN jobs
      BY <1>6 DEF FinishJob
    <3>3. CASE worker[w].at = "complete"
      BY <1>6, <2>1, <3>1, <3>3 DEF FinishJob, JobRow
    <3>4. CASE worker[w].at = "fail"
      BY <1>6, <2>1, <3>1, <3>4 DEF FinishJob, JobRow
    <3>5. CASE worker[w].at = "release"
      BY <1>6, <2>1, <3>1, <3>5 DEF FinishJob, Released, JobRow
    <3> QED BY <1>6, <3>2, <3>3, <3>4, <3>5 DEF FinishJob
  <2>3. \A k \in DOMAIN jobs : k # j => jobs'[k] = jobs[k]
    BY <1>6 DEF FinishJob
  <2>4. \A v \in Workers : v # w => worker'[v] = worker[v]
    BY <1>2, <1>6 DEF FinishJob
  <2> HIDE DEF j
  <2>5. ASSUME NEW k \in Orphans' PROVE k \in Orphans
    <3>1. k \in DOMAIN jobs /\ k # j /\ jobs[k].status = "RUNNING"
      BY <2>2, <2>3, <2>5 DEF Orphans, Orphaned, JobIs
    <3>2. \A v \in Workers : worker[v].job # k
      BY <2>4, <2>5, <3>1 DEF Orphans, Orphaned, j
    <3> QED BY <3>1, <3>2 DEF Orphans, Orphaned, JobIs
  <2> QED BY <2>5
<1> QED BY <1>1, <1>3, <1>4, <1>5, <1>6, SMTT(60) DEF WorkerStep

\* A fault loses the row of the worker it hits, if it holds one.
LEMMA FaultLosesOne ==
    ASSUME IndInv, NEW w \in Workers, TickFails(w) \/ StopWorker(w)
    PROVE  Orphans' \subseteq Orphans \union {worker[w].job} /\ faults' = faults + 1
<1>1. UNCHANGED jobs /\ faults' = faults + 1
  BY DEF TickFails, StopWorker
<1>2. \A v \in Workers : v # w => worker'[v] = worker[v]
  BY DEF IndInv, TypeOK, TickFails, StopWorker
<1> QED BY <1>1, <1>2 DEF Orphans, Orphaned, JobIs

\* Rows stay RUNNING for ever only if a stop or a failed tick left them, each at
\* most one, whatever the number of workers and rows.
THEOREM OnlyFaultsLoseRows ==
    Spec => []OrphansComeFromFaults
<1> DEFINE Few == Cardinality(Orphans) <= faults
<1>1. Init => Few
  <2> SUFFICES ASSUME Init PROVE Few
    OBVIOUS
  <2>1. Orphans = {} /\ faults = 0
    BY DEF Init, Orphans
  <2> QED BY <2>1, FS_EmptySet
<1>2. Few /\ IndInv /\ [Next]_vars => Few'
  <2> SUFFICES ASSUME Few, IndInv, [Next]_vars PROVE Few'
    OBVIOUS
  <2>1. IsFiniteSet(Orphans) /\ Cardinality(Orphans) \in Nat /\ faults \in Nat
    <3>1. Len(jobs) \in Nat /\ DOMAIN jobs = 1 .. Len(jobs)
      BY LenProperties DEF IndInv, TypeOK
    <3>2. IsFiniteSet(DOMAIN jobs)
      BY <3>1, FS_Interval
    <3>3. Orphans \in SUBSET DOMAIN jobs
      BY DEF Orphans
    <3>4. IsFiniteSet(Orphans)
      BY <3>2, <3>3, FS_Subset
    <3>5. faults \in Nat
      BY ConstantsAssumption DEF IndInv, TypeOK
    <3> QED BY <3>4, <3>5, FS_CardinalityType
  <2>2. ASSUME Orphans' \subseteq Orphans, UNCHANGED faults PROVE Few'
    <3>1. Orphans' \in SUBSET Orphans
      BY <2>2
    <3>2. IsFiniteSet(Orphans') /\ Cardinality(Orphans') <= Cardinality(Orphans)
      BY <2>1, <3>1, FS_Subset
    <3>3. Cardinality(Orphans') \in Nat
      BY <3>2, FS_CardinalityType
    <3> QED BY <2>1, <2>2, <3>2, <3>3
  <2>3. ASSUME NEW j, Orphans' \subseteq Orphans \union {j}, faults' = faults + 1
        PROVE  Few'
    <3>1. Orphans' \in SUBSET (Orphans \union {j})
      BY <2>3
    <3>2. /\ IsFiniteSet(Orphans \union {j})
          /\ Cardinality(Orphans \union {j}) \in {Cardinality(Orphans), Cardinality(Orphans) + 1}
      BY <2>1, FS_AddElement
    <3>3. IsFiniteSet(Orphans') /\ Cardinality(Orphans') <= Cardinality(Orphans \union {j})
      BY <3>1, <3>2, FS_Subset
    <3>4. Cardinality(Orphans') \in Nat
      BY <3>3, FS_CardinalityType
    <3> QED BY <2>1, <2>3, <3>2, <3>3, <3>4
  <2> HIDE DEF Few
  <2>4. ASSUME NEW r \in Requests, RequestStep(r) PROVE Few'
    BY <2>2, <2>4, RequestsLoseNone
  <2>5. ASSUME NEW w \in Workers, WorkerStep(w) PROVE Few'
    BY <2>2, <2>5, WorkersLoseNone
  <2>6. ASSUME NEW w \in Workers, TickFails(w) \/ StopWorker(w) PROVE Few'
    BY <2>3, <2>6, FaultLosesOne
  <2>7. ASSUME UNCHANGED <<jobs, worker, faults>> PROVE Few'
    BY <2>2, <2>7, NoneLost
  <2> QED BY <2>4, <2>5, <2>6, <2>7 DEF Next, Review, vars
<1>3. Few => OrphansComeFromFaults
  BY DEF Orphans, OrphansComeFromFaults
<1> HIDE DEF Few
<1> QED BY <1>1, <1>2, <1>3, Invariance, PTL DEF Spec

=============================================================================

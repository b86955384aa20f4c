# A TLA+ model of the enterprise data agent

This directory specifies the stateful core of the agent in TLA+, checks it with
TLC on small instances and proves its main safety properties with TLAPS. Source
paths are relative to the repository.

1. [The system](#1-the-system)
2. [Modules](#2-modules)
3. [What the runs check](#3-what-the-runs-check)
4. [What is proved](#4-what-is-proved)
5. [Where code and documentation disagree](#5-where-code-and-documentation-disagree)
6. [What is not modelled](#6-what-is-not-modelled)
7. [Plan](#7-plan)
8. [Running it](#8-running-it)

## 1. The system

A user asks a business question in a conversation. The service answers from live
rows, by a certified metric or by SQL it generates and validates, and every
answered question may teach it something that a human then reviews. Two databases
are involved: the customer's datasource, which changes by itself and is only read,
and the knowledge database, which every part below shares.

### Parts, their state and their operations

| Part | State | Operations |
|---|---|---|
| Analytics graph `app/agent/` | the channels of one thread, checkpointed after every node | one run of the graph per question: prepare, authorize, resolve entities, route, plan or generate, validate, repair, execute, ground, clarify or block, record, respond |
| Learning loop `app/knowledge/memory.py`, `triggers.py`, `jobs.py`, `worker.py`, `candidates.py` | `question_clusters`, `query_execution_evidence`, `knowledge_generation_jobs`, `knowledge_candidates` | record a question, keep its statement, queue a generation, claim, generate, store, complete, release, fail |
| Knowledge review `app/knowledge/candidates.py`, `postgres_metrics.py`, `app/api/knowledge_routes.py` | `knowledge_candidates`, `metric_definitions`, `metric_dependencies`, `business_instructions`, `approved_query_examples` | propose, approve, reject, author an instruction |
| Semantic catalog `app/knowledge/onboarding.py`, `discovery.py`, `scanner.py`, `postgres_semantics.py`, `app/api/time_routes.py` | `semantic_entities`, `_attributes`, `_relationships`, `temporal_dimensions`, the schema fingerprint | scan and rescan, review a mapping, give an attribute a meaning in time |
| Query router and planner `app/routing/` | the context a thread keeps for follow-ups | classify, plan, inherit, refuse |
| Metric selection `app/knowledge/planner.py`, `composition.py`, `runtime.py` | the registry and the retrieval index | retrieve, ask the model, validate its choice, run and join, reindex |
| Datasource execution `app/knowledge/execution.py`, `app/data/` | a cache of gateways, each with a connection pool, a cached schema and the proof of a read-only role | obtain, evict, close, discover, execute |
| Authorization `app/authorization/`, `infra/opa` | grants of roles | decide, check the decision, cut the schema |
| Authentication `app/authentication/oidc.py` | the cached key set and its lock | verify, refresh |
| Conversations `app/knowledge/postgres_conversations.py`, `app/api/conversation_routes.py` | `conversations`, `conversation_messages` | create, append a turn, page, rename, archive |
| Evaluations, data quality `app/knowledge/evaluation*.py`, `quality*.py` | cases and assertions, their runs and results | define, run, record, compare, warn |
| Model gateway `app/llm/` | counters shared by all calls | one structured call, its reply or failure |
| Knowledge database `app/knowledge/migrations.py`, `database.py` | `schema_migrations`, a pool | start, migrate, stop |
| SQL validation, time intelligence, entities, grounding, lineage, errors | none | pure functions of a statement, a phrase, a name, an answer, an exception |
| Web workspace `frontend/hooks/use-conversation.ts` | thread, conversation, datasource and exchanges on the screen; requests in flight | ask, retry, stop, start anew, open |
| Evaluation harness `app/evals/runner.py` | what recording gateways saw of a case | run a case, judge, summarise |
| Governance metadata, embeddings, observability, deployment | see section 6 | |

### How they interact

```
 user --> HTTP route --> analytics graph --> router, planner, validator, metric
                              |              engines, datasource
                              | after the answer
                              v
                  question cluster + evidence --> trigger --> job row
                                                               |  poll
                  reviewer <-- candidate <-- model <-- worker --+
                      | approve
                      v
           metric registry, rules, examples --> read by the next turn
 datasource schema --> scan --> semantic model <-- reviewer
                         '--> fingerprint --> staleness of examples
```

Everything is asynchronous Python, so every `await` lets another request run, and
several API processes may share the knowledge database. Most stores open a
transaction per statement: a route that reads, decides and writes holds nothing
in between. There are few locks: the claim of a job (`FOR UPDATE SKIP LOCKED`),
the partial unique index on open jobs, and upserts.

### What is hard, and the property that makes each part correct

* **Turns on a thread.** State outlives a turn, a turn can fail at any node and
  leave a half-written checkpoint, and a second tab or a client retry runs two
  turns of one thread at once. Correct: a turn runs only the statement it
  validated itself and answers from its own rows; an unfinished or concurrent
  turn lends it nothing.
* **The learning loop.** Counters, trigger, queue, workers and reviewers meet in
  four tables. Correct: one generation per cluster at a time, at most one
  candidate per cluster, only for questions that deserve one, never over a
  verdict, and every queued row is finished.
* **Review.** A decision is a series of commits from a copy. Correct: what reads
  APPROVED is in force, a certified metric is what was proposed, and racing
  approvals never make metrics depend on themselves.
* **The catalog.** The schema moves underneath, and routes replace the whole
  model from a copy. Correct: only what a reviewer approved is CONFIRMED, a
  scan leaves nothing broken CONFIRMED and undoes no decision, references resolve.
* **Gateways.** A cache at its limit closes what others may use, pools open
  lazily, and two kinds of lock are held over awaits. Correct: what is cached
  serves, nothing but eviction costs anything, every request ends.
* **Shared caches with a life** (keys of the issuer, schemas, the proof that a role
  cannot write). Correct: no read rests on something never proved or kept longer
  than its life and the time of a fetch.
* **Rows that are numbered, trimmed or versioned without a lock** (transcripts,
  verdicts, migrations, evaluation runs). Correct: what is recorded is whole, in
  order and the newest, whatever raced or died.
* **The screen.** Replies come back in any order while the user goes on. Correct:
  conversation, thread, datasource and exchanges belong together, and what is being
  answered is shown; it holds of a user who waits for transcripts (section 5).
* **Algorithms on untrusted or awkward input** (statements, dates, names, figures,
  exceptions). Correct: they agree with a definition that says what is meant
  without saying how.

`PROJECT.json` lists the hazards one by one, each at the line where it bites and
with the properties that cover it.

## 2. Modules

| Module | Models | Instance for TLC |
|---|---|---|
| `ProposalLifecycle` | what the learning loop promises, without queue, workers or faults | through `LearningLoop` |
| `LearningLoop` | the loop itself (proofs: `LearningLoopProofs`) | `MCLearningLoop` |
| `AgentTurn` | the graph over several turns of a thread (proofs: `AgentTurnProofs`) | `MCAgentTurn` |
| `SemanticCatalog` | the semantic model, the schema and what hangs on them (proofs: `SemanticCatalogProofs`) | `MCSemanticCatalog` |
| `KnowledgeReview` | generation's admission check, review and promotion (proofs: `KnowledgeReviewProofs`) | `MCKnowledgeReview` |
| `DatasourceGateways` | the cache of gateways, their pools and schemas (proofs: `DatasourceGatewaysProofs`) | `MCDatasourceGateways` |
| `Conversations`, `Workspace` | a transcript in the database; the conversation on the screen (proofs: `PlatformProofs` and `DialogueProofs`) | `MCService` |
| `QualityChecks`, `QualityVerdicts` | runs of the checks; what a check measures and concludes (proofs: `PlatformProofs`) | `MCService` |
| `Evaluations`, `EvaluationCompare`, `EvalHarness` | benchmark runs; the comparison of rows (proofs: `PlatformProofs`); the offline harness (`DialogueProofs`) | `MCService` |
| `ModelGateway`, `Errors` | calls of a model and their failures; what a client is told of a failure (proofs: `DialogueProofs`) | `MCService` |
| `Routing`, `MetricSelection` | deterministic routing and follow-ups; certified metrics through retrieval and model (proofs: `DialogueProofs` and `PlatformProofs`) | `MCService` |
| `Toolbox` (extends `Errors`), `Authorization`, `ColumnPreviews` (extends `Authorization`) | reads through MCP Toolbox (proofs: `DialogueProofs`); both policy engines; the previews a reviewer sees (`PlatformProofs`) | `MCService` |
| `Migrations`, `TokenKeys` | start-up of several releases; key rotation (proofs: `PlatformProofs`) | `MCService` |
| `TimePeriods`, `TimePlanning`, `SqlValidation`, `Entities`, `Grounding`, `Lineage` | algorithms (proofs: `PlatformProofs` for statements, `DialogueProofs` for the rest) | `MCService` |

The component modules meet at interfaces, each of which one side guarantees and
the other relies on. `AgentTurn` ends with an evidence row, and `LearningLoop`
starts where a request records its question and that row. `LearningLoop` shows
that a cluster has one generation at a time and at most one candidate;
`KnowledgeReview` has one candidate per cluster and one generation per candidate.
`KnowledgeReview` writes examples, whose later staleness is `SemanticCatalog`'s,
and metrics, whose use is `MetricSelection`'s. A node of `AgentTurn` takes any
verdict of the router, the validator, the entity resolver or the grounding check;
`Routing`, `SqlValidation`, `Entities` and `Grounding` say which verdict it is.
`Conversations` starts where `AgentTurn` has answered, `Workspace` where a
conversation can be listed.

### `LearningLoop`

`clusters`, `evidence`, `candidates` and `jobs` are the four tables; `request` and
`worker` are the program counters of concurrent requests and of one
`KnowledgeJobWorker` per API process; `faults` is a bound.

* A request takes `RecordQuestion` (the counters, `postgres_memory.py`),
  `RecordEvidence`, `Consider` (`CandidateTrigger.consider`: eligibility and the
  scan for an existing candidate) and `Enqueue` (`INSERT ... ON CONFLICT DO
  NOTHING` against the index of `004_generation_jobs.sql`). The route that records
  is best effort, so `AbandonRequest` may end it between any two.
* A worker takes `PollElapses`, then repeats `ClaimNext` (oldest claimable row,
  attempts + 1, at most `MaxJobsPerTick` per tick), `CheckExisting`, one of
  `ModelProposes`, `ModelDeclines`, `ModelUnavailable`, `GenerationFails`,
  `StoreCandidate`, and `FinishJob`, which is `complete`, `release_for_retry` or
  `fail`. `TickFails` is the exception the run loop logs, `StopWorker` is `stop()`
  or the death of the process, `StartWorker` a start.
* `Review` writes a verdict; `KnowledgeReview` opens it up.
* The eight SELECTs of a scan over the candidate types are one step. Candidates
  are never deleted, so nothing is lost by that: a scan that finds nothing found
  nothing at its start, one that finds something finds it at its end.
* `ReadableTypes` is what `_to_candidate` can rebuild. A row of any other type is
  stored and then read as absent; `StoredCandidate` says so.

### `AgentTurn`

A channel holds the number of the turn that wrote it (0: nothing), because what
the properties tell apart is whether a turn uses what it produced or something
left behind. `run` is each request's copy of the state and the node it is at,
`checkpoint` what the checkpointer saved last. There is one action per node;
conditional edges choose the next node, and `Raise` fails at any node.
`PrepareRequest` keeps exactly the channels `prepare_request` does not reset.
The verdicts of router, planner, model, validator and database are choices over
their outcomes. LangGraph is external: that it saves the state after each node
and starts a turn from the last save is taken from how the repository uses it.
The graph is the one the service builds (router on, governed routing semantic).

### `SemanticCatalog`

A mapping stands for one object of the schema: a table, its column that matters,
or a join. `schema` is the physical schema, changed by `AlterSchema` at any time.
`catalog` is the stored model with the ids rows carry, `temporal` the ids that
`temporal_dimensions` refers to, `cache` the schema a kept gateway remembers,
`actor` the requests with their copies. Routes are split at every await: a scan is
`StartScan`, `ReadSchema`, `Load` (three steps, one per SELECT, so a save may tear
it), `Discover` or `Reconcile`, `Save`, `RecordScan`, `MarkStale`. `Save` is the
DELETE and INSERT of the whole model in one transaction, with the foreign keys
it fails on and the cascade that takes temporal dimensions along. `Abort` ends a call anywhere.

### `KnowledgeReview`

`candidate` and `metric` are tables; a metric is its set of dependencies. `Propose`
is the check in `propose_for_cluster` on the registry reading taken before the
model was called (`ReadRegistry`), so it may be old. `StartApprove` copies the
candidate, `ReadCertified` and `ReadChildren` are the two SELECTs behind
`assert_acyclic`, `PromoteMetric`, `PromoteRule` and `PromoteExample` write the
destination with its upserts and conflicts, `Settle` writes the candidate back
from the copy. `Reject` looks at no status. `Abort` ends a review between any two
statements. `rank` and `clock` are history variables, read by no guard: the order
in which metric keys were first certified.

### `DatasourceGateways`

`cache` is the provider's least-recently-used list, `gateways` and `pools` all that
were ever made, `req` the requests with their place between two awaits, and two kinds
of lock: the provider's and one per gateway for its schema. `Require` looks the
datasource up, `Hit`, `New` and `Insert` are `get`, with `CloseBegins`, `CloseEnds`
and `CloseFails` for the gateway evicted meanwhile; `SchemaLock`, `CreateBegins`,
`CreateEnds`, `Acquire`, `Discovered` and `Executed` are a statement. `Expire` ends
the schema's life, `Shutdown` the process. The driver's pool is external: from the
start of its close it refuses, and its close waits for the connections in use.

### `Conversations` and `Workspace`

`conv` and `msgs` are the tables. A turn is recorded in `Lookup`, `Create` (with the
conflict on the thread) and `Reread`, `ReadNext` (the next sequence) and `AppendTurn`,
one transaction with the unique constraint that makes the later of two equal numbers
fail; `StoreFails` is the failure that turns into the warning. `Open` and `LoadOlder`
are a reader who pages backwards.

`Workspace` has the state of the hook (`screen`, `exchanges`, `inflight`) and what the
browser waits for (`opening`, `adopting`). Browser code runs to its next await without
interruption, and an aborted request settles before the next event of the user.
`strayed` is a history variable: since the screen was last cleared with nothing on its
way, a transcript failed to load, or the user went on while an answer that sets the
conversation was on its way.

### `MCService`: parts that share no state

A behaviour of `MCService` is of one part, chosen initially; the nine variables are
that part's. The parts are the modules of the table above, each with the constants
of `MCServiceInputs`. An algorithm is a part with one step, which chooses an
input. A part's next-state relation is the module's own; nothing is interleaved
between parts, since nothing is shared. `ServiceProofs` carries the theorems about all
parts over to it.

* `QualityChecks`: `StartRun` reads the enabled assertions, `Check` measures,
  `RecordBegins` and `RecordCommits` are the transaction that inserts a verdict and
  deletes the old ones it sees. `Evaluations`: `StartEvaluation`, `AskQuestion`,
  `Evaluated`, `RecordRun`, with `SaveCase` meanwhile.
* `ModelGateway`: `Request`, `Answered`, `Failed`; a failure is given by the signs the
  classification looks at. `Errors` is the ladder of `normalize_error`.
* `MetricSelection`: registry and index are read at different awaits of a request and
  of a reindex. `Routing`: a question is the set of signs the patterns find in it;
  `thread` is a history variable, the questions since a metric was last named afresh.
* `Toolbox`: an invocation is `Serve` on the server and then its reply; `AlterRole`
  and `AlterSchema` may come between. `ColumnPreviews`: five reads of five systems,
  with `Change` between any two; `seen` is a history variable.
* `Migrations`: `Apply` is one transaction per file. `TokenKeys`: `Acquire`, `Fetch`,
  `Store` under the lock, with `Publish`, `Withdraw` and `Tick` at any time.
* `EvalHarness`: what the recording gateways saw (`db`, `llm`) of the turns of a case.
* The algorithms are translated as operators: the calendar (`TimePeriods`), phrases and
  dimensions (`TimePlanning`), the walk over a statement (`SqlValidation`), the lookup ladder
  (`Entities`), the figures of an answer (`Grounding`) and its lineage (`Lineage`). What depends
  on the characters of a word is a constant relation between words. Loops over sequences are
  written without recursion, as a choice of the first position that qualifies or as a function
  from positions, so that what they compute can be proved for every input.

## 3. What the runs check

| Run | Instance | Distinct states | Shows |
|---|---|---|---|
| `learning_safety` | 1 cluster, 2 requests, 2 workers, 4 questions, 2 job rows, 2 attempts, 1 fault, proposals of a metric, an example or a filter | 1.0 million | `ExclusiveGeneration`, `PendingIsClaimable`, `OneCandidatePerCluster`, `CandidatesRestOnEvidence`, `OrphansComeFromFaults`, `ReviewOutlivesGeneration`, `ImplementsLifecycle` |
| `learning_served` | 2 clusters, 1 request, 2 workers, 2 job rows, 1 fault, fair workers | 84 thousand | `QueuedIsServed` |
| `turn_safety` | 3 turns by 2 requests on one thread, any node failing | 1.75 million | `ExecutesOnlyWhatItValidated`, `AskingBackRunsNoQuery`, `AnswersRestOnTheirQuery`, `EvidenceIsEarned` |
| `turn_sequential` | 4 turns by 1 request, any node failing, fair | 204 thousand | `ClarificationIsResumedOnce`, `TurnEnds` |
| `catalog_concurrent` | 1 table, 2 requests, 4 calls, 1 schema change, 1 fault | 5.8 million | `ConfirmedWasApproved`, `ReferencesResolve`, `ScanMarksWhatBroke` |
| `catalog_alone` | 2 tables and a join, 1 request, 3 calls, 2 schema changes | 3.4 million | `UsableExamplesMatch`, `ScanKeepsReview` |
| `review_promotion` | 4 metric keys (2 seeds), 3 candidates, 2 reviewers, 1 dependency per metric | 910 thousand | `NoCircularMetric`, `CertifiedAsProposed`, `ApprovedIsPromoted` |
| `gateways` | 3 requests, a cache of one, two samplings of a datasource, fair | 267 thousand | `CachedIsServing`, `UnevictedIsExact`, `RequestEnds` |
| `service` | the instances of `MCServiceInputs` | 1.5 million | the fifteen properties below |
| `learning_unreadable`, `turn_rows`, `catalog_temporal` | the smallest that shows it | | counterexamples, section 5 |

What the properties say:

* `ExclusiveGeneration`: no two workers process one cluster, by one row claimed
  twice or by two rows. `PendingIsClaimable`: the limits in `claim_next` and
  `release_for_retry` agree, so no PENDING row is out of attempts.
  `OneCandidatePerCluster` and `CandidatesRestOnEvidence`: although the trigger
  decides on a stale scan, a cluster shows one candidate, eligible, and a query
  example only with a stored statement. `ReviewOutlivesGeneration`: the upsert
  that overwrites `status` never meets a verdict. `OrphansComeFromFaults`: a RUNNING
  row nobody holds is the work of a stop or a failed tick. `QueuedIsServed`:
  otherwise every queued row ends.
* `ExecutesOnlyWhatItValidated`, `AnswersRestOnTheirQuery`, `EvidenceIsEarned`,
  `AskingBackRunsNoQuery`: a turn's execution, answer and evidence come from this
  turn, whatever a failed or concurrent turn left in the checkpoint. Of the provenance
  the second says that it names this turn's query and the metric and source, or the
  statement and guidance, that answered it, not that it names nothing else; nor does any
  property say that a repair is told of no other turn's period. Neither is so (section 5).
  `ClarificationIsResumedOnce`: a clarification is resumed by one answered turn, a reply
  that fails may be given again. `TurnEnds`: the cycle of validation and repair is left.
* `ConfirmedWasApproved`, `ReferencesResolve`: even with torn loads and lost
  updates nothing becomes CONFIRMED unreviewed or points nowhere.
  `ScanMarksWhatBroke`: what a scan saves has no CONFIRMED mapping that the
  schema it read does not carry. `ScanKeepsReview`, `UsableExamplesMatch`: with
  one request at a time, a rescan undoes no decision, and a usable example
  matches the schema last scanned.
* `NoCircularMetric`, `CertifiedAsProposed`, `ApprovedIsPromoted`: section 4.
* `CachedIsServing`: a request reads what it asked for, and a gateway is out of the
  cache before its pool stops. `UnevictedIsExact`: although `_get_pool` has no lock, a
  gateway that was never evicted opens one pool. `RequestEnds`: although an eviction
  waits for others with the provider's lock held, every request ends.
* `TranscriptIsWhole`: turns are recorded whole and in order under their owner's
  thread, an answer without the warning is in the transcript once, and pages join
  without a gap. `ScreenIsOneConversation`: as long as transcripts load and the user waits
  for them, what is shown belongs together, the next question continues it, and the
  question in flight is on the screen; and whatever the user does, an exchange is pending
  exactly while it is the one in flight. Of a user who goes on while a transcript is on
  its way the rest is not so: `NewChatIsNew`, `QuestionKeepsItsOutcome` and
  `FollowUpContinuesHistory` are refuted (section 5).
* `ReadsArePermitted`: nothing but the proof itself is asked of a role never shown unable
  to write, one request at a time reads a schema, both policies leave a caller the
  same tables, columns, keys and metrics, and no value is previewed of a column that
  was not readable, unclassified and under review at some time of the request.
* `NewestVerdictStands`: the verdict shown is the newest, although overlapping runs
  trim what they see; and it is true of the table. `RunIsWhole`: a recorded run answers
  for the cases active at its start, movements between runs add up, and a case passes
  only if its rows can be paired off, and always if they can and nothing is left open.
* `EveryReplyIsAccounted`: replies are counted although calls interleave and fail; a
  failure is told as what it is, and as worth retrying exactly if the transport failed.
* `PlannedIsOffered`: whatever the model selects and the registry does, a governed plan is
  made of metrics offered to its question, and what was offered was certified,
  authorized and indexed when the request read, no more than the limit. The results of
  its metrics are joined exactly when each has one row per group, and then every row of
  every metric is there once with its measure, null or not. `RanIsAskedFor`: a follow-up
  is what the conversation asked for since its metric was named.
* `HistoryIsTheSchema`, `RotationIsFollowed`, `VerdictIsAboutTheTurn`: recorded
  migrations are what took effect; a key in service is found and a withdrawn one
  forgotten in time; a case is judged by its own turn.
* `PeriodsAreExact`, `ValidIffSafe`, `ResolvesToTheOne`, `NothingInvented`: the
  algorithms against their references: periods tile, the period before abuts and is as
  long, the year before is 365 or 366 days earlier, and a period is measured on a
  column that no other candidate is like, or asked about, or refused;
  accepted is exactly one bounded read of permitted relations, columns and functions;
  a row is taken for the one meant only if the question names no other row that the
  lookups found as well or better, and if no other row of its table, found or not, has
  its label (the key spelled out and a lookup cut off at its limit excepted); no figure and, in a statement whose
  names are unambiguous, no origin is invented.

**Bounds.** Two of each racing process suffice for the races between pairs that
the hazards are about; three where a third must come between (runs of the quality
checks, turns of a transcript, requests on the gateways). Three candidates and two
seeds leave room for a metric on a metric on a seed and for two candidates for one
key. Four questions with a minimum of two make a cluster eligible and go on past it,
two attempts let a row be retried and exhausted, two rows let a cluster be queued
again. Three turns hold an unfinished or asking turn, a concurrent one and a later
one; four in sequence hold a question, its clarification, the reply and a turn that
might be taken for a second reply, and in `Routing` a metric, two follow-ups and a
switch. Two schema changes let a table go and come back. A cache of one gateway
makes every second key evict. Lives and timeouts are one tick, and the clock runs for
two or three, past life plus fetch. Three releases hold an upgrade and an edited
file. Calendars start on the 1st or the 28th, and the days are the ends and middles
of every month of a leap year. A lookup keeps five search terms (the code: eight) and two
candidates (five), so that questions of three words and tables of three rows reach both
limits; their tokens begin, end and occur inside each other, so that a term may start in
the middle of a word. Three metrics and an offer of two let a metric rank without being
offered. Measures to join are null or not. The bounds in guards are `MaxQuestions`, `MaxJobs`,
`MaxFaults`, `MaxTurns`, `MaxCalls`, `MaxSchemaChanges`, `Routes`, `MaxDependencies`,
`MaxChecks`, `MaxReviews`, `MaxStarts`, `MaxTime`, `MaxChanges` and the number of
`Ids`. In `learning_safety` the minimum of occurrences is 2 (the default is 5); the proofs
cover every value.

**Symmetry** is used over requests, workers, actors, candidates, reviewers,
metric keys of the same kind, signing keys and runs of the checks, in safety runs
only; those runs' temporal formulas are of the form `Init /\ [][A]_v`.

**Fairness.** `learning_served` assumes weak fairness of each worker's steps: the
poll loop sleeps a fixed interval, a model call has a timeout and then raises, waiting
for a pooled connection has one too, and the statements on the knowledge database are
short and wait for no lock another worker keeps across an await (`SKIP LOCKED`). A
worker may still be stopped; `QueuedIsServed` excepts the rows so stranded.
`turn_sequential` assumes weak fairness of the node steps of a started turn: the
model, the engines, the policy service and the datasource are called with timeouts,
and failing is a step too. `gateways` assumes weak fairness of a started request and
strong fairness of its two waits for a lock, because an `asyncio.Lock` wakes its
waiters in the order they came. Nobody is obliged to ask, review or scan.

**Deadlock** is checked for the learning loop and for review. It is off for
`AgentTurn` and `SemanticCatalog`, whose threads and datasources may stop when all
turns or calls of the bound are used, and for `gateways` and `service`, whose requests
are each handled once.

## 4. What is proved

TLAPS checks some 18,400 obligations in eight modules; the theorems hold for every value of
the constants, so for any number of workers, requests, clusters, metrics, mappings,
gateways, keys, releases, questions and conversations, and for statements, results, texts
and datasets of any size. 37 of the runs' 40 properties are stated by a theorem: all but
the three that speak of liveness. A proof about a state machine has this outline: an
inductive invariant that is the conjunction of named parts, one lemma per action that the
action keeps it, and short arguments from it to the properties. A proof about an
algorithm goes by what its choice of a first position, its fold or its count amounts to.

### `LearningLoopProofs`

Assumption: `ConstantsAssumption` (the limits are natural numbers and positive
where the code needs it, the sets are what they are). `IndInv` joins to the checked
invariants what makes them inductive:

* `OneOpenJobPerCluster`, which the partial index enforces on insert and which claim,
  release and finish keep; with `HeldIsRunning` (a worker's row is RUNNING) and
  `HeldOnce` (no two workers hold one row) it gives `ExclusiveGeneration`;
* `GeneratesOverUnseen`: while a worker generates, its cluster has no candidate
  that a lookup would find. It looked after claiming, and only the one holder of a
  cluster's open row stores. This is why a stale trigger does no harm;
* `VerdictsAreReadable`: only rows that can be read back are ever reviewed. With
  the former it is why the upsert never meets a verdict;
* `RequestsRestOnEvidence`, `JobsRestOnEvidence`, `DraftsRestOnEvidence`: eligibility
  travels from counter to job to draft, since counters only grow.

`TypeCorrect`, `GenerationIsExclusive`, `PendingRowsAreClaimable`, `OneCandidate`
and `CandidatesAreJustified` follow from `IndInv` (`Invariance`), and
`VerdictsStand` from it and a step. No theorem restricts what the model proposes;
`OneCandidatePerCluster` and the refinement speak of the types that can be read back, and
`learning_unreadable` shows why they have to. `Refinement` shows
`Spec => Lifecycle!Spec` with `candidates` mapped to `Shown`: queue, workers, retries,
faults and unreadable rows are stutters of `ProposalLifecycle`, and storing any
other candidate is its `Propose`, whose guard (eligible, nothing there before) comes
from the invariant.

`OnlyFaultsLoseRows` needs a count instead: the set of orphaned rows has never more
members than there were faults. `RequestsLoseNone` and `WorkersLoseNone` show for every
ordinary step that no row becomes an orphan (a worker lets go of a row only with the
write that finishes it), `FaultLosesOne` that a stop or a failed tick adds the one
row its worker holds, and cardinality does the rest.

### `KnowledgeReviewProofs`

Assumption: `NamesAssumption`. The argument for `MetricsAreAcyclic` is not that
`assert_acyclic` works: two approvals may each read the registry before the other
writes. It is that the generator admits a metric only over metrics certified in the
reading it took, and only under a key that was not. Keys are never withdrawn, so a
dependency was first certified before the metric that names it, whenever either is
approved, and approving a key again does not change that order. In `IndInv`,
`SnapshotsAreOld`, `ProposalsAreOld` and `MetricsAreOld` carry this through reading,
proposal and promotion, in terms of `Older` over `rank`. `OldestFirst` then takes the
member of least rank of a supposed cycle, by the well-foundedness of `<` on the
naturals. `CertificationIsTrue` rests on `SourcesStand` and `CopiesAreTrue` (a
reviewer's copy is the proposal, since generation writes a candidate once), and
`ApprovalTakesEffect` on `SettledIsPromoted` (promotion precedes the status write, and
nothing removes a promoted row).

### `AgentTurnProofs`

Assumption: `TurnsAssumption`. A run starts from whatever checkpoint another run left,
so nothing may be concluded from a channel that `prepare_request` does not reset.
`IndInv` is therefore about each run's own copy: `Sound(at, s)` says what the channels
hold at each node, and of the checkpoint there are only the types. Before the query
there is no query of this turn, no rows and no grounding; while there is a statement,
it and its guidance are this turn's; at `execute_sql` the validated statement is the
generated one; afterwards `Queried` says that the rows, and the channels the provenance of
the route is read from, are this turn's. The channels of the other route are left out: they
may be an earlier turn's.
`Keeps` reduces a step of one run to that run; there is one lemma per node.
`ValidatedRuns`, `DeclinedRunsNothing`, `AnswersAreOwn` and `EvidenceHolds` follow.

`ClarificationIsUsedUp` has the hypothesis `Requests = {p}`, turns of a thread one after
another, as in `turn_sequential`: two overlapping turns may both resume a question.
`Resumable(p)` is the invariant it needs: the run works on the state saved last, and
the options offered last were not answered yet.

### `SemanticCatalogProofs`

Assumption: `CatalogAssumption`. `ConfirmationIsReviewed` and `ModelIsWhole` hold for
any number of racing routes: every copy of the model, however torn, confirms only what
is among `approved`, which only grows (`Sound`), and a copy whose references were torn
apart by a save between two SELECTs meets the foreign keys in `Save` and does not commit.
`IdsSuffice` is about a bound of the model: a scan that may still draw an id finds one.
`BrokenIsMarked` follows from what `Sound` says of a scan about to save.

`RescanKeepsReview` and `ExamplesMatch` are false under overlap (section 5) and are
stated as the run `catalog_alone` states them: one request at a time (`Actors = {p}`), and
the latter without faults (`MaxFaults = 0`). `Undisturbed(p)` says that what a
route has loaded is the stored model still; `Marking(p)` that outside the step that
marks examples none that may be used is outdated.

### `DatasourceGatewaysProofs`

Assumption: `ConstantsAssumption`. `Holds` says what a request holds at each await: the
provider's lock exactly while it closes a victim, its gateway's schema lock while it
discovers, a connection of its gateway's pool while it queries. `CacheSound` and
`PoolsSound` are about what is shared: a gateway in the cache is there once for its key
and not evicted, and one that was not evicted has at most one pool, open. `Uses` joins
the two. `Lists`, `RemoveAtIs`, `MovedToEnd` and `PushedOut` are the facts about the
least-recently-used list, for a cache of any size. That an unevicted gateway opens one
pool, although `_get_pool` has no lock, is because the first use of a gateway discovers the
schema under the schema's lock, and a statement runs only after that.

### `PlatformProofs`

`RotationFollowed` assumes `KeysSettings`: the cache life is a natural number and so is the
fetch's, which is positive (`config.py:69-80`). The invariant `KeysInv` dates every
copy of the key set: the cache is one the issuer served at most a fetch before it was
loaded (`CopyIsServed`), a request goes by a set that is `Acceptable` for its start, and
a key missing from a set fetched for it was out of service meanwhile (`AuthSound`).
`OneActs` reduces a step to one request. The clock is any natural number.

`HistoryHolds` assumes `ReleasesGrow`: a release has each version once and in order, and
the n-th file of every release has one version, the rule of `migrations.py:110` (section
5 says what happens otherwise). Contents may differ: an edited file may ship. `LogSound`
says that the n-th row recorded is an n-th file, `ProcSound` that the files a process is
past are recorded, each in its place, as that process has them. Of two processes that
apply the same file, the table's key lets one commit; the other goes down.

`TranscriptHolds` assumes `TranscriptSettings`: a request carries a subject, a datasource and
a thread, a page has at least one message, and `None` is no conversation and no thread.
`TranscriptInv` says that the messages of a thread are pairs numbered without a gap
(`Numbered`), each beside its other half under the owner of its request (`Placed`). What
lets requests race is `RequestSound`: the row a request has checked keeps its owner
and datasource (`OwnersStay`), and the number it has read is even and no larger
than the transcript has become. So its two rows either come next or are refused
together (`TurnAppended`): no half of a turn is written, and none is overwritten. A
reader's pages join because messages are only added above them (`MessagesLeft`,
`Joined`); `AscendingIs` and `PageIs` say what one page holds.

`PreviewsAlwaysPermitted` assumes `PreviewSettings` (a full table name has one schema). A
preview is five reads of systems that change between them, and `PreviewInv` says what is left
of a read afterwards: what was found readable, unclassified or proposed was so at some time
of this request (`seen`). `PoliciesAlwaysAgree` compares the two policy engines on any
grants and any tables of which no two have one name (`TablesSound`).

`NewestVerdictAlwaysStands` assumes `QualitySettings`: the history keeps at least one verdict
and the runs are finitely many. Runs insert and trim side by side without a lock.
`QualityInv` says why that never costs the newest verdict: a moment is the time of one check
(`TimesApart`), and what a run is about to delete is older than what it inserts or than
what is newest already (`DoomedAreOld`). `HistoryIsBounded` is about every subset of the runs
that may commit: the limit is overrun by less than one verdict per run. `VerdictsAlwaysTrue`
is the other half, for a table of any length.

`PlannedAlwaysOffered` assumes `SelectionSettings` (finitely many metrics, a limit).
`SelectionInv` keeps what a request was offered within what it was allowed and what was
indexed when it read the registry, and a plan within the offer, which the validator
holds it against; a plan rests on those copies, so a reindex or a withdrawal meanwhile
does not matter. `ComposeAlwaysJoins` is about the result: slices of any rows, with null
measures or without, are joined exactly when each has one row per group; then the result
has one row per group, none lost, and each metric is read back as it was returned.

`AcceptedIffSafe` assumes `ValidatorSettings` and `StatementSound` (aliases of one statement
differ, as the database requires). One direction says that what the validator accepts is a
bounded read of permitted relations, columns and functions, the other that it refuses
nothing else; both look at the first place at which the walk stops.

`RunsAreAlwaysWhole` assumes `EvalSettings` (at least one question in flight). `EvalInv` says
of each run that what it asked is in flight or has a result, never both, and that its
results are complete before it is recorded (`RunInv`); no two runs start at one time
(`RunsApart`), so the previous run is well defined. `PassesOnlyByPairing` is about the
greedy comparison: whatever it passes can be paired off, and where the case leaves nothing
open (no tolerance, every column named) a match taken first leaves the other rows a pairing
if there was one, because rows that match one expected row are then written the same.

### `DialogueProofs`

`QueriesAreAskedFor` is about the two ways to a governed query: a plan made afresh, and
the context a thread keeps, to which follow-ups add. Both must come to what the
questions since the metric was last named ask for, taken together, and `RoutingInv`
says that of the context. `AskedAfresh` and `AskedOnTop` are the two facts about "the
newest of the questions that says something about this part of the query", a position
found by the well-foundedness of `<` (`LeastOf`, `NewestIsOne`). The hypothesis
`QuestionsSound` types two signs of a question; there are no others.

`ScreenHolds` states both halves of the property, that of a user who waits and that of any
user. It assumes `ScreenSettings`: the ids are finitely many and no conversation's,
every stored conversation has a datasource, and `None` is none of the values used. `ScreenInv`
adds to the property what keeps it: `OpenedIsAway` (nothing of a conversation being
opened is on the screen or in flight, so its transcript cannot come beside itself) and
`Waited` (while the user waits, a transcript on its way belongs to the empty
conversation on the screen). `FreshIdIsFresh` counts: more ids than exchanges leave one.

`ReadsAlwaysProved` assumes `ToolboxSettings` and that results are sequences. `ToolboxInv`
dates what each request was told: a flag that says the role is proved was set by a proof,
a schema in use is no older than its life and one timeout, and one request at a time
reads the schema (`OneReader`). `ToldInv` is about replies: rows kept fit the limit in
bytes, and a failure is retryable exactly if the transport failed. `EachByItsOwnBranch`
is the fact about `normalize_error` that it needs.

`RepliesAlwaysAccounted` assumes finitely many calls. `GatewayInv` says that the counters are
the cardinalities of the sets of calls sent and answered, which is why the interleaving of
calls and failures loses none.

`VerdictsAlwaysAboutTheTurn` assumes `HarnessSettings` (datasets are sequences of cases of
the three behaviors). `HarnessInv` ties the recording gateways to the turn of the case
under way, so each result is judged by its own turn (`JudgedByTurn`), and the summary
counts every case once, overall and by category.

`NoFigureIsInvented` is about any rows and numerals: a figure accepted equals a value of
the rows, is within half of its last decimal of one (`HalfUpIsNear`), or counts or ranks the
rows in words that say so. `LineageIsTrue` assumes
`ReadsItsSources` (a column reads one of the statement's sources) and says of a
statement without common table expressions whose names are unambiguous that no table is left
out and a column is attributed to the table it is read from or to none.

`CalendarTiles`, `ComparisonsKeepShape` and `PlansAreDecided` together are `PeriodsAreExact`.
The first lemmas are about days: `Ordinal` numbers the dates without a gap, `Date` is its
inverse, no month is shorter than it is in a common year (`ShortestMonths`). A period
is an interval of such numbers, so that tiling, covering today, abutting and equal length
become arithmetic (`ShiftedYear`: a year back is 365 or 366 days). `PlansAreDecided` goes
by `Rungs`: a rung holds with a candidate every one like it (`RungsAre`), so a rung with
one member settles nothing that a like candidate could dispute (`ChosenIsUsable`). The hypotheses: `Amid`, a moment about 22 years or more from the ends of the
calendar `date` has; `ValidFiscalStart`; for the tiling `TurnsAlike`, that the day the year starts on exists in
every month a fiscal quarter may start in (a year from the 31st of January does not tile,
section 5); `DescribesARealPeriod`, the code's own check of an intent; `Listed`,
that the store lists each dimension once.

`NamesResolveToOne` and `SamplesAgreeWithRows` are about any words, rows and settings of the
lookup (`LookupSettings`, `Spoken`, `Keyed`: texts are sequences of known tokens, and every
label has a word). The words of a text are given by counting places
(`WordsAddUp`, `WordsAreThose`), so that a label among the search terms, which are windows of
the question (`TermsAreWindows`), has its words side by side in the question
(`WordsOfAWindow`, `WindowsAreContained`). `AnsweringAre` says which rows the first attempt
with a hit returns: they are of one strategy and one term, so a second row of one label
answers whenever the first does, unless a strategy looked at the key. That no other row
found is named as well is the ladder's doing: it stops at the first rung that any
candidate is on, and one alone there has no other on that rung or above it. What the
lookups did not find is not spoken of beyond the label: a row past the limit, or of a later
attempt than the first with a hit. The proof
attempt corrected the property: a sampled value has no key, so a label that itself reads
like an identifier is taken for one, and live lookup and samples may then differ.
`AgreesWithSamples` excepts such labels.

### `ServiceProofs`

The theorems above are about the modules; the run `service` checks their instances inside
`MCService`. `ServiceProofs` instantiates the proofs as `MCService` instantiates the modules,
shows that both instances define the same operators (the lemmas `Same...`), discharges
every hypothesis for the instance (the lemmas `...OfThisInstance` and their like), and concludes
the properties under the names the run checks. Two of them join several components:
`ReadsArePermitted` (toolbox, previews, both policies) and `NewestVerdictStands` (runs of the
checks and their verdicts). Two assumptions are left, both evaluated by TLC in the run:
`NilAssumption`, that `Nil` is none of the values it is used beside, and `CheckersAssumption`,
that the runs of the checks are finitely many.

### Only model-checked

`QueuedIsServed`, `TurnEnds` and `RequestEnds` are liveness under fairness, which is beyond the
prover (it has no rules for `ENABLED`). Of the disagreements of section 5 there is nothing to
prove. Induction over data is out of reach too, since its theorems take an operator as a
parameter; wherever a proof would have used it, the module states the computation without
recursion, or the well-foundedness of `<` takes its place (`OldestFirst`, `LeastOf`,
`WordsAreThose`).

## 5. Where code and documentation disagree

Three disagreements are runs whose property TLC refutes.

| Run | Documented | What the code does |
|---|---|---|
| `learning_unreadable` | `triggers.py:84` "already has a candidate of any status" | the five learned types are stored but not readable, so their cluster is generated for again |
| `turn_rows` | repository `README.md:85` "No cached answer or remembered number replaces the live database result" | `analytical_result` survives into a turn that asks back or is blocked, and the response carries its rows |
| `catalog_temporal` | `onboarding.py:9` "Nothing approved is deleted" | every save of the model deletes the confirmed temporal dimensions by a cascade |

More are stated in the modules and refuted by configurations kept beside them (one
property at a time for `MCServiceDisagreements.cfg`).

| Configuration | Documented | What the code does |
|---|---|---|
| `MCLearningLoopStop.cfg` | `worker.py:73` "another worker may retry it" | a row left RUNNING by a stop or a failed tick is never claimed again, and the open-job index then blocks its cluster |
| `MCSemanticCatalogLostReview.cfg` | `knowledge_routes.py:377` "a schema change never silently discards review" | a verdict saved while a scan runs is overwritten by the scan's older copy |
| `ClosedAtShutdown`, as the INVARIANT of `MCDatasourceGateways.cfg` | `execution.py:21` "closed together at shutdown" | a request that outlives the eviction of its gateway opens a pool on it that nothing closes |
| `ProvenanceNamesWhatShaped`, as the INVARIANT of `MCAgentTurnRows.cfg` | `analytics.py:218` "Reviewed knowledge that actually shaped this answer. Recorded so an auditor can tell whether an approved business definition was applied, and equally that an unrelated one was not." | `metric_query`, `metric_result` and the applied guidance are not reset (`graph.py:315`), so an ad hoc answer after a governed turn names that turn's metric, source and tables, and a governed one an earlier turn's guidance |
| `RepairHintIsOwn`, as the INVARIANT of `MCAgentTurnRows.cfg` | `state.py:57` "Set when a valid statement dropped the requested period, so the one bounded repair attempt knows what to put back." | the hint is not reset either, and `_sql_repair_prompt` (`graph.py:1467`) adds whatever hint there is to the repair of any mistake |
| `MCServiceDisagreements.cfg`, `NewChatIsNew` | `use-conversation.ts:284` "a new chat cannot silently continue the previous conversation's analytical context" | a transcript still on its way when a new analysis starts sets the old thread |
| `QuestionKeepsItsOutcome` | `use-conversation.ts:26` "One question and its outcome" | a question asked while a transcript is on its way is replaced by it: its outcome is shown nowhere, and Stop is offered for what is not on the screen |
| `FollowUpContinuesHistory` | `use-conversation.ts:302` "the follow-up the user types next continues the same analytical context that produced the history they are looking at" | the answer to a question so replaced sets the thread it was asked on |
| `LineageIsExact` | `lineage.py:122` "attributed only when the reference says which table it came from" | a column of a common table expression goes to the only real table; a table of the expression's name is hidden; an alias equal to another table's name overwrites it |
| `CertifiedIsRetrievable` | `knowledge/runtime.py:133`, on reindexing after a certification | two reindexes may finish in the other order, and the older reading stays |
| `IdentifierResolves` | `entities.py:505` "an identifier-like token quoted verbatim" | a key normalised into several words is not found by its token |
| `ReadAsSaid` | `parser.py:148`, on comparisons that name no period | a phrase of a comparison is read as a period as well |

Seen while reading, with no run of their own: a released job may be claimed again
within the same tick (`worker.py:110`); a clarification of the governed route records no
options to choose from (`graph.py:581`); a reply's evidence is stored under the
reply's text (`graph.py:1770`); a join over a dropped column stays CONFIRMED
(`discovery.py:498`, hence `ScanMarksWhatBroke` speaks of tables and columns); the
scope of an example's validation may come from a cached schema (`postgres.py:209`); a
scan that fails after recording the fingerprint leaves outdated examples usable
(`knowledge_routes.py:451`, hence `UsableExamplesMatch` without faults); rejecting a
candidate after its approval leaves what was promoted in force (`candidates.py:491`);
fiscal years do not tile that start on a day which some month a quarter starts in has not (`resolver.py:12`); a
migration file added below the newest applied version runs out of order
(`migrations.py:105`); a lookup that finds one of two names a question contains stops
there (`entity_values.py:150`); a transcript that fails to load leaves the old thread
under the new conversation (`use-conversation.ts:315`, hence `strayed`); a reviewer
with no readable table is refused by the local policy and admitted by OPA
(`local.py:76`); previews that end early leave the governance client open
(`knowledge_routes.py:719`); malformed rows from MCP Toolbox reach the client as an
internal error (`toolbox.py:304`); a role is proved read-only once per gateway
(`toolbox.py:245`, hence `ReadsArePermitted` says "never shown").

## 6. What is not modelled

* Text: prompts, the patterns themselves, clustering by fingerprint, wording. Each is a
  choice over its outcomes or a set of signs.
* Retrieval and embeddings: numeric ranking of vectors from a service. The promotion of
  learned knowledge, which no candidate read back from PostgreSQL reaches.
* Daylight saving (a zone is a constant offset), and the explicit range of a time intent,
  which no reading of a phrase produces.
* Parsing of SQL and verification of signatures, which are libraries'.
* Observability (no state of the program depends on it), and of governance metadata
  all but the classification: it only enriches prompts.
* The components of an approved metric beyond its dependencies: units, the arithmetic of
  an expression; the request formats of the metric engines.
* Settings and start-up other than migrations, and routes that only read.
* Creating an assertion or registering a datasource: single writes of a new row.
* Rendering in the browser; the script that builds the benchmark; deployment files
  other than the policy and the table constraints the modules use.

`PROJECT.json` states for each component whether it is modelled, partly, or not.

## 7. Plan

1. *(done)* `LearningLoop` with `ProposalLifecycle`, its runs and proofs; `AgentTurn`;
   `SemanticCatalog`.
2. *(done)* `KnowledgeReview` and its proofs.
3. *(done)* `DatasourceGateways`; `Conversations`, `Workspace`, quality, evaluations, model
   gateway, metric selection, routing, migrations, keys, toolbox, previews, harness; the
   algorithms against their references.
4. *(done)* Proofs of the safety properties of `LearningLoop`, `AgentTurn`,
   `SemanticCatalog`, `KnowledgeReview` and `DatasourceGateways`.
5. *(done)* Proofs about every part of `MCService`, the algorithms included, carried over to
   the properties its run checks.
6. `KnowledgeReview` extended by dimensions and by rejection after approval.

## 8. Running it

```
tlc -config MCLearningLoop.cfg MCLearningLoop     # likewise for the other .cfg files
tlapm LearningLoopProofs.tla                      # likewise for the other *Proofs.tla modules
```

`PROJECT.json` names each run's configuration, the properties it checks, for every
definition the lines it models, and for every property a change of the code it detects.

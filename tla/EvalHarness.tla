---------------------------- MODULE EvalHarness ----------------------------
(***************************************************************************)
(* The offline evaluation harness (app/evals/runner.py,                    *)
(* app/evals/comparison.py): every case of a dataset is put to a fresh     *)
(* graph through gateways that record what happened, after the questions   *)
(* it follows up on, if any; what they recorded is turned into metrics, a  *)
(* verdict and a summary. What a turn does inside the graph is the module  *)
(* AgentTurn.                                                              *)
(*                                                                         *)
(* A row of a result is abstracted to a value, and the assertions of an    *)
(* expected row to the set of values that satisfy them.                    *)
(***************************************************************************)
EXTENDS Naturals, Sequences, FiniteSets

CONSTANTS
    Datasets,  \* sequences of [behavior, follows, expected, ordered, category]
    Rows,      \* results a query may return
    Backends,  \* {"fake", "postgres"}
    Modes      \* {"full", "sql"}

VARIABLES
    backend, mode, dataset,   \* of this run
    case,            \* index of the case being run
    stage,
    db,              \* TimedDatabaseGateway: attempted, succeeded
    llm,             \* TimedLLMGateway: valid, sql = the last statement it gave
    turn,            \* the state the case's own turn left, or how it failed
    results          \* one per case that was run

hvars == <<backend, mode, dataset, case, stage, db, llm, turn, results>>

Case == dataset[case]

(* A generated statement: whether the validator accepts it and whether it
   reads the tables the case names; one that does not parse is neither. *)
NoSql == [given |-> FALSE, safe |-> FALSE, relevant |-> FALSE]
Statement == [given : {TRUE}, safe : BOOLEAN, relevant : BOOLEAN] \cup {NoSql}

(* How a turn may end: with an answer from rows it read; by asking back or by
   refusing; with a statement the validator rejects (SQLValidationError); with
   an exception of a provider (_classify_infrastructure_error) or any other. *)
TurnEnds == {"answered", "clarified", "blocked", "rejected", "infrastructure", "broke"}

Completed(end) == end \in {"answered", "clarified", "blocked"}

Unrun == [end |-> "none", sql |-> NoSql, rows |-> <<>>, accurate |-> FALSE, grounded |-> FALSE]

HarnessInit ==
    /\ backend \in Backends /\ mode \in Modes /\ dataset \in Datasets
    /\ case = 1 /\ stage = "start"
    /\ db = [attempted |-> FALSE, succeeded |-> FALSE]
    /\ llm = [valid |-> TRUE, sql |-> NoSql]
    /\ turn = Unrun
    /\ results = <<>>

(* _run_case: new recording gateways, and a checkpointer for a follow-up. *)
StartCase ==
    /\ stage = "start"
    /\ case <= Len(dataset)
    /\ stage' = IF Case.follows THEN "before" ELSE "ask"
    /\ db' = [attempted |-> FALSE, succeeded |-> FALSE]
    /\ llm' = [valid |-> TRUE, sql |-> NoSql]
    /\ turn' = Unrun
    /\ UNCHANGED <<backend, mode, dataset, case, results>>

(* What the recording gateways see of a turn: a statement, unless the model
   gave none, and whether one ran: one that failed to run may be followed by
   another. A reply that is not of the expected form ends the turn. *)
Records(end, sql, ran) ==
    /\ end = "answered" => sql # NoSql /\ sql.safe /\ ran = "succeeded"
    /\ end \in {"clarified", "blocked"} => sql = NoSql /\ ran = "no"
    /\ end = "rejected" => sql # NoSql /\ ~sql.safe /\ ran # "succeeded"
    /\ ran # "no" => sql # NoSql
    /\ db' = [attempted |-> db.attempted \/ ran # "no",
              succeeded |-> db.succeeded \/ ran = "succeeded"]
    /\ llm' = [valid |-> llm.valid /\ ~(end = "broke" /\ sql = NoSql),
               sql |-> IF sql = NoSql THEN llm.sql ELSE sql]

(* A question the case follows up on; an exception of its turn ends the case. *)
AskBefore(end, sql, ran) ==
    /\ stage = "before"
    /\ Records(end, sql, ran)
    /\ IF Completed(end) THEN stage' = "ask" /\ UNCHANGED turn
                         ELSE stage' = "score" /\ turn' = [Unrun EXCEPT !.end = end]
    /\ UNCHANGED <<backend, mode, dataset, case, results>>

(* The case's own question. An exception leaves no result of the graph. *)
AskCase(end, sql, ran, rows, accurate, grounded) ==
    /\ stage = "ask"
    /\ Records(end, sql, ran)
    /\ rows # <<>> => end = "answered"
    /\ stage' = "score"
    /\ turn' = IF Completed(end)
               THEN [end |-> end, sql |-> sql, rows |-> rows,
                     accurate |-> accurate, grounded |-> grounded]
               ELSE [Unrun EXCEPT !.end = end]
    /\ UNCHANGED <<backend, mode, dataset, case, results>>

-----------------------------------------------------------------------------
(* compare_case_results: as many rows as expected, and each expected row takes
   a row: its own where order matters, else the first that fits of those the
   expected rows before it have left. *)
Compare(c, rows) ==
    /\ Len(rows) = Len(c.expected)
    /\ \E taken \in [DOMAIN rows -> DOMAIN rows] : \A i \in DOMAIN rows :
         LET left == DOMAIN rows \ {taken[k] : k \in 1..(i - 1)}
             fits == {j \in (IF c.ordered THEN {i} ELSE left) : rows[j] \in c.expected[i]}
         IN  taken[i] \in fits /\ \A j \in fits : taken[i] <= j

(* _generated_sql: of the turn's state, else the last one the model gave. *)
GeneratedSql == IF turn.sql # NoSql THEN turn.sql ELSE llm.sql

B(value) == IF value THEN "yes" ELSE "no"

(* A slip: the gateway's flag stands for the turn's own statement. *)
ProvenanceComplete_Executed(c) ==
    IF c.behavior = "clarify" THEN turn.end \in {"clarified", "blocked"}
    ELSE db.succeeded

(* _provenance_complete: the turn's own statement, and its rows counted. *)
ProvenanceComplete(c) ==
    IF c.behavior = "clarify" THEN turn.end \in {"clarified", "blocked"}
    ELSE turn.end = "answered"

NoMetrics == [completed |-> "na", valid |-> "na", relevant |-> "na", safe |-> "na",
              executed |-> "na", result |-> "na", answer |-> "na", grounded |-> "na",
              provenance |-> "na", unsupported |-> FALSE, unmutated |-> "na",
              outcome |-> "na", clarified |-> "na"]

(* _case_metrics: nothing of a case that met an infrastructure error; of the
   others what their expected behavior is judged by. *)
CaseMetrics(c) ==
    LET sql == GeneratedSql
        base == [NoMetrics EXCEPT !.completed = B(Completed(turn.end)), !.valid = B(llm.valid)]
    IN CASE turn.end = "infrastructure" -> NoMetrics
         [] turn.end # "infrastructure" /\ c.behavior = "block" ->
              [base EXCEPT !.relevant = IF sql = NoSql THEN "na" ELSE B(sql.relevant),
                 !.safe = B(turn.end = "rejected" /\ sql # NoSql /\ ~sql.safe),
                 !.unmutated = B(~db.attempted),
                 !.outcome = B(turn.end \in {"rejected", "clarified", "blocked"} /\ ~db.attempted)]
         [] turn.end # "infrastructure" /\ c.behavior = "clarify" ->
              [base EXCEPT !.answer = IF mode = "full" THEN B(turn.accurate) ELSE "na",
                 !.provenance = B(ProvenanceComplete(c)),
                 !.clarified = B(turn.end = "clarified" /\ ~db.attempted /\ sql = NoSql)]
         [] OTHER ->
              [base EXCEPT !.relevant = IF sql = NoSql THEN "na" ELSE B(sql.relevant),
                 !.safe = IF sql = NoSql THEN "na" ELSE B(sql.safe),
                 !.executed = IF backend = "fake" THEN "na" ELSE B(db.succeeded),
                 !.result = IF backend = "fake" THEN "na" ELSE B(Compare(c, turn.rows)),
                 !.answer = IF mode = "full" THEN B(turn.accurate) ELSE "na",
                 !.grounded = IF mode = "full" THEN B(turn.grounded) ELSE "na",
                 !.unsupported = mode = "full" /\ ~turn.grounded,
                 !.provenance = B(ProvenanceComplete(c))]

(* The metrics a case is judged by, as _case_passed ... *)
Judged(c) ==
    CASE c.behavior = "block" -> {"valid", "unmutated", "outcome"}
      [] c.behavior = "clarify" -> {"completed", "valid", "provenance", "clarified"}
                                     \cup (IF mode = "full" THEN {"answer"} ELSE {})
      [] c.behavior = "allow" -> {"completed", "valid", "relevant", "safe", "executed", "result",
                                  "provenance"}
                                   \cup (IF mode = "full" THEN {"answer", "grounded"} ELSE {})

(* ... which an allowed case may leave open, the other two may not ... *)
CasePassed(c, m) ==
    /\ \A name \in Judged(c) : IF c.behavior = "allow" THEN m[name] # "no" ELSE m[name] = "yes"
    /\ c.behavior = "allow" => ~m.unsupported

(* ... and as _failed_metrics names them. *)
FailedMetrics(c, m) ==
    {name \in Judged(c) : m[name] = "no"} \cup (IF m.unsupported THEN {"unsupported"} ELSE {})

(* The rest of _run_case: verdict and kind of failure. With deterministic
   replies a failure is the model's only when its output was. *)
Score(c) ==
    LET m == CaseMetrics(c)
        passed == turn.end # "infrastructure" /\ CasePassed(c, m)
    IN [category |-> c.category, behavior |-> c.behavior, passed |-> passed,
        failed |-> FailedMetrics(c, m),
        failure |-> CASE passed -> "none"
                      [] ~passed /\ turn.end = "infrastructure" -> "infrastructure"
                      [] ~passed /\ turn.end # "infrastructure"
                           /\ (~llm.valid \/ GeneratedSql = NoSql) -> "model"
                      [] OTHER -> "expectation",
        turn |-> turn, attempted |-> db.attempted, expects |-> c]

(* run_evaluations goes on to the next case. *)
ScoreCase ==
    /\ stage = "score"
    /\ results' = Append(results, Score(Case))
    /\ case' = case + 1
    /\ stage' = "start"
    /\ UNCHANGED <<backend, mode, dataset, db, llm, turn>>

(* Whatever a turn does: a statement or none, run or not. *)
HarnessNext ==
    \/ StartCase
    \/ \E end \in TurnEnds, sql \in Statement, ran \in {"no", "failed", "succeeded"} :
         \/ AskBefore(end, sql, ran)
         \/ \E rows \in Rows, accurate \in BOOLEAN, grounded \in BOOLEAN :
               AskCase(end, sql, ran, rows, accurate, grounded)
    \/ ScoreCase

HarnessSpec == HarnessInit /\ [][HarnessNext]_hvars

-----------------------------------------------------------------------------
PassedCases == {i \in DOMAIN results : results[i].passed}

ScoredCases == {i \in DOMAIN results : results[i].failure # "infrastructure"}

(* The cases of a category. *)
Of(cases, category) == {i \in cases : results[i].category = category}

(* _summarize and _dimension_summary *)
Summary ==
    [total |-> Len(results), passed |-> Cardinality(PassedCases),
     failed |-> Len(results) - Cardinality(PassedCases),
     scored |-> Cardinality(ScoredCases),
     infrastructure |-> Cardinality(DOMAIN results \ ScoredCases),
     model |-> Cardinality({i \in DOMAIN results : results[i].failure = "model"}),
     categories |-> [c \in {results[i].category : i \in ScoredCases} |->
        [total |-> Cardinality(Of(ScoredCases, c)),
         passed |-> Cardinality(Of(ScoredCases \cap PassedCases, c))]]]
-----------------------------------------------------------------------------
(* Some way of giving every expected row a row of its own. *)
Pairs(c, rows) ==
    /\ Len(rows) = Len(c.expected)
    /\ \E give \in [DOMAIN rows -> DOMAIN rows] :
         \A i \in DOMAIN rows :
            /\ rows[give[i]] \in c.expected[i]
            /\ c.ordered => give[i] = i
            /\ \A j \in DOMAIN rows : i # j => give[i] # give[j]

(* What a verdict says of the turn it was given for. *)
JudgedByTurn(r) ==
    /\ r.passed =>
         CASE r.behavior = "allow" ->
                /\ r.turn.end = "answered" /\ r.turn.sql.safe /\ r.turn.sql.relevant
                /\ backend # "fake" => Pairs(r.expects, r.turn.rows)
                /\ mode = "full" => r.turn.accurate /\ r.turn.grounded
           [] r.behavior = "block" ->
                r.turn.end \in {"rejected", "clarified", "blocked"} /\ ~r.attempted
           [] r.behavior = "clarify" -> r.turn.end = "clarified" /\ ~r.attempted
    /\ (r.failure = "infrastructure") = (r.turn.end = "infrastructure")
    /\ r.failure # "infrastructure" => (r.passed = (r.failed = {}))

(* The categories' passed cases, one by one. *)
PassedByCategory ==
    UNION {{c} \X (1..Summary.categories[c].passed) : c \in DOMAIN Summary.categories}

(* A case passes on what its own turn did, although gateways and model record
   the turns before it too: an allowed one on a statement of its own that read
   the right tables and returned the right rows, a forbidden one when nothing
   of it ran, an unclear one when it asked back; a case that is scored fails
   exactly when a metric is named, and the summary counts every case once
   (runner.py:256-455, 604-686, 796-870). *)
VerdictIsAboutTheTurn ==
    /\ \A i \in DOMAIN results : JudgedByTurn(results[i])
    /\ Summary.scored + Summary.infrastructure = Summary.total
    /\ Summary.passed <= Summary.scored
    /\ Summary.passed = Cardinality(PassedByCategory)

-----------------------------------------------------------------------------
(* What the theorems suppose and the invariant they rest on. *)

(* A dataset is a sequence of cases of three behaviors, a result of a query a
   sequence of rows. *)
HarnessSettings ==
    /\ \A d \in Datasets : /\ d \in Seq({d[i] : i \in DOMAIN d})
                           /\ \A i \in DOMAIN d : d[i].behavior \in {"allow", "block", "clarify"}
    /\ \A rows \in Rows : rows \in Seq({rows[i] : i \in DOMAIN rows})

Cases == UNION {{d[i] : i \in DOMAIN d} : d \in Datasets}

TurnLeft == [end : TurnEnds \cup {"none"}, sql : Statement, rows : Rows \cup {<<>>},
             accurate : BOOLEAN, grounded : BOOLEAN]

Verdict == [category : {c.category : c \in Cases}, behavior : {"allow", "block", "clarify"},
            passed : BOOLEAN, failed : SUBSET DOMAIN NoMetrics,
            failure : {"none", "infrastructure", "model", "expectation"},
            turn : TurnLeft, attempted : BOOLEAN, expects : Cases]

HarnessTyped ==
    /\ dataset \in Datasets
    /\ case \in Nat \ {0}
    /\ stage \in {"start", "before", "ask", "score"}
    /\ stage # "start" => case <= Len(dataset)
    /\ db \in [attempted : BOOLEAN, succeeded : BOOLEAN]
    /\ llm \in [valid : BOOLEAN, sql : Statement]
    /\ turn \in TurnLeft
    /\ results \in Seq(Verdict)

(* An answered turn generated a statement of its own and it was accepted. *)
HarnessInv ==
    /\ HarnessTyped
    /\ turn.end = "answered" => turn.sql # NoSql /\ turn.sql.safe
    /\ \A i \in DOMAIN results : JudgedByTurn(results[i])
=============================================================================

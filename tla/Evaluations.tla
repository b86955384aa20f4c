---------------------------- MODULE Evaluations ----------------------------
(***************************************************************************)
(* Benchmarks of the analysis: EvaluationRunner                            *)
(* (app/knowledge/evaluation_runner.py) asks every active case a few at a  *)
(* time, compares the answers, records the run in one transaction          *)
(* (postgres_evaluation.py), and the routes (app/api/evaluation_routes.py) *)
(* report how each case moved since another run.  Runs may overlap, and    *)
(* cases are edited and archived meanwhile.                                *)
(***************************************************************************)
EXTENDS EvaluationCompare

CONSTANTS
    Cases,        \* case ids
    RunIds,       \* POST .../evaluation-runs, each handled once
    Concurrency,  \* cases of a run in flight at once
    NoRun         \* no run to compare with

VARIABLES
    active,   \* cases whose status is ACTIVE
    evals,    \* the runs in flight
    stored,   \* ids of the runs recorded
    instant   \* started_at of the last run started

evars == <<active, evals, stored, instant>>

EvalOutcomes == {"PASS", "FAIL", "ERROR"}

EvalInit ==
    /\ active \in SUBSET Cases
    /\ evals = [r \in RunIds |->
                  [pc |-> "idle", started |-> 0, asked |-> {}, flying |-> {},
                   results |-> << >>, previous |-> NoRun]]
    /\ stored = {}
    /\ instant = 0

(* create_evaluation_case, update_evaluation_case: a case becomes active   *)
(* or archived; a change of its question or expectation is seen by the     *)
(* next run that reads it.                                                 *)
SaveCase(c) ==
    /\ active' = IF c \in active THEN active \ {c} ELSE active \cup {c}
    /\ UNCHANGED <<evals, stored, instant>>

(* run: the active cases are read once, at the start.                      *)
StartEvaluation(r) ==
    /\ evals[r].pc = "idle"
    /\ instant' = instant + 1
    /\ evals' = [evals EXCEPT ![r].pc = "asking", ![r].started = instant + 1,
                              ![r].asked = active]
    /\ UNCHANGED <<active, stored>>

(* one(case): the limiter admits it and the question is asked.             *)
AskQuestion(r, c) ==
    /\ evals[r].pc = "asking"
    /\ c \in evals[r].asked \ (evals[r].flying \cup DOMAIN evals[r].results)
    /\ Cardinality(evals[r].flying) < Concurrency
    /\ evals' = [evals EXCEPT ![r].flying = @ \cup {c}]
    /\ UNCHANGED <<active, stored, instant>>

WithResult(results, c, o) ==
    [x \in DOMAIN results \cup {c} |-> IF x = c THEN o ELSE results[x]]

(* _evaluate: a request that fails, or ends in a clarification or a        *)
(* refusal, is an ERROR; otherwise compare decides.                        *)
Evaluated(r, c) ==
    /\ c \in evals[r].flying
    /\ \E o \in EvalOutcomes :
         evals' = [evals EXCEPT ![r].flying = @ \ {c},
                                ![r].results = WithResult(@, c, o)]
    /\ UNCHANGED <<active, stored, instant>>

RecordRun_Unfinished(r) ==
    /\ evals[r].pc = "asking"
    /\ evals[r].flying = {}
    /\ stored' = stored \cup {r}
    /\ evals' = [evals EXCEPT ![r].pc = "recorded"]
    /\ UNCHANGED <<active, instant>>

(* gather has every result: the run and its results are inserted in one    *)
(* transaction, or the request fails and nothing is.                       *)
RecordRun(r) ==
    /\ evals[r].pc = "asking"
    /\ DOMAIN evals[r].results = evals[r].asked
    /\ \/ /\ stored' = stored \cup {r}
          /\ evals' = [evals EXCEPT ![r].pc = "recorded"]
       \/ /\ UNCHANGED stored
          /\ evals' = [evals EXCEPT ![r].pc = "failed"]
    /\ UNCHANGED <<active, instant>>

(* The newest of a set of runs, ORDER BY started_at DESC.                  *)
NewestRun(runs) ==
    CHOOSE r \in runs : \A q \in runs : evals[q].started <= evals[r].started

(* _previous_run: the newest recorded run that is not this one.            *)
Report(r) ==
    /\ evals[r].pc = "recorded"
    /\ LET others == stored \ {r}
       IN evals' = [evals EXCEPT ![r].pc = "reported",
             ![r].previous = IF others = {} THEN NoRun ELSE NewestRun(others)]
    /\ UNCHANGED <<active, stored, instant>>

EvalNext ==
    \/ \E c \in Cases : SaveCase(c)
    \/ \E r \in RunIds : \/ StartEvaluation(r) \/ RecordRun(r) \/ Report(r)
                         \/ \E c \in Cases : AskQuestion(r, c) \/ Evaluated(r, c)

EvalSpec == EvalInit /\ [][EvalNext]_evars

----------------------------------------------------------------------------
Movements_ErrorIsNew(current, previous) ==
    [c \in DOMAIN current |->
        CASE c \notin DOMAIN previous \/ current[c] = "ERROR" -> "NEW"
          [] c \in DOMAIN previous /\ previous[c] = "PASS" ->
               IF current[c] = "PASS" THEN "UNCHANGED_PASS" ELSE "REGRESSION"
          [] OTHER -> IF current[c] = "PASS" THEN "IMPROVED" ELSE "UNCHANGED_FAIL"]

(* movements: how each case of a run moved since the other one.            *)
Movements(current, previous) ==
    [c \in DOMAIN current |->
        CASE c \notin DOMAIN previous -> "NEW"
          [] c \in DOMAIN previous /\ previous[c] = "PASS" ->
               IF current[c] = "PASS" THEN "UNCHANGED_PASS" ELSE "REGRESSION"
          [] OTHER -> IF current[c] = "PASS" THEN "IMPROVED" ELSE "UNCHANGED_FAIL"]

(* The recorded runs that started before a run.                           *)
Earlier(r) == {q \in stored : evals[q].started < evals[r].started}

(* list_evaluation_runs: the recorded runs, each against the newest one    *)
(* that started before it; the oldest of the page against none.            *)
Listing ==
    [r \in stored |-> Movements(evals[r].results,
                               IF Earlier(r) = {} THEN << >>
                               ELSE evals[NewestRun(Earlier(r))].results)]

(* A recorded run is whole: it has one result for every case that was      *)
(* active when it started and for no other, however its cases interleaved  *)
(* and whatever was archived meanwhile, and never more than Concurrency    *)
(* questions were in flight.                                               *)
RunIsWhole ==
    \A r \in RunIds :
        /\ r \in stored => /\ DOMAIN evals[r].results = evals[r].asked
                           /\ evals[r].flying = {}
        /\ Cardinality(evals[r].flying) <= Concurrency
        /\ evals[r].flying \cap DOMAIN evals[r].results = {}

(* The movements a page of runs shows add up: of a case that every listed  *)
(* run has, improvements less regressions are the difference between its   *)
(* last and its first outcome, so no regression is shown twice or lost.    *)
MovementsAddUp ==
    LET passes(r, c) == IF evals[r].results[c] = "PASS" THEN 1 ELSE 0
        shown(c, m) == Cardinality({r \in stored : Listing[r][c] = m})
    IN \A c \in Cases, first, last \in stored :
         /\ \A r \in stored : c \in DOMAIN evals[r].results
         /\ Earlier(first) = {} /\ last = NewestRun(stored)
         => passes(first, c) + shown(c, "IMPROVED") = passes(last, c) + shown(c, "REGRESSION")

(* What the runner is given: a limit on the questions in flight. *)
EvalSettings == Concurrency \in Nat \ {0}

EvalResults == UNION {[S -> EvalOutcomes] : S \in SUBSET Cases}

EvalRun ==
    [pc : {"idle", "asking", "recorded", "reported", "failed"},
     started : Nat, asked : SUBSET Cases, flying : SUBSET Cases,
     results : EvalResults,
     previous : RunIds \cup {NoRun}]

EvalTyped ==
    /\ active \subseteq Cases
    /\ stored \subseteq RunIds /\ IsFiniteSet(stored)
    /\ instant \in Nat
    /\ evals \in [RunIds -> EvalRun]

(* A case of a run is waiting, in flight or answered; a run is recorded when all
   are answered, and none changes it afterwards. *)
RunInv(r) ==
    /\ evals[r].flying \subseteq evals[r].asked /\ IsFiniteSet(evals[r].flying)
    /\ Cardinality(evals[r].flying) <= Concurrency
    /\ DOMAIN evals[r].results \subseteq evals[r].asked
    /\ evals[r].flying \cap DOMAIN evals[r].results = {}
    /\ evals[r].pc = "idle" => evals[r].flying = {} /\ DOMAIN evals[r].results = {}
    /\ evals[r].pc \notin {"idle", "asking"} =>
         DOMAIN evals[r].results = evals[r].asked /\ evals[r].flying = {}
    /\ r \in stored <=> evals[r].pc \in {"recorded", "reported"}

(* No two runs start at the same time (started_at). *)
RunsApart ==
    /\ \A r \in RunIds : evals[r].pc # "idle" => evals[r].started \in 1..instant
    /\ \A r, q \in RunIds :
         evals[r].pc # "idle" /\ evals[q].pc # "idle" /\ evals[r].started = evals[q].started => r = q

EvalInv == EvalTyped /\ (\A r \in RunIds : RunInv(r)) /\ RunsApart
=============================================================================

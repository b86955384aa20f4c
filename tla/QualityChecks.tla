---------------------------- MODULE QualityChecks ----------------------------
(***************************************************************************)
(* Data quality: reviewers configure assertions about a table              *)
(* (app/api/quality_routes.py), QualityRunner measures every enabled one   *)
(* and records a verdict (app/knowledge/quality_runner.py, quality.py),    *)
(* the store keeps the newest verdicts (postgres_quality.py), and an       *)
(* answer that read the table carries the concerning ones.  What a check   *)
(* measures and concludes is the module QualityVerdicts.                   *)
(***************************************************************************)
EXTENDS QualityVerdicts

CONSTANTS
    Assertions,  \* the configured assertions, in order of name (a sequence)
    Tables,      \* contents the table may have
    Runners,     \* concurrent POST .../quality/run
    MaxChecks,   \* bound on the checks made
    Retained     \* RETAINED_RESULTS

VARIABLES
    data,      \* what the table holds now
    enabled,   \* the assertions' switch
    results,   \* knowledge.quality_check_results, by assertion
    clock,     \* checked_at of the last check
    runner,    \* the runs in flight
    toggling,  \* a toggle that has read its row
    newest     \* history: the newest verdict ever recorded, by assertion

qualityVars == <<data, enabled, results, clock, runner, toggling, newest>>

Ids == DOMAIN Assertions

----------------------------------------------------------------------------
Concerning == {"STALE", "FAILING"}

----------------------------------------------------------------------------
Result == [at : Nat, status : {"HEALTHY", "WARNING", "STALE", "FAILING", "UNKNOWN"}]

NotRunning == [pc |-> "idle", todo |-> {}, done |-> <<>>, doomed |-> {}]

NoResult == [at |-> 0]

QualityInit ==
    /\ data \in Tables
    /\ enabled \in [Ids -> BOOLEAN]
    /\ results = [i \in Ids |-> {}]
    /\ clock = 0
    /\ runner = [r \in Runners |-> NotRunning]
    /\ toggling = Null
    /\ newest = [i \in Ids |-> NoResult]

(* The table is loaded, or stops being loaded.                             *)
Load ==
    /\ data' \in Tables
    /\ UNCHANGED <<enabled, results, clock, runner, toggling, newest>>

(* run_all reads the enabled assertions, which it checks by name.          *)
StartRun(r) ==
    /\ runner[r] = NotRunning
    /\ clock < MaxChecks
    /\ runner' = [runner EXCEPT ![r].pc = "checking",
                    ![r].todo = {i \in Ids : enabled[i]}]
    /\ UNCHANGED <<data, enabled, results, clock, toggling, newest>>

(* run_one: a statement that does not pass validation, or fails, is        *)
(* UNKNOWN; otherwise what was measured is interpreted.                    *)
Check(r) ==
    /\ runner[r].pc = "checking"
    /\ clock < MaxChecks
    /\ clock' = clock + 1
    /\ \E i \in runner[r].todo :
          /\ \A j \in runner[r].todo : i <= j
          /\ \E status \in {"UNKNOWN", Interpret(Assertions[i], Observed(Assertions[i], data))} :
                runner' = [runner EXCEPT
                    ![r].todo = @ \ {i},
                    ![r].done = Append(@, [id |-> i, at |-> clock + 1, status |-> status])]
    /\ UNCHANGED <<data, enabled, results, toggling, newest>>

Verdict(done) == [at |-> done.at, status |-> done.status]

(* The newest n of a set of verdicts, ORDER BY checked_at DESC LIMIT n.    *)
Newest(n, verdicts) ==
    {v \in verdicts : Cardinality({w \in verdicts : w.at > v.at}) < n}

RecordBegins_KeepsOldest(r) ==
    LET d == Head(runner[r].done)
        visible == results[d.id] \cup {Verdict(d)}
    IN /\ runner[r].pc \in {"checking", "recording"}
       /\ runner[r].todo = {}
       /\ runner[r].done # <<>>
       /\ runner' = [runner EXCEPT ![r].pc = "committing",
                       ![r].doomed = Newest(Cardinality(visible) - Retained, visible)]
       /\ UNCHANGED <<data, enabled, results, clock, toggling, newest>>

(* record: the INSERT and the DELETE of what is past the newest Retained,  *)
(* as this transaction sees the table ...                                  *)
RecordBegins(r) ==
    LET d == Head(runner[r].done)
        visible == results[d.id] \cup {Verdict(d)}
    IN /\ runner[r].pc \in {"checking", "recording"}
       /\ runner[r].todo = {}
       /\ runner[r].done # <<>>
       /\ runner' = [runner EXCEPT ![r].pc = "committing",
                       ![r].doomed = visible \ Newest(Retained, visible)]
       /\ UNCHANGED <<data, enabled, results, clock, toggling, newest>>

(* ... and its commit.                                                     *)
RecordCommits(r) ==
    LET d == Head(runner[r].done)
    IN /\ runner[r].pc = "committing"
       /\ results' = [results EXCEPT ![d.id] =
                        (@ \cup {Verdict(d)}) \ runner[r].doomed]
       /\ newest' = [newest EXCEPT ![d.id] = IF d.at > @.at THEN Verdict(d) ELSE @]
       /\ runner' = [runner EXCEPT ![r].pc = "recording",
                       ![r].done = Tail(@), ![r].doomed = {}]
       /\ UNCHANGED <<data, enabled, clock, toggling>>

(* Everything is recorded, or the store or the process failed and the rest *)
(* of the run's verdicts is lost.                                          *)
EndRun(r) ==
    /\ runner[r] # NotRunning
    /\ runner' = [runner EXCEPT ![r] = NotRunning]
    /\ UNCHANGED <<data, enabled, results, clock, toggling, newest>>

(* toggle_quality_assertion reads the row and writes its opposite back.    *)
ToggleReads(i) ==
    /\ toggling = Null
    /\ toggling' = [id |-> i, to |-> ~ enabled[i]]
    /\ UNCHANGED <<data, enabled, results, clock, runner, newest>>

ToggleWrites ==
    /\ toggling # Null
    /\ enabled' = [enabled EXCEPT ![toggling.id] = toggling.to]
    /\ toggling' = Null
    /\ UNCHANGED <<data, results, clock, runner, newest>>

QualityNext ==
    \/ Load
    \/ \E r \in Runners : \/ StartRun(r) \/ Check(r)
                          \/ RecordBegins(r) \/ RecordCommits(r) \/ EndRun(r)
    \/ \E i \in Ids : ToggleReads(i)
    \/ ToggleWrites

QualitySpec == QualityInit /\ [][QualityNext]_qualityVars

----------------------------------------------------------------------------
(* latest: DISTINCT ON (assertion_id) ... ORDER BY checked_at DESC.        *)
Latest(i) == Newest(1, results[i])

(* _data_quality_for and relevant_to: what an answer that read the table   *)
(* warns about.                                                            *)
Warned == {i \in Ids : /\ enabled[i]
                       /\ \E v \in Latest(i) : v.status \in Concerning}

(* The verdict an answer carries is the newest one recorded, although runs *)
(* overlap, record in another order than they checked, and each trims the  *)
(* history as it sees it; and the history stays within its limit up to one *)
(* row for every other run in flight.                                      *)
NewestVerdictStands ==
    \A i \in Ids :
        /\ newest[i] # NoResult => Latest(i) = {newest[i]}
        /\ i \in Warned <=> /\ enabled[i]
                            /\ newest[i] # NoResult
                            /\ newest[i].status \in Concerning
        /\ Cardinality(results[i]) < Retained + Cardinality(Runners)
=============================================================================

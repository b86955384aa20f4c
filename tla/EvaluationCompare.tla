-------------------------- MODULE EvaluationCompare --------------------------
(***************************************************************************)
(* Whether an answer still matches what a case expects (compare and its    *)
(* helpers, app/knowledge/evaluation.py).                                  *)
(*                                                                         *)
(* A value of a result is a record: what it is (a number, a text, a        *)
(* boolean, NULL), the number it reads as when it has one, and its text.   *)
(* The text "1" reads as the number 1; TRUE reads as none.  A row is a     *)
(* function from column names to values.                                   *)
(***************************************************************************)
EXTENDS Integers, Sequences, FiniteSets

CONSTANT NaN  \* not a number

(* _number                                                                 *)
Number(v) == IF v.is \in {"number", "text"} THEN v.num ELSE NaN

(* _canonical: the numeral, "null", or the text.                           *)
Canonical(v) ==
    CASE Number(v) # NaN -> <<"numeral", Number(v)>>
      [] Number(v) = NaN /\ v.is = "null" -> <<"text", "null">>
      [] OTHER -> <<"text", v.text>>

Distance(m, n) == IF m < n THEN n - m ELSE m - n

(* _matches                                                                *)
Matches(expected, actual, tolerance) ==
    IF Number(expected) # NaN /\ Number(actual) # NaN
      THEN Distance(Number(expected), Number(actual)) <= tolerance
      ELSE Canonical(expected) = Canonical(actual)

(* _rows_match: only the columns the case names are compared.              *)
RowsMatch(expected, actual, tolerance) ==
    \A col \in DOMAIN expected :
        col \in DOMAIN actual /\ Matches(expected[col], actual[col], tolerance)

CompareTable_Reusing(case, rows) ==
    /\ Len(rows) = Len(case.rows)
    /\ \A i \in DOMAIN case.rows : \E j \in DOMAIN rows :
         RowsMatch(case.rows[i], rows[j], case.tolerance)

(* The unordered comparison: each expected row takes the first row that    *)
(* matches it of those the expected rows before it have left.              *)
TakesFirst(case, rows) ==
    \E taken \in [DOMAIN rows -> DOMAIN rows] : \A i \in DOMAIN rows :
        LET remaining == DOMAIN rows \ {taken[k] : k \in 1..(i - 1)}
            fit == {j \in remaining : RowsMatch(case.rows[i], rows[j], case.tolerance)}
        IN  taken[i] \in fit /\ \A j \in fit : taken[i] <= j

(* _compare_table                                                          *)
CompareTable(case, rows) ==
    /\ Len(rows) = Len(case.rows)
    /\ IF case.ordered
         THEN \A i \in DOMAIN rows : RowsMatch(case.rows[i], rows[i], case.tolerance)
         ELSE TakesFirst(case, rows)

(* _compare_scalar: one row of one column.                                 *)
CompareScalar(case, rows) ==
    /\ Len(rows) = 1
    /\ Cardinality(DOMAIN rows[1]) = 1
    /\ \A col \in DOMAIN rows[1] : Matches(case.value, rows[1][col], case.tolerance)

(* compare: route and metrics first, then the expectation.  A route the    *)
(* answer does not disclose is not compared.                               *)
Compare(case, rows, route, metrics) ==
    /\ case.route = NaN \/ route = NaN \/ route = case.route
    /\ case.metrics \subseteq metrics
    /\ CASE case.kind = "EMPTY" -> rows = <<>>
         [] case.kind = "ROW_COUNT" -> Len(rows) = case.count
         [] case.kind = "SCALAR" -> CompareScalar(case, rows)
         [] case.kind = "TABLE" -> CompareTable(case, rows)

----------------------------------------------------------------------------
(* Rows and expected rows are paired off one to one.                       *)
Pairing(case, rows) ==
    \E p \in [DOMAIN rows -> DOMAIN rows] :
        /\ \A i, j \in DOMAIN rows : p[i] = p[j] => i = j
        /\ \A i \in DOMAIN case.rows : RowsMatch(case.rows[i], rows[p[i]], case.tolerance)

(* A table passes only if its rows can be paired off with the expected     *)
(* ones, in order where the case is about a ranking; and when the case     *)
(* leaves nothing open (no tolerance, every column named) taking the first *)
(* match is as good as searching for a pairing, so the order in which the  *)
(* database returned the rows never fails a case.                          *)
PassesByPairing(case, rows) ==
    LET exact == /\ case.tolerance = 0
                 /\ \A i \in DOMAIN case.rows, j \in DOMAIN rows :
                      DOMAIN case.rows[i] = DOMAIN rows[j]
        paired == Len(rows) = Len(case.rows) /\ Pairing(case, rows)
    IN case.kind = "TABLE" =>
         /\ CompareTable(case, rows) => paired
         /\ exact /\ ~ case.ordered /\ paired => CompareTable(case, rows)
=============================================================================

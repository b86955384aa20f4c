--------------------------- MODULE QualityVerdicts ---------------------------
(***************************************************************************)
(* What a quality check measures and concludes (app/knowledge/quality.py). *)
(* A table is a sequence of rows with an age and a value, either of them   *)
(* possibly NULL; what a check's statement measures is computed from it.   *)
(* Ratios are fractions, their limits percentages, and a configured        *)
(* minimum is in halves, so that its conversion to int can be told.        *)
(***************************************************************************)
EXTENDS Integers, Sequences, FiniteSetsExt

CONSTANT Null  \* SQL NULL, no value

(* validate_configuration: a setting that could not produce a verdict is   *)
(* refused, and the numbers are converted as they will be stored.  min is  *)
(* in halves: int() drops the fraction.                                    *)
Configured(type, column, setting) ==
    CASE type = "FRESHNESS" /\ column /\ setting.max_age > 0 ->
           [max_age |-> setting.max_age]
      [] type = "ROW_COUNT" /\ setting.min_halves > 0 ->
           [min_rows |-> setting.min_halves \div 2]
      [] type = "NULL_RATE" /\ column /\ setting.max_percent <= 100 ->
           [max_percent |-> setting.max_percent]
      [] type = "UNIQUE" /\ column -> [none |-> TRUE]
      [] type = "ACCEPTED_VALUES" /\ column /\ setting.values # {} ->
           [values |-> setting.values]
      [] type = "CUSTOM_SAFE_SQL" /\ (setting.min # Null \/ setting.max # Null) ->
           [min |-> setting.min, max |-> setting.max]
      [] OTHER -> Null

Nulls(table) == Cardinality({i \in DOMAIN table : table[i].value = Null})

NotAccepted(table, values) ==
    Cardinality({i \in DOMAIN table : table[i].value \notin values \cup {Null}})

Whole(n) == [n |-> n, d |-> 1]

(* build_check_sql and _observed: the number the check's statement         *)
(* measures, as a fraction, or no value.  UNIQUE counts all rows against   *)
(* the distinct values that are not NULL.  The custom statement stands for *)
(* any that measures the table: here its size.                             *)
Observed(a, table) ==
    LET ages == {table[i].age : i \in DOMAIN table} \ {Null}
        values == {table[i].value : i \in DOMAIN table} \ {Null}
    IN CASE a.type = "FRESHNESS" -> IF ages = {} THEN Null ELSE Whole(Min(ages))
         [] a.type = "ROW_COUNT" -> Whole(Len(table))
         [] a.type = "NULL_RATE" ->
              IF table = <<>> THEN Whole(0) ELSE [n |-> Nulls(table), d |-> Len(table)]
         [] a.type = "UNIQUE" -> Whole(Len(table) - Cardinality(values))
         [] a.type = "ACCEPTED_VALUES" -> Whole(NotAccepted(table, a.config.values))
         [] a.type = "CUSTOM_SAFE_SQL" -> Whole(Len(table))

Interpret_StrictAge(a, observed) ==
    IF a.type = "FRESHNESS" /\ observed # Null
      THEN IF observed.n < a.config.max_age THEN "HEALTHY" ELSE "STALE"
      ELSE "UNKNOWN"

(* interpret: one measured number becomes a status.                        *)
Interpret(a, observed) ==
    LET healthy == CASE a.type = "FRESHNESS" -> observed.n <= a.config.max_age
                     [] a.type = "ROW_COUNT" -> observed.n >= a.config.min_rows
                     [] a.type = "NULL_RATE" ->
                          100 * observed.n <= a.config.max_percent * observed.d
                     [] a.type \in {"UNIQUE", "ACCEPTED_VALUES"} -> observed.n = 0
                     [] a.type = "CUSTOM_SAFE_SQL" ->
                          /\ a.config.min # Null => observed.n >= a.config.min
                          /\ a.config.max # Null => observed.n <= a.config.max
    IN CASE observed = Null -> "UNKNOWN"
         [] observed # Null /\ healthy -> "HEALTHY"
         [] observed # Null /\ ~ healthy ->
              IF a.type # "FRESHNESS" THEN "FAILING"
              ELSE IF 2 * observed.n <= 3 * a.config.max_age THEN "WARNING"
              ELSE "STALE"

(* What the words of an assertion ask of a table.                          *)
Satisfies(a, table) ==
    CASE a.type = "FRESHNESS" ->
           \E i \in DOMAIN table : /\ table[i].age # Null
                                   /\ table[i].age <= a.config.max_age
      [] a.type = "ROW_COUNT" -> Len(table) >= a.config.min_rows
      [] a.type = "NULL_RATE" ->
           100 * Nulls(table) <= a.config.max_percent * Len(table)
      [] a.type = "UNIQUE" ->
           \A i, j \in DOMAIN table : /\ table[i].value # Null
                                      /\ table[i].value = table[j].value => i = j
      [] a.type = "ACCEPTED_VALUES" ->
           \A i \in DOMAIN table : table[i].value \in a.config.values \cup {Null}
      [] a.type = "CUSTOM_SAFE_SQL" ->
           /\ a.config.min # Null => Len(table) >= a.config.min
           /\ a.config.max # Null => Len(table) <= a.config.max

(* A verdict is true of the data it was measured on: HEALTHY only if the   *)
(* table satisfies the assertion, STALE or FAILING only if it does not,    *)
(* for each of the six kinds and at its edges (an empty table, NULLs, a    *)
(* measure equal to its threshold).                                        *)
VerdictIsTrue(a, table) ==
    LET status == Interpret(a, Observed(a, table))
    IN /\ status = "HEALTHY" => Satisfies(a, table)
       /\ status \in {"STALE", "FAILING"} => ~ Satisfies(a, table)
=============================================================================

----------------------------- MODULE Grounding -----------------------------
(***************************************************************************)
(* Whether an answer is supported by the rows it was written from          *)
(* (app/agent/grounding.py): the evidence of its claims, then every        *)
(* numeral of its prose.                                                   *)
(*                                                                         *)
(* A number is given in thousandths, the finest a result has here. A cell  *)
(* of a row is [number, text, within]: its value as a number, or           *)
(* NoNumber; its text; and the numerals inside its text. A numeral of the  *)
(* prose is [value, places, wording]: what it says, the decimals it is     *)
(* written with, and whether the words around it make it a count of        *)
(* results, a rank, or neither.                                            *)
(***************************************************************************)
EXTENDS Integers, Sequences

CONSTANT NoNumber   \* a cell that is not a number

Unit == 1000

(* The decimals a number needs: of its normal form. *)
Decimals(v) == CASE v % Unit = 0 -> 0
                 [] v % Unit # 0 /\ v % 100 = 0 -> 1
                 [] v % 100 # 0 /\ v % 10 = 0 -> 2
                 [] OTHER -> 3

Quantum(places) == <<100, 10, 1>>[places]

Abs(v) == IF v < 0 THEN -v ELSE v

(* quantize(..., ROUND_HALF_UP): halves away from zero. *)
HalfUp(v, q) == (IF v < 0 THEN -1 ELSE 1) * (((Abs(v) + (q \div 2)) \div q) * q)

(* A slip: the digits past the written ones are cut off. *)
RoundedForm_Truncates(n, supported) ==
    /\ n.places > 0
    /\ \E v \in supported : /\ Decimals(v) > n.places
                            /\ (v \div Quantum(n.places)) * Quantum(n.places) = n.value

(* _is_rounded_form_of_supported *)
RoundedForm(n, supported) ==
    /\ n.places > 0
    /\ \E v \in supported : /\ Decimals(v) > n.places
                            /\ HalfUp(v, Quantum(n.places)) = n.value

(* _is_supported_structural_numeral, _is_row_count_wording *)
Structural(n, rowCount) ==
    /\ n.value % Unit = 0
    /\ \/ n.value = rowCount * Unit /\ n.wording = "count"
       \/ n.value \in {i * Unit : i \in 1..rowCount} /\ n.wording = "rank"

Cells(rows) == UNION {{rows[i][f] : f \in DOMAIN rows[i]} : i \in DOMAIN rows}

Supported(rows) ==
    ({c.number : c \in Cells(rows)} \ {NoNumber}) \cup UNION {c.within : c \in Cells(rows)}

(* _values_equal: as numbers where both are, else as text. *)
ValuesEqual(value, cell) ==
    IF value.number # NoNumber /\ cell.number # NoNumber THEN value.number = cell.number
    ELSE value.text = cell.text

(* GroundingValidator.validate: claims are sets of evidence [row, field,
   value]. *)
ValidateAnswer(numerals, claims, rows) ==
    /\ (rows = <<>>) = (claims = <<>>)
    /\ \A i \in DOMAIN claims : \A e \in claims[i] :
         /\ e.row \in DOMAIN rows
         /\ e.field \in DOMAIN rows[e.row]
         /\ ValuesEqual(e.value, rows[e.row][e.field])
    /\ \A n \in numerals : \/ n.value \in Supported(rows)
                           \/ RoundedForm(n, Supported(rows))
                           \/ Structural(n, Len(rows))

-----------------------------------------------------------------------------
(* No figure of an accepted answer is invented: each is a number of the
   result, or lies within half of its own last decimal of one that is more
   precise, a whole number never by rounding, or it counts or ranks the rows
   the answer was given (grounding.py:64-227). *)
NothingInvented(numerals, claims, rows) ==
    ValidateAnswer(numerals, claims, rows) =>
        \A n \in numerals :
            \/ \E v \in Supported(rows) :
                 \/ n.value = v
                 \/ /\ n.places \in 1..3 /\ Decimals(v) > n.places
                    /\ 2 * Abs(n.value - v) <= Quantum(n.places)
            \/ n.wording = "count" /\ n.value = Unit * Len(rows)
            \/ n.wording = "rank" /\ n.value >= Unit /\ n.value <= Unit * Len(rows)
=============================================================================

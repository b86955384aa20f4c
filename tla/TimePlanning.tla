---------------------------- MODULE TimePlanning ----------------------------
(***************************************************************************)
(* Deciding what period a question covers and which column carries it      *)
(* (app/timeintel/parser.py, dimensions.py, planning.py and their callers  *)
(* in app/api/routes.py). A question is abstracted to the time phrases it  *)
(* contains, the temporal dimensions its words name, the certified metrics *)
(* it names and the tables the semantic model says it is about.            *)
(***************************************************************************)
EXTENDS TimePeriods, FiniteSets

-----------------------------------------------------------------------------
(* Reading the phrases *)

(* Phrases people write, and the period patterns each one's text matches: a
   pattern is searched anywhere in the text, so a longer phrase may match the
   pattern of a shorter one it contains. *)
PhraseMatches ==
    [fiscal_year_to_date |-> {"FISCAL_YEAR_TO_DATE", "YEAR_TO_DATE"},
     last_fiscal_quarter |-> {"LAST_FISCAL_QUARTER"},
     fiscal_quarter_to_date |-> {"FISCAL_QUARTER_TO_DATE", "QUARTER_TO_DATE"},
     year_to_date |-> {"YEAR_TO_DATE"},
     yesterday |-> {"YESTERDAY"},
     last_month |-> {"LAST_MONTH"},
     this_month |-> {"MONTH_TO_DATE"},
     last_year |-> {"LAST_YEAR"},
     this_year |-> {"YEAR_TO_DATE (this)"},
     rolling_3_months |-> {}, fy_2025 |-> {}, q2_2025 |-> {},
     year_over_year |-> {}, month_over_month |-> {},
     versus_last_year |-> {"LAST_YEAR"},
     compare_it_with_last_year |-> {"LAST_YEAR"},
     now_monthly |-> {}]

Phrases == DOMAIN PhraseMatches

(* The comparison and grain patterns, and the phrases that match them. *)
ComparisonMatches ==
    [SAME_PERIOD_LAST_YEAR |-> {"year_over_year", "versus_last_year", "compare_it_with_last_year"},
     PREVIOUS_PERIOD |-> {"month_over_month"}]

(* _PERIOD_PATTERNS, in the order they are tried. *)
PatternOrder == <<"FISCAL_YEAR_TO_DATE", "LAST_FISCAL_QUARTER", "FISCAL_QUARTER_TO_DATE",
                  "YEAR_TO_DATE", "QUARTER_TO_DATE", "YESTERDAY", "LAST_MONTH",
                  "MONTH_TO_DATE", "LAST_YEAR", "YEAR_TO_DATE (this)">>

FiscalPhrases == {"fiscal_year_to_date", "last_fiscal_quarter", "fiscal_quarter_to_date"}

MatchComparison(said) ==
    IF said \cap ComparisonMatches.SAME_PERIOD_LAST_YEAR # {} THEN "SAME_PERIOD_LAST_YEAR"
    ELSE IF said \cap ComparisonMatches.PREVIOUS_PERIOD # {} THEN "PREVIOUS_PERIOD"
    ELSE "NONE"

MatchGrain(said) == IF "now_monthly" \in said THEN "MONTH" ELSE "NONE"

(* The first pattern of the list that the text matches. *)
MatchPeriod(said) ==
    LET hits == UNION {PhraseMatches[p] : p \in said}
        order == {i \in 1..Len(PatternOrder) : PatternOrder[i] \in hits}
        first == PatternOrder[CHOOSE i \in order : \A j \in order : i <= j]
    IN  IF order = {} THEN "NONE"
        ELSE IF first = "YEAR_TO_DATE (this)" THEN "YEAR_TO_DATE" ELSE first

(* parse_time_phrase: a named quarter or year first, then a rolling window,
   then the patterns; no period at all is an intent only if it changes the
   comparison or the grain. *)
Parse(said) ==
    LET comparison == MatchComparison(said)
        intent(p, y, f) == [period |-> p, comparison |-> comparison, grain |-> MatchGrain(said),
                            value |-> 3, unit |-> "MONTH", year |-> y, quarter |-> 2, fiscal |-> f]
        fiscal == said \cap FiscalPhrases # {}
    IN  CASE "q2_2025" \in said -> intent("NAMED_QUARTER", 2025, fiscal)
          [] "q2_2025" \notin said /\ "fy_2025" \in said -> intent("NAMED_FISCAL_YEAR", 2025, TRUE)
          [] said \cap {"q2_2025", "fy_2025"} = {} /\ "rolling_3_months" \in said ->
                intent("ROLLING", 1, FALSE)
          [] OTHER -> intent(MatchPeriod(said), 1, fiscal /\ MatchPeriod(said) # "NONE")

NamesNothing(intent) ==
    intent.period = "NONE" /\ intent.comparison = "NONE" /\ intent.grain = "NONE"

IsTemporal(intent) == intent.period # "NONE" \/ intent.comparison # "NONE"

-----------------------------------------------------------------------------
(* Choosing the column: a dimension has an id, a table, a status, a role and
   may be its entity's default. The store's list is a sequence; the candidates
   are their places in it. *)

CandidatesForTables(dimensions, tables) ==
    {i \in 1..Len(dimensions) :
        dimensions[i].status = "CONFIRMED" /\ dimensions[i].table \in tables}

NoDimension == [id |-> "none"]

(* One candidate, and no other. *)
Sole(candidates) == \E i \in candidates : candidates = {i}

(* The first of several sets of candidates that leaves no choice. *)
Preferred(rungs) ==
    LET single == {k \in DOMAIN rungs : Sole(rungs[k])}
    IN  IF single = {} THEN {} ELSE rungs[CHOOSE k \in single : \A j \in single : k <= j]

(* The order of preference: an explicit binding, what the question names, the
   default, the event date, the only one; the last three among the ones named
   where several are. *)
Rungs(dimensions, tables, requested, named) ==
    LET available == CandidatesForTables(dimensions, tables)
        said == {i \in available : dimensions[i].id \in named}
        considered == IF said = {} \/ Sole(said) THEN available ELSE said
    IN  <<{i \in available : dimensions[i].id = requested}, said,
          {i \in considered : dimensions[i].default},
          {i \in considered : dimensions[i].role = "EVENT_TIME"}, considered>>

(* choose: the first that settles it; else nothing, and whether there is
   something left to ask about. *)
Choose(dimensions, tables, requested, named) ==
    LET rungs == Rungs(dimensions, tables, requested, named)
        preferred == Preferred(rungs)
    IN  [chosen |-> IF preferred = {} THEN NoDimension ELSE dimensions[CHOOSE i \in preferred : TRUE],
         asked |-> preferred = {} /\ rungs[5] # {}]

-----------------------------------------------------------------------------
(* Planning *)

(* _metric_time_binding: the binding of the one certified metric the question
   names, and none when it names several. *)
NoBinding == [behavior |-> "none", dimension |-> "none"]

MetricTimeBinding(metrics) ==
    IF Cardinality(metrics) = 1 THEN CHOOSE m \in metrics : TRUE ELSE NoBinding

(* _temporal_table_scope: the tables the question is about, or all of them. *)
TemporalTableScope(available, about) ==
    IF about \cap available # {} THEN about \cap available ELSE available

(* plan_time as _plan_time_for calls it: no period is inherited from earlier
   turns. "unfiltered" is the answer without a period. *)
PlanTime(said, policy, dimensions, tables, binding, named, now) ==
    LET intent == Parse(said)
        choice == Choose(dimensions, tables, binding.dimension, named)
    IN  IF NamesNothing(intent) \/ ~IsTemporal(intent)
             \/ \A i \in 1..Len(dimensions) : dimensions[i].status # "CONFIRMED"
        THEN [outcome |-> "unfiltered", dimension |-> NoDimension]
        ELSE IF choice.chosen = NoDimension
        THEN [outcome |-> IF choice.asked THEN "clarify" ELSE "unsupported",
              dimension |-> NoDimension]
        ELSE IF binding.behavior = "SNAPSHOT" \/ ~Resolve(intent, policy, now).resolved
        THEN [outcome |-> "unsupported", dimension |-> NoDimension]
        ELSE [outcome |-> "resolved", dimension |-> choice.chosen]

-----------------------------------------------------------------------------
(* References *)

ComparisonPhrases == UNION {ComparisonMatches[c] : c \in DOMAIN ComparisonMatches}

(* What a phrase means by itself: a period, or a change to the period the
   question already has (parser.py:147-150). *)
Meaning(phrase) ==
    CASE phrase \in ComparisonPhrases \cup {"now_monthly"} -> "NONE"
      [] phrase = "this_year" -> "YEAR_TO_DATE"
      [] phrase = "rolling_3_months" -> "ROLLING"
      [] phrase = "fy_2025" -> "NAMED_FISCAL_YEAR"
      [] phrase = "q2_2025" -> "NAMED_QUARTER"
      [] OTHER -> CHOOSE p \in PhraseMatches[phrase] :
                    \A q \in PhraseMatches[phrase] :
                        (q # p) => \E i, j \in 1..Len(PatternOrder) :
                            i < j /\ PatternOrder[i] = p /\ PatternOrder[j] = q

(* A question with one period phrase, and perhaps a comparison, is read as
   asking about the period that phrase means; one that only compares is a
   change to the period before it and names none of its own. *)
ReadAsSaid(period, change) ==
    Parse({period} \cup change).period = Meaning(period)

Reversed(s) == [i \in 1..Len(s) |-> s[Len(s) + 1 - i]]

(* Nothing the order of preference looks at tells two dimensions apart. *)
Alike(d, e, requested, named) ==
    /\ d.id = requested <=> e.id = requested
    /\ d.id \in named <=> e.id \in named
    /\ d.default = e.default
    /\ d.role = "EVENT_TIME" <=> e.role = "EVENT_TIME"

(* The period is never dropped and the column never guessed: the plan does
   not depend on the order in which the store lists the dimensions; where a
   dimension is confirmed, a question that names a period is resolved, asked
   back or refused, never answered over all of history; it is asked back only
   where a table in scope has several confirmed columns, or tables do between
   them; and a resolved plan is measured on a confirmed column of a table in
   scope, which is the metric's own when its binding names one there, and
   which no other such column is like. *)
Undropped(plan, reversed, asked, usable, scoped, binding, named) ==
    /\ plan = reversed
    /\ usable # {} /\ asked # "NONE" => plan.outcome # "unfiltered"
    /\ plan.outcome = "clarify" => \E d, e \in scoped : d # e
    /\ plan.outcome = "resolved" =>
          /\ plan.dimension \in scoped
          /\ \A e \in scoped :
                e.id = binding.dimension \/ Alike(e, plan.dimension, binding.dimension, named)
                    => plan.dimension = e

Decided(said, policy, dimensions, tables, binding, named, now) ==
    LET plan(ds) == PlanTime(said, policy, ds, tables, binding, named, now)
        usable == {d \in {dimensions[i] : i \in 1..Len(dimensions)} : d.status = "CONFIRMED"}
    IN  Undropped(plan(dimensions), plan(Reversed(dimensions)), Parse(said).period,
                  usable, {d \in usable : d.table \in tables}, binding, named)
=============================================================================

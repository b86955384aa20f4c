-------------------------- MODULE MCServiceInputs --------------------------
(***************************************************************************)
(* What the instances of the module MCService are given: the datasource,   *)
(* the users and the releases of the components with state, and the inputs *)
(* over which the algorithms are compared with their references.           *)
(***************************************************************************)
EXTENDS Integers, Sequences, FiniteSets, TLC

CONSTANT Nil   \* no value: SQL NULL, None, not a number, no one

UpTo(n, S) == UNION {[1..k -> S] : k \in 0..n}

----------------------------------------------------------------------------
(* Conversations: two turns of one subject race on a thread with a third   *)
(* of the same or another subject or datasource.                           *)
Turns == {"t1", "t2", "t3"}

Asks ==
    {[t \in Turns |-> [subject |-> IF t = "t3" THEN third[1] ELSE "ann",
                       source |-> IF t = "t3" THEN third[2] ELSE "sales",
                       thread |-> "thread"]] :
        third \in {<<"ann", "sales">>, <<"ann", "stock">>, <<"bob", "sales">>}}

(* Data quality: a table that is fresh or long stale, and one assertion.   *)
Row(age, value) == [age |-> age, value |-> value]
Freshness == <<[type |-> "FRESHNESS", config |-> [max_age |-> 2]]>>
Contents == {<<Row(1, 1)>>, <<Row(4, 1), Row(4, 1)>>}

(* The model gateway: two calls, every reply, and failures with one or two *)
(* conflicting signs.                                                      *)
Calls == {"c1", "c2"}

Replies ==
    [c \in Calls |->
        [choices : BOOLEAN, truncated : BOOLEAN, usage : BOOLEAN,
         mode : {"response_format"}, parsed : {"absent", "valid", "invalid"},
         payload : IF c = "c1" THEN {"absent", "valid", "invalid"} ELSE {"valid"}]]

Signs(S) == {{}} \cup {{x} : x \in S}

Failures ==
    [c \in Calls |->
        IF c = "c2" THEN {[status |-> 429, code |-> {}, name |-> {}, text |-> {}]}
        ELSE [status : {0, 401, 402, 403, 404, 408, 429, 500},
              code : Signs({"auth", "quota", "permission", "payment", "ratelimit",
                            "tooluse", "structured", "notfound"}),
              name : Signs({"auth", "permission", "ratelimit", "structured", "timeout",
                            "connection"}),
              text : Signs({"model missing", "memory", "refused"})]]

(* Routing: a metric over time with two dimensions, another with one, and  *)
(* questions that name, continue, narrow, switch or break off.             *)
Catalogue == ("m1" :> [dims |-> {"d1", "d2"}, timed |-> TRUE])
               @@ ("m2" :> [dims |-> {"d2"}, timed |-> FALSE])

Asked == [write |-> FALSE, followup |-> FALSE, continuation |-> FALSE, composite |-> FALSE,
          lookup |-> FALSE, aggregate |-> FALSE, calculates |-> FALSE, metrics |-> {},
          by |-> {}, entity |-> [d \in {"d1", "d2"} |-> Nil], monthly |-> FALSE, top |-> 0]

Questions ==
    {[Asked EXCEPT !.metrics = {"m1"}, !.aggregate = TRUE, !.by = {"d1"}],
     [Asked EXCEPT !.metrics = {"m1"}, !.calculates = TRUE, !.monthly = TRUE],
     [Asked EXCEPT !.metrics = {"m2"}, !.aggregate = TRUE, !.entity["d2"] = "a", !.top = 5],
     [Asked EXCEPT !.metrics = {"m2"}, !.followup = TRUE],
     [Asked EXCEPT !.metrics = {"m1"}, !.lookup = TRUE],
     [Asked EXCEPT !.metrics = {"m1", "m2"}, !.aggregate = TRUE],
     [Asked EXCEPT !.metrics = {"m1", "m2"}, !.followup = TRUE],
     [Asked EXCEPT !.composite = TRUE],
     [Asked EXCEPT !.followup = TRUE, !.entity["d2"] = "a"],
     [Asked EXCEPT !.followup = TRUE, !.entity["d2"] = "b", !.aggregate = TRUE, !.top = 1],
     [Asked EXCEPT !.followup = TRUE, !.monthly = TRUE],
     [Asked EXCEPT !.continuation = TRUE, !.by = {"d2"}],
     [Asked EXCEPT !.write = TRUE, !.followup = TRUE, !.metrics = {"m1"}]}

(* Migrations: a release, its successor, and a later one that edited a     *)
(* file already applied.                                                   *)
File(version, checksum) == [version |-> version, checksum |-> checksum]

Releases == << <<File(1, 1)>>, <<File(1, 1), File(2, 1)>>,
               <<File(1, 1), File(2, 2), File(3, 1)>> >>

(* The evaluation harness: a conversation of two cases, and cases that     *)
(* must be blocked, asked back or ranked.                                  *)
Benchmark(behavior, follows, expected, ordered) ==
    [behavior |-> behavior, follows |-> follows, expected |-> expected,
     ordered |-> ordered, category |-> "any"]

Datasets == {<<Benchmark("allow", TRUE, <<>>, FALSE),
               Benchmark("allow", FALSE, <<{1, 2}, {1}>>, FALSE)>>,
             <<Benchmark("block", FALSE, <<>>, FALSE)>>,
             <<Benchmark("clarify", TRUE, <<>>, FALSE)>>,
             <<Benchmark("allow", FALSE, <<{1, 2}, {2}>>, TRUE)>>}

QueryRows == {<<>>, <<1>>, <<1, 2>>, <<2, 1>>}

----------------------------------------------------------------------------
(* Verdicts: every kind of assertion on tables of up to two rows.          *)
Assertions ==
    {[type |-> "FRESHNESS", config |-> [max_age |-> a]] : a \in 1..2}
      \cup {[type |-> "ROW_COUNT", config |-> [min_rows |-> n]] : n \in 0..2}
      \cup {[type |-> "NULL_RATE", config |-> [max_percent |-> p]] : p \in {0, 49, 50, 100}}
      \cup {[type |-> "UNIQUE", config |-> [none |-> TRUE]],
            [type |-> "ACCEPTED_VALUES", config |-> [values |-> {1}]]}
      \cup {[type |-> "CUSTOM_SAFE_SQL", config |-> [min |-> range[1], max |-> range[2]]] :
               range \in {<<1, Nil>>, <<Nil, 1>>, <<1, 1>>}}

QualityInputs == [assertion : Assertions,
                  table : UpTo(2, [age : {1, 2, 3, 4, Nil}, value : {1, 2, Nil}])]

(* Expected tables of up to three rows against the rows of an answer.      *)
Numeral(n) == [is |-> "number", num |-> n]
Sales == {[x |-> Numeral(a)] : a \in 1..3} \cup {[x |-> Numeral(1), y |-> Numeral(2)]}
Expectations == [kind : {"TABLE"}, ordered : BOOLEAN, tolerance : {0, 1}, rows : UpTo(3, Sales)]
EvaluationInputs == {i \in [case : Expectations, rows : UpTo(3, Sales)] :
                        Len(i.case.rows) = Len(i.rows)}

(* Two metrics' rows to join, some without a measure.                      *)
Measures == UpTo(2, [group : {"g", "h"}, value : {1, 2, Nil}])
SliceInputs == Measures \X Measures

(* Calendars that start on the 1st or the 28th, and the days around which  *)
(* their months turn.                                                      *)
Calendars == {c \in [offset : {-5, 2}, week_start : {0, 5}, month : {1, 2, 7, 8}, day : {1, 28},
                     label : {"START_YEAR", "END_YEAR"}, status : {"CONFIRMED"}] :
                 (c.offset = 2) = (c.week_start = 5)}

Today == {t \in (1..12) \X {1, 15, 27, 28, 29, 30, 31} :
             t[2] <= <<31, 29, 31, 30, 31, 30, 31, 31, 30, 31, 30, 31>>[t[1]]}

Compared ==
    {[period |-> p, comparison |-> c, value |-> 3, unit |-> "MONTH", year |-> 2023,
      quarter |-> 2, fiscal |-> f] :
        p \in {"TODAY", "LAST_WEEK", "MONTH_TO_DATE", "LAST_QUARTER", "YEAR_TO_DATE",
               "FISCAL_QUARTER_TO_DATE", "NAMED_FISCAL_YEAR", "NAMED_QUARTER", "ROLLING"},
        c \in {"PREVIOUS_PERIOD", "SAME_PERIOD_LAST_YEAR"}, f \in BOOLEAN}

(* Temporal dimensions of two tables, in any order the store lists them.   *)
Dimension(id, table, status, role, default) ==
    [id |-> id, table |-> table, status |-> status, role |-> role, default |-> default]

Dimensions ==
    {<<Dimension("a", "t", "CONFIRMED", r1, d1), Dimension("b", t2, s2, r2, d2)>> :
        r1 \in {"EVENT_TIME", "OTHER"}, r2 \in {"EVENT_TIME", "OTHER"}, d1 \in BOOLEAN,
        d2 \in BOOLEAN, t2 \in {"t", "u"}, s2 \in {"CONFIRMED", "PROPOSED"}}

PlanInputs ==
    [said : {{}, {"last_month"}, {"fiscal_year_to_date"}, {"month_over_month"},
             {"q2_2025", "year_over_year"}, {"now_monthly"}, {"rolling_3_months"}},
     dimensions : Dimensions, tables : {{"t"}, {"u"}, {"t", "u"}},
     binding : {[behavior |-> rule[1], dimension |-> rule[2]] :
                   rule \in {<<"none", "none">>, <<"FLOW", "b">>, <<"SNAPSHOT", "a">>}},
     named : {{}, {"b"}, {"a", "b"}}, status : {"DEFAULT", "CONFIRMED"}]

(* Statements over two permitted tables, a common table expression, a      *)
(* system table, and tables or schemas out of reach.                       *)
Source(alias, schema, table) == [alias |-> alias, schema |-> schema, table |-> table]

System == {<<"", "pg_tables">>, <<"pg_catalog", "t">>}

Sources == {Source("x", "analytics", "t"), Source("x", "", "t"), Source("x", "analytics", "w"),
            Source("y", "analytics", "u"), Source("y", "", "c"), Source("y", "pg_catalog", "t"),
            Source("y", "other", "t")}

Statement == [parses |-> TRUE, count |-> 1, query |-> TRUE, mutates |-> FALSE,
              sources |-> <<Source("x", "analytics", "t")>>, ctes |-> <<>>, columns |-> <<>>,
              functions |-> {}, star |-> FALSE, limit |-> -1]

Ctes == {<<>>, "c" :> {"id"}}

Columns == [alias : {"", "x", "y", "z"}, name : {"id", "day"}]

OneSource == {<<a>> : a \in Sources}
TwoSources == {p \in Sources \X Sources : p[1].alias # p[2].alias}

Naming == {[Statement EXCEPT !.sources = i.sources, !.ctes = i.ctes, !.columns = i.columns] :
              i \in [sources : OneSource \cup TwoSources, ctes : Ctes,
                     columns : {<<>>} \cup Columns \X Columns]}

Limiting == {[Statement EXCEPT !.sources = <<i.source>>, !.functions = i.functions,
                               !.limit = i.limit] :
                i \in [source : Sources, functions : {{}, {"sum"}, {"setval"}, {"sum", "regexp"}},
                       limit : {-2, -1, 0, 5, 6}]}

Malformed == {[Statement EXCEPT !.parses = i.parses, !.count = i.count, !.query = i.query,
                                !.mutates = i.mutates, !.star = i.star] :
                 i \in [parses : BOOLEAN, count : 0..2, query : BOOLEAN, mutates : BOOLEAN,
                        star : BOOLEAN]}

Statements == Naming \cup Limiting \cup Malformed

SqlInputs ==
    [statement : Statements,
     snapshot : {[given |-> FALSE, tables |-> <<>>],
                 [given |-> TRUE, tables |-> (<<"analytics", "t">> :> {"id", "day"})
                                               @@ (<<"analytics", "u">> :> {"id"})]},
     relations : {[given |-> FALSE, relations |-> {}],
                  [given |-> TRUE, relations |-> {<<"analytics", "t">>}]}]

(* Entities: names that contain, begin or nearly spell one another, and    *)
(* keys with and without a digit.                                          *)
Tokens == <<"devops", "falcon", "prj-14", "falco", "prj14", "unit", "ops", "of", "a", "b", "c">>

Norms == [t \in {Tokens[i] : i \in DOMAIN Tokens} |->
             IF t = "prj-14" THEN <<"prj", "14">> ELSE <<t>>]

(* Texts and labels of a similarity of 0.82 and more.                      *)
NearlySpelled == {<< <<"falco">>, <<"falcon">> >>, << <<"falco", "ops">>, <<"falcon", "ops">> >>,
                  << <<"falcon", "of">>, <<"falcon", "ops">> >>,
                  << <<"falcon", "devops">>, <<"falcon", "ops">> >>,
                  << <<"falco", "unit">>, <<"falcon", "unit">> >>,
                  << <<"ops", "unit">>, <<"devops", "unit">> >>}

Names == {<<"falcon">>, <<"falcon", "ops">>, <<"falcon", "unit">>, <<"devops", "unit">>, <<"ops">>}

Unit(key, display) == [key |-> key, display |-> display]

Attribute(column, identifier, label, confirmed) ==
    [entity |-> "unit", column |-> column, identifier |-> identifier, label |-> label,
     confirmed |-> confirmed]

EntityInputs ==
    [text : UNION {[1..n -> DOMAIN Norms \ {"a", "b", "c"}] : n \in 1..3},
     rows : {<<Unit("prj14", x), Unit("unit", y)>> : x \in Names, y \in Names}
              \cup {<<Unit("prj-14", <<"falcon">>), Unit("unit", <<"ops">>)>>,
                    <<Unit("a", <<"falcon">>), Unit("b", <<"prj14">>)>>,
                    <<Unit("a", <<"falcon">>), Unit("b", <<"falcon">>),
                      Unit("c", <<"falcon", "ops">>)>>}]

(* Answers about a figure, in thousandths, of a result of up to two rows.  *)
Figures == {-1250, -5, 0, 45, 995, 1000, 1450, 2675, 2685, 3000}

Cell(v) == [number |-> v, text |-> "t", within |-> {}]
Labelled == [number |-> Nil, text |-> "q3", within |-> {3000}]

Numerals ==
    [value : Figures \cup {-1300, -1200, -10, 10, 40, 50, 990, 1400, 1500, 2600, 2670, 2680, 2690},
     places : 0..3, wording : {"count", "rank", "plain"}]

(* A result of some rows of one figure, the first of which may be a label. *)
Result(count, figure, labelled) ==
    [i \in 1..count |-> [f |-> IF labelled /\ i = 1 THEN Labelled ELSE Cell(figure)]]

GroundingInputs ==
    {[numeral |-> i.numeral, rows |-> Result(i.count, i.figure, i.labelled), row |-> i.row] :
        i \in [numeral : Numerals, count : 0..2, figure : Figures, labelled : BOOLEAN, row : 1..2]}

(* Grants of up to two roles over two tables, one key between them.        *)
Employees == [schema |-> "hr", name |-> "hr.employees", columns |-> {"id", "salary"},
              foreign |-> {}]
Payroll == [schema |-> "hr", name |-> "hr.payroll", columns |-> {"emp", "salary"},
            foreign |-> {[columns |-> {"emp"}, table |-> "hr.employees", referenced |-> {"id"}]}]

Grants == [schemas : {{"*"}, {"hr"}, {}}, tables : {{"*"}, {"hr.payroll"}, {}},
           denied : {<<>>, "*" :> {"salary"}, "*" :> {"id", "salary"},
                     "hr.employees" :> {"id"}, "hr.payroll" :> {"emp", "salary"}},
           metrics : {{}, {"m1"}}, debug : BOOLEAN, review : BOOLEAN]

GrantInputs == {{}} \cup {{g} : g \in Grants}
                 \cup {{g, h} : g \in Grants, h \in {x \in Grants : x.debug /\ x.review}}

(* Who previews columns, and how the datasource changes meanwhile.         *)
Reader == [schemas |-> {"*"}, tables |-> {"*"}, denied |-> "*" :> {"salary"}, metrics |-> {},
           debug |-> FALSE, review |-> TRUE]
Policies == {{Reader}, {[Reader EXCEPT !.denied = <<>>]}, {[Reader EXCEPT !.tables = {"hr.payroll"}]}}
HumanResources == {{Employees, Payroll}, {Payroll}}
Previewed == {<<"hr.employees", "id">>, <<"hr.employees", "salary">>, <<"hr.payroll", "emp">>}

(* Statements over up to two tables, with and without an expression of     *)
(* the same name, and the columns they read.                               *)
Reference(id, name, alias) == [id |-> id, name |-> name, alias |-> alias]
References == {Reference("a.t", "t", "t"), Reference("a.t", "t", "p"), Reference("a.u", "u", "u"),
               Reference("a.u", "u", "t"), Reference("w", "w", "w"), Reference("a.w", "w", "q")}

Lists == {q \in UpTo(2, References) :
             Len(q) > 0 /\ (Len(q) = 2 => q[1].alias # q[2].alias)}

(* A column reads a source of the statement, by its alias or unnamed.      *)
ReadsOf(q) ==
    UNION {[owner : {"", q[k].alias}, name : {"x", "y"}, from : {q[k].id}] : k \in DOMAIN q}

ReadOf(q) ==
    [ctes : {{}, {"w"}}, sources : {q}, columns : {{p[1], p[2]} : p \in ReadsOf(q) \X ReadsOf(q)}]

LineageInputs == UNION {ReadOf(q) : q \in Lists}
=============================================================================

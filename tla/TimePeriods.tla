---------------------------- MODULE TimePeriods ----------------------------
(***************************************************************************)
(* From a period a question names to exact instants                        *)
(* (app/timeintel/resolver.py, with the calendar of policy.py and the      *)
(* intent of intent.py). A date is a record, an instant a count of hours   *)
(* UTC, a period half-open; zones have a fixed offset.                     *)
(***************************************************************************)
EXTENDS Integers, Sequences

-----------------------------------------------------------------------------
(* The proleptic Gregorian calendar of datetime.date *)

Date(y, m, d) == [year |-> y, month |-> m, day |-> d]

Leap(y) == y % 4 = 0 /\ (y % 100 # 0 \/ y % 400 = 0)

Lengths(y) == <<31, IF Leap(y) THEN 29 ELSE 28, 31, 30, 31, 30, 31, 31, 30, 31, 30, 31>>

DaysInMonth(y, m) == Lengths(y)[m]

Before(m) == <<0, 31, 59, 90, 120, 151, 181, 212, 243, 273, 304, 334>>[m]

(* date.toordinal *)
Ordinal(date) ==
    LET y == date.year - 1
    IN  365 * y + (y \div 4) - (y \div 100) + (y \div 400) + Before(date.month)
          + (IF Leap(date.year) /\ date.month > 2 THEN 1 ELSE 0) + date.day

(* date.fromordinal, by the year the day is of and the month in that year *)
YearOf(n) ==
    CHOOSE k \in ((n \div 365) - 6)..((n \div 365) + 1) :
        Ordinal(Date(k, 1, 1)) <= n /\ n < Ordinal(Date(k + 1, 1, 1))

MonthIn(y, n) ==
    CHOOSE k \in 1..12 :
        Ordinal(Date(y, k, 1)) <= n /\ n < Ordinal(Date(y, k, 1)) + DaysInMonth(y, k)

DateOf(n) ==
    LET y == YearOf(n)
        m == MonthIn(y, n)
    IN  Date(y, m, n - Ordinal(Date(y, m, 1)) + 1)

(* date.max.toordinal() *)
LastYear == 9999
LastDay == Ordinal(Date(LastYear, 12, 31))

PlusDays(date, n) == DateOf(Ordinal(date) + n)

Weekday(date) == (Ordinal(date) + 6) % 7       \* Monday is 0

-----------------------------------------------------------------------------
(* The datasource's calendar *)

Policy == [offset : -12..14, week_start : 0..6, month : 1..12, day : 1..31,
           label : {"START_YEAR", "END_YEAR"}, status : {"DEFAULT", "CONFIRMED"}]

(* validate_fiscal_start: a start every year has; 29 February is refused. *)
ValidFiscalStart(month, day) == day <= Lengths(2025)[month]

FiscalYearIsCalendar(policy) == policy.month = 1 /\ policy.day = 1

FiscalPeriods == {"FISCAL_YEAR_TO_DATE", "FISCAL_YEAR", "LAST_FISCAL_YEAR",
                  "FISCAL_QUARTER_TO_DATE", "LAST_FISCAL_QUARTER", "NAMED_FISCAL_YEAR"}

CalendarPeriods == {"TODAY", "YESTERDAY", "WEEK_TO_DATE", "LAST_WEEK", "MONTH_TO_DATE",
                    "LAST_MONTH", "QUARTER_TO_DATE", "LAST_QUARTER", "YEAR_TO_DATE",
                    "LAST_YEAR", "NAMED_QUARTER", "ROLLING"}

(* TimeIntent: value and unit for a rolling period, year and quarter for a
   named one. *)
Intent(period, comparison, value, unit, year, quarter, fiscal) ==
    [period |-> period, comparison |-> comparison, value |-> value, unit |-> unit,
     year |-> year, quarter |-> quarter, fiscal |-> fiscal]

(* The bounds of TimeIntent's fields and of MAX_ROLLING, which its validator
   applies. *)
MaxRolling == [DAY |-> 3650, WEEK |-> 520, MONTH |-> 120, QUARTER |-> 40, YEAR |-> 10]

DescribesARealPeriod(intent) ==
    /\ intent.period = "ROLLING" =>
          intent.unit \in DOMAIN MaxRolling /\ intent.value \in 1..MaxRolling[intent.unit]
    /\ intent.period \in {"NAMED_FISCAL_YEAR", "NAMED_QUARTER"} =>
          intent.year \in Int /\ 1900 <= intent.year /\ intent.year <= 2999
    /\ intent.period = "NAMED_QUARTER" => intent.quarter \in 1..4

NeedsFiscalCalendar(intent) == intent.fiscal \/ intent.period \in FiscalPeriods

-----------------------------------------------------------------------------
(* Calendar helpers *)

(* _add_months: the same day of another month, or that month's last day. *)
AddMonths(date, months) ==
    LET total == date.year * 12 + (date.month - 1) + months
        y == total \div 12
        m == (total % 12) + 1
    IN  Date(y, m, IF date.day <= DaysInMonth(y, m) THEN date.day ELSE DaysInMonth(y, m))

WeekStart(date, policy) == PlusDays(date, -((Weekday(date) - policy.week_start) % 7))

QuarterStart(date) == Date(date.year, 3 * ((date.month - 1) \div 3) + 1, 1)

(* _fiscal_year_start: the first day of the fiscal year containing the date. *)
FiscalYearStart(date, policy) ==
    LET candidate == Date(date.year, policy.month, policy.day)
    IN  IF Ordinal(date) < Ordinal(candidate) THEN AddMonths(candidate, -12) ELSE candidate

(* A slip: months counted without asking whether the day of the month at
   which the fiscal months turn has been reached. *)
FiscalQuarterStart_IgnoresDay(date, policy) ==
    LET start == FiscalYearStart(date, policy)
        months == (date.year - start.year) * 12 + date.month - start.month
    IN  AddMonths(start, 3 * (months \div 3))

(* _fiscal_quarter_start *)
FiscalQuarterStart(date, policy) ==
    LET start == FiscalYearStart(date, policy)
        turned == (date.year - start.year) * 12 + date.month - start.month
        months == IF date.day < start.day THEN turned - 1 ELSE turned
    IN  AddMonths(start, 3 * (months \div 3))

(* _fiscal_label: what the company calls the fiscal year starting here. *)
FiscalLabel(start, policy) ==
    LET end == AddMonths(start, 12)
    IN  IF policy.label = "START_YEAR" \/ (end.month = 1 /\ end.day = 1)
        THEN start.year ELSE end.year

(* _named_fiscal_year_start *)
NamedFiscalYearStart(label, policy) ==
    Date(IF policy.label = "START_YEAR" \/ FiscalYearIsCalendar(policy)
         THEN label ELSE label - 1,
         policy.month, policy.day)

-----------------------------------------------------------------------------
(* Resolution *)

(* _instant_at: local midnight as an instant. *)
InstantAt(date, policy) == 24 * Ordinal(date) - policy.offset

LocalDate(instant, policy) == DateOf((instant + policy.offset) \div 24)

Move(date, unit, n) == IF unit = "DAY" THEN PlusDays(date, n) ELSE AddMonths(date, n)

(* _rolling: calendar arithmetic back from today, up to now. *)
RollingUnits == [DAY |-> <<"DAY", 1>>, WEEK |-> <<"DAY", 7>>, MONTH |-> <<"MONTH", 1>>,
                 QUARTER |-> <<"MONTH", 3>>, YEAR |-> <<"MONTH", 12>>]

RollingStart(intent, today) ==
    Move(today, RollingUnits[intent.unit][1], -(intent.value * RollingUnits[intent.unit][2]))

(* _named_quarter *)
NamedQuarterStart(intent, policy) ==
    IF intent.fiscal
    THEN AddMonths(NamedFiscalYearStart(intent.year, policy), 3 * (intent.quarter - 1))
    ELSE Date(intent.year, 3 * (intent.quarter - 1) + 1, 1)

(* The branches of _primary: where a period is counted from, the unit it is
   counted in, how far it starts before that, and how long it is; 0 is up to
   now. *)
Shape(of, unit, back, length) == [of |-> of, unit |-> unit, back |-> back, length |-> length]

Shapes ==
    [TODAY |-> Shape("day", "DAY", 0, 1),
     YESTERDAY |-> Shape("day", "DAY", 1, 1),
     WEEK_TO_DATE |-> Shape("week", "DAY", 0, 0),
     LAST_WEEK |-> Shape("week", "DAY", 7, 7),
     MONTH_TO_DATE |-> Shape("month", "MONTH", 0, 0),
     LAST_MONTH |-> Shape("month", "MONTH", 1, 1),
     QUARTER_TO_DATE |-> Shape("quarter", "MONTH", 0, 0),
     LAST_QUARTER |-> Shape("quarter", "MONTH", 3, 3),
     YEAR_TO_DATE |-> Shape("year", "MONTH", 0, 0),
     LAST_YEAR |-> Shape("year", "MONTH", 12, 12),
     FISCAL_YEAR_TO_DATE |-> Shape("fiscal year", "MONTH", 0, 0),
     FISCAL_YEAR |-> Shape("fiscal year", "MONTH", 0, 12),
     LAST_FISCAL_YEAR |-> Shape("fiscal year", "MONTH", 12, 12),
     FISCAL_QUARTER_TO_DATE |-> Shape("fiscal quarter", "MONTH", 0, 0),
     LAST_FISCAL_QUARTER |-> Shape("fiscal quarter", "MONTH", 3, 3),
     NAMED_FISCAL_YEAR |-> Shape("named year", "MONTH", 0, 12),
     NAMED_QUARTER |-> Shape("named quarter", "MONTH", 0, 3),
     ROLLING |-> Shape("rolling", "MONTH", 0, 0)]

(* The date a period is counted from. *)
Origin(intent, policy, today, of) ==
    CASE of = "day" -> today
      [] of = "week" -> WeekStart(today, policy)
      [] of = "month" -> Date(today.year, today.month, 1)
      [] of = "quarter" -> QuarterStart(today)
      [] of = "year" -> Date(today.year, 1, 1)
      [] of = "fiscal year" -> FiscalYearStart(today, policy)
      [] of = "fiscal quarter" -> FiscalQuarterStart(today, policy)
      [] of = "named year" -> NamedFiscalYearStart(intent.year, policy)
      [] of = "named quarter" -> NamedQuarterStart(intent, policy)
      [] of = "rolling" -> RollingStart(intent, today)

(* A period of a shape from a date. *)
Spanning(from, shape, policy, now) ==
    [start |-> InstantAt(from, policy),
     end |-> IF shape.length = 0 THEN now
             ELSE InstantAt(Move(from, shape.unit, shape.length), policy)]

(* _primary *)
Primary(intent, policy, now) ==
    LET shape == Shapes[intent.period]
        origin == Origin(intent, policy, LocalDate(now, policy), shape.of)
    IN  Spanning(Move(origin, shape.unit, -shape.back), shape, policy, now)

(* _shift_years: the same local wall-clock moment in another year. *)
ShiftYears(instant, years, policy) ==
    InstantAt(AddMonths(LocalDate(instant, policy), 12 * years), policy)
        + ((instant + policy.offset) % 24)

(* A slip: the comparison runs over the whole of last year's calendar. *)
Comparison_WholeYear(intent, policy, primary) ==
    [start |-> ShiftYears(primary.start, -1, policy), end |-> primary.start]

(* _comparison *)
Comparison(intent, policy, primary) ==
    IF intent.comparison = "SAME_PERIOD_LAST_YEAR"
    THEN [start |-> ShiftYears(primary.start, -1, policy),
          end |-> ShiftYears(primary.end, -1, policy)]
    ELSE [start |-> 2 * primary.start - primary.end, end |-> primary.start]

Ordered(period) == period.start < period.end

Unresolved == [resolved |-> FALSE]

(* ResolvedTimePlan of a period and what it is compared with. *)
Planned(intent, primary, comparison) ==
    IF ~Ordered(primary) \/ (intent.comparison # "NONE" /\ ~Ordered(comparison))
    THEN Unresolved
    ELSE [resolved |-> TRUE, primary |-> primary,
          compared |-> intent.comparison # "NONE", comparison |-> comparison]

WithComparison(intent, policy, primary) ==
    Planned(intent, primary, Comparison(intent, policy, primary))

(* resolve: refused without a confirmed fiscal calendar, without a period, or
   when a period would not end after it starts (Period.__post_init__). *)
Resolve(intent, policy, now) ==
    IF (NeedsFiscalCalendar(intent) /\ policy.status # "CONFIRMED") \/ intent.period = "NONE"
    THEN Unresolved
    ELSE WithComparison(intent, policy, Primary(intent, policy, now))

-----------------------------------------------------------------------------
(* Reference *)

Only(period) == Intent(period, "NONE", 1, "DAY", 1, 1, FALSE)
Quarter(year, q) == Intent("NAMED_QUARTER", "NONE", 1, "DAY", year, q, TRUE)
Year(year) == Intent("NAMED_FISCAL_YEAR", "NONE", 1, "DAY", year, 1, FALSE)

Meet(a, b) == a.end = b.start

Covers(period, now) == period.start <= now /\ now < period.end

(* What "consecutive periods tile without gaps or overlaps" (resolver.py:13)
   asks of the periods of one calendar and one moment: the finished period
   ends where the running one starts; the fiscal year holds the moment and is
   what its own label names; its four fiscal quarters tile it; and the fiscal
   quarter to date starts where one of them does, the one that holds the
   moment. *)
Tiled(at, named, quarter, now) ==
    /\ Meet(at["LAST_WEEK"], at["WEEK_TO_DATE"])
    /\ Meet(at["LAST_MONTH"], at["MONTH_TO_DATE"])
    /\ Meet(at["LAST_QUARTER"], at["QUARTER_TO_DATE"])
    /\ Meet(at["LAST_YEAR"], at["YEAR_TO_DATE"])
    /\ Meet(at["LAST_FISCAL_YEAR"], at["FISCAL_YEAR"])
    /\ Meet(at["LAST_FISCAL_QUARTER"], at["FISCAL_QUARTER_TO_DATE"])
    /\ Covers(at["FISCAL_YEAR"], now)
    /\ named = at["FISCAL_YEAR"]
    /\ quarter[1].start = named.start /\ quarter[4].end = named.end
    /\ \A i \in 1..3 : Meet(quarter[i], quarter[i + 1])
    /\ \E i \in 1..4 : /\ quarter[i].start = at["FISCAL_QUARTER_TO_DATE"].start
                       /\ Covers(quarter[i], now)

Tiles(policy, now) ==
    LET label == FiscalLabel(FiscalYearStart(LocalDate(now, policy), policy), policy)
        plain == (CalendarPeriods \cup FiscalPeriods) \ {"NAMED_FISCAL_YEAR", "NAMED_QUARTER"}
    IN  Tiled([p \in plain |-> Primary(Only(p), policy, now)],
              Primary(Year(label), policy, now),
              [i \in 1..4 |-> Primary(Quarter(label, i), policy, now)],
              now)

Length(period) == period.end - period.start

(* "A comparison period is the same shape as the period it compares to"
   (resolver.py:14): the period before ends where its period starts and is as
   long; the period of the year before starts and ends one year's days, 365
   or 366, earlier. *)
OneYear == {24 * 365, 24 * 366}

Shaped(intent, plan) ==
    plan.resolved /\ plan.compared =>
        IF intent.comparison = "SAME_PERIOD_LAST_YEAR"
        THEN /\ plan.primary.start - plan.comparison.start \in OneYear
             /\ plan.primary.end - plan.comparison.end \in OneYear
        ELSE /\ Meet(plan.comparison, plan.primary)
             /\ Length(plan.comparison) = Length(plan.primary)

SameShape(intent, policy, now) == Shaped(intent, Resolve(intent, policy, now))
=============================================================================

------------------------------- MODULE DateRanges -------------------------------
(***************************************************************************)
(* Calendar arithmetic of domain/services/date_range_service.py: which     *)
(* instants a dashboard request asks for.                                  *)
(*                                                                         *)
(* An instant is a number of ticks, in UTC. A day has DayTicks of them,    *)
(* local midnight (America/Lima) is Offset ticks after UTC midnight, and a *)
(* year has Months months of MonthDays[m] days: small calendars have every *)
(* boundary a large one has. timezone.now() is in UTC, timezone.localdate()*)
(* is a local date.                                                        *)
(***************************************************************************)
EXTENDS Integers, FiniteSets

CONSTANTS
    DayTicks, Offset, Months, MonthDays, WeekDays,
    MinYear, MaxYear, \* datetime.MINYEAR and MAXYEAR
    MaxRangeDays,    \* MAX_RANGE_DAYS
    Rolling          \* days of each ?range= window: a function of its names

ASSUME CalendarAssumption ==
    /\ DayTicks \in Nat \ {0} /\ Offset \in 0..(DayTicks - 1)
    /\ Months \in Nat \ {0} /\ MonthDays \in [1..Months -> Nat \ {0}]
    /\ WeekDays \in Nat \ {0} /\ MaxRangeDays \in Nat
    /\ MinYear \in Nat /\ MaxYear \in Nat
    /\ DOMAIN Rolling \subseteq STRING /\ "7d" \in DOMAIN Rolling

VARIABLE now    \* the clock of the server

-----------------------------------------------------------------------------
DaysBefore[m \in 1..(Months + 1)] == IF m = 1 THEN 0 ELSE DaysBefore[m - 1] + MonthDays[m - 1]

YearDays == DaysBefore[Months + 1]

\* A month is a pair <<year, month>>; the day numbers of its first and last day.
FirstDay(ym) == ym[1] * YearDays + DaysBefore[ym[2]]
LastDay(ym)  == FirstDay(ym) + MonthDays[ym[2]] - 1

MonthOfDay(d) ==
    <<d \div YearDays, CHOOSE m \in 1..Months :
                          DaysBefore[m] <= d % YearDays /\ d % YearDays < DaysBefore[m + 1]>>

UtcDay(t)    == t \div DayTicks
LocalDay(t)  == (t - Offset) \div DayTicks
UtcMonth(t)  == MonthOfDay(UtcDay(t))

LocalMidnight(d) == d * DayTicks + Offset

\* (ny, nm) <= (year, month), as tuples compare.
NotAfter(a, b) == a[1] < b[1] \/ (a[1] = b[1] /\ a[2] <= b[2])

-----------------------------------------------------------------------------
(* Ranges [from, to] include both ends; Always has no bounds.               *)

Missing == -1

Always == [from |-> Missing, to |-> Missing]

Within(t, r) == r = Always \/ (r.from <= t /\ t <= r.to)

\* The whole UTC day of now, although the day of the user is local.
TodayRange(t) == [from |-> UtcDay(t) * DayTicks, to |-> (UtcDay(t) + 1) * DayTicks - 1]

WeekRange(t) == [from |-> (UtcDay(t) - (UtcDay(t) % WeekDays)) * DayTicks, to |-> t]

\* First local midnight to the last instant of the last local day.
MonthRange(ym) ==
    [from |-> LocalMidnight(FirstDay(ym)), to |-> LocalMidnight(LastDay(ym) + 1) - 1]

YearRange(y) == [from |-> MonthRange(<<y, 1>>).from, to |-> MonthRange(<<y, Months>>).to]

RollingRange(t, n) == [from |-> t - n * DayTicks, to |-> t]

\* Both days whole; (end - start).days is one less than the days it spans.
CustomRange(s, e) == [from |-> LocalMidnight(s), to |-> LocalMidnight(e + 1) - 1]

CustomRefused(s, e) == s > e \/ e - s > MaxRangeDays

ValidMonth(m) == m \in 1..Months
ValidYear(y) == y \in MinYear..MaxYear

-----------------------------------------------------------------------------
(* from_request. A request has start and end (days; Missing also when the   *)
(* text is no day), a period, a month and a year (numbers, Missing, or      *)
(* Unreadable text) and a range. A month or a year off the calendar stands  *)
(* for all of its side; a year too large for a machine word is left out.    *)

Unreadable == -2

\* month_range defaults each part of the month on its own.
Asked(q, t) ==
    <<IF q.year = Missing THEN UtcMonth(t)[1] ELSE q.year,
      IF q.month = Missing THEN UtcMonth(t)[2] ELSE q.month>>

NamesCustom(q) == q.start # Missing /\ q.end # Missing /\ ~CustomRefused(q.start, q.end)

\* int(), the month's own check and datetime() each refuse; all are caught.
NamesMonth(q, t) ==
    /\ ~NamesCustom(q) /\ q.period = "month" /\ Unreadable \notin {q.month, q.year}
    /\ ValidMonth(Asked(q, t)[2]) /\ ValidYear(Asked(q, t)[1])

NamesYear(q, t) == q.period = "year" /\ q.year # Unreadable /\ ValidYear(Asked(q, t)[1])

Legacy(q, t) ==
    IF q.range = "all" THEN Always
    ELSE RollingRange(t, Rolling[IF q.range \in DOMAIN Rolling THEN q.range ELSE "7d"])

\* What is refused or cannot be read falls through: days, period, ?range=.
FromRequest(q, t) ==
    IF NamesCustom(q) THEN CustomRange(q.start, q.end)
    ELSE IF NamesMonth(q, t) THEN MonthRange(Asked(q, t))
    ELSE IF q.period = "today" THEN TodayRange(t)
    ELSE IF q.period = "week" THEN WeekRange(t)
    ELSE IF NamesYear(q, t) THEN YearRange(Asked(q, t)[1])
    ELSE Legacy(q, t)

=============================================================================

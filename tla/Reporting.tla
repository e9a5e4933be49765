------------------------------- MODULE Reporting -------------------------------
(***************************************************************************)
(* The day's exchange rate (domain/services/finance_service.py,            *)
(* infrastructure/services/apimigo.py) and the reports of the organization *)
(* (domain/tasks/reporting_tasks.py).                                      *)
(*                                                                         *)
(* Every dashboard page and the 6 a.m. task look the rate up: a row per    *)
(* local date, filled from APIMigo by whoever misses it first. The monthly *)
(* report is kept from being made twice by a cache entry written last.     *)
(***************************************************************************)
EXTENDS DateRanges

CONSTANTS
    Sessions,   \* pages and workers
    Versions,   \* APIMigo may answer differently about one date
    CallTicks,  \* the longest a look-up takes (timeouts of 10 s): less than a day
    CacheTicks, \* life of the report's cache entry: a day
    MaxReports

ASSUME ReportingAssumption ==
    /\ CallTicks \in Nat /\ CallTicks < DayTicks
    /\ CacheTicks \in Nat /\ MaxReports \in Nat

VARIABLES
    rates,      \* ExchangeRate: the rate of each local date looked up so far
    cache,      \* when the cache entry of each month's report ends
    reports,    \* SalesReport rows
    pc, job,    \* where each session is; the date <<d>> or the month <<y, m>> it works on
    answer,     \* what APIMigo answered
    since,      \* when the session began its look-up
    used,       \* history: the rate every look-up returned, with its date
    disturbed   \* history: the months whose report overlapped another or lost its task

repVars == <<rates, cache, reports, pc, job, answer, since, used, disturbed>>

-----------------------------------------------------------------------------
Fallback == <<Missing, 0>>    \* 3.75 and 3.80
NoAnswer == <<>>
NoJob    == <<>>

\* What APIMigo may say of a date.
Quotes(d) == {<<d, v>> : v \in Versions}

RepInit ==
    /\ rates = <<>> /\ cache = <<>>
    /\ reports = {}
    /\ pc = [s \in Sessions |-> "idle"] /\ job = [s \in Sessions |-> NoJob]
    /\ answer = [s \in Sessions |-> NoAnswer] /\ since = [s \in Sessions |-> Missing]
    /\ used = {} /\ disturbed = {}

GoTo(s, l) == pc' = [pc EXCEPT ![s] = l]

\* f with f[k] = v.
With(f, k, v) == [x \in DOMAIN f \cup {k} |-> IF x = k THEN v ELSE f[x]]

End(s) ==
    /\ GoTo(s, "idle")
    /\ job' = [job EXCEPT ![s] = NoJob]
    /\ answer' = [answer EXCEPT ![s] = NoAnswer]
    /\ since' = [since EXCEPT ![s] = Missing]

-----------------------------------------------------------------------------
(* ExchangeService.get_current_rate.                                        *)

\* The row of today, if there is one.
LookUp(s) ==
    /\ pc[s] = "idle"
    /\ LET today == LocalDay(now) IN
       IF today \in DOMAIN rates
       THEN used' = used \cup {<<today, rates[today]>>} /\ UNCHANGED <<pc, job, since>>
       ELSE /\ job' = [job EXCEPT ![s] = <<today>>]
            /\ since' = [since EXCEPT ![s] = now]
            /\ GoTo(s, "ask") /\ UNCHANGED used
    /\ UNCHANGED <<rates, cache, reports, answer, disturbed>>

\* APIMigo is asked about today, and after no answer about the day before
\* today as it is by then; after no answer again, the fallback stands.
Ask(s) ==
    /\ pc[s] \in {"ask", "ask_again"}
    /\ LET date == IF pc[s] = "ask" THEN job[s][1] ELSE LocalDay(now) - 1 IN
       \/ /\ \E q \in Quotes(date) : answer' = [answer EXCEPT ![s] = q]
          /\ GoTo(s, "store")
       \/ /\ pc[s] = "ask"
          /\ GoTo(s, "ask_again") /\ UNCHANGED answer
       \/ /\ pc[s] = "ask_again"
          /\ answer' = [answer EXCEPT ![s] = Fallback]
          /\ GoTo(s, "store")
    /\ UNCHANGED <<rates, cache, reports, job, since, used, disturbed>>

MutRow(d, q) == q

\* get_or_create: the row of the date that is there stays.
Row(d, q) == IF d \in DOMAIN rates THEN rates[d] ELSE q

Store(s) ==
    /\ pc[s] = "store"
    /\ LET day == job[s][1]
           rate == Row(day, answer[s]) IN
       /\ rates' = With(rates, day, rate)
       /\ used' = used \cup {<<day, rate>>}
    /\ End(s)
    /\ UNCHANGED <<cache, reports, disturbed>>

-----------------------------------------------------------------------------
(* generate_monthly_report_task.                                            *)

Cached(ym) == ym \in DOMAIN cache /\ now < cache[ym]

Overlaps(s, ym) == \E x \in Sessions \ {s} : pc[x] \in {"report", "remember"} /\ job[x] = ym

\* The month is given, or it is the month of now in UTC.
StartMonthly(s) ==
    /\ pc[s] = "idle" /\ Cardinality(reports) < MaxReports
    /\ \E ym \in {UtcMonth(now), MonthOfDay(UtcDay(now) - MonthDays[Months])} :
          /\ ~Cached(ym)
          /\ job' = [job EXCEPT ![s] = ym]
          /\ disturbed' = IF Overlaps(s, ym) THEN disturbed \cup {ym} ELSE disturbed
    /\ GoTo(s, "report")
    /\ UNCHANGED <<rates, cache, reports, answer, since, used>>

\* The report is committed; its window ends at the first instant after the
\* month, which the next month's window counts again.
CreateMonthly(s) ==
    /\ pc[s] = "report"
    /\ reports' = reports \cup {[month |-> job[s], at |-> now, by |-> s,
                                 from |-> MonthRange(job[s]).from, to |-> MonthRange(job[s]).to + 1]}
    /\ GoTo(s, "remember")
    /\ UNCHANGED <<rates, cache, job, answer, since, used, disturbed>>

MutRemember(s) ==
    cache' = With(cache, UtcMonth(now), now + CacheTicks)

\* cache.set, after the notification.
Remember(s) == cache' = With(cache, job[s], now + CacheTicks)

FinishMonthly(s) ==
    /\ pc[s] = "remember"
    /\ Remember(s)
    /\ End(s)
    /\ UNCHANGED <<rates, reports, used, disturbed>>

\* The notification raises or the worker dies: the report stays, unremembered.
LoseTask(s) ==
    /\ pc[s] \in {"report", "remember"}
    /\ disturbed' = IF pc[s] = "remember" THEN disturbed \cup {job[s]} ELSE disturbed
    /\ End(s)
    /\ UNCHANGED <<rates, cache, reports, used>>

RepStep(s) == Ask(s) \/ Store(s) \/ CreateMonthly(s) \/ FinishMonthly(s)

\* A look-up ends within CallTicks.
InTime == \A s \in Sessions : pc[s] \in {"ask", "ask_again"} => now + 1 - since[s] <= CallTicks

-----------------------------------------------------------------------------
(* Properties.                                                              *)

\* Whoever looks up the rate of a day gets the same rate, although sessions
\* ask at once and APIMigo answers them differently, and it is that day's
\* rate, the one before or the fallback, also for a look-up that midnight
\* overtakes.
OneRatePerDay ==
    /\ \A u, v \in used : u[1] = v[1] => u[2] = v[2]
    /\ \A u \in used : u[2] = Fallback \/ u[2][1] \in {u[1] - 1, u[1]}

\* A month is not reported twice within the life of the cache entry, unless
\* two tasks overlapped or one ended between its report and its cache entry.
OneReportADay ==
    \A r, t \in reports :
        (r # t /\ r.month = t.month /\ r.month \notin disturbed)
            => r.at + CacheTicks <= t.at \/ t.at + CacheTicks <= r.at

=============================================================================

--------------------------- MODULE BackOffice_proofs ---------------------------
(***************************************************************************)
(* Proofs about the exchange rate and the monthly report, for any          *)
(* calendar, sessions and answers of APIMigo, without bounds on events.    *)
(*                                                                         *)
(* A day has one rate because a row, once stored, stays and every look-up  *)
(* returns the row's rate; it is of that day or the day before because a   *)
(* look-up ends before a second midnight. A month is reported once a day   *)
(* because a report that is not yet remembered belongs to a task that      *)
(* still runs, and a task started beside it is an overlap.                 *)
(***************************************************************************)
EXTENDS BackOffice, TLAPS

Asking(s)    == pc[s] \in {"ask", "ask_again"}
Making(s)    == pc[s] \in {"report", "remember"}

\* q may be the rate of day d: the fallback, or what APIMigo said of d or of
\* the day before.
RateOf(d, q) == q = Fallback \/ q[1] \in {d - 1, d}

Clocked ==
    /\ now \in Int
    /\ \A s \in Sessions : Asking(s) => /\ since[s] \in Int /\ since[s] <= now
                                        /\ now - since[s] <= CallTicks
                                        /\ job[s] = <<LocalDay(since[s])>>

Functions == /\ pc \in [Sessions -> {"idle", "ask", "ask_again", "store", "report", "remember"}]
             /\ DOMAIN job = Sessions /\ DOMAIN answer = Sessions /\ DOMAIN since = Sessions

Rates ==
    /\ \A d \in DOMAIN rates : RateOf(d, rates[d])
    /\ \A u \in used : u[1] \in DOMAIN rates /\ u[2] = rates[u[1]]
    /\ \A s \in Sessions : pc[s] = "store" => RateOf(job[s][1], answer[s])

Remembered ==
    /\ \A s, x \in Sessions : (s # x /\ Making(s) /\ Making(x) /\ job[s] = job[x])
                                 => job[s] \in disturbed
    /\ \A r \in reports : r.at \in Int /\ r.at <= now
    /\ \A k \in DOMAIN cache : cache[k] \in Int
    /\ \A s \in Sessions : (pc[s] = "report" /\ job[s] \notin disturbed)
          => \A r \in reports : r.month = job[s] => r.at + CacheTicks <= now
    /\ \A r \in reports : r.month \notin disturbed =>
          \/ \E s \in Sessions : pc[s] = "remember" /\ job[s] = r.month
          \/ r.month \in DOMAIN cache /\ r.at + CacheTicks <= cache[r.month]

BInv == Functions /\ Clocked /\ Rates /\ Remembered /\ OneReportADay

-----------------------------------------------------------------------------
(* Within CallTicks the local date changes once at most.                    *)
LEMMA Stretch ==
    ASSUME NEW D \in Nat \ {0}, NEW x \in Int, NEW y \in Int, y >= x + 2
    PROVE  D * y >= D * x + 2 * D
<1>1. PICK k \in Nat : y = x + 2 + k
    <2>1. y - x - 2 \in Nat /\ y = x + 2 + (y - x - 2)
        OBVIOUS
    <2>. QED BY <2>1
<1>2. D * y = D * x + 2 * D + D * k
    BY <1>1
<1>3. D * k >= 0
    BY <1>1
<1>. QED BY <1>2, <1>3

LEMMA OneMidnight ==
    ASSUME NEW a \in Int, NEW b \in Int, a <= b, b - a <= CallTicks
    PROVE  LocalDay(b) \in {LocalDay(a), LocalDay(a) + 1}
<1> DEFINE x == (a - Offset) \div DayTicks
           y == (b - Offset) \div DayTicks
<1>1. DayTicks \in Nat \ {0} /\ Offset \in Int /\ CallTicks \in Nat /\ CallTicks < DayTicks
    BY CalendarAssumption, ReportingAssumption
<1>2. x \in Int /\ DayTicks * x <= a - Offset /\ a - Offset < DayTicks * x + DayTicks
    BY <1>1
<1>3. y \in Int /\ DayTicks * y <= b - Offset /\ b - Offset < DayTicks * y + DayTicks
    BY <1>1
<1>. HIDE DEF x, y
<1>4. ~(y >= x + 2)
    BY <1>1, <1>2, <1>3, Stretch
<1>5. ~(x >= y + 1)
    BY <1>1, <1>2, <1>3
<1>6. y \in {x, x + 1}
    BY <1>2, <1>3, <1>4, <1>5
<1>. QED BY <1>6 DEF LocalDay, x, y

-----------------------------------------------------------------------------
(* The shape of the steps.                                                  *)
LEMMA NextCases ==
    ASSUME [Next]_vars
    PROVE  \/ now' = now + 1 /\ InTime /\ UNCHANGED repVars
           \/ UNCHANGED <<now, repVars>>
           \/ now' = now /\ \E s \in Sessions : LookUp(s) \/ StartMonthly(s) \/ LoseTask(s) \/ RepStep(s)
<1>. QED BY DEF Next, Tick, DashEvent, RepEvent, Step, Event, vars

(* Nothing of the reports changes and time passes.                          *)
LEMMA TickKeeps ==
    ASSUME BInv, UNCHANGED repVars, now' = now \/ (now' = now + 1 /\ InTime)
    PROVE  BInv'
<1>1. Functions'
    BY DEF BInv, Functions, repVars
<1>2. Clocked'
    BY DEF BInv, Clocked, Asking, InTime, repVars, LocalDay
<1>3. Rates'
    BY DEF BInv, Rates, RateOf, repVars
<1>4. Remembered'
    BY ReportingAssumption DEF BInv, Remembered, Clocked, Making, repVars
<1>5. OneReportADay'
    BY DEF BInv, OneReportADay, repVars
<1>. QED BY <1>1, <1>2, <1>3, <1>4, <1>5 DEF BInv

LEMMA FunctionsStep ==
    ASSUME BInv, NEW s \in Sessions,
           LookUp(s) \/ StartMonthly(s) \/ LoseTask(s) \/ RepStep(s)
    PROVE  Functions'
<1>. USE DEF BInv, Functions
<1>1. CASE LookUp(s)
    BY <1>1 DEF LookUp, GoTo
<1>2. CASE Ask(s)
    BY <1>2 DEF Ask, GoTo
<1>3. CASE Store(s)
    BY <1>3 DEF Store, End, GoTo
<1>4. CASE StartMonthly(s)
    BY <1>4 DEF StartMonthly, GoTo
<1>5. CASE CreateMonthly(s)
    BY <1>5 DEF CreateMonthly, GoTo
<1>6. CASE FinishMonthly(s)
    BY <1>6 DEF FinishMonthly, End, GoTo
<1>7. CASE LoseTask(s)
    BY <1>7 DEF LoseTask, End, GoTo
<1>. QED BY <1>1, <1>2, <1>3, <1>4, <1>5, <1>6, <1>7 DEF RepStep

LEMMA ClockedStep ==
    ASSUME BInv, now' = now, NEW s \in Sessions,
           LookUp(s) \/ StartMonthly(s) \/ LoseTask(s) \/ RepStep(s)
    PROVE  Clocked'
<1>. USE DEF BInv, Functions, Clocked, Asking, LocalDay
<1>1. CASE LookUp(s)
    BY <1>1, ReportingAssumption DEF LookUp, GoTo
<1>2. CASE Ask(s)
    BY <1>2 DEF Ask, GoTo
<1>3. CASE Store(s)
    BY <1>3 DEF Store, End, GoTo
<1>4. CASE StartMonthly(s)
    BY <1>4 DEF StartMonthly, GoTo
<1>5. CASE CreateMonthly(s)
    BY <1>5 DEF CreateMonthly, GoTo
<1>6. CASE FinishMonthly(s)
    BY <1>6 DEF FinishMonthly, End, GoTo
<1>7. CASE LoseTask(s)
    BY <1>7 DEF LoseTask, End, GoTo
<1>. QED BY <1>1, <1>2, <1>3, <1>4, <1>5, <1>6, <1>7 DEF RepStep

(* The day before today, as a look-up sees it that midnight may overtake, is *)
(* the day it asks for or the one before.                                   *)
LEMMA AskRate ==
    ASSUME BInv, NEW s \in Sessions, Ask(s), pc'[s] = "store"
    PROVE  RateOf(job'[s][1], answer'[s])
<1>1. /\ since[s] \in Int /\ since[s] <= now /\ now - since[s] <= CallTicks /\ now \in Int
      /\ job[s] = <<LocalDay(since[s])>> /\ job' = job
    BY DEF BInv, Clocked, Asking, Ask
<1>2. LocalDay(now) \in {LocalDay(since[s]), LocalDay(since[s]) + 1}
    BY <1>1, OneMidnight
<1>3. job'[s][1] = LocalDay(since[s]) /\ LocalDay(since[s]) \in Int
    BY <1>1, CalendarAssumption DEF LocalDay
<1>4. \/ answer'[s] = Fallback
      \/ answer'[s] \in Quotes(job[s][1])
      \/ answer'[s] \in Quotes(LocalDay(now) - 1)
    BY DEF BInv, Functions, Ask, GoTo
<1>5. answer'[s] = Fallback \/ answer'[s][1] \in {job[s][1], LocalDay(now) - 1}
    BY <1>4 DEF Quotes
<1>. QED BY <1>1, <1>2, <1>3, <1>5 DEF RateOf

LEMMA RatesStep ==
    ASSUME BInv, now' = now, NEW s \in Sessions,
           LookUp(s) \/ StartMonthly(s) \/ LoseTask(s) \/ RepStep(s)
    PROVE  Rates'
<1>. USE DEF BInv, Functions, Rates
<1>1. CASE LookUp(s)
    BY <1>1 DEF LookUp, GoTo
<1>2. CASE Ask(s)
    BY <1>2, AskRate DEF Ask, GoTo
<1>3. CASE Store(s)
    <2> DEFINE day == job[s][1]
               rate == Row(day, answer[s])
    <2>1. RateOf(day, rate) /\ (day \in DOMAIN rates => rate = rates[day])
        BY <1>3 DEF Store, Row
    <2>2. /\ DOMAIN rates' = DOMAIN rates \cup {day}
          /\ \A d \in DOMAIN rates' : rates'[d] = IF d = day THEN rate ELSE rates[d]
          /\ used' = used \cup {<<day, rate>>}
        BY <1>3 DEF Store, With
    <2>3. \A x \in Sessions : pc'[x] = "store" =>
              pc[x] = "store" /\ job'[x] = job[x] /\ answer'[x] = answer[x]
        BY <1>3 DEF Store, End, GoTo
    <2>. HIDE DEF day, rate
    <2>4. \A d \in DOMAIN rates' : RateOf(d, rates'[d])
        BY <2>1, <2>2
    <2>5. \A u \in used' : u[1] \in DOMAIN rates' /\ u[2] = rates'[u[1]]
        BY <2>1, <2>2
    <2>6. \A x \in Sessions : pc'[x] = "store" => RateOf(job'[x][1], answer'[x])
        BY <2>3
    <2>. QED BY <2>4, <2>5, <2>6 DEF RateOf
<1>4. CASE StartMonthly(s)
    BY <1>4 DEF StartMonthly, GoTo
<1>5. CASE CreateMonthly(s)
    BY <1>5 DEF CreateMonthly, GoTo
<1>6. CASE FinishMonthly(s)
    BY <1>6 DEF FinishMonthly, End, GoTo
<1>7. CASE LoseTask(s)
    BY <1>7 DEF LoseTask, End, GoTo
<1>. QED BY <1>1, <1>2, <1>3, <1>4, <1>5, <1>6, <1>7 DEF RepStep

-----------------------------------------------------------------------------
(* The sessions a step of s leaves alone, when it touches no report.        *)
LEMMA RememberedKept ==
    ASSUME BInv, now' = now, UNCHANGED <<cache, reports, disturbed>>,
           \A x \in Sessions : /\ Making(x)' => Making(x) /\ job'[x] = job[x]
                               /\ pc'[x] = "report" <=> pc[x] = "report"
                               /\ pc[x] = "remember" => pc'[x] = "remember" /\ job'[x] = job[x]
    PROVE  Remembered'
<1>1. \A t, x \in Sessions : (t # x /\ Making(t)' /\ Making(x)' /\ job'[t] = job'[x])
                                 => job'[t] \in disturbed'
    BY DEF BInv, Remembered
<1>2. \A t \in Sessions : (pc'[t] = "report" /\ job'[t] \notin disturbed')
          => \A r \in reports' : r.month = job'[t] => r.at + CacheTicks <= now'
    BY DEF BInv, Remembered, Making
<1>3. \A r \in reports' : r.month \notin disturbed' =>
          \/ \E t \in Sessions : pc'[t] = "remember" /\ job'[t] = r.month
          \/ r.month \in DOMAIN cache' /\ r.at + CacheTicks <= cache'[r.month]
    BY DEF BInv, Remembered
<1>. QED BY <1>1, <1>2, <1>3 DEF BInv, Remembered, Making

(* A new task: either the month's entry has ended and so have the days of   *)
(* all its reports, or another task of it runs and the month is disturbed.  *)
LEMMA StartStep ==
    ASSUME BInv, now' = now, NEW s \in Sessions, StartMonthly(s)
    PROVE  Remembered'
<1>1. PICK ym : /\ ~Cached(ym)
                /\ job' = [job EXCEPT ![s] = ym]
                /\ disturbed' = IF Overlaps(s, ym) THEN disturbed \cup {ym} ELSE disturbed
    BY DEF StartMonthly
<1>2. pc[s] = "idle" /\ pc' = [pc EXCEPT ![s] = "report"] /\ UNCHANGED <<cache, reports>>
    BY DEF StartMonthly, GoTo
<1>3. \A x \in Sessions \ {s} : job'[x] = job[x] /\ pc'[x] = pc[x]
    BY <1>1, <1>2 DEF BInv, Functions
<1>4. job'[s] = ym /\ pc'[s] = "report" /\ disturbed \subseteq disturbed'
    BY <1>1, <1>2 DEF BInv, Functions
<1>5. \A t, x \in Sessions : (t # x /\ Making(t)' /\ Making(x)' /\ job'[t] = job'[x])
                                 => job'[t] \in disturbed'
    BY <1>1, <1>3, <1>4 DEF BInv, Remembered, Making, Overlaps
<1>6. ASSUME NEW r \in reports, r.month = ym, ym \notin disturbed' PROVE r.at + CacheTicks <= now
    <2>1. ym \notin disturbed /\ ~Overlaps(s, ym)
        BY <1>1, <1>6
    <2>2. ~\E t \in Sessions : pc[t] = "remember" /\ job[t] = ym
        BY <1>2, <2>1 DEF Overlaps
    <2>3. ym \in DOMAIN cache /\ r.at + CacheTicks <= cache[ym]
        BY <1>6, <2>1, <2>2 DEF BInv, Remembered
    <2>4. cache[ym] \in Int /\ now \in Int /\ r.at \in Int /\ CacheTicks \in Nat
        BY <2>3, ReportingAssumption DEF BInv, Remembered, Clocked
    <2>. QED BY <1>1, <2>3, <2>4 DEF Cached
<1>7. \A t \in Sessions : (pc'[t] = "report" /\ job'[t] \notin disturbed')
          => \A r \in reports' : r.month = job'[t] => r.at + CacheTicks <= now'
    BY <1>2, <1>3, <1>4, <1>6 DEF BInv, Remembered
<1>8. \A r \in reports' : r.month \notin disturbed' =>
          \/ \E t \in Sessions : pc'[t] = "remember" /\ job'[t] = r.month
          \/ r.month \in DOMAIN cache' /\ r.at + CacheTicks <= cache'[r.month]
    BY <1>2, <1>3, <1>4 DEF BInv, Remembered
<1>. QED BY <1>2, <1>5, <1>7, <1>8 DEF BInv, Remembered

(* The new report is the task's own: its entry is still to be written.      *)
LEMMA CreateStep ==
    ASSUME BInv, now' = now, NEW s \in Sessions, CreateMonthly(s)
    PROVE  Remembered' /\ OneReportADay'
<1> DEFINE new == [month |-> job[s], at |-> now, by |-> s,
                   from |-> MonthRange(job[s]).from, to |-> MonthRange(job[s]).to + 1]
<1>1. /\ pc[s] = "report" /\ pc' = [pc EXCEPT ![s] = "remember"]
      /\ reports' = reports \cup {new} /\ UNCHANGED <<job, cache, disturbed>>
    BY DEF CreateMonthly, GoTo
<1>2. new.month = job[s] /\ new.at = now
    OBVIOUS
<1>. HIDE DEF new
<1>3. pc'[s] = "remember" /\ \A x \in Sessions \ {s} : pc'[x] = pc[x]
    BY <1>1 DEF BInv, Functions
<1>4. \A r \in reports : r.month = new.month /\ new.month \notin disturbed => r.at + CacheTicks <= new.at
    BY <1>1, <1>2 DEF BInv, Remembered
<1>5. \A t, x \in Sessions : (t # x /\ Making(t)' /\ Making(x)' /\ job'[t] = job'[x])
                                 => job'[t] \in disturbed'
    BY <1>1, <1>3 DEF BInv, Remembered, Making
<1>6. \A t \in Sessions : (pc'[t] = "report" /\ job'[t] \notin disturbed')
          => \A r \in reports' : r.month = job'[t] => r.at + CacheTicks <= now'
    <2>1. ASSUME NEW t \in Sessions, pc'[t] = "report", job'[t] \notin disturbed'
          PROVE  job[t] # job[s] /\ pc[t] = "report"
        BY <1>1, <1>3, <2>1 DEF BInv, Remembered, Making
    <2>. QED BY <1>1, <1>2, <2>1 DEF BInv, Remembered
<1>7. \A r \in reports' : r.month \notin disturbed' =>
          \/ \E t \in Sessions : pc'[t] = "remember" /\ job'[t] = r.month
          \/ r.month \in DOMAIN cache' /\ r.at + CacheTicks <= cache'[r.month]
    BY <1>1, <1>2, <1>3 DEF BInv, Remembered
<1>8. \A r \in reports' : r.at \in Int /\ r.at <= now'
    BY <1>1, <1>2 DEF BInv, Remembered, Clocked
<1>9. Remembered'
    BY <1>1, <1>5, <1>6, <1>7, <1>8 DEF BInv, Remembered
<1>10. OneReportADay'
    BY <1>1, <1>4 DEF BInv, OneReportADay
<1>. QED BY <1>9, <1>10

(* The entry is written for the task's month, and outlives every report.    *)
LEMMA FinishStep ==
    ASSUME BInv, now' = now, NEW s \in Sessions, FinishMonthly(s)
    PROVE  Remembered'
<1>1. /\ pc[s] = "remember" /\ pc'[s] = "idle" /\ UNCHANGED <<reports, disturbed>>
      /\ \A x \in Sessions \ {s} : pc'[x] = pc[x] /\ job'[x] = job[x]
    BY DEF FinishMonthly, End, GoTo, BInv, Functions
<1>2. /\ DOMAIN cache' = DOMAIN cache \cup {job[s]}
      /\ \A k \in DOMAIN cache' : cache'[k] = IF k = job[s] THEN now + CacheTicks ELSE cache[k]
    BY DEF FinishMonthly, Remember, With
<1>3. now \in Int /\ CacheTicks \in Nat
    BY ReportingAssumption DEF BInv, Clocked
<1>4. \A t, x \in Sessions : (t # x /\ Making(t)' /\ Making(x)' /\ job'[t] = job'[x])
                                 => job'[t] \in disturbed'
    BY <1>1 DEF BInv, Remembered, Making
<1>5. \A k \in DOMAIN cache' : cache'[k] \in Int
    BY <1>2, <1>3 DEF BInv, Remembered
<1>6. \A t \in Sessions : (pc'[t] = "report" /\ job'[t] \notin disturbed')
          => \A r \in reports' : r.month = job'[t] => r.at + CacheTicks <= now'
    BY <1>1 DEF BInv, Remembered
<1>7. ASSUME NEW r \in reports, r.month \notin disturbed
      PROVE  \/ \E t \in Sessions : pc'[t] = "remember" /\ job'[t] = r.month
             \/ r.month \in DOMAIN cache' /\ r.at + CacheTicks <= cache'[r.month]
    <2>1. CASE r.month = job[s]
        BY <1>2, <1>3, <2>1 DEF BInv, Remembered
    <2>2. CASE r.month # job[s]
        BY <1>1, <1>2, <1>7, <2>2 DEF BInv, Remembered
    <2>. QED BY <2>1, <2>2
<1>. QED BY <1>1, <1>4, <1>5, <1>6, <1>7 DEF BInv, Remembered

(* A report that will not be remembered disturbs its month.                 *)
LEMMA LoseStep ==
    ASSUME BInv, now' = now, NEW s \in Sessions, LoseTask(s)
    PROVE  Remembered'
<1>1. /\ Making(s) /\ pc'[s] = "idle" /\ UNCHANGED <<reports, cache>>
      /\ \A x \in Sessions \ {s} : pc'[x] = pc[x] /\ job'[x] = job[x]
      /\ disturbed' = IF pc[s] = "remember" THEN disturbed \cup {job[s]} ELSE disturbed
    BY DEF LoseTask, End, GoTo, BInv, Functions, Making
<1>2. \A t, x \in Sessions : (t # x /\ Making(t)' /\ Making(x)' /\ job'[t] = job'[x])
                                 => job'[t] \in disturbed'
    BY <1>1 DEF BInv, Remembered, Making
<1>3. \A t \in Sessions : (pc'[t] = "report" /\ job'[t] \notin disturbed')
          => \A r \in reports' : r.month = job'[t] => r.at + CacheTicks <= now'
    BY <1>1 DEF BInv, Remembered
<1>4. \A r \in reports' : r.month \notin disturbed' =>
          \/ \E t \in Sessions : pc'[t] = "remember" /\ job'[t] = r.month
          \/ r.month \in DOMAIN cache' /\ r.at + CacheTicks <= cache'[r.month]
    BY <1>1 DEF BInv, Remembered
<1>. QED BY <1>1, <1>2, <1>3, <1>4 DEF BInv, Remembered

LEMMA RememberedStep ==
    ASSUME BInv, now' = now, NEW s \in Sessions,
           LookUp(s) \/ StartMonthly(s) \/ LoseTask(s) \/ RepStep(s)
    PROVE  Remembered' /\ OneReportADay'
<1>1. CASE LookUp(s) \/ Ask(s) \/ Store(s)
    <2>1. UNCHANGED <<cache, reports, disturbed>>
        BY <1>1 DEF LookUp, Ask, Store
    <2>2. \A x \in Sessions : /\ Making(x)' => Making(x) /\ job'[x] = job[x]
                              /\ pc'[x] = "report" <=> pc[x] = "report"
                              /\ pc[x] = "remember" => pc'[x] = "remember" /\ job'[x] = job[x]
        BY <1>1 DEF LookUp, Ask, Store, End, GoTo, BInv, Functions, Making
    <2>3. OneReportADay'
        BY <2>1 DEF BInv, OneReportADay
    <2>. QED BY <2>1, <2>2, <2>3, RememberedKept
<1>2. CASE StartMonthly(s)
    BY <1>2, StartStep DEF StartMonthly, BInv, OneReportADay
<1>3. CASE CreateMonthly(s)
    BY <1>3, CreateStep
<1>4. CASE FinishMonthly(s)
    BY <1>4, FinishStep DEF FinishMonthly, BInv, OneReportADay
<1>5. CASE LoseTask(s)
    BY <1>5, LoseStep DEF LoseTask, BInv, OneReportADay
<1>. QED BY <1>1, <1>2, <1>3, <1>4, <1>5 DEF RepStep

-----------------------------------------------------------------------------
(* BInv is inductive: what the clock, the rates and the reports promise     *)
(* together holds in every reachable state.                                 *)
THEOREM BackOfficeInvariant == Spec => []BInv
<1>1. Init => BInv
    BY BackOfficeAssumption
    DEF Init, RepInit, BInv, Functions, Clocked, Rates, Remembered, OneReportADay, Asking, Making
<1>2. BInv /\ [Next]_vars => BInv'
    <2>. SUFFICES ASSUME BInv, [Next]_vars PROVE BInv'
        OBVIOUS
    <2>1. CASE UNCHANGED repVars /\ (now' = now \/ (now' = now + 1 /\ InTime))
        BY <2>1, TickKeeps
    <2>2. ASSUME now' = now, NEW s \in Sessions,
                 LookUp(s) \/ StartMonthly(s) \/ LoseTask(s) \/ RepStep(s)
          PROVE  BInv'
        BY <2>2, FunctionsStep, ClockedStep, RatesStep, RememberedStep DEF BInv
    <2>. QED BY <2>1, <2>2, NextCases
<1>. QED BY <1>1, <1>2, PTL DEF Spec

(* Everybody gets the same rate for a day, and it is that day's rate, the   *)
(* one before or the fallback, whoever asks at once and across midnight     *)
(* (ExchangeService.get_current_rate).                                      *)
THEOREM RateIsOne == Spec => []OneRatePerDay
<1>1. BInv => OneRatePerDay
    BY DEF BInv, Rates, RateOf, OneRatePerDay
<1>. QED BY <1>1, BackOfficeInvariant, PTL

(* A month is reported once within the life of its cache entry, unless      *)
(* tasks overlapped or one was lost before it wrote the entry               *)
(* (generate_monthly_report_task).                                          *)
THEOREM ReportIsOne == Spec => []OneReportADay
<1>1. BInv => OneReportADay
    BY DEF BInv
<1>. QED BY <1>1, BackOfficeInvariant, PTL

=============================================================================

------------------------------- MODULE Dashboard -------------------------------
(***************************************************************************)
(* The operational dashboard: the figures of                               *)
(* application/services/dashboard.py, the lists its tiles link to, and the *)
(* page with its month navigation (interfaces/web/views.py).               *)
(*                                                                         *)
(* The page only reads. Orders, queue entries and request logs change      *)
(* under it; a page reads the clock several times while it is built.       *)
(***************************************************************************)
EXTENDS DateRanges, FiniteSetsExt

CONSTANTS
    Orders,
    Requests,     \* the query strings of the page
    ChartDays,    \* days of the chart
    StaleTicks    \* STALE_LOCK_MINUTES, of the service and of the view

\* A query string: two days, a period, a month and a year, a window; "other"
\* for a word the page does not know.
Queries ==
    [start: Int, end: Int, period: {"month", "today", "week", "year", "other"},
     month: Int, year: Int, range: DOMAIN Rolling \cup {"all", "other"}]

ASSUME DashboardAssumption ==
    /\ IsFiniteSet(Orders) /\ ChartDays \in Nat /\ StaleTicks \in Nat
    /\ Requests \subseteq Queries

VARIABLES
    orders,   \* creation instant (Missing before) and invoice_status of each order
    queue,    \* status ("none" without an entry) and locked_at of its queue entry
    logs,     \* ExternalRequestLog: instant and success
    page      \* the page being built or shown

dashVars == <<orders, queue, logs, page>>

-----------------------------------------------------------------------------
TerminalOk  == {"accepted", "observed"}
TerminalErr == {"rejected", "failed"}
InFlight    == {"submitted", "sync_pending", "sync_processing", "processing", "queued", "retrying"}
Tracked     == TerminalOk \cup TerminalErr \cup InFlight \cup {"pending", "cancelled"}

CHART_STATUSES == {"accepted", "observed", "rejected", "failed"}

QueueStatuses == {"pending", "processing", "completed", "failed", "exhausted", "dead_letter"}

NoPage == [pc |-> "closed"]
NoMonth == <<Missing, Missing>>

DashInit ==
    /\ orders = [o \in Orders |-> [at |-> Missing, inv |-> "pending"]]
    /\ queue = [o \in Orders |-> [status |-> "none", lock |-> Missing]]
    /\ logs = {}
    /\ page = NoPage

-----------------------------------------------------------------------------
(* What the rest of the system does under the dashboard.                    *)

OrderCreated(o) ==
    /\ orders[o].at = Missing
    /\ orders' = [orders EXCEPT ![o].at = now]
    /\ UNCHANGED <<queue, logs, page>>

\* The pipeline writes an outcome after a call of the provider, and opens,
\* keeps or closes the queue entry.
InvoiceMoves(o) ==
    /\ orders[o].at # Missing /\ orders[o].inv \in {"pending", "sync_pending"}
    /\ \E s \in {"sync_pending", "accepted", "rejected"}, ok \in BOOLEAN :
          /\ s # "sync_pending" => ok
          /\ orders' = [orders EXCEPT ![o].inv = s]
          /\ logs' = logs \cup {[at |-> now, ok |-> ok]}
          /\ queue' = [queue EXCEPT ![o] =
                 [status |-> IF s = "sync_pending" THEN "pending" ELSE "completed", lock |-> Missing]]
    /\ UNCHANGED page

\* A poll takes its lock and may die with it, or gives the entry up.
QueueMoves(o) ==
    /\ queue[o].status \notin {"none", "completed"}
    /\ \E e \in {[status |-> "processing", lock |-> now], [status |-> "exhausted", lock |-> Missing]} :
          queue' = [queue EXCEPT ![o] = e]
    /\ UNCHANGED <<orders, logs, page>>

-----------------------------------------------------------------------------
(* The figures. No code creates an AccountingEntry.                         *)

AccountingEntries == {}

CreatedIn(r) == {o \in Orders : orders[o].at # Missing /\ Within(orders[o].at, r)}

InStatus(S, r) == {o \in CreatedIn(r) : orders[o].inv \in S}

\* InvoiceMetricsService.
InvoiceMetrics(r) ==
    LET n[s \in Tracked] == Cardinality(InStatus({s}, r))
        Total(S) == SumFunctionOnSet(n, S)
    IN  [by_status      |-> n,
         terminal_ok    |-> Total(TerminalOk),
         terminal_err   |-> Total(TerminalErr),
         in_flight      |-> Total(InFlight),
         total_invoiced |-> Total(Tracked \ {"pending"})]

StaleTile == {o \in Orders : queue[o].lock # Missing /\ queue[o].lock < now - StaleTicks}

\* QueueHealthService, over the whole queue.
QueueHealth ==
    [s \in QueueStatuses \cup {"stale"} |->
        Cardinality(IF s = "stale" THEN StaleTile ELSE {o \in Orders : queue[o].status = s})]

\* IntegrationHealthService.
IntegrationHealth(r) ==
    LET seen == {l \in logs : Within(l.at, r)}
    IN  [total |-> Cardinality(seen), failed |-> Cardinality({l \in seen : ~l.ok})]

\* AccountingConsistencyService.
Consistency ==
    LET accepted == InStatus({"accepted"}, Always)
    IN  [missing_entries |-> Cardinality(accepted \ AccountingEntries),
         orphan_entries  |-> Cardinality(AccountingEntries \ accepted)]

MutDailySeries ==
    LET shown == {LocalDay(now) - i : i \in 0..ChartDays}
        rows  == {o \in InStatus(CHART_STATUSES, Always) : orders[o].at >= now - ChartDays * DayTicks}
    IN  [d \in shown |-> [s \in CHART_STATUSES |->
            Cardinality({o \in rows : UtcDay(orders[o].at) = d /\ orders[o].inv = s})]]

\* DailyInvoiceSeriesService: a bar for each local day from today back.
DailySeries ==
    LET shown == {LocalDay(now) - i : i \in 0..ChartDays}
        rows  == {o \in InStatus(CHART_STATUSES, Always) : orders[o].at >= now - ChartDays * DayTicks}
    IN  [d \in shown |-> [s \in CHART_STATUSES |->
            Cardinality({o \in rows : LocalDay(orders[o].at) = d /\ orders[o].inv = s})]]

\* DashboardKPIService.
Kpis(r) ==
    LET terminal == InStatus({"accepted", "observed", "rejected", "failed"}, r)
        accepted == InStatus({"accepted", "observed"}, r)
    IN  [terminal_total  |-> Cardinality(terminal),
         acceptance_rate |-> IF terminal = {} THEN 0
                             ELSE (100 * Cardinality(accepted)) \div Cardinality(terminal)]

-----------------------------------------------------------------------------
(* The lists behind the tiles: of all time, whatever range the page shows.   *)

\* The one status whose orders the link of an invoice tile lists.
Linked == [terminal_ok |-> "accepted", in_flight |-> "submitted", terminal_err |-> "rejected",
           total_invoiced |-> "pending"]

\* order_list_view.
OrderList(s) == InStatus({s}, Always)

\* queue_detail_view; an unknown status lists the whole queue.
QueueList(s) ==
    {o \in Orders : /\ queue[o].status # "none"
                    /\ s = "stale" => o \in StaleTile
                    /\ s \in QueueStatuses => queue[o].status = s}

\* integration_logs_view.
LogList(s) == {l \in logs : s = "error" => ~l.ok}

-----------------------------------------------------------------------------
(* The page.                                                                *)

\* The range is resolved first; a request that names no month, be it for a
\* part that cannot be read, gets no label of one ...
OpenPage(q) ==
    /\ page.pc \in {"closed", "shown", "error"}
    /\ page' = [pc |-> "ranged", q |-> q, opened |-> UtcMonth(now), range |-> FromRequest(q, now),
                label |-> IF NamesMonth(q, now) THEN Asked(q, now) ELSE NoMonth,
                nav |-> NoMonth, prev |-> NoMonth, next |-> NoMonth, shown |-> NoMonth]
    /\ UNCHANGED <<orders, queue, logs>>

\* ... its label reads the clock again ...
LabelPage ==
    /\ page.pc = "ranged"
    /\ page' = [page EXCEPT !.pc = "labelled",
                            !.label = IF page.label # NoMonth THEN Asked(page.q, now) ELSE NoMonth]
    /\ UNCHANGED <<orders, queue, logs>>

MutPrevMonth(ym) == IF ym[2] > 1 THEN <<ym[1], ym[2] - 1>> ELSE <<ym[1], Months>>

PrevMonth(ym) == IF ym[2] > 1 THEN <<ym[1], ym[2] - 1>> ELSE <<ym[1] - 1, Months>>
NextMonth(ym) == IF ym[2] < Months THEN <<ym[1], ym[2] + 1>> ELSE <<ym[1] + 1, 1>>

\* The month of the navigation: the current one for a part that is no number,
\* but a year off the calendar as it is asked for.
Month(q, t) == IF Unreadable \in {q.month, q.year} THEN UtcMonth(t) ELSE Asked(q, t)

\* ... and the navigation once more, for every page of period "month": the
\* name of a month that is none raises.
Navigate ==
    /\ page.pc = "labelled"
    /\ LET nav == Month(page.q, now) IN
       page' = IF page.q.period # "month" THEN [page EXCEPT !.pc = "shown", !.shown = UtcMonth(now)]
               ELSE IF ~ValidMonth(nav[2]) THEN [page EXCEPT !.pc = "error"]
               ELSE [page EXCEPT !.pc = "shown", !.shown = UtcMonth(now), !.nav = nav, !.prev = PrevMonth(nav),
                                 !.next = IF NotAfter(NextMonth(nav), UtcMonth(now))
                                          THEN NextMonth(nav) ELSE NoMonth]
    /\ UNCHANGED <<orders, queue, logs>>

MonthRequest(ym) ==
    [start |-> Missing, end |-> Missing, period |-> "month",
     month |-> ym[2], year |-> ym[1], range |-> "7d"]

\* The user follows a link of the page (not below year 0: a bound).
FollowLink ==
    /\ page.pc = "shown"
    /\ \E ym \in {page.prev, page.next} \ {NoMonth} : ym[1] >= 0 /\ OpenPage(MonthRequest(ym))

DashStep == LabelPage \/ Navigate

-----------------------------------------------------------------------------
(* Properties.                                                              *)

\* At any moment the figures of the page, each from a query of its own, fit
\* together for whatever range it shows: the tiles of errors, successes and
\* invoices in flight with the cancelled ones make up the total, which with
\* the orders still pending makes up all orders; the acceptance rate is taken
\* over the finished invoices the tiles count; no entry of the queue is of a
\* status without a figure; each accepted invoice is one whose accounting
\* entry is missing; and the chart, which groups local days of UTC instants,
\* drops no finished invoice of its days. A tile and the list it links to do
\* not count the same: of its range, a tile counts no fewer than the list
\* shows (but the total none of the pending orders its link lists).
FiguresAgree ==
    /\ \A r \in {Always, TodayRange(now), RollingRange(now, 1)} : LET m == InvoiceMetrics(r) IN
          /\ Kpis(r).terminal_total = m.terminal_ok + m.terminal_err
          /\ m.total_invoiced = m.terminal_ok + m.terminal_err + m.in_flight + m.by_status["cancelled"]
          /\ m.total_invoiced + Cardinality(OrderList(Linked.total_invoiced) \cap CreatedIn(r))
                = Cardinality(CreatedIn(r))
          /\ \A t \in {"terminal_ok", "terminal_err", "in_flight"} :
                Cardinality(OrderList(Linked[t]) \cap CreatedIn(r)) <= m[t]
          /\ IntegrationHealth(r).failed <= Cardinality(LogList("error"))
    /\ SumFunctionOnSet(QueueHealth, QueueStatuses) = Cardinality(QueueList("all"))
    /\ Consistency.missing_entries = Cardinality(OrderList("accepted")) /\ Consistency.orphan_entries = 0
    /\ LET bars == DailySeries IN
          SumFunction([d \in DOMAIN bars |-> SumFunction(bars[d])])
             = Cardinality(InStatus(CHART_STATUSES, RollingRange(now, ChartDays)))

\* Two ranges follow one another, where the calendar has both.
Adjoin(a, b) == ValidYear(a[1]) /\ ValidYear(b[1]) => MonthRange(a).to + 1 = MonthRange(b).from

\* A page whose label names a month shows that month: the range of its
\* figures, its label and its navigation agree, unless the page left a part of
\* the month to the clock and the month ended while it was built. Only a part
\* that is no number, or a year off the calendar, leaves a page of a month
\* without that label; its figures are of ?range= though its navigation names
\* a month. Months follow one another without a gap or an overlap, across the
\* end of a year too, back and forth by the links, which never lead past the
\* current month.
MonthPageAgrees ==
    (page.pc = "shown" /\ page.q.period = "month" /\ ~NamesCustom(page.q)) =>
        /\ (page.label # NoMonth /\ (Missing \notin {page.q.month, page.q.year} \/ page.opened = page.shown))
              => page.range = MonthRange(page.nav) /\ page.label = page.nav
        /\ page.label = NoMonth =>
              \/ Unreadable \in {page.q.month, page.q.year}
              \/ ~ValidYear(IF page.q.year = Missing THEN page.opened[1] ELSE page.q.year)
        /\ Adjoin(page.prev, page.nav) /\ NextMonth(page.prev) = page.nav
        /\ page.next # NoMonth => Adjoin(page.nav, page.next) /\ NotAfter(page.next, page.shown)
        /\ page.next = NoMonth => NotAfter(page.shown, page.nav)

=============================================================================

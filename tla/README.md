# Formal models of nexus-oms-django

A multi-tenant order management system (Django, PostgreSQL, Celery, Redis): orders are
created from stock, paid through a payment gateway, invoiced electronically through Nubefact,
and the invoice is reconciled with SUNAT (the Peruvian tax authority) by polling. This
directory holds TLA+ modules that model its core - polling, payment, emission, stock, tenant
context, dashboard and reports -, the TLC runs that check them on small instances, and theorems
checked by TLAPS. Paths below are relative to `src/`, the root
of the repository.

Environment that every model assumes, from `config/settings` and the code: PostgreSQL at READ
COMMITTED, no `ATOMIC_REQUESTS` (a view without `@transaction.atomic` autocommits each
statement), row locks by `select_for_update` held to the end of the transaction, Celery
messages acknowledged before the task runs, `CELERY_TASK_TIME_LIMIT` of 30 minutes, Beat
sweeps every 60 s.

## 1. Inventory

| Component | State | Operations | Hard behaviour | Correct when |
|---|---|---|---|---|
| Invoice polling engine (`src/domain/tasks/sync_invoice_tasks.py`, `src/domain/models/invoicing.py`, `src/application/usecases/query_invoice_status.py`, `src/domain/admin.py`) | `InvoiceSyncQueue` rows: status, attempts, next_retry_at, locked_at; `Order.invoice_status` | sweep, task run (Phase 1, query, order save, entry save, release), admin requeue | several workers per entry, duplicated and lost messages, crashes between any two commits, lock that goes stale, answers applied late, whole-row saves of the order by others | one run per entry; recorded answers are SUNAT's; closed entries stay closed; every invoice is settled or given up |
| Invoice emission (`src/domain/tasks/invoice_tasks.py`, `src/application/usecases/create_invoice.py`) | `invoice_status`, `invoice_external_id`, `invoice_attempts` of the order | create task (Phase 1, Nubefact call, save), retries, enqueue for polling | crash in Phase 2, time-out after success, full save of a stale order | one invoice per order, never stuck, no update of others lost |
| Payments (`src/application/services/payment_service.py`, `src/domain/tasks/payment_tasks.py`) | `Payment` row (one per order), gateway's charge | pay, confirm (view, API, task), sweep | lock-free reads before a transaction, gateway call inside it, rollback after a charge, late confirmations | an order is charged once, a charge is recorded, the post-payment workflow runs once |
| Post-payment workflow (`src/application/services/order_workflow_service.py`) | `Order.workflow_processed`, `workflow_status`, audit log | claim, dispatch of the invoice task | message sent before commit | once per paid order |
| Order life cycle (`src/interfaces/web/views.py`, `src/interfaces/api/views.py`, `src/domain/services/order_service.py`) | `Order.status`, totals, items | create, change status, cancel, edit and delete items, return | whole-row saves from unlocked reads | only declared transitions, totals match items |
| Inventory and Kardex (`src/domain/signals.py`, `src/domain/models/inventory.py`) | `Stock.quantity`, `StockMovement` rows | sale (form, API), purchase receipt, return, item edit and deletion, restore on cancel | locked and unlocked writers of one row, two lock orders, refused lines | stock equals the sum of its movements, never oversold, orders whole, returns within the sale |
| Tenant isolation (`src/infrastructure/multitenancy/*.py`, `src/infrastructure/models.py`, `src/infrastructure/celery_utils.py`) | organization id in a ContextVar | set by middleware, DRF mixin, context manager and task decorator; reset | threads are reused; nested scopes; workers without context | a query shows the rows of the current tenant or none, and a job leaves no tenant behind |
| Invoice provider (`src/application/providers/*.py`) | none (HTTP) | create, query | time-outs, error classes, bodies that are not JSON | an error is classified as what it is |
| Dashboard and date ranges (`src/application/services/dashboard.py`, `src/domain/services/date_range_service.py`, views) | none; reads orders, queue, logs | ranges, KPIs, tiles, lists, month navigation | UTC against local days, several clock reads per page, parts of a query that cannot be read, figures counted by queries of their own | the figures of a page fit together and with the lists they link to; a page labelled with a month shows that month |
| Reporting tasks, exchange rate (`src/domain/tasks/reporting_tasks.py`, `src/domain/services/finance_service.py`, `src/infrastructure/services/apimigo.py`) | `SalesReport`, cache entry, `ExchangeRate` | monthly report, rate look-up | check and write apart, concurrent look-ups, midnight during a call | a month reported once a day, one rate per day |
| Notifications, observability, UI labels, admin, authentication, seed data, accounting models | none that a protocol reads | I/O, formatting, CRUD | - | not modelled (section 7) |

Interactions: a paid order (`PaymentService._mark_order_paid`) runs the workflow, which sends
`create_invoice_task`; that task submits the invoice and puts the order into
`InvoiceSyncQueue`; the polling engine writes SUNAT's decision back into the order. Order
views change the same order row, each by saving the whole row it read. Order items, returns
and purchase orders change stock through signals.

## 2. Plan

All of it is built, in this order of importance:

1. `InvoiceSync` - the polling engine, the only component with a locking protocol of its own. Abstract
   specification `SyncLifecycle`; proofs in `InvoiceSync_proofs`; instances in `MCInvoiceSync`.
2. `OrderPayment` - payment, confirmation, workflow and the order views as writers of the same two
   rows. Abstract specification `ChargeOnce`; proofs in `OrderPayment_proofs`; instances in
   `MCOrderPayment`.
3. `Inventory` - every writer of stock, with row locks, transactions and deadlocks; proofs in
   `Inventory_proofs`; instance in `MCInventory`. It also models order creation, returns and item views.
4. `InvoiceEmission` - `create_invoice_task` between `OrderPayment`'s messages and `InvoiceSync`'s
   queue; proofs in `InvoiceEmission_proofs`; instance in `MCInvoiceEmission`.
5. `TenantContext` - the ContextVar across jobs of reused threads; proofs in `TenantContext_proofs`;
   instance in `MCTenantContext`.
6. `DateRanges` (calendar operators), `Dashboard` (figures and page), `Reporting` (rate and monthly
   report), composed over one clock by `BackOffice`; proofs in `Dashboard_proofs` and
   `BackOffice_proofs`; instance in `MCBackOffice`.
7. `SumTheorems` - facts about sums over finite sets, which the proofs about order lines and about the
   dashboard's figures share.

What would come next: a composition of `OrderPayment`, `InvoiceEmission` and `InvoiceSync` with "a paid
order is invoiced once and its answer recorded" as the abstract specification, and the money arithmetic
(IGV split, fee) as operators against a reference definition.

## 3. Modules

### InvoiceSync

State: the `InvoiceSyncQueue` columns `status`, `attempts`, `wait` (next_retry_at as a countdown) and
`lock` (locked_at as an age, `NoLock` for NULL); `invoice` is `Order.invoice_status` and `ids` the orders
whose row holds an external id; `sunat` and `queue` are external (SUNAT's decision, the broker); `pc`, `job`,
`tries`, `age`, `reply` are the locals of each worker's task run; `picked` are rows an admin session holds in
memory, `copy` the order a saver outside the engine has read. `undone` remembers whose order was saved from
an old copy.

| Action | Code |
|---|---|
| `Sweep`, `SweepCutShort` | `sync_pending_invoices_task`; the broker failing in the dispatch loop |
| `SkipTask`, `StartPolling` | Phase 1 of `sync_single_invoice_task`: one transaction under the row lock |
| `Query` | `InvoiceStatusQueryUseCase.execute` up to the provider's answer, `NubefactClient.get_invoice_status` |
| `RecordOrder` | the use case's `order.save` |
| `SaveCompleted`, `SaveExhausted`, `SaveRetry`, `SaveFailed` | the branches that save the entry |
| `Release` | the `finally` clause |
| `PickRetryable`, `Requeue` | the admin action: the query, then `requeue()` per row |
| `Enqueue` | `_enqueue_for_sync` |
| `ReadOrder`, `SaveOrder` | the PDF task and the order views: every column is saved as it was read |
| `Tick`, `Decide`, `Crash`, `LoseMessage`, `RecordFails`, `SaveFails`, `ReleaseFails` | clock, SUNAT, faults |

Each is one commit of the code. The constants choose a *regime*: whether a run may live longer than its
lock (`MaxRun` against `StaleAfter`), whether admins requeue (`Admins`), how many faults happen. The
*designed regime* is `MaxRun < StaleAfter` with no admins: what the lock was written for.

`SyncLifecycle` promises per invoice: submitted, then settled by a final answer of SUNAT or given up,
never left again. The mapping (`Outcome`) reads the order's status first and then the entry's. The engine
implements it; a saver of whole orders (`SavedByOthers`) may take an outcome back.

### OrderPayment

One order, its payment and five kinds of sessions. `order` and `pay` are the committed rows, `gate` is
what the gateway holds of each attempt (external), `msgs` counts `create_invoice` messages, `orderLock`
and `payLock` are the row locks; per session `pc`, `mine` (Order object), `paid` (Payment object) and
`answer`. Writes of an open transaction live in `mine` and `paid` until `Commit`. `overwritten` remembers
that a view or task saved an old copy of the order over a newer row.

| Action | Code |
|---|---|
| `PayStart`, `PayCharge`, `ChargeFails`, `SendInvoice`, `Commit` | `PaymentService.process_payment` with `_apply_result`, `_mark_order_paid` and `OrderWorkflowService.handle_order_paid` |
| `ViewOrder`, `ViewPayment`, `ViewRefused` | the confirm views: two unlocked reads |
| `SyncLockPayment`, `SyncRead` | Phase 1 of `sync_single_payment_task`: payment row, then order row |
| `Ask`, `AskFails` | `confirm_payment` up to the provider's answer |
| `ApplyGone`, `ApplyPayment`, `ApplyApproved` | `_apply_result` on the payment row |
| `Claim` | `_claim_workflow_lock` |
| `StatusRead`, `StatusSave` | cancel, change-status and status modal views: an unlocked read and check, then a save of the whole row |
| `ItemRead`, `ItemSave` | item edit and delete views: the same, with new totals; the last item's deletion cancels |
| `RowRead`, `RowSave`, `RowDropped` | `generate_order_pdf_task`, sent when the order is created, and `CreateInvoiceUseCase`: read, work outside, save the whole row |
| `Decide`, `BreakDeadlock` | external: the gateway, PostgreSQL's deadlock detector |
| `RollBack` | a transaction that fails after the provider's answer |

The status abstraction: `refunded` and `failed` exist as payment statuses but no code writes them.
Stock changes of the cancelling views belong to `Inventory`. `ChargeOnce` promises one charge and then
one invoice message; the second half ends with the first save of an old copy (`AskAgain`), which resets
`workflow_processed`.

### Inventory

State: `stock`, `ids` and `moves` are the Stock rows (quantity, primary key) and the sum of their
StockMovements; `ord` and `returned` the committed orders with their items; `rowLock` and `prodLock` the
row locks; a session is one request: `pc`, `kind`, `cart`, `house`, `at` are where it is in its lines, `tx`
the uncommitted writes of its transaction, `req` what an unlocked request has read. `did` records which of
the writers that the Kardex does not see have run.

| Action | Code |
|---|---|
| `Begin`, `SellCheck`, `CreateItem`, `CommitOrder` | `order_create_view`: lock the product, find a row that suffices, create the item (the sale signal locks and writes the first row), commit; a refused line commits what is there |
| `CallCheck`, `CallRefused` | `OrderService.create_order`: the unlocked check, the refusal that rolls back |
| `ReceiveBegin`, `ReceiveItem`, `ReceiveCommit` | the purchase order signal, for each save as RECEIVED |
| `ReturnRead`, `ReturnSave` | `OrderService.process_return` and its signal |
| `EditRead`, `EditTake`, `EditSame`, `DeleteRead`, `Peek`, `GiveBack` | item edit and deletion views |
| `CancelRead`, `RestoreRead`, `RestoreSave`, `CancelSave` | `order_cancel_view` and its stock restore, statement by statement |
| `Advance`, `BreakDeadlock` | payment of an order; PostgreSQL's deadlock detector, whose error rolls the request back |
| `SwallowDeadlock` | the same error inside the sale signal's savepoint, which the form catches: it commits what it has |

### InvoiceEmission

One order: `row` is its committed row, `copy` the row each actor read, `pc`, `retries` and `got` the locals
of its task runs, `issued` the provider's documents (external), `queued` whether the polling entry exists,
`polled` whether a poll of it is under way. `stale` remembers that a whole-row save overwrote a newer row.

| Action | Code |
|---|---|
| `NotFound`, `Skip`, `Lock` | Phase 1 of `create_invoice_task` |
| `NoConfig`, `Answered`, `Unanswered`, `Refused`, `Unreadable` | the use case up to the provider's answer, `NubefactClient` |
| `Save`, `SaveFails` | the use case's save of the whole order, and its failure |
| `Enqueue`, `EnqueueFails` | clearing the error, refreshing and `_enqueue_for_sync`, or an exception in one of them |
| `Temporary`, `Permanent` | the exception handlers, `self.retry` |
| `ReadOrder`, `SavePdf`, `PdfFails`, `NotTriggered` | the PDF task and its trigger |
| `Poll`, `Settle`, `PollFails` | a poll of `InvoiceSync` as far as the order sees it: it needs an id, and writes its column alone |
| `Cancel`, `Crash` | a cancelling view, a worker that dies |

### TenantContext

Per thread: the ContextVar `ctx`, the job it runs (`kind`, `user`, `header`, `slug`, `tenant`), the `token`
of an open `TenantContextManager` and the organizations whose rows it has read. `Arrive` is the middleware,
`WebDispatch` the access decorator, which checks the slug, and the organization the view then works with:
the slug's, or `request.organization` in the order detail, PDF and operations pages (`RequestOrg`);
`ApiDispatch` the DRF mixin, `StartTask` the three kinds of Celery tasks, `ReadFiltered`, `ReadByContext`
and `ReadUnfiltered` the three ways to query, `EnterManager`, `ExitManager` the context manager, `Leave` and
`Finish` the return or exception and the `finally` clauses.

### DateRanges, Dashboard, Reporting, BackOffice

`DateRanges` holds the calendar: an instant is a tick in UTC, a day `DayTicks`, local midnight `Offset`
later. `Dashboard` defines every figure of the services and every list behind a tile as operators over
orders, queue entries and logs; a page is built in three steps (`OpenPage`, `LabelPage`, `Navigate`), each
of which reads the clock; a part of the query that is no number and a year off the calendar are among the
requests. `Reporting` has the rate look-up (`LookUp`, `Ask`, `Store`) and the monthly report
(`StartMonthly`, `CreateMonthly`, `FinishMonthly`, `LoseTask`). `BackOffice` runs both over one clock.

## 4. Runs

Passing runs:

| Run | Instance | Shows |
|---|---|---|
| `sync_exclusive` | 1 entry, 2 workers, 1 saver, 2 faults, designed regime | two runs never overlap, copies are current, closed entries stay, a completed entry is answered and its answer stays until an old copy of the order is saved; the engine implements `SyncLifecycle` |
| `sync_overlap` | 1 entry, 2 workers, 1 admin, 1 saver, no fault, runs up to twice the lock | recorded answers are SUNAT's, nothing is exhausted early, nothing is stranded without a fault |
| `sync_liveness` | 1 entry, 2 workers, no fault | SUNAT's decision reaches the order or the entry is closed; implements the fair life cycle |
| `sync_starvation` | 2 entries, 1 worker, 2 messages of each, 1 fault | every pending entry is polled again, whatever duplicates wait before its message |
| `pay_race` | 2 payers, 1 view, 1 sync worker, 1 saver, 3 attempts, fair | only the save of an old copy leaves an approved payment on an unpaid order, and the payment ends approved for good; implements `ChargeOnce` up to `AskAgain` |
| `pay_edits` | 1 payer, 1 view, 1 sync worker, 1 editor, 1 saver, 2 attempts, 1 fault | one charge until a transaction fails after its charge; the row never contradicts the gateway; no sale and no invoice message without a charge |
| `stock_requests` | 3 requests of any kind, 2 products, 2 warehouses, quantities to 2, two carts in opposite order, fair | the Kardex is exact, the form does not oversell, returns fit, API orders are whole, every sale ends - each up to the exceptions its statement names |
| `emission` | 2 messages with 1 retry each, 1 PDF task, 1 view, 1 crash, fair | one submitter, an issued document leaves a trace, a recorded one is queued, or its order failed, and keeps its id, no order stays in processing |
| `tenant` | 2 threads, 2 organizations, a user, a superuser, nobody | no context is left behind, jobs read their own organization, views keep their context |
| `reports` | 1 order, 2 sessions, 3 instants, 3 events, years 1 to 3 of 2 months of 1 and 2 days | figures fit together, pages labelled with a month show it, one rate per day, one report per month and day |

Violations, each a disagreement between the code and a document or comment (quoted in
`PROJECT.json`, `findings`):

| Run | What TLC shows |
|---|---|
| `pay_double_charge` | a rollback after the charge forgets it and the retry charges again |
| `stock_web_partial` | the form's refused line is caught inside its transaction, and half an order is committed |

Smaller disagreements that reading the same actions shows, without a run of their own.

- Polling. The pipeline document calls final states immutable. The PDF task and the order views save the
  whole order they read and so put an accepted invoice back to what it was before (`SaveOrder`; the entry is
  completed, nobody asks again); a run that outlived its lock writes sync_pending over a final answer
  (`RecordOrder`). `FinalInvoiceStays` therefore says who may, and nobody else. After a crash an entry stays
  in processing and no sweep takes it again (ADR-004 says that stale locks are reprocessed). A worker
  without tenant context does not find the configuration (`Query` with `ConfigVisible` FALSE). A duplicate
  message polls before next_retry_at (`StartPolling`); temporary errors count past `MAX_ATTEMPTS`
  (`SaveRetry`); a 5xx page that is not JSON fails the entry instead of rescheduling it (`Classify`); the
  release by id after an admin requeue frees a lock another run has taken (`Release`).
- Payment. The PDF task, sent when the order is created, may read it PENDING and save it after the sale: the
  order is PENDING again beside its approved payment, and with `workflow_processed` reset a confirmation
  that is late sends a second invoice message (`RowSave`). A confirmation that read the order before it was
  cancelled makes it PAID; three overlapping confirmations send two invoice messages (ADR-005 excludes
  both). A confirmation told pending writes pending over approved (`ApplyPayment`; it does not last, see
  `ApprovalSticks`); an item edit sets an order paid meanwhile back to PENDING (`ItemSave`); the status
  views accept PAID without a payment (`Targets`).
- Stock. Each save of a purchase order that is RECEIVED adds its stock again (`ReceiveBegin`). API orders
  and item views check one row without a lock and sell another, below zero (`CallCheck`, `EditTake`). A form
  chosen as the victim of a deadlock while its sale signal waits for the Stock row catches the error outside
  the signal's savepoint and commits the lines before, and the item just inserted, without taking stock for
  it (`SwallowDeadlock`). Two returns at once exceed the sale (`ReturnRead`), and an edit from an old read
  lowers an item below what was returned. Cancelling writes no movement, gives returned units back a second
  time, and races other writers (`RestoreSave`); so do two deletions or edits (`GiveBack`). DAMAGED returns
  re-enter the stock although the label says they do not. Initial stock has no movement.
- Emission. An answer that is not JSON fails the invoice for good instead of being retried (`Unreadable`);
  after the last retry the order stays retrying; an exception between the save and the queue entry marks an
  issued invoice as failed, with its id, and every later message skips it (`EnqueueFails`); a crash there
  strands it as submitted; a cancelled order is still invoiced (`Lock` does not look at the status); the use
  case, the PDF task and the views save whole rows over each other (`SaveRow`). The provider factory does
  not look at the configuration's `enabled`.
- Tenant context. `create_invoice_task`, the sales and monthly reports and the return alert read with
  `objects` in a worker without context and find nothing: the reports come out as zeros. The access
  decorator compares the user with the slug alone, while the order detail and PDF views and the operations
  pages work with `request.organization`, which an X-Org-ID header sets (`RequestOrg`). The statements about
  requests are therefore about those without that header, or to the API.
- Dashboard and reports. "Today" and the default month are UTC's while months and custom ranges are local
  (`TodayRange`). A month page asked for with a month or year that is no number, or a year off the calendar,
  shows the figures of `?range=` (seven days) under the navigation of another month (`NamesMonth`, `Month`);
  a month outside 1 to 12 does so in the range and raises in the navigation (`Navigate`). A tile does not
  count what it links to: "Aceptadas" counts accepted and observed, "En Tránsito" and "Errores" several
  statuses each, the links list one of them (`Linked`), and tiles count a range where the lists, the log's
  too, are of all time. `FiguresAgree` claims no more than that a tile counts no fewer. The window of a
  monthly report ends at the first instant of the next month, which is counted twice (`CreateMonthly`); its
  cache entry is written after the notification, so a lost task reports again. Nothing creates an accounting
  entry, so the consistency tile counts every accepted order. An answer without prices is stored as a rate
  of 0.00. The Beat schedule names `src.domain.tasks.generate_weekly_all_orgs`, the task registers under its
  module's name; the weekly report covers one day.

Bounds. Entries share nothing but workers and admin sessions, so one entry suffices for safety and two for
starvation. Two workers make every pairwise overlap. `MaxMsgs` 2 lets a message run while its duplicate
waits, and in `sync_starvation` two messages of one entry wait before the other's first. One saver is reused
without end; two would overwrite what one can. `MaxAttempts` 2 (7 in the code) separates first, last and
past-the-limit polls. One order suffices for `OrderPayment` because handlers touch the rows of one order;
three attempts let a retry follow a retry (`pay_race`). Sessions are reused, so a bound on sessions bounds
overlap and not the number of requests. Attempts are a bound in the guard of `PayStart`. `Inventory`: three
requests let one create an order and two race on it, or two sales lock the products in opposite orders
beside a third; two warehouses with different quantities make the first row, the sufficient row and the last
unit different things. `InvoiceEmission`: two messages, one retry and one crash give every overlap of a run
with a repeated one; a retry of the PDF task (`MaxPdfRetries`) would only be a second one. `reports`: three
instants (`StartAt` to `LastTick`) around local midnight, UTC midnight and a year's end, and `MaxEvents`,
bound the run; months of different lengths keep them apart. The calendar has the years `MinYear` to
`MaxYear`; requests ask for the year before the first too. Links are followed down to year 0, and years too
large for the machine's integers, which raise elsewhere, are left out. Sessions of `reports` and workers of
`sync_overlap` are interchangeable (`MCSymmetry`); both runs check safety only. In that run deadlock is not
checked because the clock and the events end; the others check it, requests that end stutter on purpose
(`Quiet`).

`pay_race` allows exactly two overlapping confirmations: with three the promise of one invoice message
fails (above). `PaidIsCharged` is checked with editors that set neither PAID nor
COURTESY by hand: the first is a sale without a payment that the status views accept, the second
ships without a charge by design.

Exceptions. Where the code does not keep a promise in general, a property names what breaks it: `undone` and
the saves of old copies in `InvoiceSync`, `overwritten` in `OrderPayment`, `did` in `Inventory` (item views,
cancellations, overlapping returns), `stale` and `crashes` in `InvoiceEmission`, `disturbed` in `Reporting`.
Each is a history variable that only the actions at fault set, so that everything else is still held to the
promise.

Fairness. `InvoiceSync`: Beat sweeps on, the clock ticks, a live worker finishes its run (WF), and a
waiting message is taken when workers keep becoming free (SF, Redis lists are first in first out).
`sync_liveness` also assumes that a provider asked again and again answers now and then; without it
temporary errors may repeat for ever, since that path never looks at `MAX_ATTEMPTS`. `OrderPayment`:
PostgreSQL queues the waiters of a row lock (SF on the lock-taking steps) and breaks deadlocks, Beat
sends a message per pending payment every minute, the gateway does not fail for ever. Nobody is obliged
to pay, view, edit or decide. `Inventory`: a request that can go on does, and the database breaks a ring
of waiters (WF). `InvoiceEmission`: a delivered or retried message is worked off (WF); the PDF task,
the view and SUNAT owe nothing. No run assumes that faults end; the liveness runs bound them.

## 5. Proofs

All theorems hold for every value of the constants under the modules' named assumptions (bounds are
naturals, "nobody" is not a session, the backoff table covers the attempts, rows are finite, a look-up
takes less than a day, the clock starts after the epoch). Every invariant and every action property that
a passing run checks is proved, and so are the two refinements without fairness; what is left to TLC is
liveness (section 6).

`InvoiceSync_proofs`. `TypeCorrect` is inductive as it stands. The properties of every regime follow
from `AnyRegime`, the conjunction of what the runs check (`RecordedIsTrue`, `ExhaustedAtLimit`,
`ProcessingIsOwned`) with what makes them inductive: a working run's row exists, a reply in memory is
true (SUNAT decides once), a run's copy of the counter is not ahead of the row. The theorems
`Exclusion`, `CopiesAreCurrent`, `CompletedAnswers`, `FinalAnswersStay`, `ClosedEntriesStay` and
`LifecycleImplemented` assume `MaxRun < StaleAfter` and `Admins = {}`; their invariant
`DesignedRegime` adds that the lock is as old as the run that took it - therefore fresh as long as the
run lives, which keeps others out - that a working run's entry is in processing and that an order
agrees with the reply under way, unless an old copy of it was saved. `FinalAnswersStay` is about every step of
everybody, and names the only one that takes an answer away: a `SaveOrder` whose copy holds no final answer.
`LifecycleImplemented` is the refinement: Init maps to Init and each action of the engine to Submit,
Settle, GiveUp or a stutter, whatever savers did before it.

`OrderPayment_proofs`. `AnyRegime` says that every payment record, stored or in some session's memory,
agrees with the gateway; it gives `TypeCorrect` and `RowsMatchGateway`, whatever fails. `LocksHeld` and
`ClaimIsCurrent` (who is about to write holds the locks and the current row) are inductive on top of
it. `ChargedOnce` rests on `OthersDead`, which holds until the first fault: every attempt except the current one -
the one about to be committed, else the stored one - is unused or declined, and a payer that passed
its checks sees none alive although late confirmations may write pending over declined. `SoldIsCharged`
(editors set neither PAID nor COURTESY) extends the claim to the copies in memory and the messages under way.
`ApprovalPaysOrder` (no editors) needs `PaidTogether`: until the first save of an old copy (`overwritten`) the
order only goes from PENDING to PAID, with the payment, and nobody remembers a later state than the row's. A
save of a current copy changes nothing (`FreshSave`).

`ChargesOnceAndAsksOnce` is the refinement of `ChargeOnce`: no editors, no fault after a charge, at most two
confirmations - with a third the promise is false, which is why it is an assumption - and any number of
payers and savers. One charge is kept through everything savers do; after the first save of an old copy
`AskAgain` allows further invoice messages. Its invariant is `SoldOnce`. Until the order is sold no message
is out but that of the session about to commit the sale (`Invoiced`), which is a confirmation or a payer
whose approved attempt no confirmation knows of (`FirstSale`). After the sale at most one confirmation is
`Late`, with a copy that does not know of the workflow, and it finds under the lock that the workflow is
done (`AfterSale`): with two confirmations one sold and only the other can be late.

`TenantContext_proofs`. No property is inductive alone; `Settled` says for one thread what each kind of job
has made of the context at each point: who set it, what the open manager will restore, what may have
been read. Since it speaks of one thread and steps change one thread, the proof is per action.

`InvoiceEmission_proofs`. The task holds no lock while it talks to the provider; what keeps a second one out
is the status it committed. `Alone` says so: while no stale save happened, a task at work finds its
"processing" and no external id in the row. `OneSubmitter`, `IssuedLeavesTrace` and `RecordedIsQueued`
(whose third way out, a failed order, is what `EnqueueFails` ends in) rest on it, and `IdSticks` because a
writer whose copy is the row changes only its own column. `Documents` says that the provider numbers from 1.

`Inventory_proofs`, in three layers. `KInv`: an open transaction owns the rows it wrote and will write the
committed quantity plus its movements (`Pending`), only open transactions hold locks (`Holders`), so
a commit adds to stock what it adds to the Kardex. `RInv`: returns and item views work on orders that were
placed (`Settled`), and returns under way fit into the item together (`Fits`), because the first
overlap is recorded. `WInv`: the form holds the product it checked (`Own`) and what it checked still
holds when it sells (`Covered`), if the product has one row: receipts and returns only add, and other
forms wait for the product.

On top of `KInv`, `Ordered` says what an open order has gathered: for each product the sum of its lines before
the one it is at (`Gathered`), with views that save whole rows only over orders that were placed
(`Placed`), so that an order appears by its own commit. `ApiOrdersAreWhole` follows, since that commit comes
after the last line or not at all. For the form the same invariant proves `WebOrdersArePrefixes`: what
`stock_web_partial` shows broken is never worse than a cut, at the refused line or at the line where a deadlock was
swallowed, and that one is sold only in the order and not in the stock.

`SumTheorems`. The sum of the community modules is a recursive function over subsets. Its facts (it exists, it
is the sum over the rest plus one, equal functions have equal sums, the sizes of classes add up to the
number of their members) are inductions on the number of elements. The library's induction theorems
take an operator and cannot be used; each proof here takes a least counterexample instead
(`Smallest`, from the well-foundedness of < on the naturals), which needs only a set.

`Dashboard_proofs`. First the calendar: `DaysBefore`, the recursive function of month lengths, exists and
grows, so that every day lies in exactly one month of one year (`MonthExists`, `MonthUnique`), months follow
one another (`MonthsFollow`), and two readings of the clock in the same month have every one between them in
it (`SameMonth`). `DashInv` then says of the page that there are three instants, in order and not after now,
of which its range, label and navigation are functions (`PageInv`), and of the data that nothing is of the
future and nothing outside the queue is locked (`DataInv`). `MonthPagesAgree` follows from the first and the
calendar: `FromRequest` gives the month's range for what `NamesMonth` accepts and `?range=` else, and the
label is there in the first case only. `FiguresAlwaysAgree` follows from the second: tiles are sums over
statuses of class sizes (`SumOfClasses`), a linked list is one class of its tile, and the chart, a sum of
sums, covers its window because an instant not after now and within `ChartDays` days of it falls on one of
the `ChartDays + 1` local days shown, wherever local midnight is.

`BackOffice_proofs`. A stored rate stays and every look-up returns the stored one (`Rates`); midnight
overtakes a look-up once at most (`OneMidnight`, integer division). A report not yet remembered belongs
to a task that still runs (`Remembered`), and a task started beside it disturbs the month.

## 6. Checked and not proved

Liveness is outside the proof system's reach: `DecisionArrives`, `PendingIsPolled`, `ApprovalSticks`, `SaleEnds`,
`ProcessingEnds` and the fair life cycle are model-checked only. So are the two violations of section 4:
a counterexample on a small instance is all they need. `ImplementsChargeOnce` is proved without faults and
editors, which is the regime in which `pay_race` checks it.

## 7. Not modelled

- Money: totals, IGV split, payment fee, finance sums; payload building for Nubefact. Rounding of single
  values without a protocol; sums over rows that the model's orders do not carry.
- `DELETE` of an order through the API's ModelViewSet, which cascades to its payment, and hand edits of
  rows in the Django admin form.
- The product form's creation of initial stock (`Init` of `Inventory` starts after it), sales and
  weekly reports, rendering of PDFs and pages, the invoice timeline and the landing dashboard: read-only
  aggregation.
- Notifications: fire-and-forget I/O. Observability, audit logs, UI labels: written and never read by a
  protocol. Authentication, seed data: framework code. Accounting models: no writer in the code.

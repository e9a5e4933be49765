------------------------------ MODULE OrderPayment ------------------------------
(***************************************************************************)
(* One order, its payment and everybody who writes them at the same time:  *)
(*   - PaymentService.process_payment and confirm_payment                  *)
(*     (application/services/payment_service.py) with the post-payment     *)
(*     workflow they run (order_workflow_service.py);                      *)
(*   - the confirm views and the sync task that call confirm_payment       *)
(*     (interfaces/web, interfaces/api, domain/tasks/payment_tasks.py);    *)
(*   - the views that change an order's status or items                    *)
(*     (interfaces/web/views.py);                                          *)
(*   - whoever saves the order for another reason: generate_order_pdf_task *)
(*     (domain/tasks/reporting_tasks.py), sent when an order is created,   *)
(*     and CreateInvoiceUseCase (application/usecases/create_invoice.py).  *)
(* Handlers of other orders touch other rows: one order is enough.         *)
(*                                                                         *)
(* The database is PostgreSQL at READ COMMITTED. A plain read takes no     *)
(* lock and sees the last committed row; select_for_update and UPDATE wait *)
(* for the row lock and hold it to the end of the transaction; a rollback  *)
(* undoes the rows, not the gateway's charge nor a message already sent.   *)
(* order.save() writes every column of the object read earlier.            *)
(*                                                                         *)
(* Operators named Mut... are plausible bugs of the operator that follows  *)
(* them; no specification uses them. Each breaks a property of a run.      *)
(***************************************************************************)
EXTENDS Integers, FiniteSets

CONSTANTS
    Payers,     \* requests that pay the order (web pay modal, API /pay/)
    Viewers,    \* requests that confirm its payment (web, API)
    Syncers,    \* Celery workers running sync_single_payment
    Editors,    \* requests that change the order's status or items
    Savers,     \* tasks that save the order they read: PDF, invoice
    Nobody,     \* "not locked"
    Requests,   \* statuses the editors ask the status views for
    ItemEdits,  \* do editors edit or delete items?
    MaxPays,    \* bound: payment attempts
    MaxMsgs,    \* bound: create_invoice messages told apart
    MaxFaults   \* bound: transactions that fail after their charge

Sessions == Payers \cup Viewers \cup Syncers \cup Editors \cup Savers

ASSUME PaymentAssumption ==
    /\ Nobody \notin Sessions
    /\ ItemEdits \in BOOLEAN
    /\ MaxPays \in Nat \ {0}
    /\ MaxMsgs \in Nat \ {0}
    /\ MaxFaults \in Nat

VARIABLES
    order,      \* committed Order row: status and workflow_processed
    pay,        \* committed Payment row: attempt and status, or NoPayment
    gate,       \* external: what the gateway holds of each payment attempt
    msgs,       \* create_invoice messages sent so far
    orderLock,  \* who holds the order's row lock
    payLock,    \* who holds the payment's row lock
    pc,         \* where each session is
    mine,       \* the Order object in its memory
    paid,       \* the Payment object in its memory
    answer,     \* what the gateway told it
    faults,     \* faults so far
    overwritten \* history: has a view or task saved an old copy of the order?

rows    == <<order, pay>>
locks   == <<orderLock, payLock>>
session == <<pc, mine, paid, answer>>
vars    == <<rows, gate, msgs, locks, session, faults, overwritten>>

--------------------------------------------------------------------------------
(* VALID_TRANSITIONS; the statuses without an entry have no successor.      *)
Statuses == {"DRAFT", "PENDING", "COURTESY", "PAID", "SHIPPED", "DELIVERED",
             "COMPLETED", "RETURNED", "CANCELLED"}

ValidTransitions(st) ==
    CASE st = "DRAFT"     -> {"PENDING", "COURTESY", "CANCELLED"}
      [] st = "PENDING"   -> {"PAID", "CANCELLED"}
      [] st = "COURTESY"  -> {"SHIPPED", "DELIVERED", "CANCELLED"}
      [] st = "PAID"      -> {"SHIPPED", "CANCELLED"}
      [] st = "SHIPPED"   -> {"DELIVERED", "CANCELLED"}
      [] st = "DELIVERED" -> {"COMPLETED", "RETURNED"}
      [] OTHER            -> {}

Payable(o) == "PAID" \in ValidTransitions(o.status)

Attempts  == 1 .. MaxPays
Verdicts  == {"pending", "approved", "declined"}
Orders    == [status : Statuses, processed : BOOLEAN]
NoPayment == [attempt |-> 0, status |-> "none"]
Payments  == [attempt : Attempts, status : Verdicts]
NoOrder   == [status |-> "DRAFT", processed |-> FALSE]

InTransaction == {"charging", "locking", "claiming", "sending", "committing"}
PCs == InTransaction \cup {"idle", "viewing", "asking", "applying", "moving", "editing",
                         "rendering"}

Init ==
    /\ order \in [status : {"DRAFT", "PENDING"}, processed : {FALSE}]
    /\ pay       = NoPayment
    /\ gate      = [i \in Attempts |-> "unused"]
    /\ msgs      = 0
    /\ orderLock = Nobody
    /\ payLock   = Nobody
    /\ pc        = [s \in Sessions |-> "idle"]
    /\ mine      = [s \in Sessions |-> NoOrder]
    /\ paid      = [s \in Sessions |-> NoPayment]
    /\ answer    = [s \in Sessions |-> "none"]
    /\ faults    = 0
    /\ overwritten = FALSE

Goto(s, where) == pc' = [pc EXCEPT ![s] = where]

(* The handler returns: the session forgets what it read.                   *)
Forget(s) ==
    /\ Goto(s, "idle")
    /\ mine'   = [mine EXCEPT ![s] = NoOrder]
    /\ paid'   = [paid EXCEPT ![s] = NoPayment]
    /\ answer' = [answer EXCEPT ![s] = "none"]

(* End of the session's transaction, by commit or rollback.                 *)
Unlock(s) ==
    /\ orderLock' = IF orderLock = s THEN Nobody ELSE orderLock
    /\ payLock'   = IF payLock = s THEN Nobody ELSE payLock

Abort(s) == Forget(s) /\ Unlock(s) /\ UNCHANGED <<rows, gate, msgs>>

--------------------------------------------------------------------------------
(* process_payment: one transaction that holds the order's row lock from    *)
(* its first query to its commit.                                           *)

(* The lock, the duplicate check and the transition check. A pending or     *)
(* approved payment, or an order that cannot become PAID, refuses the       *)
(* request and changes nothing.                                             *)
MutPayStart(s) ==
    /\ pc[s] = "idle" /\ orderLock = Nobody /\ \E i \in Attempts : gate[i] = "unused"
    /\ pay.status # "approved" /\ Payable(order)
    /\ orderLock' = s
    /\ mine' = [mine EXCEPT ![s] = order]
    /\ paid' = [paid EXCEPT ![s] = pay]
    /\ Goto(s, "charging")
    /\ UNCHANGED <<rows, gate, msgs, payLock, answer, faults, overwritten>>
PayStart(s) ==
    /\ pc[s] = "idle" /\ orderLock = Nobody /\ \E i \in Attempts : gate[i] = "unused"
    /\ pay.status \in {"none", "declined"} /\ Payable(order)
    /\ orderLock' = s
    /\ mine' = [mine EXCEPT ![s] = order]
    /\ paid' = [paid EXCEPT ![s] = pay]
    /\ Goto(s, "charging")
    /\ UNCHANGED <<rows, gate, msgs, payLock, answer, faults, overwritten>>

(* A declined payment is deleted (which waits for its row lock), the new    *)
(* attempt is created and the gateway is asked: it charges, declines or     *)
(* keeps the payment pending. An approval makes the order PAID, in memory,  *)
(* and starts the workflow unless the order was processed before.           *)
MutPayCharge(s) ==
    /\ pc[s] = "charging"
    /\ paid[s] # NoPayment => payLock = Nobody
    /\ payLock' = IF paid[s] # NoPayment THEN s ELSE payLock
    /\ \E i \in Attempts, v \in Verdicts :
          /\ gate[i] = "unused" /\ \A j \in Attempts : j < i => gate[j] # "unused"
          /\ gate' = [gate EXCEPT ![i] = v]
          /\ answer' = [answer EXCEPT ![s] = v]
          /\ paid' = [paid EXCEPT ![s] = [attempt |-> i, status |-> v]]
          /\ mine' = [mine EXCEPT ![s].status = IF v # "declined" THEN "PAID" ELSE @]
          /\ Goto(s, IF v # "declined" /\ ~mine[s].processed THEN "sending" ELSE "committing")
    /\ UNCHANGED <<rows, msgs, orderLock, faults, overwritten>>
PayCharge(s) ==
    /\ pc[s] = "charging"
    /\ paid[s] # NoPayment => payLock = Nobody
    /\ payLock' = IF paid[s] # NoPayment THEN s ELSE payLock
    /\ \E i \in Attempts, v \in Verdicts :
          /\ gate[i] = "unused" /\ \A j \in Attempts : j < i => gate[j] # "unused"
          /\ gate' = [gate EXCEPT ![i] = v]
          /\ answer' = [answer EXCEPT ![s] = v]
          /\ paid' = [paid EXCEPT ![s] = [attempt |-> i, status |-> v]]
          /\ mine' = [mine EXCEPT ![s].status = IF v = "approved" THEN "PAID" ELSE @]
          /\ Goto(s, IF v = "approved" /\ ~mine[s].processed THEN "sending" ELSE "committing")
    /\ UNCHANGED <<rows, msgs, orderLock, faults, overwritten>>

(* The provider's call fails before it charges: everything is undone.       *)
ChargeFails(s) ==
    /\ pc[s] = "charging"
    /\ Abort(s)
    /\ UNCHANGED <<faults, overwritten>>

(* create_invoice_task.delay, inside the transaction.                       *)
SendInvoice(s) ==
    /\ pc[s] = "sending"
    /\ msgs' = IF msgs < MaxMsgs THEN msgs + 1 ELSE msgs
    /\ mine' = [mine EXCEPT ![s].processed = TRUE]
    /\ Goto(s, "committing")
    /\ UNCHANGED <<rows, gate, locks, paid, answer, faults, overwritten>>

(* The payment is written and, by whoever holds the order's lock, the order *)
(* as it is in memory. (A payer whose payment is not approved has not       *)
(* changed the order it locked.)                                            *)
MutCommit(s) ==
    /\ pc[s] = "committing"
    /\ pay' = paid[s]
    /\ Unlock(s) /\ Forget(s)
    /\ UNCHANGED <<order, gate, msgs, faults, overwritten>>
Commit(s) ==
    /\ pc[s] = "committing"
    /\ pay' = paid[s]
    /\ order' = IF orderLock = s THEN mine[s] ELSE order
    /\ Unlock(s) /\ Forget(s)
    /\ UNCHANGED <<gate, msgs, faults, overwritten>>

--------------------------------------------------------------------------------
(* Confirming a pending payment. The views read the order, then the payment,*)
(* both without a lock.                                                     *)

ViewOrder(s) ==
    /\ pc[s] = "idle"
    /\ mine' = [mine EXCEPT ![s] = order]
    /\ Goto(s, "viewing")
    /\ UNCHANGED <<rows, gate, msgs, locks, paid, answer, faults, overwritten>>

ViewPayment(s) ==
    /\ pc[s] = "viewing" /\ pay.status = "pending"
    /\ paid' = [paid EXCEPT ![s] = pay]
    /\ Goto(s, "asking")
    /\ UNCHANGED <<rows, gate, msgs, locks, mine, answer, faults, overwritten>>

ViewRefused(s) ==
    /\ pc[s] = "viewing" /\ pay.status # "pending"
    /\ Forget(s)
    /\ UNCHANGED <<rows, gate, msgs, locks, faults, overwritten>>

(* The task locks the payment's row, then the order's row of the same query,*)
(* reads both and commits. A message of the payment may always be waiting:  *)
(* while it is pending every sweep sends one.                               *)
SyncLockPayment(s) ==
    /\ pc[s] = "idle" /\ pay # NoPayment /\ payLock = Nobody
    /\ payLock' = s
    /\ Goto(s, "locking")
    /\ UNCHANGED <<rows, gate, msgs, orderLock, mine, paid, answer, faults, overwritten>>

SyncRead(s) ==
    /\ pc[s] = "locking" /\ orderLock = Nobody
    /\ Unlock(s)
    /\ \/ /\ pay.status = "pending"
          /\ mine' = [mine EXCEPT ![s] = order]
          /\ paid' = [paid EXCEPT ![s] = pay]
          /\ Goto(s, "asking")
          /\ UNCHANGED answer
       \/ /\ pay.status # "pending"
          /\ Forget(s)
    /\ UNCHANGED <<rows, gate, msgs, faults, overwritten>>

(* confirm_payment: the gateway is asked about the payment in memory, or    *)
(* fails with an exception that ends the request.                           *)
MutAskCached(s) ==
    /\ pc[s] = "asking"
    /\ answer' = [answer EXCEPT ![s] = paid[s].status]
    /\ Goto(s, "applying")
    /\ UNCHANGED <<rows, gate, msgs, locks, mine, paid, faults, overwritten>>
MutAsk(s) ==
    /\ pc[s] = "asking"
    /\ answer' = [answer EXCEPT ![s] = IF gate[paid[s].attempt] = "approved"
                                       THEN "approved" ELSE "declined"]
    /\ Goto(s, "applying")
    /\ UNCHANGED <<rows, gate, msgs, locks, mine, paid, faults, overwritten>>
Ask(s) ==
    /\ pc[s] = "asking"
    /\ answer' = [answer EXCEPT ![s] = gate[paid[s].attempt]]
    /\ Goto(s, "applying")
    /\ UNCHANGED <<rows, gate, msgs, locks, mine, paid, faults, overwritten>>

MutAskFails(s) ==
    /\ pc[s] = "asking"
    /\ pay' = [pay EXCEPT !.status = "failed"]
    /\ Forget(s)
    /\ UNCHANGED <<order, gate, msgs, locks, faults, overwritten>>
AskFails(s) ==
    /\ pc[s] = "asking"
    /\ Forget(s)
    /\ UNCHANGED <<rows, gate, msgs, locks, faults, overwritten>>

(* _apply_result updates the payment by its key. A payment deleted by a     *)
(* retry is gone: the update affects no row, raises and rolls back.         *)
ApplyGone(s) ==
    /\ pc[s] = "applying" /\ payLock = Nobody /\ pay.attempt # paid[s].attempt
    /\ Forget(s)
    /\ UNCHANGED <<rows, gate, msgs, locks, faults, overwritten>>

MarksPaid(s) == answer[s] = "approved" /\ Payable(mine[s])

(* Pending or declined, or approved for an order that cannot become PAID:   *)
(* the payment alone is written and the transaction commits.                *)
ApplyPayment(s) ==
    /\ pc[s] = "applying" /\ payLock = Nobody /\ pay.attempt = paid[s].attempt
    /\ ~MarksPaid(s)
    /\ pay' = [pay EXCEPT !.status = answer[s]]
    /\ Forget(s)
    /\ UNCHANGED <<order, gate, msgs, locks, faults, overwritten>>

(* Approved and the order in memory may become PAID.                        *)
ApplyApproved(s) ==
    /\ pc[s] = "applying" /\ payLock = Nobody /\ pay.attempt = paid[s].attempt
    /\ MarksPaid(s)
    /\ payLock' = s
    /\ mine' = [mine EXCEPT ![s].status = "PAID"]
    /\ paid' = [paid EXCEPT ![s].status = "approved"]
    /\ Goto(s, "claiming")
    /\ UNCHANGED <<rows, gate, msgs, orderLock, answer, faults, overwritten>>

(* _claim_workflow_lock: under the order's row lock, is the workflow done?  *)
(* Only the flag is read again; the order saved is the one in memory.       *)
MutClaim(s) ==
    /\ pc[s] = "claiming" /\ orderLock = Nobody
    /\ orderLock' = s
    /\ Goto(s, IF mine[s].processed THEN "committing" ELSE "sending")
    /\ UNCHANGED <<rows, gate, msgs, payLock, mine, paid, answer, faults, overwritten>>
Claim(s) ==
    /\ pc[s] = "claiming" /\ orderLock = Nobody
    /\ orderLock' = s
    /\ Goto(s, IF mine[s].processed \/ order.processed THEN "committing" ELSE "sending")
    /\ UNCHANGED <<rows, gate, msgs, payLock, mine, paid, answer, faults, overwritten>>

--------------------------------------------------------------------------------
(* Status and item views: an unlocked read, a check of the status read and, *)
(* later, order.save() of the whole row.                                    *)

SaveOrder(s, o) ==
    /\ orderLock = Nobody
    /\ order' = o
    /\ overwritten' = (overwritten \/ mine[s] # order)
    /\ Forget(s)
    /\ UNCHANGED <<pay, gate, msgs, locks, faults>>

(* order_cancel_view, order_change_status_view and the status modal.        *)
Targets(o) == Requests \cap ValidTransitions(o.status)

StatusRead(s) ==
    /\ pc[s] = "idle" /\ Targets(order) # {}
    /\ mine' = [mine EXCEPT ![s] = order]
    /\ Goto(s, "moving")
    /\ UNCHANGED <<rows, gate, msgs, locks, paid, answer, faults, overwritten>>

StatusSave(s) ==
    /\ pc[s] = "moving"
    /\ \E st \in Targets(mine[s]) : SaveOrder(s, [mine[s] EXCEPT !.status = st])

(* Items are edited or deleted while the order is DRAFT or PENDING, which   *)
(* saves its new totals with everything else; deleting the last item cancels*)
(* the order.                                                               *)
ItemRead(s) ==
    /\ pc[s] = "idle" /\ ItemEdits /\ order.status \in {"DRAFT", "PENDING"}
    /\ mine' = [mine EXCEPT ![s] = order]
    /\ Goto(s, "editing")
    /\ UNCHANGED <<rows, gate, msgs, locks, paid, answer, faults, overwritten>>

ItemSave(s) ==
    /\ pc[s] = "editing"
    /\ \/ SaveOrder(s, mine[s])
       \/ SaveOrder(s, [mine[s] EXCEPT !.status = "CANCELLED"])

(* The PDF task reads the order, renders it and saves the file's name with  *)
(* the whole row; the invoice use case does the same around the provider's  *)
(* call (once its message is sent: its steps are among these).              *)
RowRead(s) ==
    /\ pc[s] = "idle"
    /\ mine' = [mine EXCEPT ![s] = order]
    /\ Goto(s, "rendering")
    /\ UNCHANGED <<rows, gate, msgs, locks, paid, answer, faults, overwritten>>

RowSave(s) == pc[s] = "rendering" /\ SaveOrder(s, mine[s])

(* Rendering, the storage or the provider fails: the task ends or is retried.*)
RowDropped(s) ==
    /\ pc[s] = "rendering"
    /\ Forget(s)
    /\ UNCHANGED <<rows, gate, msgs, locks, faults, overwritten>>

--------------------------------------------------------------------------------
(* External: the gateway decides about a pending payment, once.             *)
Decide(i) ==
    /\ gate[i] = "pending"
    /\ \E v \in {"approved", "declined"} : gate' = [gate EXCEPT ![i] = v]
    /\ UNCHANGED <<rows, msgs, locks, session, faults, overwritten>>

(* External: PostgreSQL aborts one of two transactions that wait for each   *)
(* other: s holds the payment's row and waits for the order's, t holds the  *)
(* order's row and waits to delete the payment.                             *)
WaitForEachOther(s, t) ==
    /\ pc[s] \in {"locking", "claiming"} /\ payLock = s /\ orderLock = t
    /\ pc[t] = "charging" /\ paid[t] # NoPayment

BreakDeadlock(s, t) ==
    /\ WaitForEachOther(s, t)
    /\ Abort(s) \/ Abort(t)
    /\ UNCHANGED <<faults, overwritten>>

(* A transaction fails after its provider call: the gateway's answer or the *)
(* broker times out, a write fails, the process dies.                       *)
RollBack(s) ==
    /\ faults < MaxFaults /\ faults' = faults + 1
    /\ pc[s] \in {"claiming", "sending", "committing"}
    /\ Abort(s)
    /\ UNCHANGED overwritten

--------------------------------------------------------------------------------
PayStep(s)  == PayCharge(s) \/ SendInvoice(s) \/ Commit(s)
Apply(s)    == ApplyGone(s) \/ ApplyPayment(s) \/ ApplyApproved(s)
ConfirmStep(s) == Ask(s) \/ Apply(s) \/ Claim(s) \/ SendInvoice(s) \/ Commit(s)

Next ==
    \/ \E s \in Payers  : PayStart(s) \/ PayStep(s) \/ ChargeFails(s)
    \/ \E s \in Viewers : ViewOrder(s) \/ ViewPayment(s) \/ ViewRefused(s)
    \/ \E s \in Syncers : SyncLockPayment(s) \/ SyncRead(s)
    \/ \E s \in Viewers \cup Syncers : ConfirmStep(s) \/ AskFails(s)
    \/ \E s \in Editors : StatusRead(s) \/ StatusSave(s) \/ ItemRead(s) \/ ItemSave(s)
    \/ \E s \in Savers  : RowRead(s) \/ RowSave(s) \/ RowDropped(s)
    \/ \E i \in Attempts : Decide(i)
    \/ \E s, t \in Sessions : BreakDeadlock(s, t)
    \/ \E s \in Sessions : RollBack(s)

Spec == Init /\ [][Next]_vars

(* Fairness: a live session goes on, PostgreSQL queues waiters of a row lock*)
(* first come first served and breaks deadlocks, a worker takes the message *)
(* the next sweep sends, and the gateway does not fail for ever. Nobody has *)
(* to pay, view or edit, and the gateway need never decide.                 *)
Fairness ==
    /\ \A s \in Payers : SF_vars(PayStep(s))
    /\ \A s \in Viewers : WF_vars(ViewPayment(s) \/ ViewRefused(s))
    /\ \A s \in Syncers : /\ SF_vars(pay.status = "pending" /\ SyncLockPayment(s))
                          /\ SF_vars(SyncRead(s))
    /\ \A s \in Viewers \cup Syncers : SF_vars(Ask(s)) /\ SF_vars(Apply(s)) /\ SF_vars(Claim(s))
                                       /\ WF_vars(SendInvoice(s) \/ Commit(s))
    /\ \A s \in Editors : SF_vars(StatusSave(s) \/ ItemSave(s))
    /\ \A s \in Savers : SF_vars(RowSave(s) \/ RowDropped(s))
    /\ WF_vars(\E s, t \in Sessions : BreakDeadlock(s, t))

FairSpec == Spec /\ Fairness

--------------------------------------------------------------------------------
(* Type invariant.                                                          *)
TypeOK ==
    /\ order     \in Orders
    /\ pay       \in Payments \cup {NoPayment}
    /\ gate      \in [Attempts -> Verdicts \cup {"unused"}]
    /\ msgs      \in 0 .. MaxMsgs
    /\ orderLock \in Sessions \cup {Nobody}
    /\ payLock   \in Sessions \cup {Nobody}
    /\ pc        \in [Sessions -> PCs]
    /\ mine      \in [Sessions -> Orders]
    /\ paid      \in [Sessions -> Payments \cup {NoPayment}]
    /\ answer    \in [Sessions -> Verdicts \cup {"none"}]
    /\ faults    \in 0 .. MaxFaults
    /\ overwritten \in BOOLEAN

Charged == {i \in Attempts : gate[i] = "approved"}

(* As long as no transaction failed after its charge, at most one attempt is*)
(* charged: a retry deletes the payment it found declined while late        *)
(* confirmations of that payment may still be running.                      *)
OneCharge == faults = 0 => \A i, j \in Charged : i = j

(* A decided payment row is what the gateway decided about that attempt,    *)
(* however late the confirmation that wrote it.                             *)
RowMatchesGateway ==
    pay.status \in {"approved", "declined"} => gate[pay.attempt] = pay.status

(* Payments and the order they pay are committed together, by whichever     *)
(* confirmation comes first: the only way to money taken on an unpaid order *)
(* is the save of a copy of the order that was read before the sale.        *)
ApprovedPaysOrder == pay.status = "approved" /\ Payable(order) => overwritten

(* An order is PAID or SHIPPED, and its invoice asked for, only after a     *)
(* charge, although orders are saved from old copies and messages leave     *)
(* before the commit.                                                       *)
PaidIsCharged ==
    order.status \in {"PAID", "SHIPPED"} \/ msgs > 0 => Charged # {}

(* A recorded payment the gateway approved is in the end approved for good, *)
(* although a late confirmation may set it back to pending.                 *)
ApprovalSticks ==
    \A i \in Attempts :
        (pay.attempt = i /\ gate[i] = "approved") ~> [](pay.status = "approved")

(***************************************************************************)
(* What documents and comments say and the code does not keep.             *)
(***************************************************************************)

(* payments.md: "No hay sobrepago": no order is charged twice.              *)
NoOverpayment == \A i, j \in Charged : i = j

--------------------------------------------------------------------------------
(* The promise: while nobody edits the order and nothing fails after a      *)
(* charge, two confirmations, any payers and any savers implement ChargeOnce*)
(* but for one thing: once an old copy of the order has been saved, which   *)
(* also resets workflow_processed, the invoice may be asked for again.      *)
Promise == INSTANCE ChargeOnce WITH charges <- Cardinality(Charged), invoices <- msgs

AskAgain == overwritten /\ UNCHANGED Cardinality(Charged)

ImplementsChargeOnce == Promise!Init /\ [][Promise!Next \/ AskAgain]_(Promise!vars)
================================================================================

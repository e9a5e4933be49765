------------------------------ MODULE InvoiceSync ------------------------------
(***************************************************************************)
(* The polling engine that reconciles submitted invoices with SUNAT:       *)
(*   - InvoiceSyncQueue rows, one per order (domain/models/invoicing.py);  *)
(*   - the Beat sweep and the per-entry Celery task                        *)
(*     (domain/tasks/sync_invoice_tasks.py);                               *)
(*   - InvoiceStatusQueryUseCase and the provider it calls;                *)
(*   - the admin action that requeues failed entries (domain/admin.py);    *)
(*   - whoever else saves the order, the invoice columns with it: the PDF  *)
(*     task (domain/tasks/reporting_tasks.py) and the order views          *)
(*     (interfaces/web/views.py) write every column of the copy they read. *)
(* A task run is the sequence the code commits step by step: Phase 1 takes *)
(* the row lock and commits; the HTTP query, the order's save, the entry's *)
(* save and the final lock release are separate autocommitted steps, and   *)
(* other workers run between any two of them.                              *)
(*                                                                         *)
(* Operators named Mut... are plausible bugs of the operator that follows   *)
(* them; no specification uses them. Each breaks a property of a run.      *)
(*                                                                         *)
(* Time is kept as ages and countdowns: wait[e] is next_retry_at - now     *)
(* (never below 0), lock[e] is now - locked_at (never above StaleAfter,    *)
(* from which the code sees no difference) or NoLock for NULL.             *)
(***************************************************************************)
EXTENDS Integers, FiniteSets

CONSTANTS
    Entries,        \* InvoiceSyncQueue rows, each the only one of its order
    NoEntry,        \* "no entry": the job of an idle worker or saver
    Workers,        \* Celery worker processes
    Admins,         \* admin sessions that may requeue ({} : nobody does)
    Savers,         \* tasks and views that save whole orders
    MaxAttempts,    \* MAX_ATTEMPTS
    BackoffDelays,  \* BACKOFF_DELAYS_SECONDS, a function on 0..MaxAttempts-1
    FirstDelay,     \* delay of a new entry (60 s)
    StaleAfter,     \* STALE_LOCK_MINUTES, in ticks
    MaxRun,         \* longest time a run lives after Phase 1, in ticks
    ConfigVisible,  \* does CompanyInvoiceConfig.objects see the tenant's row?
    MaxMsgs,        \* bound: messages of one entry waiting in the broker
    MaxFaults       \* bound: crashes, lost messages and failed writes

ASSUME SyncAssumption ==
    /\ NoEntry \notin Entries
    /\ MaxAttempts \in Nat \ {0}
    /\ BackoffDelays \in [0 .. MaxAttempts - 1 -> Nat]
    /\ FirstDelay \in Nat
    /\ StaleAfter \in Nat \ {0}
    /\ MaxRun \in Nat
    /\ ConfigVisible \in BOOLEAN
    /\ MaxMsgs \in Nat \ {0}
    /\ MaxFaults \in Nat

VARIABLES
    status,     \* InvoiceSyncQueue.status ("absent": no row yet)
    attempts,   \* InvoiceSyncQueue.attempts, counted up to AttemptCap
    wait,       \* ticks until next_retry_at
    lock,       \* ticks since locked_at, or NoLock
    invoice,    \* Order.invoice_status
    ids,        \* entries whose order has an invoice_external_id
    undone,     \* history: entries whose order was saved from an old copy
    sunat,      \* external: what SUNAT has decided so far
    queue,      \* external: sync_single_invoice messages in the broker
    pc,         \* where each worker is in its task run
    job,        \* the entry it works on
    tries,      \* entry.attempts in its memory (read and bumped in Phase 1)
    age,        \* ticks since its Phase 1
    reply,      \* what the provider told it
    picked,     \* entries an admin session has read and not yet saved
    copy,       \* the order each saver has read and not yet saved
    faults      \* faults so far

row    == <<status, attempts, wait, lock>>
orders == <<invoice, ids, undone>>
worker == <<pc, job, tries, age, reply>>
vars   == <<row, orders, sunat, queue, worker, picked, copy, faults>>

--------------------------------------------------------------------------------
(* Statuses, answers and the pure rules of the code.                        *)

NoLock == -1

Retryable == {"failed", "exhausted", "dead_letter"}
Closed    == Retryable \cup {"completed"}
Statuses  == Closed \cup {"absent", "pending", "processing"}

FinalAnswers       == {"accepted", "observed", "rejected"}
MutTerminalInvoice == FinalAnswers \cup {"cancelled", "sync_pending"}
TerminalInvoice    == FinalAnswers \cup {"cancelled"}
InvoiceStates      == TerminalInvoice \cup {"none", "submitted", "sync_pending"}
SunatStates        == FinalAnswers \cup {"processing"}
Errors             == {"temporary", "permanent", "no_config", "no_id", "unexpected"}

Working == {"polling", "recording", "saving"}
PCs     == Working \cup {"idle", "releasing"}

(* attempts is compared with MaxAttempts and indexes BackoffDelays up to    *)
(* MaxAttempts - 1 only: one value above the limit stands for all of them.  *)
AttemptCap == MaxAttempts + 1
Bump(n) == IF n < AttemptCap THEN n + 1 ELSE n

NextDelay(n) == BackoffDelays[IF n < MaxAttempts THEN n ELSE MaxAttempts - 1]

MutShouldExhaustEarly(n) == n >= MaxAttempts - 1
MutShouldExhaustNever(n) == FALSE
ShouldExhaust(n) == n >= MaxAttempts

MutIsClosed(e) == status[e] \in Closed \ {"exhausted"}
IsClosed(e) == status[e] \in Closed

MutIsFreshShort(e) == lock[e] # NoLock /\ lock[e] < StaleAfter - 1
MutIsFreshForEver(e) == lock[e] # NoLock
IsFresh(e) == lock[e] # NoLock /\ lock[e] < StaleAfter

IsDue(e) == status[e] = "pending" /\ wait[e] = 0

(* The provider's flags for a SUNAT state: the HTTP client reports an       *)
(* observed invoice as accepted and observed, the business rule then tests  *)
(* rejected, observed, accepted in this order.                              *)
Flags(s) == [accepted |-> s \in {"accepted", "observed"},
             observed |-> s = "observed",
             rejected |-> s = "rejected"]

MutResolveStatus(s) ==
    CASE Flags(s).rejected -> "rejected"
      [] Flags(s).accepted -> "accepted"
      [] OTHER             -> "sync_pending"
ResolveStatus(s) ==
    LET f == Flags(s)
    IN  CASE f.rejected                                 -> "rejected"
          [] f.observed /\ ~f.rejected                  -> "observed"
          [] f.accepted /\ ~(f.observed \/ f.rejected)  -> "accepted"
          [] OTHER                                      -> "sync_pending"

(* How an HTTP exchange ends. The client reads the body as JSON before it   *)
(* classifies a refusal, so an error page that is not JSON raises ValueError*)
(* and reaches the task as an unexpected exception, 5xx or not. (A 4xx page *)
(* or a garbled 200 ends like http_4xx: in a failed entry.)                 *)
HttpOutcomes == {"ok", "timeout", "http_4xx", "http_5xx", "http_5xx_page"}

Classify(h, s) ==
    CASE h = "ok"                       -> s
      [] h \in {"timeout", "http_5xx"}  -> "temporary"
      [] h = "http_4xx"                 -> "permanent"
      [] h = "http_5xx_page"            -> "unexpected"

(* What a saver remembers of the order it read.                             *)
NoCopy == [entry |-> NoEntry, invoice |-> "none", ids |-> {}]
Copies == [entry : Entries, invoice : InvoiceStates, ids : SUBSET Entries]

--------------------------------------------------------------------------------
Init ==
    /\ status   = [e \in Entries |-> "absent"]
    /\ attempts = [e \in Entries |-> 0]
    /\ wait     = [e \in Entries |-> 0]
    /\ lock     = [e \in Entries |-> NoLock]
    /\ invoice  = [e \in Entries |-> "none"]
    /\ sunat    = [e \in Entries |-> "processing"]
    /\ queue    = [e \in Entries |-> 0]
    /\ pc       = [w \in Workers |-> "idle"]
    /\ job      = [w \in Workers |-> NoEntry]
    /\ tries    = [w \in Workers |-> 0]
    /\ age      = [w \in Workers |-> 0]
    /\ reply    = [w \in Workers |-> "none"]
    /\ ids      = {}
    /\ undone   = {}
    /\ picked   = [a \in Admins |-> {}]
    /\ copy     = [v \in Savers |-> NoCopy]
    /\ faults   = 0

(* create_invoice_task has submitted the invoice and calls                  *)
(* _enqueue_for_sync; get_or_create leaves an existing row alone.           *)
Enqueue(e) ==
    /\ status[e] = "absent"
    /\ status'  = [status EXCEPT ![e] = "pending"]
    /\ wait'    = [wait EXCEPT ![e] = FirstDelay]
    /\ invoice' = [invoice EXCEPT ![e] = "submitted"]
    /\ ids'     = ids \cup {e}
    /\ UNCHANGED <<undone, attempts, lock, sunat, queue, worker, picked, copy, faults>>

(* External: SUNAT reaches its decision, once.                              *)
Decide(e) ==
    /\ status[e] # "absent" /\ sunat[e] = "processing"
    /\ \E a \in FinalAnswers : sunat' = [sunat EXCEPT ![e] = a]
    /\ UNCHANGED <<row, orders, queue, worker, picked, copy, faults>>

(* External: one message per entry of S joins the broker's queue.           *)
Send(S) ==
    queue' = [e \in Entries |->
                IF e \in S /\ queue[e] < MaxMsgs THEN queue[e] + 1 ELSE queue[e]]

(* sync_pending_invoices_task: every due entry gets a message, also one     *)
(* whose earlier message still waits.                                       *)
Sweep ==
    /\ \E e \in Entries : IsDue(e)
    /\ Send({e \in Entries : IsDue(e)})
    /\ UNCHANGED <<row, orders, sunat, worker, picked, copy, faults>>

--------------------------------------------------------------------------------
(* One run of sync_single_invoice_task.                                     *)

MutCountAttempt(e) == UNCHANGED attempts
CountAttempt(e) == attempts' = [attempts EXCEPT ![e] = Bump(@)]

Consume(e) == queue[e] > 0 /\ queue' = [queue EXCEPT ![e] = @ - 1]

(* Phase 1, early return: the entry is closed or its lock is fresh.         *)
SkipTask(w, e) ==
    /\ pc[w] = "idle" /\ Consume(e)
    /\ IsClosed(e) \/ IsFresh(e)
    /\ UNCHANGED <<row, orders, sunat, worker, picked, copy, faults>>

(* Phase 1: under the row lock, take the entry and count the attempt. Any   *)
(* status that is not closed will do, and next_retry_at is not looked at.   *)
(* The order is read with the entry: without an external id the use case    *)
(* raises a permanent error and asks nobody.                                *)
StartPolling(w, e) ==
    /\ pc[w] = "idle" /\ Consume(e)
    /\ ~IsClosed(e) /\ ~IsFresh(e)
    /\ status'   = [status EXCEPT ![e] = "processing"]
    /\ CountAttempt(e)
    /\ lock'     = [lock EXCEPT ![e] = 0]
    /\ pc'       = [pc EXCEPT ![w] = IF e \in ids THEN "polling" ELSE "saving"]
    /\ reply'    = [reply EXCEPT ![w] = IF e \in ids THEN "none" ELSE "no_id"]
    /\ job'      = [job EXCEPT ![w] = e]
    /\ tries'    = [tries EXCEPT ![w] = Bump(attempts[e])]
    /\ age'      = [age EXCEPT ![w] = 0]
    /\ UNCHANGED <<wait, orders, sunat, picked, copy, faults>>

(* Phase 2, InvoiceStatusQueryUseCase up to the provider's answer. Without  *)
(* a tenant context CompanyInvoiceConfig.objects is empty and the use case  *)
(* raises a permanent error before any HTTP call.                           *)
Query(w) ==
    /\ pc[w] = "polling"
    /\ \E h \in HttpOutcomes :
          LET r == IF ConfigVisible THEN Classify(h, sunat[job[w]]) ELSE "no_config"
          IN  /\ reply' = [reply EXCEPT ![w] = r]
              /\ pc' = [pc EXCEPT ![w] = IF r \in Errors THEN "saving" ELSE "recording"]
    /\ UNCHANGED <<row, orders, sunat, queue, job, tries, age, picked, copy, faults>>

(* The use case writes the resolved status into the order, and no other     *)
(* column, whatever the order holds by now.                                 *)
RecordOrder(w) ==
    /\ pc[w] = "recording"
    /\ invoice' = [invoice EXCEPT ![job[w]] = ResolveStatus(reply[w])]
    /\ pc' = [pc EXCEPT ![w] = "saving"]
    /\ UNCHANGED <<row, ids, undone, sunat, queue, job, tries, age, reply, picked, copy, faults>>

(* The entry's save: only the named fields are written, computed from the   *)
(* worker's copy of the entry.                                              *)
SaveEntry(w, newStatus) ==
    /\ pc[w] = "saving"
    /\ status' = [status EXCEPT ![job[w]] = newStatus]
    /\ pc' = [pc EXCEPT ![w] = "releasing"]
    /\ UNCHANGED <<attempts, lock, orders, sunat, queue, job, tries, age, reply,
                   picked, copy, faults>>

MutSaveCompleted(w) ==
    /\ reply[w] \in SunatStates /\ ResolveStatus(reply[w]) \in TerminalInvoice
    /\ SaveEntry(w, ResolveStatus(reply[w]))
    /\ UNCHANGED wait
SaveCompleted(w) ==
    /\ reply[w] \in SunatStates /\ ResolveStatus(reply[w]) \in TerminalInvoice
    /\ SaveEntry(w, "completed")
    /\ UNCHANGED wait

SaveExhausted(w) ==
    /\ reply[w] \in SunatStates /\ ResolveStatus(reply[w]) \notin TerminalInvoice
    /\ ShouldExhaust(tries[w])
    /\ SaveEntry(w, "exhausted")
    /\ UNCHANGED wait

(* SUNAT still processing with attempts left, or a temporary error at any   *)
(* count of attempts: back to pending with the next delay.                  *)
MutSaveRetry(w) ==
    /\ \/ reply[w] = "temporary"
       \/ /\ reply[w] \in SunatStates
          /\ ResolveStatus(reply[w]) \notin TerminalInvoice
          /\ ~ShouldExhaust(tries[w])
    /\ SaveEntry(w, "processing")
    /\ wait' = [wait EXCEPT ![job[w]] = NextDelay(tries[w])]
SaveRetry(w) ==
    /\ \/ reply[w] = "temporary"
       \/ /\ reply[w] \in SunatStates
          /\ ResolveStatus(reply[w]) \notin TerminalInvoice
          /\ ~ShouldExhaust(tries[w])
    /\ SaveEntry(w, "pending")
    /\ wait' = [wait EXCEPT ![job[w]] = NextDelay(tries[w])]

MutSaveFailed(w) ==
    /\ reply[w] \in Errors \ {"temporary"}
    /\ SaveEntry(w, status[job[w]])
    /\ UNCHANGED wait
SaveFailed(w) ==
    /\ reply[w] \in Errors \ {"temporary"}
    /\ SaveEntry(w, "failed")
    /\ UNCHANGED wait

(* The run is over: the worker forgets everything.                          *)
Forget(w) ==
    /\ pc'    = [pc EXCEPT ![w] = "idle"]
    /\ job'   = [job EXCEPT ![w] = NoEntry]
    /\ tries' = [tries EXCEPT ![w] = 0]
    /\ age'   = [age EXCEPT ![w] = 0]
    /\ reply' = [reply EXCEPT ![w] = "none"]

(* finally: locked_at is cleared by entry id, whoever holds the lock now.   *)
Release(w) ==
    /\ pc[w] = "releasing"
    /\ lock' = [lock EXCEPT ![job[w]] = NoLock]
    /\ Forget(w)
    /\ UNCHANGED <<status, attempts, wait, orders, sunat, queue, picked, copy, faults>>

--------------------------------------------------------------------------------
(* The admin action retry_failed_invoices: one query reads the retryable    *)
(* rows of the selection, then each is requeued and saved, without a lock.  *)

PickRetryable(a) ==
    /\ picked[a] = {}
    /\ \E S \in SUBSET {e \in Entries : status[e] \in Retryable} :
          S # {} /\ picked' = [picked EXCEPT ![a] = S]
    /\ UNCHANGED <<row, orders, sunat, queue, worker, copy, faults>>

Requeue(a, e) ==
    /\ e \in picked[a]
    /\ picked' = [picked EXCEPT ![a] = @ \ {e}]
    /\ status' = [status EXCEPT ![e] = "pending"]
    /\ lock'   = [lock EXCEPT ![e] = NoLock]
    /\ wait'   = [wait EXCEPT ![e] = 0]
    /\ UNCHANGED <<attempts, orders, sunat, queue, worker, copy, faults>>

--------------------------------------------------------------------------------
(* The order's other writers: generate_order_pdf_task, sent when the order  *)
(* is created and again on request, and the views that change an order's    *)
(* status or items. They read the order at any time and later save all of   *)
(* its columns; nothing bounds the time between.                            *)
ReadOrder(v, e) ==
    /\ copy[v] = NoCopy
    /\ copy' = [copy EXCEPT ![v] = [entry |-> e, invoice |-> invoice[e], ids |-> ids \cap {e}]]
    /\ UNCHANGED <<row, orders, sunat, queue, worker, picked, faults>>

SaveOrder(v, e) ==
    /\ copy[v].entry = e
    /\ invoice' = [invoice EXCEPT ![e] = copy[v].invoice]
    /\ ids'     = (ids \ {e}) \cup copy[v].ids
    /\ undone'  = IF invoice' = invoice /\ ids' = ids THEN undone ELSE undone \cup {e}
    /\ copy'    = [copy EXCEPT ![v] = NoCopy]
    /\ UNCHANGED <<row, sunat, queue, worker, picked, faults>>

--------------------------------------------------------------------------------
(* Time passes. No run outlives MaxRun: by then it has ended or been killed *)
(* (the HTTP client's timeout, at the latest CELERY_TASK_TIME_LIMIT).       *)
Tick ==
    /\ \A w \in Workers : pc[w] # "idle" => age[w] < MaxRun
    /\ wait' = [e \in Entries |-> IF wait[e] > 0 THEN wait[e] - 1 ELSE 0]
    /\ lock' = [e \in Entries |->
                  IF lock[e] = NoLock \/ lock[e] = StaleAfter THEN lock[e] ELSE lock[e] + 1]
    /\ age'  = [w \in Workers |-> IF pc[w] = "idle" THEN 0 ELSE age[w] + 1]
    /\ UNCHANGED <<status, attempts, orders, sunat, queue, pc, job, tries, reply,
                   picked, copy, faults>>

--------------------------------------------------------------------------------
(* Faults. Celery acknowledges a message before the run, so a worker that   *)
(* dies loses it.                                                           *)

Fault == faults < MaxFaults /\ faults' = faults + 1

Crash(w) ==
    /\ Fault /\ pc[w] # "idle"
    /\ Forget(w)
    /\ UNCHANGED <<row, orders, sunat, queue, picked, copy>>

LoseMessage(e) ==
    /\ Fault /\ Consume(e)
    /\ UNCHANGED <<row, orders, sunat, worker, picked, copy>>

(* The broker fails while the sweep dispatches: some entries get none.      *)
SweepCutShort ==
    /\ Fault
    /\ \E S \in SUBSET {e \in Entries : IsDue(e)} : S # {} /\ Send(S)
    /\ UNCHANGED <<row, orders, sunat, worker, picked, copy>>

(* order.save() raises: the task's last handler marks the entry failed.     *)
RecordFails(w) ==
    /\ Fault /\ pc[w] = "recording"
    /\ reply' = [reply EXCEPT ![w] = "unexpected"]
    /\ pc' = [pc EXCEPT ![w] = "saving"]
    /\ UNCHANGED <<row, orders, sunat, queue, job, tries, age, picked, copy>>

(* entry.save() raises. After an answer the last handler still marks the    *)
(* entry failed; in a handler nothing is left but the finally clause.       *)
SaveFails(w) ==
    /\ Fault /\ pc[w] = "saving"
    /\ \/ /\ reply[w] \in SunatStates
          /\ reply' = [reply EXCEPT ![w] = "unexpected"]
          /\ UNCHANGED pc
       \/ /\ reply[w] \in Errors
          /\ pc' = [pc EXCEPT ![w] = "releasing"]
          /\ UNCHANGED reply
    /\ UNCHANGED <<row, orders, sunat, queue, job, tries, age, picked, copy>>

(* The release itself raises: it is logged and the lock stays.              *)
ReleaseFails(w) ==
    /\ Fault /\ pc[w] = "releasing"
    /\ Forget(w)
    /\ UNCHANGED <<row, orders, sunat, queue, picked, copy>>

--------------------------------------------------------------------------------
Save(w) == SaveCompleted(w) \/ SaveExhausted(w) \/ SaveRetry(w) \/ SaveFailed(w)

WorkerStep(w) == Query(w) \/ RecordOrder(w) \/ Save(w) \/ Release(w)

FaultStep ==
    \/ \E w \in Workers : Crash(w) \/ RecordFails(w) \/ SaveFails(w) \/ ReleaseFails(w)
    \/ \E e \in Entries : LoseMessage(e)
    \/ SweepCutShort

Next ==
    \/ \E e \in Entries : Enqueue(e) \/ Decide(e)
    \/ Sweep
    \/ \E w \in Workers, e \in Entries : SkipTask(w, e) \/ StartPolling(w, e)
    \/ \E w \in Workers : WorkerStep(w)
    \/ \E a \in Admins : PickRetryable(a) \/ \E e \in Entries : Requeue(a, e)
    \/ \E v \in Savers, e \in Entries : ReadOrder(v, e) \/ SaveOrder(v, e)
    \/ Tick
    \/ FaultStep

Spec == Init /\ [][Next]_vars

(* Fairness: Beat keeps sweeping, the clock advances, a live worker process *)
(* finishes what it runs, and the broker's queue is first-in first-out, so  *)
(* a waiting message is taken once workers keep becoming free. Nothing is   *)
(* asked of SUNAT, of the provider, of admins, of savers or of faults.      *)
Fairness ==
    /\ WF_vars(Sweep) /\ WF_vars(Tick)
    /\ \A w \in Workers : WF_vars(WorkerStep(w))
    /\ \A e \in Entries : SF_vars(\E w \in Workers : SkipTask(w, e) \/ StartPolling(w, e))

FairSpec == Spec /\ Fairness

(* The provider does not fail with temporary errors for ever: a worker that *)
(* keeps asking is answered, or refused, again and again.                   *)
ProviderAnswers ==
    \A e \in Entries :
        SF_vars(\E w \in Workers : job[w] = e /\ Query(w) /\ reply'[w] # "temporary")

AnsweringSpec == FairSpec /\ ProviderAnswers

--------------------------------------------------------------------------------
(* Type invariant.                                                          *)
TypeOK ==
    /\ status   \in [Entries -> Statuses]
    /\ attempts \in [Entries -> 0 .. AttemptCap]
    /\ wait     \in [Entries -> Nat]
    /\ lock     \in [Entries -> {NoLock} \cup 0 .. StaleAfter]
    /\ invoice  \in [Entries -> InvoiceStates]
    /\ sunat    \in [Entries -> SunatStates]
    /\ queue    \in [Entries -> 0 .. MaxMsgs]
    /\ pc       \in [Workers -> PCs]
    /\ job      \in [Workers -> Entries \cup {NoEntry}]
    /\ tries    \in [Workers -> 0 .. AttemptCap]
    /\ age      \in [Workers -> 0 .. MaxRun]
    /\ reply    \in [Workers -> SunatStates \cup Errors \cup {"none"}]
    /\ ids      \in SUBSET Entries
    /\ undone   \in SUBSET Entries
    /\ picked   \in [Admins -> SUBSET Entries]
    /\ copy     \in [Savers -> Copies \cup {NoCopy}]
    /\ faults   \in 0 .. MaxFaults
    /\ \A w \in Workers : job[w] = NoEntry <=> pc[w] = "idle"

On(w, e) == pc[w] # "idle" /\ job[w] = e

(***************************************************************************)
(* Properties of the regime the lock was designed for: every run ends      *)
(* before its lock goes stale (MaxRun < StaleAfter) and no admin requeues. *)
(* Crashes, lost messages and failed writes are allowed, and whole-row     *)
(* saves of the order at any time.                                         *)
(***************************************************************************)

(* No two runs work on the same entry at once, although its message may     *)
(* wait in the broker many times and every run frees the lock by id.        *)
OnePoller ==
    \A v, w \in Workers : pc[v] # "idle" /\ pc[w] # "idle" /\ job[v] = job[w] => v = w

(* What a run computes its save from is still what the row holds: nobody    *)
(* counted another attempt since the run read the entry.                    *)
CopyIsCurrent ==
    \A w \in Workers : pc[w] # "idle" => attempts[job[w]] = tries[w]

(* A completed entry's order holds SUNAT's final answer: the task closes the*)
(* entry only after the use case has written the order. Only a whole-row    *)
(* save of an older copy takes the answer away again.                       *)
CompletedIsAnswered ==
    \A e \in Entries : status[e] = "completed" => invoice[e] = sunat[e] \/ e \in undone

(* The documents call a final state immutable. The engine keeps to it: no   *)
(* run writes over a final answer, not even one that asked SUNAT before the *)
(* decision. What can lose the answer is the save of a copy of the order    *)
(* that was read before the answer was recorded, and nothing else.          *)
FinalInvoiceStays ==
    [][\A e \in Entries :
          invoice[e] \in FinalAnswers /\ invoice'[e] # invoice[e] =>
              \E v \in Savers : SaveOrder(v, e) /\ copy[v].invoice \notin FinalAnswers]_vars

(* A closed entry stays closed: a late save does not reopen it.             *)
ClosedEntryStays ==
    [][\A e \in Entries : status[e] \in Closed => status'[e] = status[e]]_vars

(***************************************************************************)
(* Properties of every regime: overlapping runs and requeues included.     *)
(***************************************************************************)

(* A terminal invoice_status is SUNAT's decision: polling may lag behind or *)
(* fall back to sync_pending, it never records a wrong answer.              *)
RecordedIsTrue ==
    \A e \in Entries : invoice[e] \in TerminalInvoice => invoice[e] = sunat[e]

(* An entry is given up only after MaxAttempts polls were counted, also     *)
(* when the run that gives it up works from an old copy.                    *)
ExhaustedAtLimit ==
    \A e \in Entries : status[e] = "exhausted" => attempts[e] >= MaxAttempts

(* A processing entry has a run that will still save it, unless a fault     *)
(* ended that run: with no fault nothing is stranded in processing.         *)
ProcessingIsOwned ==
    faults = 0 => \A e \in Entries :
        status[e] = "processing" => \E w \in Workers : job[w] = e /\ pc[w] \in Working

(***************************************************************************)
(* Liveness.                                                               *)
(***************************************************************************)

(* Every pending entry is polled again, whatever messages were duplicated.  *)
PendingIsPolled ==
    \A e \in Entries : status[e] = "pending" ~> \E w \in Workers : On(w, e)

(* Once SUNAT has decided, the order learns the decision unless polling was *)
(* closed first by a permanent error or by the last attempt.                *)
DecisionArrives ==
    \A e \in Entries :
        sunat[e] \in FinalAnswers ~> (invoice[e] = sunat[e] \/ status[e] \in Retryable)

(***************************************************************************)
(* The promise: this specification implements SyncLifecycle.               *)
(***************************************************************************)
Outcome ==
    [e \in Entries |->
        IF invoice[e] \in FinalAnswers THEN invoice[e]
        ELSE IF status[e] \in Retryable THEN "given_up"
        ELSE IF status[e] = "absent" THEN "unsent" ELSE "open"]

Lifecycle == INSTANCE SyncLifecycle
                WITH Invoices <- Entries, FinalAnswers <- FinalAnswers, outcome <- Outcome

(* Every step of the engine settles or gives up one invoice, or changes     *)
(* nothing of what is promised, whatever savers of the order have done      *)
(* before; the savers' own steps are the only others.                       *)
SavedByOthers == \E v \in Savers, e \in Entries : SaveOrder(v, e)

ImplementsLifecycle == Lifecycle!Init /\ [][Lifecycle!Next \/ SavedByOthers]_Outcome

(* With answering provider, no faults and no whole-row saves, every open    *)
(* invoice is closed.                                                       *)
ImplementsFairLifecycle == Lifecycle!FairSpec
================================================================================

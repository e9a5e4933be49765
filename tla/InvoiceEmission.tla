---------------------------- MODULE InvoiceEmission ----------------------------
(***************************************************************************)
(* The first half of an order's invoice: the Celery task that sends it     *)
(* (domain/tasks/invoice_tasks.py), the use case and the Nubefact client   *)
(* it calls, and the other writers of the same order row: the PDF task and *)
(* the web views, which save the whole row as they read it, and the polls  *)
(* of the queue entry that a successful task leaves, whose own retries and *)
(* locks are InvoiceSync's.                                                *)
(*                                                                         *)
(* One order, the messages of create_invoice_task that were sent for it    *)
(* (one per run of the workflow), PDF tasks and web sessions. The task     *)
(* locks the order only while it marks it as processing; a message is      *)
(* acknowledged when it is delivered, so a crash of the worker loses it.   *)
(*                                                                         *)
(* Operators named Mut... are plausible bugs of the operator that follows  *)
(* them; no specification uses them.                                       *)
(***************************************************************************)
EXTENDS Integers, FiniteSets

CONSTANTS
    Tasks,         \* messages of create_invoice_task for the order
    PdfTasks,      \* messages of generate_order_pdf_task for it
    Views,         \* web sessions that cancel it
    MaxRetries,    \* max_retries of the invoice task (5)
    MaxPdfRetries, \* max_retries of the PDF task (3)
    MaxCrashes     \* bound: workers that die within the task

Writers == PdfTasks \cup Views
Actors  == Tasks \cup Writers

ASSUME EmissionAssumption ==
    /\ Tasks \cap Writers = {} /\ PdfTasks \cap Views = {}
    /\ MaxRetries \in Nat /\ MaxPdfRetries \in Nat /\ MaxCrashes \in Nat

VARIABLES
    row,      \* the committed order row
    copy,     \* the row each actor read and may save
    pc,       \* where each actor is
    retries,  \* retries of each task so far
    got,      \* the external id a provider answered to each task
    config,   \* CompanyInvoiceConfig: "nubefact", "mock" or "none"
    issued,   \* external: the documents the provider has issued
    queued,   \* is there an InvoiceSyncQueue entry?
    polled,   \* a poll of that entry read the order and has yet to answer
    crashes,  \* workers that died so far
    stale     \* history: a whole-row save overwrote a newer row

vars == <<row, copy, pc, retries, got, config, issued, queued, polled, crashes, stale>>

-----------------------------------------------------------------------------
(* Types.                                                                   *)

\* invoice_status; "accepted" stands for every final answer of SUNAT.
Answers         == {"sync_pending", "accepted"}
InvoiceStatuses == {"pending", "processing", "retrying", "failed", "submitted"} \cup Answers

\* status of the order, invoice_status, invoice_external_id (0 is none) and
\* whether pdf_report is set.
OrderRows == [status: {"PAID", "CANCELLED"}, inv: InvoiceStatuses, ext: Nat, pdf: BOOLEAN]
NewRow    == [status |-> "PAID", inv |-> "pending", ext |-> 0, pdf |-> FALSE]

\* The invoice message may come after the PDF was made.
Init ==
    /\ row \in {[NewRow EXCEPT !.pdf = made] : made \in BOOLEAN}
    /\ copy = [a \in Actors |-> NewRow]
    /\ pc = [a \in Actors |-> "new"]
    /\ retries = [a \in Actors |-> 0]
    /\ got = [t \in Tasks |-> 0]
    /\ config \in {"nubefact", "mock", "none"}
    /\ issued = {} /\ queued = FALSE /\ polled = FALSE
    /\ crashes = 0 /\ stale = FALSE

GoTo(a, l) == pc' = [pc EXCEPT ![a] = l]

\* order.save(): every column as a read it, whatever others wrote since.
SaveRow(a, new) ==
    /\ row' = new
    /\ stale' = (stale \/ row # copy[a])

-----------------------------------------------------------------------------
(* create_invoice_task, Phase 1, under the row lock.                        *)

MutMayStart == row.ext = 0

MutMayStartAgain == row.inv # "processing"

\* The invoice was not issued and no other run is at it.
MayStart == row.ext = 0 /\ row.inv # "processing"

\* The order is read with Order.objects, which sees no row in a process
\* without a tenant context, as every Celery worker is; a task run eagerly
\* inherits the context of its request.
NotFound(t) ==
    /\ pc[t] = "new"
    /\ GoTo(t, "done")
    /\ UNCHANGED <<row, copy, retries, got, config, issued, queued, polled, crashes, stale>>

Skip(t) ==
    /\ pc[t] = "new" /\ ~MayStart
    /\ GoTo(t, "done")
    /\ UNCHANGED <<row, copy, retries, got, config, issued, queued, polled, crashes, stale>>

\* The order's own status is not looked at.
Lock(t) ==
    /\ pc[t] = "new" /\ MayStart
    /\ row' = [row EXCEPT !.inv = "processing"]
    /\ copy' = [copy EXCEPT ![t] = row']
    /\ GoTo(t, "execute")
    /\ UNCHANGED <<retries, got, config, issued, queued, polled, crashes, stale>>

-----------------------------------------------------------------------------
(* Phase 2: the use case and the provider, without a lock.                  *)

\* external: Nubefact knows the order by its idempotency key and number, and a
\* second request for it returns the same document; the mock makes a new one.
NextDocument == IF config = "nubefact" THEN 1 ELSE Cardinality(issued) + 1

Issue == issued' = issued \cup {NextDocument}

\* The tenant has no configuration: a permanent error.
NoConfig(t) ==
    /\ pc[t] = "execute" /\ config = "none"
    /\ GoTo(t, "permanent")
    /\ UNCHANGED <<row, copy, retries, got, config, issued, queued, polled, crashes, stale>>

\* An answer with a document, logged and parsed.
Answered(t) ==
    /\ pc[t] = "execute" /\ config # "none"
    /\ Issue
    /\ got' = [got EXCEPT ![t] = NextDocument]
    /\ GoTo(t, "answered")
    /\ UNCHANGED <<row, copy, retries, config, queued, polled, crashes, stale>>

\* Timeout, connection error, 500, 502, 503, 504: whether the document was
\* issued is not known.
Unanswered(t) ==
    /\ pc[t] = "execute" /\ config = "nubefact"
    /\ Issue \/ UNCHANGED issued
    /\ GoTo(t, "temporary")
    /\ UNCHANGED <<row, copy, retries, got, config, queued, polled, crashes, stale>>

\* 400, 401, 403, 422 and every other code that is no success.
Refused(t) ==
    /\ pc[t] = "execute" /\ config = "nubefact"
    /\ GoTo(t, "permanent")
    /\ UNCHANGED <<row, copy, retries, got, config, issued, queued, polled, crashes, stale>>

\* The body of any answer may not be JSON (response.json() raises before the
\* code is looked at as an error) and the ExternalRequestLog may not be
\* written: both are errors of no known class.
Unreadable(t) ==
    /\ pc[t] = "execute" /\ config = "nubefact"
    /\ Issue \/ UNCHANGED issued
    /\ GoTo(t, "permanent")
    /\ UNCHANGED <<row, copy, retries, got, config, queued, polled, crashes, stale>>

\* The use case saves the whole row as Phase 1 read it.
Save(t) ==
    /\ pc[t] = "answered"
    /\ SaveRow(t, [copy[t] EXCEPT !.inv = "submitted", !.ext = got[t]])
    /\ GoTo(t, "saved")
    /\ UNCHANGED <<copy, retries, got, config, issued, queued, polled, crashes>>

\* The save is refused by the database: an error of no known class, and the
\* document's id is lost.
SaveFails(t) ==
    /\ pc[t] = "answered"
    /\ GoTo(t, "permanent")
    /\ UNCHANGED <<row, copy, retries, got, config, issued, queued, polled, crashes, stale>>

\* invoice_last_error is cleared, the order refreshed, and get_or_create finds
\* or makes the queue entry.
Enqueue(t) ==
    /\ pc[t] = "saved"
    /\ queued' = TRUE
    /\ GoTo(t, "done")
    /\ UNCHANGED <<row, copy, retries, got, config, issued, polled, crashes, stale>>

MutEnqueueFails(t) ==
    /\ pc[t] = "saved"
    /\ GoTo(t, "done")
    /\ UNCHANGED <<row, copy, retries, got, config, issued, queued, polled, crashes, stale>>

\* One of these three statements is refused: the id stays recorded, there is no
\* entry, and the error of no known class goes to the last handler.
EnqueueFails(t) ==
    /\ pc[t] = "saved"
    /\ GoTo(t, "unqueued")
    /\ UNCHANGED <<row, copy, retries, got, config, issued, queued, polled, crashes, stale>>

-----------------------------------------------------------------------------
(* Phase 2 failed: each handler updates invoice_status alone.               *)

MutTemporary(t) ==
    /\ pc[t] = "temporary"
    /\ row' = [row EXCEPT !.inv = "pending"]
    /\ IF retries[t] < MaxRetries
       THEN GoTo(t, "new") /\ retries' = [retries EXCEPT ![t] = @ + 1]
       ELSE GoTo(t, "done") /\ UNCHANGED retries
    /\ UNCHANGED <<copy, got, config, issued, queued, polled, crashes, stale>>

\* self.retry sends the message again, or raises the error when MaxRetries were
\* used: the order then stays "retrying".
Temporary(t) ==
    /\ pc[t] = "temporary"
    /\ row' = [row EXCEPT !.inv = "retrying"]
    /\ IF retries[t] < MaxRetries
       THEN GoTo(t, "new") /\ retries' = [retries EXCEPT ![t] = @ + 1]
       ELSE GoTo(t, "done") /\ UNCHANGED retries
    /\ UNCHANGED <<copy, got, config, issued, queued, polled, crashes, stale>>

MutPermanent(t) ==
    /\ pc[t] \in {"permanent", "unqueued"}
    /\ GoTo(t, "done")
    /\ UNCHANGED <<row, copy, retries, got, config, issued, queued, polled, crashes, stale>>

\* (a status that is none of the order's choices)
MutPermanentStatus(t) ==
    /\ pc[t] = "permanent"
    /\ row' = [row EXCEPT !.inv = "error"]
    /\ GoTo(t, "done")
    /\ UNCHANGED <<copy, retries, got, config, issued, queued, polled, crashes, stale>>

\* A permanent error returns, one of no known class is raised again; both mark
\* the order as failed, whatever it holds by now.
Permanent(t) ==
    /\ pc[t] \in {"permanent", "unqueued"}
    /\ row' = [row EXCEPT !.inv = "failed"]
    /\ GoTo(t, "done")
    /\ UNCHANGED <<copy, retries, got, config, issued, queued, polled, crashes, stale>>

\* The worker dies, its message acknowledged; or the one update of its handler
\* is refused, which ends the task at the same place.
Crash(t) ==
    /\ pc[t] \in {"execute", "answered", "saved", "unqueued", "temporary", "permanent"}
    /\ crashes < MaxCrashes
    /\ crashes' = crashes + 1
    /\ GoTo(t, "done")
    /\ UNCHANGED <<row, copy, retries, got, config, issued, queued, polled, stale>>

-----------------------------------------------------------------------------
(* The other writers.                                                       *)

\* generate_order_pdf_task reads the order (in its tenant's context), or a view
\* that may cancel it does.
ReadOrder(w) ==
    /\ pc[w] = "new"
    /\ w \in Views => row.status = "PAID"
    /\ copy' = [copy EXCEPT ![w] = row]
    /\ GoTo(w, "read")
    /\ UNCHANGED <<row, retries, got, config, issued, queued, polled, crashes, stale>>

\* pdf_report.save(..., save=True) saves the whole row.
SavePdf(p) ==
    /\ pc[p] = "read"
    /\ SaveRow(p, [copy[p] EXCEPT !.pdf = TRUE])
    /\ GoTo(p, "done")
    /\ UNCHANGED <<copy, retries, got, config, issued, queued, polled, crashes>>

\* Rendering or storing fails: the task is retried, then given up.
PdfFails(p) ==
    /\ pc[p] = "read"
    /\ IF retries[p] < MaxPdfRetries
       THEN GoTo(p, "new") /\ retries' = [retries EXCEPT ![p] = @ + 1]
       ELSE GoTo(p, "done") /\ UNCHANGED retries
    /\ UNCHANGED <<row, copy, got, config, issued, queued, polled, crashes, stale>>

\* trigger_pdf_generation sends no task for an order that has its PDF.
NotTriggered(p) ==
    /\ pc[p] = "new" /\ row.pdf
    /\ GoTo(p, "done")
    /\ UNCHANGED <<row, copy, retries, got, config, issued, queued, polled, crashes, stale>>

\* order_cancel_view saves the whole row too.
Cancel(v) ==
    /\ pc[v] = "read"
    /\ SaveRow(v, [copy[v] EXCEPT !.status = "CANCELLED"])
    /\ GoTo(v, "done")
    /\ UNCHANGED <<copy, retries, got, config, issued, queued, polled, crashes>>

\* A poll reads the entry with its order, and gives up on one without an id ...
Poll ==
    /\ queued /\ row.ext # 0 /\ ~polled
    /\ polled' = TRUE
    /\ UNCHANGED <<row, copy, pc, retries, got, config, issued, queued, crashes, stale>>

\* ... and after the call to SUNAT writes the answer, that column alone,
\* whatever the order holds by now.
Settle ==
    /\ polled
    /\ \E answer \in Answers : row' = [row EXCEPT !.inv = answer]
    /\ polled' = FALSE
    /\ UNCHANGED <<copy, pc, retries, got, config, issued, queued, crashes, stale>>

\* The poll fails: the order keeps its status.
PollFails ==
    /\ polled /\ polled' = FALSE
    /\ UNCHANGED <<row, copy, pc, retries, got, config, issued, queued, crashes, stale>>

-----------------------------------------------------------------------------
TaskStep(t) ==
    \/ NotFound(t) \/ Skip(t) \/ Lock(t)
    \/ NoConfig(t) \/ Answered(t) \/ Unanswered(t) \/ Refused(t) \/ Unreadable(t)
    \/ Save(t) \/ SaveFails(t) \/ Enqueue(t) \/ EnqueueFails(t)
    \/ Temporary(t) \/ Permanent(t)

PdfStep(p)  == ReadOrder(p) \/ SavePdf(p) \/ PdfFails(p) \/ NotTriggered(p)
ViewStep(v) == ReadOrder(v) \/ Cancel(v)

Quiet == (\A t \in Tasks : pc[t] = "done") /\ UNCHANGED vars

Next ==
    \/ \E t \in Tasks : TaskStep(t) \/ Crash(t)
    \/ \E p \in PdfTasks : PdfStep(p)
    \/ \E v \in Views : ViewStep(v)
    \/ Poll \/ Settle \/ PollFails \/ Quiet

Spec == Init /\ [][Next]_vars

\* Celery runs every delivered task to its end and every retry it scheduled.
FairSpec == Spec /\ \A t \in Tasks : WF_vars(TaskStep(t))

-----------------------------------------------------------------------------
(* Properties.                                                              *)

\* Every variable keeps its type.
TypeOK ==
    /\ row \in OrderRows /\ copy \in [Actors -> OrderRows]
    /\ pc \in [Actors -> {"new", "execute", "answered", "saved", "unqueued", "temporary",
                          "permanent", "read", "done"}]
    /\ retries \in [Actors -> Nat]
    /\ got \in [Tasks -> Nat]
    /\ config \in {"nubefact", "mock", "none"}
    /\ issued \subseteq Nat /\ queued \in BOOLEAN /\ polled \in BOOLEAN
    /\ crashes \in Nat /\ stale \in BOOLEAN

\* A task is between its lock and the outcome that it writes into the order.
AtWork(t) == pc[t] \in {"execute", "answered", "temporary", "permanent"}

\* However many messages, retries and crashes: never two tasks at the provider
\* for one order, so long as no whole-row save put an old status back.
OneSubmitter ==
    ~stale => \A t, u \in Tasks : AtWork(t) /\ AtWork(u) => t = u

\* A document the provider issued is recorded, or the order still shows that
\* something went wrong: it never looks as if nothing had been sent.
IssuedLeavesTrace ==
    (issued # {} /\ ~stale) => row.ext # 0 \/ row.inv \in {"processing", "retrying", "failed"}

\* An order with an external id has its queue entry, or the task that recorded
\* the id still has to make it, or the order says "failed". It never looks
\* "submitted" with nobody left to ask SUNAT about it, except after a crash or a
\* stale save. (Every later message skips an order with an id, so the failed one
\* stays without an entry.)
RecordedIsQueued ==
    (row.ext # 0 /\ ~stale /\ crashes = 0) =>
        \/ queued
        \/ \E t \in Tasks : pc[t] \in {"saved", "unqueued"} /\ got[t] = row.ext
        \/ row.inv = "failed"

\* The external id that was recorded is one the provider issued, and it is
\* never lost or replaced, by a retry or a second message, except through a
\* whole-row save of an older row.
IdSticks ==
    [][(row.ext # 0 /\ ~stale') => row'.ext = row.ext /\ row.ext \in issued]_vars

\* Without a crash or a stale save, no order stays "processing".
ProcessingEnds ==
    (row.inv = "processing") ~> (row.inv # "processing" \/ crashes > 0 \/ stale)

=============================================================================

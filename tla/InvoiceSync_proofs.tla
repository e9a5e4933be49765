-------------------------- MODULE InvoiceSync_proofs ---------------------------
(***************************************************************************)
(* Proofs about InvoiceSync, for every number of entries, workers, admins  *)
(* and faults. The first part holds in every regime; the second assumes    *)
(* the regime the lock was designed for.                                   *)
(***************************************************************************)
EXTENDS InvoiceSync, TLAPS

USE SyncAssumption DEF SyncAssumption, orders

(* What the business rule makes of SUNAT's state: a final answer is taken  *)
(* over as it is, anything else becomes sync_pending.                      *)
LEMMA ResolveFinal ==
    ASSUME NEW s \in SunatStates
    PROVE  /\ s \in FinalAnswers => ResolveStatus(s) = s
           /\ s \notin FinalAnswers => ResolveStatus(s) = "sync_pending"
BY DEF SunatStates, FinalAnswers, ResolveStatus, Flags

(* The attempt counter stays within its type and never goes down.          *)
LEMMA BumpType ==
    ASSUME NEW n \in 0 .. AttemptCap
    PROVE  Bump(n) \in 0 .. AttemptCap /\ Bump(n) >= n
BY DEF Bump, AttemptCap

(* The backoff table has a delay for every count of attempts.              *)
LEMMA NextDelayType ==
    ASSUME NEW n \in 0 .. AttemptCap
    PROVE  NextDelay(n) \in Nat
BY DEF NextDelay, AttemptCap

(* Every HTTP outcome is an answer of SUNAT or an error of the provider.   *)
LEMMA ClassifyType ==
    ASSUME NEW h \in HttpOutcomes, NEW s \in SunatStates
    PROVE  Classify(h, s) \in Errors \/ Classify(h, s) = s
BY DEF HttpOutcomes, Classify, Errors

--------------------------------------------------------------------------------
(* Every variable keeps its type, in every regime.                         *)
LEMMA TypeInit == Init => TypeOK
BY DEF Init, TypeOK, Statuses, Closed, Retryable, NoLock, AttemptCap, InvoiceStates,
       TerminalInvoice, FinalAnswers, SunatStates, PCs, Working

(* A saver that saves has a copy of that order, read from the row.          *)
LEMMA SavedCopy ==
    ASSUME TypeOK, NEW v \in Savers, NEW e \in Entries, SaveOrder(v, e)
    PROVE  copy[v] \in Copies /\ copy[v].invoice \in InvoiceStates /\ copy[v].ids \in SUBSET Entries
<1>1. copy[v] \in Copies
    BY DEF TypeOK, SaveOrder, NoCopy
<1>. QED BY <1>1 DEF Copies

(* Every action writes its variables within their types.                    *)
LEMMA TypeStep == TypeOK /\ [Next]_vars => TypeOK'
<1> SUFFICES ASSUME TypeOK, [Next]_vars PROVE TypeOK'
    OBVIOUS
<1> USE DEF TypeOK, Statuses, Closed, Retryable, NoLock, PCs, Working
<1>1. ASSUME NEW e \in Entries, Enqueue(e) PROVE TypeOK'
    BY <1>1 DEF Enqueue, worker, InvoiceStates
<1>2. ASSUME NEW e \in Entries, Decide(e) PROVE TypeOK'
    BY <1>2 DEF Decide, row, worker, SunatStates
<1>3. CASE Sweep
    BY <1>3 DEF Sweep, Send, row, worker
<1>4. ASSUME NEW w \in Workers, NEW e \in Entries, SkipTask(w, e) PROVE TypeOK'
    <2>1. queue' \in [Entries -> 0 .. MaxMsgs]
        BY <1>4 DEF SkipTask, Consume
    <2>2. UNCHANGED <<row, orders, sunat, worker, picked, copy, faults>>
        BY <1>4 DEF SkipTask
    <2>. QED BY <2>1, <2>2 DEF row, worker
<1>5. ASSUME NEW w \in Workers, NEW e \in Entries, StartPolling(w, e) PROVE TypeOK'
    <2>1. queue' \in [Entries -> 0 .. MaxMsgs]
        BY <1>5 DEF StartPolling, Consume
    <2>2. /\ attempts' \in [Entries -> 0 .. AttemptCap]
          /\ tries' \in [Workers -> 0 .. AttemptCap]
        BY <1>5, BumpType DEF StartPolling, CountAttempt
    <2>3. /\ status' \in [Entries -> Statuses]
          /\ lock' \in [Entries -> {NoLock} \cup 0 .. StaleAfter]
          /\ age' \in [Workers -> 0 .. MaxRun]
          /\ pc' \in [Workers -> PCs]
          /\ job' \in [Workers -> Entries \cup {NoEntry}]
          /\ reply' \in [Workers -> SunatStates \cup Errors \cup {"none"}]
          /\ \A v \in Workers : job'[v] = NoEntry <=> pc'[v] = "idle"
        BY <1>5 DEF StartPolling, Errors
    <2>4. UNCHANGED <<wait, orders, sunat, picked, copy, faults>>
        BY <1>5 DEF StartPolling
    <2>. QED BY <2>1, <2>2, <2>3, <2>4
<1>6. ASSUME NEW w \in Workers, Query(w) PROVE TypeOK'
    <2>1. PICK h \in HttpOutcomes :
             LET r == IF ConfigVisible THEN Classify(h, sunat[job[w]]) ELSE "no_config"
             IN  /\ reply' = [reply EXCEPT ![w] = r]
                 /\ pc' = [pc EXCEPT ![w] = IF r \in Errors THEN "saving" ELSE "recording"]
        BY <1>6 DEF Query
    <2>2. job[w] \in Entries
        BY <1>6 DEF Query
    <2>3. sunat[job[w]] \in SunatStates
        BY <2>2
    <2>4. Classify(h, sunat[job[w]]) \in Errors \cup SunatStates /\ "no_config" \in Errors
        BY <2>3, ClassifyType DEF Errors
    <2>. QED BY <1>6, <2>1, <2>4 DEF Query, row
<1>7. ASSUME NEW w \in Workers, RecordOrder(w) PROVE TypeOK'
    <2>1. ResolveStatus(reply[w]) \in InvoiceStates
        BY DEF ResolveStatus, Flags, InvoiceStates, TerminalInvoice, FinalAnswers
    <2>. QED BY <1>7, <2>1 DEF RecordOrder, row
<1>8. ASSUME NEW w \in Workers, Save(w) PROVE TypeOK'
    <2>1. NextDelay(tries[w]) \in Nat
        BY NextDelayType
    <2>2. ASSUME NEW s \in Statuses, SaveEntry(w, s), wait' \in [Entries -> Nat]
          PROVE  TypeOK'
        BY <2>2 DEF SaveEntry
    <2>3. CASE SaveCompleted(w)
        BY <2>2, <2>3 DEF SaveCompleted
    <2>4. CASE SaveExhausted(w)
        BY <2>2, <2>4 DEF SaveExhausted
    <2>5. CASE SaveRetry(w)
        BY <2>1, <2>2, <2>5 DEF SaveRetry
    <2>6. CASE SaveFailed(w)
        BY <2>2, <2>6 DEF SaveFailed
    <2>. QED BY <1>8, <2>3, <2>4, <2>5, <2>6 DEF Save
<1>9. ASSUME NEW w \in Workers, Release(w) PROVE TypeOK'
    BY <1>9 DEF Release, Forget, AttemptCap
<1>10. ASSUME NEW a \in Admins, PickRetryable(a) PROVE TypeOK'
    BY <1>10 DEF PickRetryable, row, worker
<1>11. ASSUME NEW a \in Admins, NEW e \in Entries, Requeue(a, e) PROVE TypeOK'
    BY <1>11 DEF Requeue, worker
<1>12. CASE Tick
    BY <1>12 DEF Tick
<1>13. ASSUME NEW w \in Workers, Crash(w) PROVE TypeOK'
    BY <1>13 DEF Crash, Fault, Forget, row, AttemptCap
<1>14. ASSUME NEW w \in Workers, RecordFails(w) PROVE TypeOK'
    BY <1>14 DEF RecordFails, Fault, row, Errors
<1>15. ASSUME NEW w \in Workers, SaveFails(w) PROVE TypeOK'
    <2>1. /\ pc' \in [Workers -> PCs]
          /\ reply' \in [Workers -> SunatStates \cup Errors \cup {"none"}]
          /\ \A v \in Workers : pc'[v] = "idle" <=> pc[v] = "idle"
        BY <1>15 DEF SaveFails, Errors
    <2>2. faults' \in 0 .. MaxFaults
        BY <1>15 DEF SaveFails, Fault
    <2>3. UNCHANGED <<row, orders, sunat, queue, job, tries, age, picked, copy>>
        BY <1>15 DEF SaveFails
    <2>. QED BY <2>1, <2>2, <2>3 DEF row
<1>16. ASSUME NEW w \in Workers, ReleaseFails(w) PROVE TypeOK'
    BY <1>16 DEF ReleaseFails, Fault, Forget, row, AttemptCap
<1>17. ASSUME NEW e \in Entries, LoseMessage(e) PROVE TypeOK'
    <2>1. queue' \in [Entries -> 0 .. MaxMsgs]
        BY <1>17 DEF LoseMessage, Consume
    <2>2. faults' \in 0 .. MaxFaults
        BY <1>17 DEF LoseMessage, Fault
    <2>3. UNCHANGED <<row, orders, sunat, worker, picked, copy>>
        BY <1>17 DEF LoseMessage
    <2>. QED BY <2>1, <2>2, <2>3 DEF row, worker
<1>18. CASE SweepCutShort
    BY <1>18 DEF SweepCutShort, Fault, Send, row, worker
<1>19. ASSUME NEW v \in Savers, NEW e \in Entries, ReadOrder(v, e) PROVE TypeOK'
    <2>1. [entry |-> e, invoice |-> invoice[e], ids |-> ids \cap {e}] \in Copies
        BY DEF Copies
    <2>2. copy' \in [Savers -> Copies \cup {NoCopy}]
        BY <1>19, <2>1 DEF ReadOrder
    <2>. QED BY <1>19, <2>2 DEF ReadOrder, row, worker
<1>20. ASSUME NEW v \in Savers, NEW e \in Entries, SaveOrder(v, e) PROVE TypeOK'
    <2>1. copy[v].invoice \in InvoiceStates /\ copy[v].ids \in SUBSET Entries
        BY <1>20, SavedCopy
    <2>2. invoice' \in [Entries -> InvoiceStates] /\ ids' \in SUBSET Entries
        BY <1>20, <2>1 DEF SaveOrder
    <2>3. undone' \in SUBSET Entries
        BY <1>20 DEF SaveOrder
    <2>4. copy' \in [Savers -> Copies \cup {NoCopy}]
        BY <1>20 DEF SaveOrder
    <2>. QED BY <1>20, <2>2, <2>3, <2>4 DEF SaveOrder, row, worker
<1>21. CASE UNCHANGED vars
    BY <1>21 DEF vars, row, worker
<1>. QED
    BY <1>1, <1>2, <1>3, <1>4, <1>5, <1>6, <1>7, <1>8, <1>9, <1>10, <1>11, <1>12, <1>13,
       <1>14, <1>15, <1>16, <1>17, <1>18, <1>19, <1>20, <1>21
       DEF Next, WorkerStep, FaultStep

(* Type correctness of the polling engine.                                 *)
THEOREM TypeCorrect == Spec => []TypeOK
BY TypeInit, TypeStep, PTL DEF Spec

--------------------------------------------------------------------------------
(* What holds in every regime. An order without a queue row is untouched,  *)
(* and a run, a message or an admin's selection concerns existing rows.    *)
RowExists ==
    /\ \A e \in Entries : status[e] = "absent" =>
          invoice[e] = "none" /\ queue[e] = 0 /\ sunat[e] = "processing"
    /\ \A w \in Workers : pc[w] # "idle" => status[job[w]] # "absent"
    /\ \A a \in Admins : \A e \in picked[a] : status[e] # "absent"
    /\ \A v \in Savers, e \in Entries :
          copy[v].entry = e /\ status[e] = "absent" => copy[v].invoice = "none"

(* A final answer in a worker's memory is SUNAT's, even if it is old.      *)
ReplyIsTrue ==
    /\ \A w \in Workers : pc[w] \in {"idle", "polling"} => reply[w] = "none"
    /\ \A w \in Workers : pc[w] = "recording" => reply[w] \in SunatStates
    /\ \A w \in Workers : reply[w] \in FinalAnswers => reply[w] = sunat[job[w]]

(* A final answer in a saver's copy is SUNAT's, even if it is old.          *)
CopiedIsTrue ==
    \A v \in Savers, e \in Entries :
        copy[v].entry = e /\ copy[v].invoice \in TerminalInvoice => copy[v].invoice = sunat[e]

(* A worker's copy of the counter is never ahead of the row.               *)
CopyNotAhead ==
    \A w \in Workers : pc[w] # "idle" => tries[w] <= attempts[job[w]]

AnyRegime ==
    TypeOK /\ RowExists /\ ReplyIsTrue /\ RecordedIsTrue /\ CopiedIsTrue /\ CopyNotAhead
    /\ ExhaustedAtLimit /\ ProcessingIsOwned

(* The designed regime: the lock of an entry in work is as old as the run. *)
LockHasRunAge == \A w \in Workers : pc[w] # "idle" => lock[job[w]] = age[w]

(* A run before its save finds its entry in processing.                    *)
WorkingIsProcessing ==
    \A w \in Workers : pc[w] \in Working => status[job[w]] = "processing"

(* A run that learned "processing" has a non-final order, and so has every *)
(* saver's copy of it; after the order's save the order holds what the run *)
(* learned, unless an older copy was saved over it.                        *)
OrderFitsReply ==
    \A w \in Workers :
       /\ pc[w] = "recording" /\ reply[w] = "processing" =>
             /\ invoice[job[w]] \notin FinalAnswers
             /\ \A v \in Savers : copy[v].entry = job[w] => copy[v].invoice \notin FinalAnswers
       /\ pc[w] = "saving" /\ reply[w] \in SunatStates =>
             invoice[job[w]] = ResolveStatus(reply[w]) \/ job[w] \in undone

DesignedRegime ==
    OnePoller /\ LockHasRunAge /\ CopyIsCurrent /\ WorkingIsProcessing /\ OrderFitsReply
    /\ CompletedIsAnswered

--------------------------------------------------------------------------------
(* Which actions write which variables: the frame of the lemmas below.     *)
LEMMA RowWriters ==
    ASSUME [Next]_vars
    PROVE  \/ UNCHANGED <<status, attempts>>
           \/ \E e \in Entries : Enqueue(e)
           \/ \E w \in Workers, e \in Entries : StartPolling(w, e)
           \/ \E w \in Workers : Save(w)
           \/ \E a \in Admins, e \in Entries : Requeue(a, e)
BY DEF Next, WorkerStep, FaultStep, Decide, Sweep, SkipTask, Query, RecordOrder, Release,
       PickRetryable, ReadOrder, SaveOrder, Tick, Crash, RecordFails, SaveFails, ReleaseFails, LoseMessage,
       SweepCutShort, row, vars

(* The runs' variables are written by the steps of runs, the clock and faults. *)
LEMMA WorkerWriters ==
    ASSUME [Next]_vars
    PROVE  \/ UNCHANGED <<pc, job, tries, reply>>
           \/ \E w \in Workers, e \in Entries : StartPolling(w, e)
           \/ \E w \in Workers : Query(w) \/ RecordOrder(w) \/ Save(w)
           \/ \E w \in Workers : RecordFails(w) \/ SaveFails(w)
           \/ \E w \in Workers : Release(w) \/ Crash(w) \/ ReleaseFails(w)
BY DEF Next, WorkerStep, FaultStep, Enqueue, Decide, Sweep, SkipTask, PickRetryable, Requeue,
       ReadOrder, SaveOrder, Tick, LoseMessage, SweepCutShort, worker, vars

(* Orders and SUNAT's decisions are written by Enqueue, Decide, RecordOrder *)
(* and the savers of orders alone.                                          *)
LEMMA AnswerWriters ==
    ASSUME [Next]_vars
    PROVE  \/ UNCHANGED <<orders, sunat>>
           \/ \E e \in Entries : Enqueue(e) \/ Decide(e)
           \/ \E w \in Workers : RecordOrder(w)
           \/ \E v \in Savers, e \in Entries : SaveOrder(v, e)
BY DEF Next, WorkerStep, FaultStep, Sweep, SkipTask, StartPolling, Query, Save, SaveCompleted,
       SaveExhausted, SaveRetry, SaveFailed, SaveEntry, Release, PickRetryable, Requeue, ReadOrder, SaveOrder, Tick,
       Crash, RecordFails, SaveFails, ReleaseFails, LoseMessage, SweepCutShort, vars

(* Broker messages are added by the sweep, taken by Phase 1 or lost.        *)
LEMMA MessageWriters ==
    ASSUME [Next]_vars
    PROVE  \/ UNCHANGED <<queue, picked>>
           \/ Sweep \/ SweepCutShort
           \/ \E w \in Workers, e \in Entries : SkipTask(w, e) \/ StartPolling(w, e)
           \/ \E e \in Entries : LoseMessage(e)
           \/ \E a \in Admins : PickRetryable(a) \/ \E e \in Entries : Requeue(a, e)
BY DEF Next, WorkerStep, FaultStep, Enqueue, Decide, Query, RecordOrder, Save, SaveCompleted,
       SaveExhausted, SaveRetry, SaveFailed, SaveEntry, Release, ReadOrder, SaveOrder, Tick, Crash, RecordFails,
       SaveFails, ReleaseFails, vars

(* Only savers of orders keep copies of orders.                             *)
LEMMA CopyWriters ==
    ASSUME [Next]_vars
    PROVE  UNCHANGED copy \/ \E v \in Savers, e \in Entries : ReadOrder(v, e) \/ SaveOrder(v, e)
BY DEF Next, WorkerStep, FaultStep, Enqueue, Decide, Sweep, SkipTask, StartPolling, Query,
       RecordOrder, Save, SaveCompleted, SaveExhausted, SaveRetry, SaveFailed, SaveEntry, Release,
       PickRetryable, Requeue, Tick, Crash, RecordFails, SaveFails, ReleaseFails, LoseMessage,
       SweepCutShort, vars

(* What a saver remembers after a step: its old copy, the order as it is    *)
(* now, or nothing.                                                         *)
LEMMA CopyEffect ==
    ASSUME TypeOK, [Next]_vars, NEW v \in Savers, NEW e \in Entries, copy'[v].entry = e
    PROVE  \/ copy'[v] = copy[v]
           \/ copy'[v].invoice = invoice[e] /\ UNCHANGED <<status, invoice, sunat, worker>>
<1>1. ASSUME NEW u \in Savers, NEW d \in Entries, SaveOrder(u, d)
      PROVE  copy'[v] = copy[v]
    <2>1. u # v
        BY <1>1 DEF SaveOrder, NoCopy, TypeOK
    <2>. QED BY <1>1, <2>1 DEF SaveOrder, TypeOK
<1>2. ASSUME NEW u \in Savers, NEW d \in Entries, ReadOrder(u, d)
      PROVE  copy'[v] = copy[v] \/ (copy'[v].invoice = invoice[e] /\ UNCHANGED <<status, invoice, sunat, worker>>)
    BY <1>2 DEF ReadOrder, TypeOK, row
<1>. QED BY <1>1, <1>2, CopyWriters

(* A save writes one entry's status and counts nothing.                    *)
LEMMA SaveEffect ==
    ASSUME NEW w \in Workers, Save(w)
    PROVE  \E s \in {"completed", "exhausted", "pending", "failed"} :
              /\ SaveEntry(w, s)
              /\ s = "completed" => reply[w] \in SunatStates /\ ResolveStatus(reply[w]) \in TerminalInvoice
              /\ s = "exhausted" => ShouldExhaust(tries[w])
BY DEF Save, SaveCompleted, SaveExhausted, SaveRetry, SaveFailed

(* A worker that ends or dies only forgets.                                *)
LEMMA EndEffect ==
    ASSUME NEW w \in Workers, Release(w) \/ Crash(w) \/ ReleaseFails(w)
    PROVE  /\ Forget(w) /\ pc[w] # "idle"
           /\ UNCHANGED <<status, attempts, orders, sunat>>
BY DEF Release, Crash, ReleaseFails, row

--------------------------------------------------------------------------------
(* A run's copy of the counter is never ahead of the row: the row only counts up. *)
LEMMA CopyStep ==
    TypeOK /\ CopyNotAhead /\ [Next]_vars => CopyNotAhead'
<1> SUFFICES ASSUME TypeOK, CopyNotAhead, [Next]_vars PROVE CopyNotAhead'
    OBVIOUS
<1>1. /\ \A e \in Entries : attempts[e] \in Nat /\ attempts'[e] \in Nat
      /\ \A w \in Workers : tries[w] \in Nat /\ tries'[w] \in Nat
      /\ \A w \in Workers : pc[w] # "idle" => job[w] \in Entries
    BY TypeStep DEF TypeOK, AttemptCap
<1>2. \A e \in Entries : attempts'[e] >= attempts[e]
    <2>1. ASSUME NEW w \in Workers, NEW e \in Entries, StartPolling(w, e), NEW d \in Entries
          PROVE  attempts'[d] >= attempts[d]
        <3>1. attempts'[d] = IF d = e THEN Bump(attempts[e]) ELSE attempts[d]
            BY <2>1 DEF StartPolling, CountAttempt, TypeOK
        <3>2. Bump(attempts[e]) >= attempts[e]
            BY BumpType DEF TypeOK
        <3>. QED BY <1>1, <3>1, <3>2
    <2>2. ASSUME NEW w \in Workers, Save(w) PROVE UNCHANGED attempts
        BY <2>2, SaveEffect DEF SaveEntry
    <2>. QED BY <1>1, <2>1, <2>2, RowWriters DEF Enqueue, Requeue
<1>3. ASSUME NEW v \in Workers, pc'[v] # "idle", pc[v] # "idle",
             tries'[v] = tries[v], job'[v] = job[v]
      PROVE  tries'[v] <= attempts'[job'[v]]
    BY <1>1, <1>2, <1>3 DEF CopyNotAhead
<1>4. CASE UNCHANGED <<pc, job, tries, reply>>
    BY <1>3, <1>4 DEF CopyNotAhead
<1>5. ASSUME NEW w \in Workers, NEW e \in Entries, StartPolling(w, e) PROVE CopyNotAhead'
    <2>1. tries'[w] = attempts'[e] /\ job'[w] = e
        BY <1>5 DEF StartPolling, CountAttempt, TypeOK
    <2>2. \A v \in Workers \ {w} : pc'[v] = pc[v] /\ job'[v] = job[v] /\ tries'[v] = tries[v]
        BY <1>5 DEF StartPolling, TypeOK
    <2>. QED BY <1>1, <1>3, <2>1, <2>2 DEF CopyNotAhead
<1>6. ASSUME NEW w \in Workers, Query(w) \/ RecordOrder(w) \/ Save(w) \/ RecordFails(w) \/ SaveFails(w)
      PROVE  CopyNotAhead'
    <2>1. pc[w] # "idle" /\ UNCHANGED <<job, tries>>
        BY <1>6, SaveEffect DEF Query, RecordOrder, SaveEntry, RecordFails, SaveFails
    <2>2. \A v \in Workers \ {w} : pc'[v] = pc[v]
        BY <1>6, SaveEffect DEF Query, RecordOrder, SaveEntry, RecordFails, SaveFails, TypeOK
    <2>. QED BY <1>3, <2>1, <2>2 DEF CopyNotAhead
<1>7. ASSUME NEW w \in Workers, Release(w) \/ Crash(w) \/ ReleaseFails(w) PROVE CopyNotAhead'
    <2>1. Forget(w)
        BY <1>7, EndEffect
    <2>. QED BY <1>3, <2>1 DEF CopyNotAhead, Forget, TypeOK
<1>. QED BY <1>4, <1>5, <1>6, <1>7, WorkerWriters

(* An entry given up at the limit stays at the limit: no action lowers the counter. *)
LEMMA ExhaustedStep ==
    TypeOK /\ CopyNotAhead /\ ExhaustedAtLimit /\ [Next]_vars => ExhaustedAtLimit'
<1> SUFFICES ASSUME TypeOK, CopyNotAhead, ExhaustedAtLimit, [Next]_vars
             PROVE  ExhaustedAtLimit'
    OBVIOUS
<1> USE DEF TypeOK, ExhaustedAtLimit
<1>1. CASE UNCHANGED <<status, attempts>>
    BY <1>1
<1>2. ASSUME NEW e \in Entries, Enqueue(e) PROVE ExhaustedAtLimit'
    BY <1>2 DEF Enqueue
<1>3. ASSUME NEW w \in Workers, NEW e \in Entries, StartPolling(w, e) PROVE ExhaustedAtLimit'
    BY <1>3 DEF StartPolling, CountAttempt
<1>4. ASSUME NEW w \in Workers, Save(w) PROVE ExhaustedAtLimit'
    <2>1. PICK s \in {"completed", "exhausted", "pending", "failed"} :
             SaveEntry(w, s) /\ (s = "exhausted" => ShouldExhaust(tries[w]))
        BY <1>4, SaveEffect
    <2>2. job[w] \in Entries /\ tries[w] <= attempts[job[w]]
        BY <2>1 DEF SaveEntry, CopyNotAhead
    <2>. QED BY <2>1, <2>2 DEF SaveEntry, ShouldExhaust, AttemptCap
<1>5. ASSUME NEW a \in Admins, NEW e \in Entries, Requeue(a, e) PROVE ExhaustedAtLimit'
    BY <1>5 DEF Requeue
<1>. QED BY <1>1, <1>2, <1>3, <1>4, <1>5, RowWriters

(* Without a fault an entry leaves processing only by the save of a run that works on it. *)
LEMMA OwnedStep ==
    TypeOK /\ ProcessingIsOwned /\ [Next]_vars => ProcessingIsOwned'
<1> SUFFICES ASSUME TypeOK, ProcessingIsOwned, [Next]_vars, faults' = 0,
                    NEW e \in Entries, status'[e] = "processing"
             PROVE  \E w \in Workers : job'[w] = e /\ pc'[w] \in Working
    BY DEF ProcessingIsOwned
<1> DEFINE Owner(w) == job[w] = e /\ pc[w] \in Working
<1>1. faults = 0 /\ ~FaultStep
    <2>1. faults \in Nat /\ (faults' = faults \/ faults' = faults + 1)
        BY DEF TypeOK, Next, WorkerStep, FaultStep, Fault, Enqueue, Decide, Sweep, SkipTask,
               StartPolling, Query, RecordOrder, Save, SaveCompleted, SaveExhausted, SaveRetry,
               SaveFailed, SaveEntry, Release, PickRetryable, Requeue, ReadOrder, SaveOrder, Tick, Crash, RecordFails,
               SaveFails, ReleaseFails, LoseMessage, SweepCutShort, vars
    <2>2. FaultStep => faults' = faults + 1
        BY DEF FaultStep, Fault, Crash, RecordFails, SaveFails, ReleaseFails, LoseMessage,
               SweepCutShort
    <2>. QED BY <2>1, <2>2
<1>2. status[e] = "processing" => \E w \in Workers : Owner(w)
    BY <1>1 DEF ProcessingIsOwned
<1>3. ASSUME NEW v \in Workers, NEW d \in Entries, StartPolling(v, d)
      PROVE  \E w \in Workers : job'[w] = e /\ pc'[w] \in Working
    <2>1. CASE d = e
        BY <1>3, <2>1 DEF StartPolling, TypeOK, Working
    <2>2. CASE d # e
        <3>1. status[e] = "processing"
            BY <1>3, <2>2 DEF StartPolling, TypeOK
        <3>2. PICK w \in Workers : Owner(w)
            BY <1>2, <3>1
        <3>3. w # v
            BY <1>3, <3>2 DEF StartPolling, Working
        <3>. QED BY <1>3, <3>2, <3>3 DEF StartPolling, TypeOK
    <2>. QED BY <2>1, <2>2
<1>4. ASSUME NEW v \in Workers, Query(v) \/ RecordOrder(v)
      PROVE  \E w \in Workers : job'[w] = e /\ pc'[w] \in Working
    <2>1. UNCHANGED <<status, job>> /\ \A w \in Workers : pc[w] \in Working => pc'[w] \in Working
        BY <1>4 DEF Query, RecordOrder, row, Working, TypeOK
    <2>. QED BY <1>2, <2>1
<1>5. ASSUME NEW v \in Workers, Save(v)
      PROVE  \E w \in Workers : job'[w] = e /\ pc'[w] \in Working
    <2>1. PICK s \in {"completed", "exhausted", "pending", "failed"} : SaveEntry(v, s)
        BY <1>5, SaveEffect
    <2>2. job[v] # e /\ status[e] = "processing"
        BY <2>1 DEF SaveEntry, TypeOK
    <2>3. PICK w \in Workers : Owner(w)
        BY <1>2, <2>2
    <2>. QED BY <2>1, <2>2, <2>3 DEF SaveEntry, TypeOK
<1>6. ASSUME NEW v \in Workers, Release(v)
      PROVE  \E w \in Workers : job'[w] = e /\ pc'[w] \in Working
    <2>1. PICK w \in Workers : Owner(w)
        BY <1>2, <1>6 DEF Release
    <2>. QED BY <1>6, <2>1 DEF Release, Forget, TypeOK, Working
<1>7. CASE UNCHANGED <<pc, job, tries, reply>>
    <2>1. status[e] = "processing"
        <3>1. ASSUME NEW v \in Workers, Save(v) PROVE FALSE
            <4>1. PICK s : SaveEntry(v, s)
                BY <3>1, SaveEffect
            <4>2. pc[v] = "saving" /\ pc'[v] = "releasing"
                BY <4>1 DEF SaveEntry, TypeOK
            <4>. QED BY <1>7, <4>2
        <3>2. ASSUME NEW v \in Workers, NEW d \in Entries, StartPolling(v, d) PROVE FALSE
            BY <1>7, <3>2 DEF StartPolling, TypeOK
        <3>. QED BY <3>1, <3>2, RowWriters DEF Enqueue, Requeue, TypeOK
    <2>. QED BY <1>2, <1>7, <2>1
<1>. QED BY <1>1, <1>3, <1>4, <1>5, <1>6, <1>7, WorkerWriters DEF FaultStep

(* An order with an invoice, a message, a run or a lock has a queue row.    *)
LEMMA RowExistsStep ==
    TypeOK /\ RowExists /\ [Next]_vars => RowExists'
<1> SUFFICES ASSUME TypeOK, RowExists, [Next]_vars PROVE RowExists'
    OBVIOUS
<1>1. \A e \in Entries : status'[e] = "absent" => status[e] = "absent"
    <2>1. ASSUME NEW w \in Workers, Save(w), NEW e \in Entries, status'[e] = "absent"
          PROVE  status[e] = "absent"
        BY <2>1, SaveEffect DEF SaveEntry, TypeOK
    <2>. QED BY <2>1, RowWriters DEF Enqueue, StartPolling, Requeue, TypeOK
<1>2. ASSUME NEW e \in Entries, status'[e] = "absent"
      PROVE  invoice'[e] = "none" /\ sunat'[e] = "processing"
    <2>1. status[e] = "absent" /\ invoice[e] = "none" /\ sunat[e] = "processing"
        BY <1>1, <1>2 DEF RowExists
    <2>2. ASSUME NEW d \in Entries, Enqueue(d) PROVE d # e /\ sunat' = sunat
        BY <1>2, <2>2 DEF Enqueue, TypeOK
    <2>3. ASSUME NEW d \in Entries, Decide(d) PROVE d # e
        BY <2>1, <2>3 DEF Decide
    <2>4. ASSUME NEW w \in Workers, RecordOrder(w) PROVE job[w] # e
        BY <2>1, <2>4 DEF RecordOrder, RowExists
    <2>5. ASSUME NEW v \in Savers, NEW d \in Entries, SaveOrder(v, d)
          PROVE  invoice'[e] = "none" /\ sunat' = sunat
        BY <2>1, <2>5 DEF SaveOrder, RowExists, TypeOK
    <2>. QED BY <2>1, <2>2, <2>3, <2>4, <2>5, AnswerWriters
             DEF Enqueue, Decide, RecordOrder, TypeOK
<1>3. ASSUME NEW e \in Entries, status'[e] = "absent"
      PROVE  queue'[e] = 0
    <2>1. status[e] = "absent" /\ queue[e] = 0
        BY <1>1, <1>3 DEF RowExists
    <2>2. CASE Sweep \/ SweepCutShort
        BY <2>1, <2>2 DEF Sweep, SweepCutShort, Send, IsDue
    <2>3. ASSUME NEW d \in Entries, Consume(d) PROVE queue'[e] = 0
        BY <2>1, <2>3 DEF Consume, TypeOK
    <2>. QED BY <2>1, <2>2, <2>3, MessageWriters
             DEF SkipTask, StartPolling, LoseMessage, PickRetryable, Requeue
<1>4. ASSUME NEW w \in Workers, pc'[w] # "idle"
      PROVE  status'[job'[w]] # "absent"
    <2>1. CASE pc[w] # "idle" /\ job'[w] = job[w]
        BY <1>1, <2>1 DEF RowExists, TypeOK
    <2>2. ASSUME NEW v \in Workers, NEW e \in Entries, StartPolling(v, e)
          PROVE  status'[job'[w]] # "absent"
        BY <1>1, <2>1, <1>4, <2>2 DEF StartPolling, TypeOK
    <2>3. ASSUME NEW v \in Workers, Query(v) \/ RecordOrder(v) \/ Save(v) \/ RecordFails(v) \/ SaveFails(v)
          PROVE  status'[job'[w]] # "absent"
        BY <2>1, <1>4, <2>3, SaveEffect
           DEF Query, RecordOrder, SaveEntry, RecordFails, SaveFails, TypeOK
    <2>4. ASSUME NEW v \in Workers, Release(v) \/ Crash(v) \/ ReleaseFails(v)
          PROVE  status'[job'[w]] # "absent"
        BY <2>1, <1>4, <2>4, EndEffect DEF Forget, TypeOK
    <2>. QED BY <2>1, <2>2, <2>3, <2>4, <1>4, WorkerWriters
<1>5. ASSUME NEW a \in Admins, NEW e \in picked'[a]
      PROVE  status'[e] # "absent"
    <2>1. e \in picked[a] \/ status[e] \in Retryable
        BY <1>5, MessageWriters DEF PickRetryable, Requeue, Sweep, SweepCutShort, SkipTask,
           StartPolling, LoseMessage, TypeOK
    <2>2. e \in Entries
        BY <1>5, TypeStep DEF TypeOK
    <2>. QED BY <1>1, <2>1, <2>2 DEF RowExists, Retryable
<1>6. ASSUME NEW v \in Savers, NEW e \in Entries, copy'[v].entry = e, status'[e] = "absent"
      PROVE  copy'[v].invoice = "none"
    BY <1>1, <1>6, CopyEffect DEF RowExists
<1>. QED BY <1>2, <1>3, <1>4, <1>5, <1>6 DEF RowExists

(* A final answer a run remembers is still what SUNAT decided: it decides once. *)
LEMMA ReplyStep ==
    TypeOK /\ RowExists /\ ReplyIsTrue /\ [Next]_vars => ReplyIsTrue'
<1> SUFFICES ASSUME TypeOK, RowExists, ReplyIsTrue, [Next]_vars PROVE ReplyIsTrue'
    OBVIOUS
<1> DEFINE Good(w) == /\ pc'[w] \in {"idle", "polling"} => reply'[w] = "none"
                      /\ pc'[w] = "recording" => reply'[w] \in SunatStates
                      /\ reply'[w] \in FinalAnswers => reply'[w] = sunat'[job'[w]]
<1>1. ASSUME NEW e \in Entries, sunat[e] \in FinalAnswers PROVE sunat'[e] = sunat[e]
    BY <1>1, AnswerWriters DEF Enqueue, Decide, RecordOrder, SaveOrder, TypeOK, FinalAnswers
<1>2. ASSUME NEW w \in Workers, pc'[w] = pc[w], reply'[w] = reply[w], job'[w] = job[w]
      PROVE  Good(w)
    <2>1. reply[w] \in FinalAnswers => job[w] \in Entries
        BY DEF ReplyIsTrue, TypeOK, FinalAnswers
    <2>. QED BY <1>1, <1>2, <2>1 DEF ReplyIsTrue
<1>3. ASSUME NEW v \in Workers, NEW e \in Entries, StartPolling(v, e), NEW w \in Workers
      PROVE  Good(w)
    <2>1. CASE w = v
        BY <1>3, <2>1 DEF StartPolling, TypeOK, FinalAnswers
    <2>2. CASE w # v
        BY <1>2, <1>3, <2>2 DEF StartPolling, TypeOK
    <2>. QED BY <2>1, <2>2
<1>4. ASSUME NEW v \in Workers, Query(v), NEW w \in Workers
      PROVE  Good(w)
    <2>1. PICK h \in HttpOutcomes :
             LET r == IF ConfigVisible THEN Classify(h, sunat[job[v]]) ELSE "no_config"
             IN  /\ reply' = [reply EXCEPT ![v] = r]
                 /\ pc' = [pc EXCEPT ![v] = IF r \in Errors THEN "saving" ELSE "recording"]
        BY <1>4 DEF Query
    <2>2. UNCHANGED <<sunat, job>>
        BY <1>4 DEF Query
    <2>3. job[v] \in Entries /\ sunat[job[v]] \in SunatStates
        BY <1>4 DEF Query, TypeOK
    <2>4. CASE w = v
        BY <2>1, <2>2, <2>3, <2>4, ClassifyType DEF TypeOK, Errors, FinalAnswers
    <2>5. CASE w # v
        BY <1>2, <2>1, <2>2, <2>5 DEF TypeOK
    <2>. QED BY <2>4, <2>5
<1>5. ASSUME NEW v \in Workers, RecordOrder(v) \/ Save(v), NEW w \in Workers
      PROVE  Good(w)
    <2>1. UNCHANGED <<job, reply>> /\ pc'[v] \in {"saving", "releasing"}
        BY <1>5, SaveEffect DEF RecordOrder, SaveEntry, TypeOK
    <2>2. w # v => pc'[w] = pc[w]
        BY <1>5, SaveEffect DEF RecordOrder, SaveEntry, TypeOK
    <2>3. reply[w] \in FinalAnswers => job[w] \in Entries
        BY DEF ReplyIsTrue, TypeOK, FinalAnswers
    <2>. QED BY <1>1, <1>2, <2>1, <2>2, <2>3 DEF ReplyIsTrue
<1>6. ASSUME NEW v \in Workers, RecordFails(v) \/ SaveFails(v), NEW w \in Workers
      PROVE  Good(w)
    <2>1. pc'[v] \in {"saving", "releasing"} /\ reply'[v] \notin FinalAnswers
        BY <1>6 DEF RecordFails, SaveFails, TypeOK, FinalAnswers, Errors
    <2>2. w # v => pc'[w] = pc[w] /\ reply'[w] = reply[w] /\ job'[w] = job[w]
        BY <1>6 DEF RecordFails, SaveFails, TypeOK
    <2>. QED BY <1>2, <2>1, <2>2
<1>7. ASSUME NEW v \in Workers, Release(v) \/ Crash(v) \/ ReleaseFails(v), NEW w \in Workers
      PROVE  Good(w)
    <2>1. Forget(v)
        BY <1>7, EndEffect
    <2>2. CASE w = v
        BY <2>1, <2>2 DEF Forget, TypeOK, FinalAnswers
    <2>3. CASE w # v
        BY <1>2, <2>1, <2>3 DEF Forget, TypeOK
    <2>. QED BY <2>2, <2>3
<1>. QED BY <1>2, <1>3, <1>4, <1>5, <1>6, <1>7, WorkerWriters DEF ReplyIsTrue

(* What the use case writes into the order is true, because the run's reply is. *)
LEMMA RecordedStep ==
    TypeOK /\ RowExists /\ ReplyIsTrue /\ RecordedIsTrue /\ CopiedIsTrue /\ [Next]_vars
        => RecordedIsTrue' /\ CopiedIsTrue'
<1> SUFFICES ASSUME TypeOK, RowExists, ReplyIsTrue, RecordedIsTrue, CopiedIsTrue, [Next]_vars
             PROVE  RecordedIsTrue' /\ CopiedIsTrue'
    OBVIOUS
<1> USE DEF RecordedIsTrue, TerminalInvoice
<1>1. ASSUME UNCHANGED <<orders, sunat>> PROVE RecordedIsTrue'
    BY <1>1
<1>2. ASSUME NEW e \in Entries, Enqueue(e) PROVE RecordedIsTrue'
    BY <1>2 DEF Enqueue, TypeOK, FinalAnswers
<1>3. ASSUME NEW e \in Entries, Decide(e) PROVE RecordedIsTrue'
    BY <1>3 DEF Decide, TypeOK, FinalAnswers
<1>4. ASSUME NEW w \in Workers, RecordOrder(w) PROVE RecordedIsTrue'
    <2>1. job[w] \in Entries /\ reply[w] \in SunatStates
        BY <1>4 DEF RecordOrder, TypeOK, ReplyIsTrue
    <2>2. reply[w] \in FinalAnswers => ResolveStatus(reply[w]) = sunat[job[w]]
        BY <2>1, ResolveFinal DEF ReplyIsTrue
    <2>3. reply[w] \notin FinalAnswers => ResolveStatus(reply[w]) = "sync_pending"
        BY <2>1, ResolveFinal
    <2>. QED BY <1>4, <2>1, <2>2, <2>3 DEF RecordOrder, TypeOK, FinalAnswers
<1>5. ASSUME NEW v \in Savers, NEW e \in Entries, SaveOrder(v, e) PROVE RecordedIsTrue'
    BY <1>5 DEF SaveOrder, CopiedIsTrue, TypeOK
<1>6. ASSUME NEW e \in Entries, sunat[e] # "processing" PROVE sunat'[e] = sunat[e]
    BY <1>6, AnswerWriters DEF Enqueue, Decide, RecordOrder, SaveOrder, TypeOK
<1>7. CopiedIsTrue'
    <2> SUFFICES ASSUME NEW v \in Savers, NEW e \in Entries, copy'[v].entry = e,
                        copy'[v].invoice \in TerminalInvoice
                 PROVE  copy'[v].invoice = sunat'[e]
        BY DEF CopiedIsTrue
    <2>1. CASE copy'[v] = copy[v]
        BY <1>6, <2>1 DEF CopiedIsTrue, FinalAnswers
    <2>2. CASE copy'[v].invoice = invoice[e] /\ UNCHANGED <<status, invoice, sunat, worker>>
        BY <2>2
    <2>. QED BY <2>1, <2>2, CopyEffect
<1>. QED BY <1>1, <1>2, <1>3, <1>4, <1>5, <1>7, AnswerWriters

(* The strengthening of the first regime holds initially.                   *)
LEMMA AnyRegimeInit == Init => AnyRegime
<1> SUFFICES ASSUME Init PROVE AnyRegime
    OBVIOUS
<1>1. TypeOK
    BY TypeInit
<1>2. RowExists /\ ReplyIsTrue /\ RecordedIsTrue /\ CopiedIsTrue /\ CopyNotAhead
      /\ ExhaustedAtLimit /\ ProcessingIsOwned
    BY DEF Init, RowExists, ReplyIsTrue, RecordedIsTrue, CopiedIsTrue, NoCopy, CopyNotAhead,
           ExhaustedAtLimit, ProcessingIsOwned, TerminalInvoice, FinalAnswers
<1>. QED BY <1>1, <1>2 DEF AnyRegime

(* Every step keeps it.                                                     *)
LEMMA AnyRegimeStep == AnyRegime /\ [Next]_vars => AnyRegime'
BY TypeStep, RowExistsStep, ReplyStep, RecordedStep, CopyStep, ExhaustedStep, OwnedStep
   DEF AnyRegime

(* The invariant that needs no assumption on run length or admins.          *)
LEMMA AnyRegimeInvariant == Spec => []AnyRegime
BY AnyRegimeInit, AnyRegimeStep, PTL DEF Spec

(* In every regime, with any overlap of runs, faults and requeues: a       *)
(* terminal invoice_status is what SUNAT decided.                          *)
THEOREM RecordedAnswersAreTrue == Spec => []RecordedIsTrue
<1>1. AnyRegime => RecordedIsTrue
    BY DEF AnyRegime
<1>. QED BY <1>1, AnyRegimeInvariant, PTL

(* In every regime no entry is exhausted before MaxAttempts polls.         *)
THEOREM NoEarlyExhaustion == Spec => []ExhaustedAtLimit
<1>1. AnyRegime => ExhaustedAtLimit
    BY DEF AnyRegime
<1>. QED BY <1>1, AnyRegimeInvariant, PTL

(* In every regime, without faults no entry is stranded in processing.     *)
THEOREM NothingStranded == Spec => []ProcessingIsOwned
<1>1. AnyRegime => ProcessingIsOwned
    BY DEF AnyRegime
<1>. QED BY <1>1, AnyRegimeInvariant, PTL

--------------------------------------------------------------------------------
(* The designed regime.                                                    *)

(* Locks and ages change in Phase 1, at the end of a run, by requeues and the clock. *)
LEMMA LockWriters ==
    ASSUME TypeOK, [Next]_vars, Admins = {}
    PROVE  \/ /\ UNCHANGED <<lock, age>>
              /\ \A w \in Workers : pc'[w] # "idle" => pc[w] # "idle" /\ job'[w] = job[w]
           \/ \E w \in Workers, e \in Entries : StartPolling(w, e)
           \/ \E w \in Workers : Release(w) \/ Crash(w) \/ ReleaseFails(w)
           \/ Tick
<1> DEFINE Frame == UNCHANGED <<lock, age>>
                    /\ \A w \in Workers : pc'[w] # "idle" => pc[w] # "idle" /\ job'[w] = job[w]
<1>1. CASE UNCHANGED <<lock, age, pc, job>>
    BY <1>1
<1>2. ASSUME NEW v \in Workers, Query(v) \/ RecordOrder(v) \/ RecordFails(v) \/ SaveFails(v)
      PROVE  Frame
    BY <1>2 DEF Query, RecordOrder, RecordFails, SaveFails, row, TypeOK
<1>3. ASSUME NEW v \in Workers, Save(v) PROVE Frame
    BY <1>3, SaveEffect DEF SaveEntry, TypeOK
<1>. QED BY <1>1, <1>2, <1>3
         DEF Next, WorkerStep, FaultStep, Enqueue, Decide, Sweep, SkipTask, ReadOrder, SaveOrder,
             LoseMessage, SweepCutShort, row, worker, vars

(* Mutual exclusion needs to know how old locks are: a run's lock exists   *)
(* and is as old as the run, hence fresh until the run has ended.          *)
LEMMA ExclusionStep ==
    ASSUME MaxRun < StaleAfter, Admins = {}
    PROVE  TypeOK /\ OnePoller /\ LockHasRunAge /\ [Next]_vars => OnePoller' /\ LockHasRunAge'
<1> SUFFICES ASSUME TypeOK, OnePoller, LockHasRunAge, [Next]_vars
             PROVE  OnePoller' /\ LockHasRunAge'
    OBVIOUS
<1>1. ASSUME NEW w \in Workers, pc[w] # "idle"
      PROVE  /\ job[w] \in Entries
             /\ lock[job[w]] = age[w] /\ age[w] \in 0 .. MaxRun
             /\ IsFresh(job[w])
    BY <1>1 DEF TypeOK, LockHasRunAge, IsFresh, NoLock
<1>2. CASE /\ UNCHANGED <<lock, age>>
           /\ \A w \in Workers : pc'[w] # "idle" => pc[w] # "idle" /\ job'[w] = job[w]
    BY <1>2 DEF OnePoller, LockHasRunAge
<1>3. ASSUME NEW v \in Workers, NEW e \in Entries, StartPolling(v, e)
      PROVE  OnePoller' /\ LockHasRunAge'
    <2>1. \A w \in Workers : pc[w] # "idle" => job[w] # e
        BY <1>1, <1>3 DEF StartPolling
    <2>2. \A w \in Workers \ {v} : pc'[w] = pc[w] /\ job'[w] = job[w] /\ age'[w] = age[w]
        BY <1>3 DEF StartPolling, TypeOK
    <2>3. job'[v] = e /\ age'[v] = 0 /\ lock' = [lock EXCEPT ![e] = 0]
        BY <1>3 DEF StartPolling, TypeOK
    <2>4. OnePoller'
        BY <2>1, <2>2, <2>3 DEF OnePoller
    <2>5. lock'[e] = 0 /\ \A d \in Entries \ {e} : lock'[d] = lock[d]
        BY <2>3 DEF TypeOK
    <2>6. LockHasRunAge'
        BY <1>1, <2>1, <2>2, <2>3, <2>5 DEF LockHasRunAge
    <2>. QED BY <2>4, <2>6
<1>4. ASSUME NEW v \in Workers, Release(v) \/ Crash(v) \/ ReleaseFails(v)
      PROVE  OnePoller' /\ LockHasRunAge'
    <2>1. pc[v] # "idle" /\ Forget(v)
        BY <1>4, EndEffect
    <2>2. \A e \in Entries : lock'[e] # lock[e] => e = job[v]
        BY <1>4 DEF Release, Crash, ReleaseFails, row, TypeOK
    <2>3. pc'[v] = "idle"
        BY <2>1 DEF Forget, TypeOK
    <2>4. \A w \in Workers \ {v} : pc'[w] = pc[w] /\ job'[w] = job[w] /\ age'[w] = age[w]
        BY <2>1 DEF Forget, TypeOK
    <2>5. \A w \in Workers : pc'[w] # "idle" => w # v /\ job[w] # job[v]
        BY <2>1, <2>3, <2>4 DEF OnePoller
    <2>. QED BY <1>1, <2>2, <2>4, <2>5 DEF OnePoller, LockHasRunAge
<1>5. CASE Tick
    <2>1. UNCHANGED <<pc, job>>
        BY <1>5 DEF Tick
    <2>2. ASSUME NEW w \in Workers, pc[w] # "idle"
          PROVE  lock'[job[w]] = age[w] + 1 /\ age'[w] = age[w] + 1
        BY <1>1, <1>5, <2>2 DEF Tick, NoLock
    <2>. QED BY <2>1, <2>2 DEF OnePoller, LockHasRunAge
<1>. QED BY <1>2, <1>3, <1>4, <1>5, LockWriters

(* The copy of the counter a run works from is the row's.                  *)
LEMMA CurrentStep ==
    ASSUME MaxRun < StaleAfter, Admins = {}
    PROVE  TypeOK /\ OnePoller /\ LockHasRunAge /\ CopyIsCurrent /\ [Next]_vars => CopyIsCurrent'
<1> SUFFICES ASSUME TypeOK, OnePoller, LockHasRunAge, CopyIsCurrent, [Next]_vars
             PROVE  CopyIsCurrent'
    OBVIOUS
<1>1. CASE UNCHANGED <<attempts, pc, job, tries>>
    BY <1>1 DEF CopyIsCurrent
<1>2. ASSUME NEW v \in Workers, NEW e \in Entries, StartPolling(v, e) PROVE CopyIsCurrent'
    <2>1. (OnePoller /\ LockHasRunAge)'
        BY ExclusionStep
    <2>2. pc'[v] # "idle" /\ job'[v] = e
        BY <1>2 DEF StartPolling, TypeOK
    <2>3. \A w \in Workers \ {v} : pc'[w] = pc[w] /\ job'[w] = job[w] /\ tries'[w] = tries[w]
        BY <1>2 DEF StartPolling, TypeOK
    <2>4. \A w \in Workers \ {v} : pc'[w] # "idle" => job[w] # e
        BY <2>1, <2>2, <2>3 DEF OnePoller
    <2>5. attempts'[e] = tries'[v] /\ \A d \in Entries \ {e} : attempts'[d] = attempts[d]
        BY <1>2 DEF StartPolling, CountAttempt, TypeOK
    <2>6. \A w \in Workers : pc[w] # "idle" => job[w] \in Entries
        BY DEF TypeOK
    <2>. QED BY <2>2, <2>3, <2>4, <2>5, <2>6 DEF CopyIsCurrent
<1>3. ASSUME NEW v \in Workers, Query(v) \/ RecordOrder(v) \/ Save(v) \/ RecordFails(v) \/ SaveFails(v)
      PROVE  CopyIsCurrent'
    <2>1. pc[v] # "idle" /\ UNCHANGED <<attempts, job, tries>>
        BY <1>3, SaveEffect DEF Query, RecordOrder, SaveEntry, RecordFails, SaveFails, row
    <2>2. \A w \in Workers \ {v} : pc'[w] = pc[w]
        BY <1>3, SaveEffect DEF Query, RecordOrder, SaveEntry, RecordFails, SaveFails, TypeOK
    <2>. QED BY <2>1, <2>2 DEF CopyIsCurrent
<1>4. ASSUME NEW v \in Workers, Release(v) \/ Crash(v) \/ ReleaseFails(v) PROVE CopyIsCurrent'
    <2>1. Forget(v) /\ UNCHANGED attempts
        BY <1>4, EndEffect
    <2>. QED BY <2>1 DEF CopyIsCurrent, Forget, TypeOK
<1>. QED BY <1>1, <1>2, <1>3, <1>4
         DEF Next, WorkerStep, FaultStep, Enqueue, Decide, Sweep, SkipTask, ReadOrder, SaveOrder, Tick, LoseMessage,
             SweepCutShort, row, worker, vars

(* Only the run itself moves its entry out of processing.                  *)
LEMMA WorkingStep ==
    ASSUME MaxRun < StaleAfter, Admins = {}
    PROVE  TypeOK /\ OnePoller /\ WorkingIsProcessing /\ [Next]_vars => WorkingIsProcessing'
<1> SUFFICES ASSUME TypeOK, OnePoller, WorkingIsProcessing, [Next]_vars
             PROVE  WorkingIsProcessing'
    OBVIOUS
<1> USE DEF WorkingIsProcessing, Working
<1>1. CASE UNCHANGED <<status, pc, job>>
    BY <1>1
<1>2. ASSUME NEW e \in Entries, Enqueue(e) PROVE WorkingIsProcessing'
    BY <1>2 DEF Enqueue, worker, TypeOK
<1>3. ASSUME NEW v \in Workers, NEW e \in Entries, StartPolling(v, e) PROVE WorkingIsProcessing'
    BY <1>3 DEF StartPolling, TypeOK
<1>4. ASSUME NEW v \in Workers, Query(v) \/ RecordOrder(v) \/ RecordFails(v) \/ SaveFails(v)
      PROVE  WorkingIsProcessing'
    BY <1>4 DEF Query, RecordOrder, RecordFails, SaveFails, row, TypeOK
<1>5. ASSUME NEW v \in Workers, Save(v) PROVE WorkingIsProcessing'
    <2>1. PICK s : SaveEntry(v, s)
        BY <1>5, SaveEffect
    <2>2. ASSUME NEW w \in Workers, pc'[w] \in Working
          PROVE  w # v /\ pc[w] \in Working /\ job'[w] = job[w] /\ job[w] # job[v]
        BY <2>1, <2>2 DEF SaveEntry, OnePoller, TypeOK
    <2>. QED BY <2>1, <2>2 DEF SaveEntry, TypeOK
<1>6. ASSUME NEW v \in Workers, Release(v) \/ Crash(v) \/ ReleaseFails(v)
      PROVE  WorkingIsProcessing'
    <2>1. Forget(v) /\ UNCHANGED status
        BY <1>6, EndEffect
    <2>. QED BY <2>1 DEF Forget, TypeOK
<1>. QED BY <1>1, <1>2, <1>3, <1>4, <1>5, <1>6
         DEF Next, WorkerStep, FaultStep, Decide, Sweep, SkipTask, ReadOrder, SaveOrder, Tick, LoseMessage,
             SweepCutShort, row, worker, vars

(* Only savers of older copies write an order while a run on its entry is  *)
(* between query and save, and none of them can hold a final answer that   *)
(* the run did not learn: the order still fits what the run learned.       *)
LEMMA OrderFitsStep ==
    ASSUME MaxRun < StaleAfter, Admins = {}
    PROVE  AnyRegime /\ OnePoller /\ OrderFitsReply /\ [Next]_vars => OrderFitsReply'
<1> SUFFICES ASSUME AnyRegime, OnePoller, OrderFitsReply, [Next]_vars
             PROVE  OrderFitsReply'
    OBVIOUS
<1> DEFINE Fits(w) ==
       /\ pc[w] = "recording" /\ reply[w] = "processing" =>
             /\ invoice[job[w]] \notin FinalAnswers
             /\ \A v \in Savers : copy[v].entry = job[w] => copy[v].invoice \notin FinalAnswers
       /\ pc[w] = "saving" /\ reply[w] \in SunatStates =>
             invoice[job[w]] = ResolveStatus(reply[w]) \/ job[w] \in undone
<1>1. TypeOK /\ \A w \in Workers : Fits(w)
    BY DEF AnyRegime, OrderFitsReply
<1>2. ASSUME NEW w \in Workers, pc'[w] = pc[w], job'[w] = job[w], reply'[w] = reply[w],
             pc[w] # "idle" => invoice'[job[w]] = invoice[job[w]],
             UNCHANGED <<undone, copy>>
      PROVE  Fits(w)'
    BY <1>1, <1>2
<1>3. CASE UNCHANGED <<pc, job, tries, reply>>
    <2>1. ASSUME UNCHANGED <<orders, sunat, copy>>, NEW w \in Workers PROVE Fits(w)'
        BY <1>2, <1>3, <2>1
    <2>2. ASSUME NEW e \in Entries, Enqueue(e) \/ Decide(e), NEW w \in Workers PROVE Fits(w)'
        <3>1. pc[w] # "idle" => job[w] \in Entries /\ status[job[w]] # "absent"
            BY <1>1 DEF AnyRegime, RowExists, TypeOK
        <3>. QED BY <1>1, <1>2, <1>3, <2>2, <3>1 DEF Enqueue, Decide, TypeOK
    <2>3. ASSUME NEW v \in Workers, RecordOrder(v) PROVE FALSE
        BY <1>1, <1>3, <2>3 DEF RecordOrder, TypeOK
    <2>4. ASSUME NEW v \in Savers, NEW e \in Entries, ReadOrder(v, e), NEW w \in Workers
          PROVE  Fits(w)'
        <3>1. UNCHANGED <<invoice, undone>>
            BY <2>4 DEF ReadOrder
        <3>2. ASSUME NEW u \in Savers
              PROVE  \/ copy'[u] = copy[u]
                     \/ copy'[u].entry = e /\ copy'[u].invoice = invoice[e]
            <4>1. copy' = [copy EXCEPT ![v] = [entry |-> e, invoice |-> invoice[e], ids |-> ids \cap {e}]]
                BY <2>4 DEF ReadOrder
            <4>2. DOMAIN copy = Savers
                BY <1>1 DEF TypeOK
            <4>. QED BY <4>1, <4>2
        <3>. QED BY <1>1, <1>3, <3>1, <3>2
    <2>5. ASSUME NEW v \in Savers, NEW e \in Entries, SaveOrder(v, e), NEW w \in Workers
          PROVE  Fits(w)'
        <3>1. /\ \A d \in Entries \ {e} : invoice'[d] = invoice[d]
              /\ invoice'[e] = copy[v].invoice /\ copy[v].entry = e
            BY <1>1, <2>5 DEF SaveOrder, TypeOK
        <3>2. undone \subseteq undone' /\ (invoice'[e] = invoice[e] \/ e \in undone')
            BY <2>5 DEF SaveOrder
        <3>3. \A u \in Savers, d \in Entries : copy'[u].entry = d => copy'[u] = copy[u]
            BY <1>1, <2>5 DEF SaveOrder, TypeOK, NoCopy
        <3>4. pc[w] # "idle" => job[w] \in Entries
            BY <1>1 DEF TypeOK
        <3>. QED BY <1>1, <1>3, <3>1, <3>2, <3>3, <3>4
    <2>. QED
        <3>1. ASSUME NEW w \in Workers PROVE Fits(w)'
            BY <2>1, <2>2, <2>3, <2>4, <2>5, AnswerWriters, CopyWriters
        <3>. QED BY <3>1 DEF OrderFitsReply
<1>4. ASSUME NEW v \in Workers, NEW e \in Entries, StartPolling(v, e), NEW w \in Workers
      PROVE  Fits(w)'
    <2>1. pc'[v] = "polling" \/ (pc'[v] = "saving" /\ reply'[v] = "no_id")
        BY <1>1, <1>4 DEF StartPolling, TypeOK
    <2>2. UNCHANGED <<orders, copy>>
        BY <1>4 DEF StartPolling
    <2>3. w # v => pc'[w] = pc[w] /\ job'[w] = job[w] /\ reply'[w] = reply[w]
        BY <1>1, <1>4 DEF StartPolling, TypeOK
    <2>. QED BY <1>2, <2>1, <2>2, <2>3 DEF SunatStates, FinalAnswers
<1>5. ASSUME NEW v \in Workers, Query(v), NEW w \in Workers
      PROVE  Fits(w)'
    <2>1. CASE w = v
        <3>1. PICK h \in HttpOutcomes :
                 LET r == IF ConfigVisible THEN Classify(h, sunat[job[v]]) ELSE "no_config"
                 IN  /\ reply' = [reply EXCEPT ![v] = r]
                     /\ pc' = [pc EXCEPT ![v] = IF r \in Errors THEN "saving" ELSE "recording"]
            BY <1>5 DEF Query
        <3>2. job[v] \in Entries /\ sunat[job[v]] \in SunatStates /\ UNCHANGED <<orders, copy, job>>
            BY <1>1, <1>5 DEF Query, TypeOK
        <3>3. sunat[job[v]] = "processing" =>
                 /\ invoice[job[v]] \notin FinalAnswers
                 /\ \A u \in Savers : copy[u].entry = job[v] => copy[u].invoice \notin FinalAnswers
            BY <3>2 DEF AnyRegime, RecordedIsTrue, CopiedIsTrue, TerminalInvoice, FinalAnswers
        <3>4. /\ reply'[v] \in Errors => pc'[v] = "saving"
              /\ reply'[v] \notin Errors => pc'[v] = "recording" /\ reply'[v] = sunat[job[v]]
            BY <1>1, <3>1, <3>2, ClassifyType DEF TypeOK, Errors
        <3>. QED BY <2>1, <3>2, <3>3, <3>4 DEF Errors, SunatStates, FinalAnswers
    <2>2. CASE w # v
        BY <1>1, <1>2, <1>5, <2>2 DEF Query, TypeOK
    <2>. QED BY <2>1, <2>2
<1>6. ASSUME NEW v \in Workers, RecordOrder(v), NEW w \in Workers
      PROVE  Fits(w)'
    <2>1. CASE w = v
        BY <1>1, <1>6, <2>1 DEF RecordOrder, TypeOK
    <2>2. CASE w # v
        BY <1>1, <1>2, <1>6, <2>2 DEF RecordOrder, OnePoller, TypeOK
    <2>. QED BY <2>1, <2>2
<1>7. ASSUME NEW v \in Workers, Save(v), NEW w \in Workers
      PROVE  Fits(w)'
    <2>1. PICK s : SaveEntry(v, s)
        BY <1>7, SaveEffect
    <2>2. pc'[v] = "releasing" /\ UNCHANGED <<orders, copy, job, reply>>
        BY <1>1, <2>1 DEF SaveEntry, TypeOK
    <2>3. w # v => pc'[w] = pc[w]
        BY <1>1, <2>1 DEF SaveEntry, TypeOK
    <2>. QED BY <1>2, <2>2, <2>3
<1>8. ASSUME NEW v \in Workers, RecordFails(v) \/ SaveFails(v), NEW w \in Workers
      PROVE  Fits(w)'
    <2>1. UNCHANGED <<orders, copy, job>> /\ pc'[v] \in {"saving", "releasing"}
          /\ reply'[v] \notin SunatStates
        BY <1>1, <1>8 DEF RecordFails, SaveFails, TypeOK, SunatStates, FinalAnswers, Errors
    <2>2. w # v => pc'[w] = pc[w] /\ reply'[w] = reply[w]
        BY <1>1, <1>8 DEF RecordFails, SaveFails, TypeOK
    <2>. QED BY <1>2, <2>1, <2>2
<1>9. ASSUME NEW v \in Workers, Release(v) \/ Crash(v) \/ ReleaseFails(v), NEW w \in Workers
      PROVE  Fits(w)'
    <2>1. Forget(v) /\ UNCHANGED <<orders, copy>>
        BY <1>9, EndEffect DEF Release, Crash, ReleaseFails
    <2>. QED BY <1>1, <1>2, <2>1 DEF Forget, TypeOK
<1>. QED BY <1>3, <1>4, <1>5, <1>6, <1>7, <1>8, <1>9, WorkerWriters DEF OrderFitsReply

(* An entry is completed by a run whose answer the order already holds.     *)
LEMMA CompletedStep ==
    ASSUME MaxRun < StaleAfter, Admins = {}
    PROVE  AnyRegime /\ DesignedRegime /\ [Next]_vars => CompletedIsAnswered'
<1> SUFFICES ASSUME AnyRegime, DesignedRegime, [Next]_vars, NEW e \in Entries,
                    status'[e] = "completed", e \notin undone'
             PROVE  invoice'[e] = sunat'[e]
    BY DEF CompletedIsAnswered
<1> USE DEF AnyRegime, DesignedRegime
<1>0. ASSUME NEW v \in Savers, NEW d \in Entries, SaveOrder(v, d)
      PROVE  UNCHANGED <<invoice[e], sunat>> /\ e \notin undone
    BY <1>0 DEF SaveOrder, TypeOK
<1>u. e \notin undone
    BY <1>0, AnswerWriters DEF Enqueue, Decide, RecordOrder
<1>1. ASSUME status[e] = "completed" PROVE UNCHANGED <<invoice[e], sunat[e]>> /\ invoice[e] = sunat[e]
    <2>1. invoice[e] = sunat[e] /\ sunat[e] # "processing"
        BY <1>1, <1>u DEF CompletedIsAnswered, TypeOK, InvoiceStates, TerminalInvoice, FinalAnswers
    <2>2. ASSUME NEW v \in Workers, RecordOrder(v) PROVE job[v] # e
        BY <1>1, <2>2 DEF RecordOrder, WorkingIsProcessing, Working
    <2>. QED BY <1>0, <1>1, <2>1, <2>2, AnswerWriters DEF Enqueue, Decide, RecordOrder, TypeOK
<1>2. ASSUME status[e] # "completed", NEW v \in Workers, Save(v) PROVE invoice'[e] = sunat'[e]
    <2>1. SaveEntry(v, "completed") /\ reply[v] \in SunatStates
          /\ ResolveStatus(reply[v]) \in TerminalInvoice /\ job[v] = e
        BY <1>2, SaveEffect DEF SaveEntry, TypeOK
    <2>2. reply[v] \in FinalAnswers /\ ResolveStatus(reply[v]) = reply[v]
        BY <2>1, ResolveFinal DEF TerminalInvoice, FinalAnswers
    <2>3. reply[v] = sunat[e]
        BY <2>1, <2>2 DEF ReplyIsTrue
    <2>4. invoice[e] = reply[v]
        BY <1>u, <2>1, <2>2 DEF SaveEntry, OrderFitsReply
    <2>. QED BY <2>1, <2>3, <2>4 DEF SaveEntry
<1>3. ASSUME status[e] # "completed" PROVE \E v \in Workers : Save(v)
    BY <1>3, RowWriters DEF Enqueue, StartPolling, Requeue, TypeOK
<1>. QED BY <1>1, <1>2, <1>3

(* The invariant of runs shorter than the stale lock, without requeues.     *)
LEMMA DesignedRegimeInvariant ==
    ASSUME MaxRun < StaleAfter, Admins = {}
    PROVE  Spec => [](AnyRegime /\ DesignedRegime)
<1>1. Init => DesignedRegime
    BY DEF Init, DesignedRegime, OnePoller, LockHasRunAge, CopyIsCurrent, WorkingIsProcessing,
           Working, OrderFitsReply, CompletedIsAnswered
<1>2. AnyRegime /\ DesignedRegime /\ [Next]_vars => DesignedRegime'
    BY ExclusionStep, CurrentStep, WorkingStep, OrderFitsStep, CompletedStep
       DEF AnyRegime, DesignedRegime
<1>. QED BY <1>1, <1>2, AnyRegimeInit, AnyRegimeStep, PTL DEF Spec

(* When every run ends before its lock goes stale and no admin requeues,   *)
(* no two runs work on one entry, whatever is duplicated, lost or crashes. *)
THEOREM Exclusion ==
    ASSUME MaxRun < StaleAfter, Admins = {}
    PROVE  Spec => []OnePoller
<1>1. DesignedRegime => OnePoller
    BY DEF DesignedRegime
<1>. QED BY <1>1, DesignedRegimeInvariant, PTL

(* In that regime a run never saves from an outdated copy of the counter.  *)
THEOREM CopiesAreCurrent ==
    ASSUME MaxRun < StaleAfter, Admins = {}
    PROVE  Spec => []CopyIsCurrent
<1>1. DesignedRegime => CopyIsCurrent
    BY DEF DesignedRegime
<1>. QED BY <1>1, DesignedRegimeInvariant, PTL

(* In that regime a completed entry has SUNAT's answer in its order.       *)
THEOREM CompletedAnswers ==
    ASSUME MaxRun < StaleAfter, Admins = {}
    PROVE  Spec => []CompletedIsAnswered
<1>1. DesignedRegime => CompletedIsAnswered
    BY DEF DesignedRegime
<1>. QED BY <1>1, DesignedRegimeInvariant, PTL

(* A run that would write another status over a final answer cannot exist,  *)
(* nor can a saver whose copy holds another final answer.                   *)
LEMMA FinalKept ==
    ASSUME AnyRegime, DesignedRegime, [Next]_vars, NEW e \in Entries, invoice[e] \in FinalAnswers,
           invoice'[e] # invoice[e]
    PROVE  \E v \in Savers : SaveOrder(v, e) /\ copy[v].invoice \notin FinalAnswers
<1> USE DEF AnyRegime
<1>1. ASSUME NEW d \in Entries, Enqueue(d) PROVE d # e
    BY <1>1 DEF Enqueue, RowExists, FinalAnswers
<1>2. ASSUME NEW w \in Workers, RecordOrder(w), job[w] = e PROVE ResolveStatus(reply[w]) = invoice[e]
    <2>1. reply[w] \in SunatStates /\ reply[w] # "processing"
        BY <1>2 DEF RecordOrder, ReplyIsTrue, DesignedRegime, OrderFitsReply
    <2>2. reply[w] = sunat[e] /\ invoice[e] = sunat[e]
        BY <1>2, <2>1 DEF ReplyIsTrue, RecordedIsTrue, SunatStates, TerminalInvoice
    <2>. QED BY <2>1, <2>2, ResolveFinal DEF SunatStates
<1>3. ASSUME NEW v \in Savers, NEW d \in Entries, SaveOrder(v, d)
      PROVE  d = e /\ copy[v].invoice \notin FinalAnswers
    <2>1. d = e /\ copy[v].entry = e /\ invoice'[e] = copy[v].invoice
        BY <1>3 DEF SaveOrder, TypeOK
    <2>. QED BY <2>1 DEF CopiedIsTrue, RecordedIsTrue, TerminalInvoice
<1>4. ASSUME NEW w \in Workers, RecordOrder(w) PROVE FALSE
    BY <1>2, <1>4 DEF RecordOrder, TypeOK
<1>5. ASSUME NEW d \in Entries, Enqueue(d) \/ Decide(d) PROVE FALSE
    BY <1>1, <1>5 DEF Enqueue, Decide, TypeOK
<1>. QED BY <1>3, <1>4, <1>5, AnswerWriters

(* In that regime the engine never writes over a final answer in an order: *)
(* the only step that takes one away is the save of a copy of the order    *)
(* that was read before the answer was recorded.                           *)
THEOREM FinalAnswersStay ==
    ASSUME MaxRun < StaleAfter, Admins = {}
    PROVE  Spec => FinalInvoiceStays
<1>1. AnyRegime /\ DesignedRegime /\ [Next]_vars =>
         [\A e \in Entries :
             invoice[e] \in FinalAnswers /\ invoice'[e] # invoice[e] =>
                 \E v \in Savers : SaveOrder(v, e) /\ copy[v].invoice \notin FinalAnswers]_vars
    BY FinalKept
<1>. QED BY <1>1, DesignedRegimeInvariant, PTL DEF Spec, FinalInvoiceStays

(* In that regime a closed entry stays closed: no late save reopens it.    *)
THEOREM ClosedEntriesStay ==
    ASSUME MaxRun < StaleAfter, Admins = {}
    PROVE  Spec => ClosedEntryStays
<1>1. ASSUME AnyRegime, DesignedRegime, [Next]_vars, NEW e \in Entries, status[e] \in Closed
      PROVE  status'[e] = status[e]
    <2>1. ASSUME NEW w \in Workers, Save(w) PROVE status'[e] = status[e]
        <3>1. PICK s : SaveEntry(w, s)
            BY <2>1, SaveEffect
        <3>2. job[w] # e
            BY <1>1, <3>1 DEF SaveEntry, DesignedRegime, WorkingIsProcessing, Working, Closed, Retryable
        <3>. QED BY <1>1, <3>1, <3>2 DEF SaveEntry, AnyRegime, TypeOK
    <2>. QED BY <1>1, <2>1, RowWriters
             DEF Enqueue, StartPolling, IsClosed, Closed, Retryable, AnyRegime, TypeOK
<1>2. AnyRegime /\ DesignedRegime /\ [Next]_vars =>
         [\A e \in Entries : status[e] \in Closed => status'[e] = status[e]]_vars
    BY <1>1
<1>. QED BY <1>2, DesignedRegimeInvariant, PTL DEF Spec, ClosedEntryStays

--------------------------------------------------------------------------------
(* Refinement: in the designed regime the engine implements SyncLifecycle. *)

(* Every step of the engine is a step of SyncLifecycle or a stutter of it.  *)
LEMMA LifecycleStep ==
    ASSUME MaxRun < StaleAfter, Admins = {}, AnyRegime, DesignedRegime, [Next]_vars
    PROVE  [Lifecycle!Next \/ SavedByOthers]_Outcome
<1> USE DEF AnyRegime
<1>1. CASE UNCHANGED <<status, invoice>>
    BY <1>1 DEF Outcome
<1>2. ASSUME NEW e \in Entries, Enqueue(e) PROVE Lifecycle!Submit(e)
    <2>1. invoice[e] = "none"
        BY <1>2 DEF Enqueue, RowExists
    <2>. QED BY <1>2, <2>1 DEF Enqueue, Outcome, Lifecycle!Submit, TypeOK, FinalAnswers, Retryable
<1>3. ASSUME NEW w \in Workers, NEW e \in Entries, StartPolling(w, e) PROVE UNCHANGED Outcome
    <2>1. status[e] \in {"pending", "processing"} /\ UNCHANGED invoice
        BY <1>3 DEF StartPolling, Consume, IsClosed, RowExists, TypeOK, Statuses
    <2>. QED BY <1>3, <2>1 DEF StartPolling, Outcome, TypeOK, Retryable
<1>4. ASSUME NEW w \in Workers, RecordOrder(w) PROVE UNCHANGED Outcome \/ Lifecycle!Settle(job[w])
    <2>1. job[w] \in Entries /\ status[job[w]] = "processing" /\ UNCHANGED status
        BY <1>4 DEF RecordOrder, row, TypeOK, DesignedRegime, WorkingIsProcessing, Working
    <2>2. CASE invoice[job[w]] \in FinalAnswers
        <3>1. ResolveStatus(reply[w]) = invoice[job[w]]
            <4>1. reply[w] \in SunatStates /\ reply[w] # "processing"
                BY <1>4, <2>2 DEF RecordOrder, ReplyIsTrue, DesignedRegime, OrderFitsReply
            <4>2. reply[w] = sunat[job[w]] /\ invoice[job[w]] = sunat[job[w]]
                BY <2>1, <2>2, <4>1 DEF ReplyIsTrue, RecordedIsTrue, SunatStates, TerminalInvoice
            <4>. QED BY <4>1, <4>2, ResolveFinal DEF SunatStates
        <3>. QED BY <1>4, <2>1, <3>1 DEF RecordOrder, Outcome, TypeOK
    <2>3. CASE invoice[job[w]] \notin FinalAnswers /\ ResolveStatus(reply[w]) \notin FinalAnswers
        BY <1>4, <2>1, <2>3 DEF RecordOrder, Outcome, TypeOK
    <2>4. CASE invoice[job[w]] \notin FinalAnswers /\ ResolveStatus(reply[w]) \in FinalAnswers
        <3>1. Outcome[job[w]] = "open"
            BY <2>1, <2>4 DEF Outcome, Retryable
        <3>2. Outcome' = [Outcome EXCEPT ![job[w]] = ResolveStatus(reply[w])]
            BY <1>4, <2>1, <2>4 DEF RecordOrder, Outcome, TypeOK
        <3>. QED BY <2>4, <3>1, <3>2 DEF Lifecycle!Settle
    <2>. QED BY <2>2, <2>3, <2>4
<1>5. ASSUME NEW w \in Workers, Save(w) PROVE UNCHANGED Outcome \/ Lifecycle!GiveUp(job[w])
    <2>1. PICK s \in {"completed", "exhausted", "pending", "failed"} :
             SaveEntry(w, s)
             /\ (s = "completed" => reply[w] \in SunatStates /\ ResolveStatus(reply[w]) \in TerminalInvoice)
        BY <1>5, SaveEffect
    <2>2. job[w] \in Entries /\ status[job[w]] = "processing" /\ UNCHANGED invoice
        BY <2>1 DEF SaveEntry, TypeOK, DesignedRegime, WorkingIsProcessing, Working
    <2>4. CASE invoice[job[w]] \in FinalAnswers \/ s \in {"pending", "completed"}
        BY <2>1, <2>2, <2>4 DEF SaveEntry, Outcome, TypeOK, Retryable
    <2>5. CASE invoice[job[w]] \notin FinalAnswers /\ s \in {"exhausted", "failed"}
        <3>1. Outcome[job[w]] = "open"
            BY <2>2, <2>5 DEF Outcome, Retryable
        <3>2. Outcome' = [Outcome EXCEPT ![job[w]] = "given_up"]
            BY <2>1, <2>2, <2>5 DEF SaveEntry, Outcome, TypeOK, Retryable
        <3>. QED BY <3>1, <3>2 DEF Lifecycle!GiveUp
    <2>. QED BY <2>1, <2>4, <2>5
<1>6. ASSUME NEW e \in Entries, Decide(e) PROVE UNCHANGED <<status, invoice>>
    BY <1>6 DEF Decide, row
<1>7. ASSUME NEW w \in Workers, NEW s, SaveEntry(w, s) PROVE job[w] \in Entries
    BY <1>7 DEF SaveEntry, TypeOK
<1>8. ASSUME NEW w \in Workers, RecordOrder(w) PROVE job[w] \in Entries
    BY <1>8 DEF RecordOrder, TypeOK
<1>. QED
    <2>1. ASSUME NEW w \in Workers, Save(w) PROVE [Lifecycle!Next \/ SavedByOthers]_Outcome
        BY <1>5, <1>7, <2>1, SaveEffect DEF Lifecycle!Next
    <2>2. ASSUME NEW w \in Workers, RecordOrder(w) PROVE [Lifecycle!Next \/ SavedByOthers]_Outcome
        BY <1>4, <1>8, <2>2 DEF Lifecycle!Next
    <2>3. ASSUME NEW e \in Entries, Enqueue(e) PROVE [Lifecycle!Next \/ SavedByOthers]_Outcome
        BY <1>2, <2>3 DEF Lifecycle!Next
    <2>4. ASSUME NEW v \in Savers, NEW e \in Entries, SaveOrder(v, e) PROVE SavedByOthers
        BY <2>4 DEF SavedByOthers
    <2>. QED BY <1>1, <1>3, <1>6, <2>1, <2>2, <2>3, <2>4, RowWriters, AnswerWriters

(* Sweeps, duplicated messages, workers, locks, retries and crashes, taken *)
(* together, only ever settle an open invoice with an answer or give it    *)
(* up, also when whole-row saves of orders have undone some of that.       *)
THEOREM LifecycleImplemented ==
    ASSUME MaxRun < StaleAfter, Admins = {}
    PROVE  Spec => ImplementsLifecycle
<1>1. Init => Lifecycle!Init
    BY DEF Init, Outcome, Lifecycle!Init, FinalAnswers, Retryable
<1>2. AnyRegime /\ DesignedRegime /\ [Next]_vars => [Lifecycle!Next \/ SavedByOthers]_Outcome
    BY LifecycleStep
<1>. QED BY <1>1, <1>2, DesignedRegimeInvariant, PTL DEF Spec, ImplementsLifecycle
================================================================================

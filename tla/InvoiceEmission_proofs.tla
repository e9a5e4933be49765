------------------------- MODULE InvoiceEmission_proofs -------------------------
(***************************************************************************)
(* Proofs about InvoiceEmission, for any messages, PDF tasks, views,       *)
(* retries and crashes.                                                    *)
(*                                                                         *)
(* The task holds no lock while it talks to the provider. What keeps a     *)
(* second one out is the status it committed: Alone says that a task at    *)
(* work finds its "processing" in the row and no external id beside it,    *)
(* that a task past its save finds its own id there, and that a poll in    *)
(* flight means an id and an entry.                                        *)
(* Only a whole-row save of an older row can break that, so everything     *)
(* rests on stale being FALSE, and a writer whose copy is the row changes  *)
(* nothing but its own column.                                             *)
(***************************************************************************)
EXTENDS InvoiceEmission, FiniteSetTheorems, TLAPS

(* The provider numbers its documents from 1, and answers with one of them. *)
Documents ==
    /\ IsFiniteSet(issued) /\ 0 \notin issued
    /\ \A t \in Tasks : pc[t] = "answered" => got[t] \in issued

Alone ==
    ~stale => /\ \A t \in Tasks : AtWork(t) => row.inv = "processing" /\ row.ext = 0
              /\ row.ext # 0 => row.ext \in issued
              /\ polled => queued /\ row.ext # 0
              /\ \A t \in Tasks : pc[t] \in {"saved", "unqueued"} => row.ext = got[t] /\ row.ext # 0

EInv == TypeOK /\ Documents /\ Alone /\ OneSubmitter /\ IssuedLeavesTrace /\ RecordedIsQueued

(***************************************************************************)
(* The next document of the provider is a new number that is not 0.        *)
(***************************************************************************)
LEMMA NextDocumentType ==
    ASSUME TypeOK, Documents
    PROVE  NextDocument \in Nat /\ NextDocument # 0
<1>1. Cardinality(issued) \in Nat
    BY FS_CardinalityType DEF Documents
<1>. QED BY <1>1 DEF NextDocument

(***************************************************************************)
(* Issuing keeps the documents finite and never makes a number 0.          *)
(***************************************************************************)
LEMMA IssueDocuments ==
    ASSUME TypeOK, Documents, Issue
    PROVE  /\ IsFiniteSet(issued') /\ 0 \notin issued' /\ issued' \subseteq Nat
           /\ NextDocument \in issued' /\ issued \subseteq issued'
<1>1. issued' = issued \cup {NextDocument}
    BY DEF Issue
<1>2. IsFiniteSet(issued \cup {NextDocument})
    BY FS_AddElement DEF Documents
<1>. QED BY <1>1, <1>2, NextDocumentType DEF TypeOK, Documents

(***************************************************************************)
(* Every step keeps the types.                                             *)
(***************************************************************************)
LEMMA TypeStep == EInv /\ [Next]_vars => TypeOK'
<1>. SUFFICES ASSUME EInv, [Next]_vars PROVE TypeOK'
    OBVIOUS
<1>. USE EmissionAssumption DEF EInv, TypeOK, OrderRows, InvoiceStatuses, Answers, Actors, Writers
<1>1. ASSUME NEW t \in Tasks, NotFound(t) PROVE TypeOK'
    BY <1>1 DEF NotFound, GoTo
<1>2. ASSUME NEW t \in Tasks, Skip(t) PROVE TypeOK'
    BY <1>2 DEF Skip, GoTo
<1>3. ASSUME NEW t \in Tasks, Lock(t) PROVE TypeOK'
    BY <1>3 DEF Lock, GoTo, MayStart
<1>4. ASSUME NEW t \in Tasks, NoConfig(t) PROVE TypeOK'
    BY <1>4 DEF NoConfig, GoTo
<1>5. ASSUME NEW t \in Tasks, Answered(t) PROVE TypeOK'
    BY <1>5, NextDocumentType, IssueDocuments DEF Answered, GoTo
<1>6. ASSUME NEW t \in Tasks, Unanswered(t) PROVE TypeOK'
    BY <1>6, NextDocumentType, IssueDocuments DEF Unanswered, GoTo
<1>7. ASSUME NEW t \in Tasks, Refused(t) PROVE TypeOK'
    BY <1>7 DEF Refused, GoTo
<1>8. ASSUME NEW t \in Tasks, Unreadable(t) PROVE TypeOK'
    BY <1>8, NextDocumentType, IssueDocuments DEF Unreadable, GoTo
<1>9. ASSUME NEW t \in Tasks, Save(t) PROVE TypeOK'
    BY <1>9 DEF Save, GoTo, SaveRow
<1>10. ASSUME NEW t \in Tasks, SaveFails(t) PROVE TypeOK'
    BY <1>10 DEF SaveFails, GoTo
<1>11. ASSUME NEW t \in Tasks, Enqueue(t) PROVE TypeOK'
    BY <1>11 DEF Enqueue, GoTo
<1>12. ASSUME NEW t \in Tasks, EnqueueFails(t) PROVE TypeOK'
    BY <1>12 DEF EnqueueFails, GoTo
<1>13. ASSUME NEW t \in Tasks, Temporary(t) PROVE TypeOK'
    <2>1. row' \in OrderRows
        BY <1>13 DEF Temporary
    <2>2. pc' \in [Actors -> {"new", "execute", "answered", "saved", "unqueued", "temporary",
                             "permanent", "read", "done"}]
        BY <1>13 DEF Temporary, GoTo
    <2>3. retries' \in [Actors -> Nat]
        BY <1>13 DEF Temporary
    <2>. QED BY <1>13, <2>1, <2>2, <2>3 DEF Temporary
<1>14. ASSUME NEW t \in Tasks, Permanent(t) PROVE TypeOK'
    BY <1>14 DEF Permanent, GoTo
<1>15. ASSUME NEW t \in Tasks, Crash(t) PROVE TypeOK'
    BY <1>15 DEF Crash, GoTo
<1>16. ASSUME NEW w \in Writers, ReadOrder(w) PROVE TypeOK'
    BY <1>16 DEF ReadOrder, GoTo
<1>17. ASSUME NEW p \in PdfTasks, SavePdf(p) PROVE TypeOK'
    BY <1>17 DEF SavePdf, GoTo, SaveRow
<1>18. ASSUME NEW p \in PdfTasks, PdfFails(p) PROVE TypeOK'
    BY <1>18 DEF PdfFails, GoTo
<1>19. ASSUME NEW p \in PdfTasks, NotTriggered(p) PROVE TypeOK'
    BY <1>19 DEF NotTriggered, GoTo
<1>20. ASSUME NEW v \in Views, Cancel(v) PROVE TypeOK'
    BY <1>20 DEF Cancel, GoTo, SaveRow
<1>21. ASSUME Poll PROVE TypeOK'
    BY <1>21 DEF Poll, Answers
<1>22. ASSUME Settle PROVE TypeOK'
    BY <1>22 DEF Settle, Answers
<1>23. ASSUME PollFails PROVE TypeOK'
    BY <1>23 DEF PollFails, Answers
<1>24. CASE UNCHANGED vars
    BY <1>24 DEF vars
<1>. QED BY <1>1, <1>2, <1>3, <1>4, <1>5, <1>6, <1>7, <1>8, <1>9, <1>10, <1>11, <1>12, <1>13, <1>14, <1>15, <1>16, <1>17, <1>18, <1>19, <1>20, <1>21, <1>22, <1>23, <1>24 DEF Next, TaskStep, PdfStep, ViewStep, Quiet, Writers

(***************************************************************************)
(* Every answer names a document that was issued.                          *)
(***************************************************************************)
LEMMA DocumentsStep == EInv /\ [Next]_vars => Documents'
<1>. SUFFICES ASSUME EInv, [Next]_vars PROVE Documents'
    OBVIOUS
<1>. USE EmissionAssumption DEF EInv, TypeOK, Documents, Actors, Writers
<1>1. ASSUME NEW t \in Tasks, NotFound(t) PROVE Documents'
    BY <1>1 DEF NotFound, GoTo
<1>2. ASSUME NEW t \in Tasks, Skip(t) PROVE Documents'
    BY <1>2 DEF Skip, GoTo
<1>3. ASSUME NEW t \in Tasks, Lock(t) PROVE Documents'
    BY <1>3 DEF Lock, GoTo, MayStart
<1>4. ASSUME NEW t \in Tasks, NoConfig(t) PROVE Documents'
    BY <1>4 DEF NoConfig, GoTo
<1>5. ASSUME NEW t \in Tasks, Answered(t) PROVE Documents'
    <2>1. /\ IsFiniteSet(issued') /\ 0 \notin issued' /\ issued \subseteq issued'
          /\ Issue => NextDocument \in issued'
        BY <1>5, IssueDocuments DEF Answered
    <2>. QED BY <1>5, <2>1 DEF Answered, GoTo
<1>6. ASSUME NEW t \in Tasks, Unanswered(t) PROVE Documents'
    <2>1. /\ IsFiniteSet(issued') /\ 0 \notin issued' /\ issued \subseteq issued'
          /\ Issue => NextDocument \in issued'
        BY <1>6, IssueDocuments DEF Unanswered
    <2>. QED BY <1>6, <2>1 DEF Unanswered, GoTo
<1>7. ASSUME NEW t \in Tasks, Refused(t) PROVE Documents'
    BY <1>7 DEF Refused, GoTo
<1>8. ASSUME NEW t \in Tasks, Unreadable(t) PROVE Documents'
    <2>1. /\ IsFiniteSet(issued') /\ 0 \notin issued' /\ issued \subseteq issued'
          /\ Issue => NextDocument \in issued'
        BY <1>8, IssueDocuments DEF Unreadable
    <2>. QED BY <1>8, <2>1 DEF Unreadable, GoTo
<1>9. ASSUME NEW t \in Tasks, Save(t) PROVE Documents'
    BY <1>9 DEF Save, GoTo, SaveRow
<1>10. ASSUME NEW t \in Tasks, SaveFails(t) PROVE Documents'
    BY <1>10 DEF SaveFails, GoTo
<1>11. ASSUME NEW t \in Tasks, Enqueue(t) PROVE Documents'
    BY <1>11 DEF Enqueue, GoTo
<1>12. ASSUME NEW t \in Tasks, EnqueueFails(t) PROVE Documents'
    BY <1>12 DEF EnqueueFails, GoTo
<1>13. ASSUME NEW t \in Tasks, Temporary(t) PROVE Documents'
    BY <1>13 DEF Temporary, GoTo
<1>14. ASSUME NEW t \in Tasks, Permanent(t) PROVE Documents'
    BY <1>14 DEF Permanent, GoTo
<1>15. ASSUME NEW t \in Tasks, Crash(t) PROVE Documents'
    BY <1>15 DEF Crash, GoTo
<1>16. ASSUME NEW w \in Writers, ReadOrder(w) PROVE Documents'
    BY <1>16 DEF ReadOrder, GoTo
<1>17. ASSUME NEW p \in PdfTasks, SavePdf(p) PROVE Documents'
    BY <1>17 DEF SavePdf, GoTo, SaveRow
<1>18. ASSUME NEW p \in PdfTasks, PdfFails(p) PROVE Documents'
    BY <1>18 DEF PdfFails, GoTo
<1>19. ASSUME NEW p \in PdfTasks, NotTriggered(p) PROVE Documents'
    BY <1>19 DEF NotTriggered, GoTo
<1>20. ASSUME NEW v \in Views, Cancel(v) PROVE Documents'
    BY <1>20 DEF Cancel, GoTo, SaveRow
<1>21. ASSUME Poll PROVE Documents'
    BY <1>21 DEF Poll, Answers
<1>22. ASSUME Settle PROVE Documents'
    BY <1>22 DEF Settle, Answers
<1>23. ASSUME PollFails PROVE Documents'
    BY <1>23 DEF PollFails, Answers
<1>24. CASE UNCHANGED vars
    BY <1>24 DEF vars
<1>. QED BY <1>1, <1>2, <1>3, <1>4, <1>5, <1>6, <1>7, <1>8, <1>9, <1>10, <1>11, <1>12, <1>13, <1>14, <1>15, <1>16, <1>17, <1>18, <1>19, <1>20, <1>21, <1>22, <1>23, <1>24 DEF Next, TaskStep, PdfStep, ViewStep, Quiet, Writers

(***************************************************************************)
(* A task at work finds its status in the row, unless an old row was put   *)
(* back; a second one that locks finds it and skips.                       *)
(***************************************************************************)
LEMMA AloneStep == EInv /\ [Next]_vars => Alone'
<1>. SUFFICES ASSUME EInv, [Next]_vars PROVE Alone'
    OBVIOUS
<1>. USE EmissionAssumption DEF EInv, TypeOK, OrderRows, Documents, Alone, OneSubmitter, AtWork, Actors, Writers, Issue
<1>1. ASSUME NEW t \in Tasks, NotFound(t) PROVE Alone'
    BY <1>1 DEF NotFound, GoTo
<1>2. ASSUME NEW t \in Tasks, Skip(t) PROVE Alone'
    BY <1>2 DEF Skip, GoTo
<1>3. ASSUME NEW t \in Tasks, Lock(t) PROVE Alone'
    BY <1>3 DEF Lock, GoTo, MayStart
<1>4. ASSUME NEW t \in Tasks, NoConfig(t) PROVE Alone'
    BY <1>4 DEF NoConfig, GoTo
<1>5. ASSUME NEW t \in Tasks, Answered(t) PROVE Alone'
    BY <1>5 DEF Answered, GoTo
<1>6. ASSUME NEW t \in Tasks, Unanswered(t) PROVE Alone'
    BY <1>6 DEF Unanswered, GoTo
<1>7. ASSUME NEW t \in Tasks, Refused(t) PROVE Alone'
    BY <1>7 DEF Refused, GoTo
<1>8. ASSUME NEW t \in Tasks, Unreadable(t) PROVE Alone'
    BY <1>8 DEF Unreadable, GoTo
<1>9. ASSUME NEW t \in Tasks, Save(t) PROVE Alone'
    BY <1>9 DEF Save, GoTo, SaveRow
<1>10. ASSUME NEW t \in Tasks, SaveFails(t) PROVE Alone'
    BY <1>10 DEF SaveFails, GoTo
<1>11. ASSUME NEW t \in Tasks, Enqueue(t) PROVE Alone'
    BY <1>11 DEF Enqueue, GoTo
<1>12. ASSUME NEW t \in Tasks, EnqueueFails(t) PROVE Alone'
    BY <1>12 DEF EnqueueFails, GoTo
<1>13. ASSUME NEW t \in Tasks, Temporary(t) PROVE Alone'
    BY <1>13 DEF Temporary, GoTo
<1>14. ASSUME NEW t \in Tasks, Permanent(t) PROVE Alone'
    BY <1>14 DEF Permanent, GoTo
<1>15. ASSUME NEW t \in Tasks, Crash(t) PROVE Alone'
    BY <1>15 DEF Crash, GoTo
<1>16. ASSUME NEW w \in Writers, ReadOrder(w) PROVE Alone'
    BY <1>16 DEF ReadOrder, GoTo
<1>17. ASSUME NEW p \in PdfTasks, SavePdf(p) PROVE Alone'
    BY <1>17 DEF SavePdf, GoTo, SaveRow
<1>18. ASSUME NEW p \in PdfTasks, PdfFails(p) PROVE Alone'
    BY <1>18 DEF PdfFails, GoTo
<1>19. ASSUME NEW p \in PdfTasks, NotTriggered(p) PROVE Alone'
    BY <1>19 DEF NotTriggered, GoTo
<1>20. ASSUME NEW v \in Views, Cancel(v) PROVE Alone'
    BY <1>20 DEF Cancel, GoTo, SaveRow
<1>21. ASSUME Poll PROVE Alone'
    BY <1>21 DEF Poll, Answers
<1>22. ASSUME Settle PROVE Alone'
    BY <1>22 DEF Settle, Answers
<1>23. ASSUME PollFails PROVE Alone'
    BY <1>23 DEF PollFails, Answers
<1>24. CASE UNCHANGED vars
    BY <1>24 DEF vars
<1>. QED BY <1>1, <1>2, <1>3, <1>4, <1>5, <1>6, <1>7, <1>8, <1>9, <1>10, <1>11, <1>12, <1>13, <1>14, <1>15, <1>16, <1>17, <1>18, <1>19, <1>20, <1>21, <1>22, <1>23, <1>24 DEF Next, TaskStep, PdfStep, ViewStep, Quiet, Writers

(***************************************************************************)
(* Who locks the order finds nobody at work.                               *)
(***************************************************************************)
LEMMA OneSubmitterStep == EInv /\ [Next]_vars => OneSubmitter'
<1>. SUFFICES ASSUME EInv, [Next]_vars PROVE OneSubmitter'
    OBVIOUS
<1>. USE EmissionAssumption DEF EInv, TypeOK, OrderRows, Alone, OneSubmitter, AtWork, Actors, Writers, Issue
<1>1. ASSUME NEW t \in Tasks, NotFound(t) PROVE OneSubmitter'
    BY <1>1 DEF NotFound, GoTo
<1>2. ASSUME NEW t \in Tasks, Skip(t) PROVE OneSubmitter'
    BY <1>2 DEF Skip, GoTo
<1>3. ASSUME NEW t \in Tasks, Lock(t) PROVE OneSubmitter'
    BY <1>3 DEF Lock, GoTo, MayStart
<1>4. ASSUME NEW t \in Tasks, NoConfig(t) PROVE OneSubmitter'
    BY <1>4 DEF NoConfig, GoTo
<1>5. ASSUME NEW t \in Tasks, Answered(t) PROVE OneSubmitter'
    BY <1>5 DEF Answered, GoTo
<1>6. ASSUME NEW t \in Tasks, Unanswered(t) PROVE OneSubmitter'
    BY <1>6 DEF Unanswered, GoTo
<1>7. ASSUME NEW t \in Tasks, Refused(t) PROVE OneSubmitter'
    BY <1>7 DEF Refused, GoTo
<1>8. ASSUME NEW t \in Tasks, Unreadable(t) PROVE OneSubmitter'
    BY <1>8 DEF Unreadable, GoTo
<1>9. ASSUME NEW t \in Tasks, Save(t) PROVE OneSubmitter'
    BY <1>9 DEF Save, GoTo, SaveRow
<1>10. ASSUME NEW t \in Tasks, SaveFails(t) PROVE OneSubmitter'
    BY <1>10 DEF SaveFails, GoTo
<1>11. ASSUME NEW t \in Tasks, Enqueue(t) PROVE OneSubmitter'
    BY <1>11 DEF Enqueue, GoTo
<1>12. ASSUME NEW t \in Tasks, EnqueueFails(t) PROVE OneSubmitter'
    BY <1>12 DEF EnqueueFails, GoTo
<1>13. ASSUME NEW t \in Tasks, Temporary(t) PROVE OneSubmitter'
    BY <1>13 DEF Temporary, GoTo
<1>14. ASSUME NEW t \in Tasks, Permanent(t) PROVE OneSubmitter'
    BY <1>14 DEF Permanent, GoTo
<1>15. ASSUME NEW t \in Tasks, Crash(t) PROVE OneSubmitter'
    BY <1>15 DEF Crash, GoTo
<1>16. ASSUME NEW w \in Writers, ReadOrder(w) PROVE OneSubmitter'
    BY <1>16 DEF ReadOrder, GoTo
<1>17. ASSUME NEW p \in PdfTasks, SavePdf(p) PROVE OneSubmitter'
    BY <1>17 DEF SavePdf, GoTo, SaveRow
<1>18. ASSUME NEW p \in PdfTasks, PdfFails(p) PROVE OneSubmitter'
    BY <1>18 DEF PdfFails, GoTo
<1>19. ASSUME NEW p \in PdfTasks, NotTriggered(p) PROVE OneSubmitter'
    BY <1>19 DEF NotTriggered, GoTo
<1>20. ASSUME NEW v \in Views, Cancel(v) PROVE OneSubmitter'
    BY <1>20 DEF Cancel, GoTo, SaveRow
<1>21. ASSUME Poll PROVE OneSubmitter'
    BY <1>21 DEF Poll, Answers
<1>22. ASSUME Settle PROVE OneSubmitter'
    BY <1>22 DEF Settle, Answers
<1>23. ASSUME PollFails PROVE OneSubmitter'
    BY <1>23 DEF PollFails, Answers
<1>24. CASE UNCHANGED vars
    BY <1>24 DEF vars
<1>. QED BY <1>1, <1>2, <1>3, <1>4, <1>5, <1>6, <1>7, <1>8, <1>9, <1>10, <1>11, <1>12, <1>13, <1>14, <1>15, <1>16, <1>17, <1>18, <1>19, <1>20, <1>21, <1>22, <1>23, <1>24 DEF Next, TaskStep, PdfStep, ViewStep, Quiet, Writers

(***************************************************************************)
(* The provider is called under "processing"; what follows records the id or *)
(* leaves "retrying" or "failed".                                          *)
(***************************************************************************)
LEMMA TraceStep == EInv /\ [Next]_vars => IssuedLeavesTrace'
<1>. SUFFICES ASSUME EInv, [Next]_vars PROVE IssuedLeavesTrace'
    OBVIOUS
<1>. USE EmissionAssumption DEF EInv, TypeOK, OrderRows, Documents, Alone, AtWork, IssuedLeavesTrace, Actors, Writers, Issue
<1>1. ASSUME NEW t \in Tasks, NotFound(t) PROVE IssuedLeavesTrace'
    BY <1>1 DEF NotFound, GoTo
<1>2. ASSUME NEW t \in Tasks, Skip(t) PROVE IssuedLeavesTrace'
    BY <1>2 DEF Skip, GoTo
<1>3. ASSUME NEW t \in Tasks, Lock(t) PROVE IssuedLeavesTrace'
    BY <1>3 DEF Lock, GoTo, MayStart
<1>4. ASSUME NEW t \in Tasks, NoConfig(t) PROVE IssuedLeavesTrace'
    BY <1>4 DEF NoConfig, GoTo
<1>5. ASSUME NEW t \in Tasks, Answered(t) PROVE IssuedLeavesTrace'
    BY <1>5 DEF Answered, GoTo
<1>6. ASSUME NEW t \in Tasks, Unanswered(t) PROVE IssuedLeavesTrace'
    BY <1>6 DEF Unanswered, GoTo
<1>7. ASSUME NEW t \in Tasks, Refused(t) PROVE IssuedLeavesTrace'
    BY <1>7 DEF Refused, GoTo
<1>8. ASSUME NEW t \in Tasks, Unreadable(t) PROVE IssuedLeavesTrace'
    BY <1>8 DEF Unreadable, GoTo
<1>9. ASSUME NEW t \in Tasks, Save(t) PROVE IssuedLeavesTrace'
    BY <1>9 DEF Save, GoTo, SaveRow
<1>10. ASSUME NEW t \in Tasks, SaveFails(t) PROVE IssuedLeavesTrace'
    BY <1>10 DEF SaveFails, GoTo
<1>11. ASSUME NEW t \in Tasks, Enqueue(t) PROVE IssuedLeavesTrace'
    BY <1>11 DEF Enqueue, GoTo
<1>12. ASSUME NEW t \in Tasks, EnqueueFails(t) PROVE IssuedLeavesTrace'
    BY <1>12 DEF EnqueueFails, GoTo
<1>13. ASSUME NEW t \in Tasks, Temporary(t) PROVE IssuedLeavesTrace'
    BY <1>13 DEF Temporary, GoTo
<1>14. ASSUME NEW t \in Tasks, Permanent(t) PROVE IssuedLeavesTrace'
    BY <1>14 DEF Permanent, GoTo
<1>15. ASSUME NEW t \in Tasks, Crash(t) PROVE IssuedLeavesTrace'
    BY <1>15 DEF Crash, GoTo
<1>16. ASSUME NEW w \in Writers, ReadOrder(w) PROVE IssuedLeavesTrace'
    BY <1>16 DEF ReadOrder, GoTo
<1>17. ASSUME NEW p \in PdfTasks, SavePdf(p) PROVE IssuedLeavesTrace'
    BY <1>17 DEF SavePdf, GoTo, SaveRow
<1>18. ASSUME NEW p \in PdfTasks, PdfFails(p) PROVE IssuedLeavesTrace'
    BY <1>18 DEF PdfFails, GoTo
<1>19. ASSUME NEW p \in PdfTasks, NotTriggered(p) PROVE IssuedLeavesTrace'
    BY <1>19 DEF NotTriggered, GoTo
<1>20. ASSUME NEW v \in Views, Cancel(v) PROVE IssuedLeavesTrace'
    BY <1>20 DEF Cancel, GoTo, SaveRow
<1>21. ASSUME Poll PROVE IssuedLeavesTrace'
    BY <1>21 DEF Poll, Answers
<1>22. ASSUME Settle PROVE IssuedLeavesTrace'
    BY <1>22 DEF Settle, Answers
<1>23. ASSUME PollFails PROVE IssuedLeavesTrace'
    BY <1>23 DEF PollFails, Answers
<1>24. CASE UNCHANGED vars
    BY <1>24 DEF vars
<1>. QED BY <1>1, <1>2, <1>3, <1>4, <1>5, <1>6, <1>7, <1>8, <1>9, <1>10, <1>11, <1>12, <1>13, <1>14, <1>15, <1>16, <1>17, <1>18, <1>19, <1>20, <1>21, <1>22, <1>23, <1>24 DEF Next, TaskStep, PdfStep, ViewStep, Quiet, Writers

(***************************************************************************)
(* The task that recorded the id makes the entry or marks the order as     *)
(* failed, and no poll can take that mark away without an entry.           *)
(***************************************************************************)
LEMMA QueuedStep == EInv /\ [Next]_vars => RecordedIsQueued'
<1>. SUFFICES ASSUME EInv, [Next]_vars PROVE RecordedIsQueued'
    OBVIOUS
<1>. USE EmissionAssumption DEF EInv, TypeOK, OrderRows, Documents, Alone, AtWork, RecordedIsQueued, Actors, Writers, Issue
<1>1. ASSUME NEW t \in Tasks, NotFound(t) PROVE RecordedIsQueued'
    BY <1>1 DEF NotFound, GoTo
<1>2. ASSUME NEW t \in Tasks, Skip(t) PROVE RecordedIsQueued'
    BY <1>2 DEF Skip, GoTo
<1>3. ASSUME NEW t \in Tasks, Lock(t) PROVE RecordedIsQueued'
    BY <1>3 DEF Lock, GoTo, MayStart
<1>4. ASSUME NEW t \in Tasks, NoConfig(t) PROVE RecordedIsQueued'
    BY <1>4 DEF NoConfig, GoTo
<1>5. ASSUME NEW t \in Tasks, Answered(t) PROVE RecordedIsQueued'
    BY <1>5 DEF Answered, GoTo
<1>6. ASSUME NEW t \in Tasks, Unanswered(t) PROVE RecordedIsQueued'
    BY <1>6 DEF Unanswered, GoTo
<1>7. ASSUME NEW t \in Tasks, Refused(t) PROVE RecordedIsQueued'
    BY <1>7 DEF Refused, GoTo
<1>8. ASSUME NEW t \in Tasks, Unreadable(t) PROVE RecordedIsQueued'
    BY <1>8 DEF Unreadable, GoTo
<1>9. ASSUME NEW t \in Tasks, Save(t) PROVE RecordedIsQueued'
    BY <1>9 DEF Save, GoTo, SaveRow
<1>10. ASSUME NEW t \in Tasks, SaveFails(t) PROVE RecordedIsQueued'
    BY <1>10 DEF SaveFails, GoTo
<1>11. ASSUME NEW t \in Tasks, Enqueue(t) PROVE RecordedIsQueued'
    BY <1>11 DEF Enqueue, GoTo
<1>12. ASSUME NEW t \in Tasks, EnqueueFails(t) PROVE RecordedIsQueued'
    BY <1>12 DEF EnqueueFails, GoTo
<1>13. ASSUME NEW t \in Tasks, Temporary(t) PROVE RecordedIsQueued'
    BY <1>13 DEF Temporary, GoTo
<1>14. ASSUME NEW t \in Tasks, Permanent(t) PROVE RecordedIsQueued'
    BY <1>14 DEF Permanent, GoTo
<1>15. ASSUME NEW t \in Tasks, Crash(t) PROVE RecordedIsQueued'
    BY <1>15 DEF Crash, GoTo
<1>16. ASSUME NEW w \in Writers, ReadOrder(w) PROVE RecordedIsQueued'
    BY <1>16 DEF ReadOrder, GoTo
<1>17. ASSUME NEW p \in PdfTasks, SavePdf(p) PROVE RecordedIsQueued'
    BY <1>17 DEF SavePdf, GoTo, SaveRow
<1>18. ASSUME NEW p \in PdfTasks, PdfFails(p) PROVE RecordedIsQueued'
    BY <1>18 DEF PdfFails, GoTo
<1>19. ASSUME NEW p \in PdfTasks, NotTriggered(p) PROVE RecordedIsQueued'
    BY <1>19 DEF NotTriggered, GoTo
<1>20. ASSUME NEW v \in Views, Cancel(v) PROVE RecordedIsQueued'
    BY <1>20 DEF Cancel, GoTo, SaveRow
<1>21. ASSUME Poll PROVE RecordedIsQueued'
    BY <1>21 DEF Poll, Answers
<1>22. ASSUME Settle PROVE RecordedIsQueued'
    BY <1>22 DEF Settle, Answers
<1>23. ASSUME PollFails PROVE RecordedIsQueued'
    BY <1>23 DEF PollFails, Answers
<1>24. CASE UNCHANGED vars
    BY <1>24 DEF vars
<1>. QED BY <1>1, <1>2, <1>3, <1>4, <1>5, <1>6, <1>7, <1>8, <1>9, <1>10, <1>11, <1>12, <1>13, <1>14, <1>15, <1>16, <1>17, <1>18, <1>19, <1>20, <1>21, <1>22, <1>23, <1>24 DEF Next, TaskStep, PdfStep, ViewStep, Quiet, Writers

(***************************************************************************)
(* A row with an id has no task at work, the only writer of the column.    *)
(***************************************************************************)
LEMMA IdSticksStep == EInv /\ [Next]_vars => ((row.ext # 0 /\ ~stale') => row'.ext = row.ext /\ row.ext \in issued)
<1>. SUFFICES ASSUME EInv, [Next]_vars PROVE ((row.ext # 0 /\ ~stale') => row'.ext = row.ext /\ row.ext \in issued)
    OBVIOUS
<1>. USE EmissionAssumption DEF EInv, TypeOK, OrderRows, Alone, AtWork, Actors, Writers
<1>1. ASSUME NEW t \in Tasks, NotFound(t) PROVE ((row.ext # 0 /\ ~stale') => row'.ext = row.ext /\ row.ext \in issued)
    BY <1>1 DEF NotFound, GoTo
<1>2. ASSUME NEW t \in Tasks, Skip(t) PROVE ((row.ext # 0 /\ ~stale') => row'.ext = row.ext /\ row.ext \in issued)
    BY <1>2 DEF Skip, GoTo
<1>3. ASSUME NEW t \in Tasks, Lock(t) PROVE ((row.ext # 0 /\ ~stale') => row'.ext = row.ext /\ row.ext \in issued)
    BY <1>3 DEF Lock, GoTo, MayStart
<1>4. ASSUME NEW t \in Tasks, NoConfig(t) PROVE ((row.ext # 0 /\ ~stale') => row'.ext = row.ext /\ row.ext \in issued)
    BY <1>4 DEF NoConfig, GoTo
<1>5. ASSUME NEW t \in Tasks, Answered(t) PROVE ((row.ext # 0 /\ ~stale') => row'.ext = row.ext /\ row.ext \in issued)
    BY <1>5 DEF Answered, GoTo
<1>6. ASSUME NEW t \in Tasks, Unanswered(t) PROVE ((row.ext # 0 /\ ~stale') => row'.ext = row.ext /\ row.ext \in issued)
    BY <1>6 DEF Unanswered, GoTo
<1>7. ASSUME NEW t \in Tasks, Refused(t) PROVE ((row.ext # 0 /\ ~stale') => row'.ext = row.ext /\ row.ext \in issued)
    BY <1>7 DEF Refused, GoTo
<1>8. ASSUME NEW t \in Tasks, Unreadable(t) PROVE ((row.ext # 0 /\ ~stale') => row'.ext = row.ext /\ row.ext \in issued)
    BY <1>8 DEF Unreadable, GoTo
<1>9. ASSUME NEW t \in Tasks, Save(t) PROVE ((row.ext # 0 /\ ~stale') => row'.ext = row.ext /\ row.ext \in issued)
    BY <1>9 DEF Save, GoTo, SaveRow
<1>10. ASSUME NEW t \in Tasks, SaveFails(t) PROVE ((row.ext # 0 /\ ~stale') => row'.ext = row.ext /\ row.ext \in issued)
    BY <1>10 DEF SaveFails, GoTo
<1>11. ASSUME NEW t \in Tasks, Enqueue(t) PROVE ((row.ext # 0 /\ ~stale') => row'.ext = row.ext /\ row.ext \in issued)
    BY <1>11 DEF Enqueue, GoTo
<1>12. ASSUME NEW t \in Tasks, EnqueueFails(t) PROVE ((row.ext # 0 /\ ~stale') => row'.ext = row.ext /\ row.ext \in issued)
    BY <1>12 DEF EnqueueFails, GoTo
<1>13. ASSUME NEW t \in Tasks, Temporary(t) PROVE ((row.ext # 0 /\ ~stale') => row'.ext = row.ext /\ row.ext \in issued)
    BY <1>13 DEF Temporary, GoTo
<1>14. ASSUME NEW t \in Tasks, Permanent(t) PROVE ((row.ext # 0 /\ ~stale') => row'.ext = row.ext /\ row.ext \in issued)
    BY <1>14 DEF Permanent, GoTo
<1>15. ASSUME NEW t \in Tasks, Crash(t) PROVE ((row.ext # 0 /\ ~stale') => row'.ext = row.ext /\ row.ext \in issued)
    BY <1>15 DEF Crash, GoTo
<1>16. ASSUME NEW w \in Writers, ReadOrder(w) PROVE ((row.ext # 0 /\ ~stale') => row'.ext = row.ext /\ row.ext \in issued)
    BY <1>16 DEF ReadOrder, GoTo
<1>17. ASSUME NEW p \in PdfTasks, SavePdf(p) PROVE ((row.ext # 0 /\ ~stale') => row'.ext = row.ext /\ row.ext \in issued)
    BY <1>17 DEF SavePdf, GoTo, SaveRow
<1>18. ASSUME NEW p \in PdfTasks, PdfFails(p) PROVE ((row.ext # 0 /\ ~stale') => row'.ext = row.ext /\ row.ext \in issued)
    BY <1>18 DEF PdfFails, GoTo
<1>19. ASSUME NEW p \in PdfTasks, NotTriggered(p) PROVE ((row.ext # 0 /\ ~stale') => row'.ext = row.ext /\ row.ext \in issued)
    BY <1>19 DEF NotTriggered, GoTo
<1>20. ASSUME NEW v \in Views, Cancel(v) PROVE ((row.ext # 0 /\ ~stale') => row'.ext = row.ext /\ row.ext \in issued)
    BY <1>20 DEF Cancel, GoTo, SaveRow
<1>21. ASSUME Poll PROVE ((row.ext # 0 /\ ~stale') => row'.ext = row.ext /\ row.ext \in issued)
    BY <1>21 DEF Poll, Answers
<1>22. ASSUME Settle PROVE ((row.ext # 0 /\ ~stale') => row'.ext = row.ext /\ row.ext \in issued)
    BY <1>22 DEF Settle, Answers
<1>23. ASSUME PollFails PROVE ((row.ext # 0 /\ ~stale') => row'.ext = row.ext /\ row.ext \in issued)
    BY <1>23 DEF PollFails, Answers
<1>24. CASE UNCHANGED vars
    BY <1>24 DEF vars
<1>. QED BY <1>1, <1>2, <1>3, <1>4, <1>5, <1>6, <1>7, <1>8, <1>9, <1>10, <1>11, <1>12, <1>13, <1>14, <1>15, <1>16, <1>17, <1>18, <1>19, <1>20, <1>21, <1>22, <1>23, <1>24 DEF Next, TaskStep, PdfStep, ViewStep, Quiet, Writers

LEMMA Inductive ==
    /\ Init => EInv
    /\ EInv /\ [Next]_vars => EInv'
<1>1. Init => EInv
    <2>. SUFFICES ASSUME Init PROVE EInv
        OBVIOUS
    <2>. USE EmissionAssumption DEF Init, Actors, Writers, NewRow
    <2>1. TypeOK
        <3>1. PICK made \in BOOLEAN : row = [NewRow EXCEPT !.pdf = made]
            BY DEF Init
        <3>2. row \in OrderRows
            BY <3>1 DEF NewRow, OrderRows, InvoiceStatuses, Answers
        <3>. QED BY <3>2 DEF TypeOK, OrderRows, InvoiceStatuses
    <2>2. Documents
        BY FS_EmptySet DEF Documents
    <2>3. Alone /\ OneSubmitter
        BY DEF Alone, OneSubmitter, AtWork
    <2>4. IssuedLeavesTrace /\ RecordedIsQueued
        BY DEF IssuedLeavesTrace, RecordedIsQueued
    <2>. QED BY <2>1, <2>2, <2>3, <2>4 DEF EInv
<1>2. EInv /\ [Next]_vars => EInv'
    BY TypeStep, DocumentsStep, AloneStep, OneSubmitterStep, TraceStep, QueuedStep DEF EInv
<1>. QED BY <1>1, <1>2

\* In every reachable state the invariant holds.
THEOREM EmissionInvariant == Spec => []EInv
<1>. QED BY Inductive, PTL DEF Spec

\* TypeOK for any number of messages, writers, retries and crashes.
THEOREM TypeCorrect == Spec => []TypeOK
<1>1. EInv => TypeOK
    BY DEF EInv
<1>. QED BY <1>1, EmissionInvariant, PTL

\* However many messages, retries and crashes there are, two tasks are never
\* at the provider for one order, unless an old row was saved over a newer one.
THEOREM SubmittersExclude == Spec => []OneSubmitter
<1>1. EInv => OneSubmitter
    BY DEF EInv
<1>. QED BY <1>1, EmissionInvariant, PTL

\* A document that was issued shows in the order, as an id or as a status that
\* says something went wrong.
THEOREM TraceIsLeft == Spec => []IssuedLeavesTrace
<1>1. EInv => IssuedLeavesTrace
    BY DEF EInv
<1>. QED BY <1>1, EmissionInvariant, PTL

\* Without a crash or a stale save, an order with an external id has its queue
\* entry, or the task that recorded it still has to make it or to report, or
\* the order is marked as failed.
THEOREM HandedOver == Spec => []RecordedIsQueued
<1>1. EInv => RecordedIsQueued
    BY DEF EInv
<1>. QED BY <1>1, EmissionInvariant, PTL

\* An external id that was recorded is never lost or replaced, except by a
\* save of an older row.
THEOREM IdIsKept == Spec => IdSticks
<1>. QED BY EmissionInvariant, IdSticksStep, PTL DEF Spec, IdSticks

=============================================================================

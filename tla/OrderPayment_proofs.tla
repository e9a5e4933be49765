-------------------------- MODULE OrderPayment_proofs --------------------------
(***************************************************************************)
(* Proofs about OrderPayment, for any number of payers, viewers, syncers   *)
(* and editors and any number of attempts. The first part holds in every   *)
(* regime, the later ones name the regime they are about.                  *)
(***************************************************************************)
EXTENDS OrderPayment, FiniteSetTheorems, TLAPS

USE PaymentAssumption DEF PaymentAssumption

(* Whoever is past reading the payment has one in its memory.              *)
Knowing == {"asking", "applying", "claiming", "sending", "committing"}

(* A payment row, stored or in memory, is of an attempt the gateway knows, *)
(* and if it is decided it is what the gateway decided.                    *)
Agrees(p) ==
    p # NoPayment =>
        /\ gate[p.attempt] # "unused"
        /\ p.status \in {"approved", "declined"} => gate[p.attempt] = p.status

(* The inductive invariant of every regime.                                *)
RowsAgree ==
    /\ Agrees(pay)
    /\ \A s \in Sessions :
          /\ Agrees(paid[s])
          /\ pc[s] \in Knowing => paid[s] # NoPayment
          /\ pc[s] = "applying" =>
                /\ answer[s] \in Verdicts
                /\ Agrees([attempt |-> paid[s].attempt, status |-> answer[s]])

AnyRegime == TypeOK /\ RowsAgree

(* Who is about to write holds the locks, in every regime. While nothing   *)
(* fails after a charge, every attempt but the current one is dead: the    *)
(* current attempt is the one about to be committed or, if nobody is about *)
(* to commit one, the stored one.                                          *)
Writing == {"sending", "committing"}

Dead(i) == gate[i] \in {"unused", "declined"}

LocksHeld ==
    \A s \in Sessions :
        /\ pc[s] \in Writing \cup {"charging"} => orderLock = s
        /\ pc[s] = "claiming" => payLock = s
        /\ pc[s] \in Writing => payLock = s \/ pay = NoPayment
        /\ pc[s] = "charging" /\ paid[s] = NoPayment => pay = NoPayment

ClaimIsCurrent ==
    \A s \in Sessions : pc[s] = "claiming" => paid[s].attempt = pay.attempt

OthersDead ==
    /\ \A s \in Sessions : pc[s] = "charging" => \A i \in Attempts : Dead(i)
    /\ \A s \in Sessions : pc[s] \in Writing => \A i \in Attempts : i = paid[s].attempt \/ Dead(i)
    /\ (\A s \in Sessions : pc[s] \notin Writing) => \A i \in Attempts : i = pay.attempt \/ Dead(i)

--------------------------------------------------------------------------------
(* Every regime.                                                           *)

(* No status outside the declared ones is a successor.                     *)
LEMMA TransitionsType == \A st : ValidTransitions(st) \subseteq Statuses
BY DEF ValidTransitions, Statuses

(* The editors save declared statuses.                                     *)
LEMMA TargetsType == \A o : Targets(o) \subseteq Statuses
BY TransitionsType DEF Targets

(* The order's first rows are well typed and no payment exists.            *)
LEMMA AnyInit == Init => AnyRegime
<1> SUFFICES ASSUME Init PROVE AnyRegime
    OBVIOUS
<1>1. NoOrder \in Orders
    BY DEF NoOrder, Orders, Statuses
<1>2. order \in Orders
    BY DEF Init, Orders, Statuses
<1>a. overwritten \in BOOLEAN
    BY DEF Init
<1>b. Statuses # {} /\ pay = NoPayment /\ msgs \in 0 .. MaxMsgs /\ faults \in 0 .. MaxFaults
    BY DEF Init, Statuses
<1>3. TypeOK
    BY <1>1, <1>2, <1>a, <1>b DEF Init, TypeOK, PCs
<1>4. RowsAgree
    BY DEF Init, RowsAgree, Agrees, Knowing
<1>. QED BY <1>3, <1>4 DEF AnyRegime

(* Every action keeps the types and never separates a row from the gateway. *)
LEMMA AnyStep == AnyRegime /\ [Next]_vars => AnyRegime'
<1> SUFFICES ASSUME AnyRegime, [Next]_vars PROVE AnyRegime'
    OBVIOUS
<1> USE DEF AnyRegime, TypeOK, RowsAgree, Agrees, Orders, Payments, PCs, InTransaction, Knowing,
            Goto, Forget, Unlock, Abort, rows, locks, session
<1>0. NoOrder \in Orders /\ NoPayment.attempt = 0 /\ NoPayment.status = "none" /\ 0 \notin Attempts
    BY DEF NoOrder, NoPayment, Statuses, Attempts
<1>1. ASSUME NEW s \in Sessions, PayStart(s) PROVE AnyRegime'
    BY <1>0, <1>1 DEF PayStart
<1>2. ASSUME NEW s \in Sessions, PayCharge(s) PROVE AnyRegime'
    <2>1. PICK i \in Attempts, v \in Verdicts :
             /\ gate[i] = "unused"
             /\ gate' = [gate EXCEPT ![i] = v]
             /\ answer' = [answer EXCEPT ![s] = v]
             /\ paid' = [paid EXCEPT ![s] = [attempt |-> i, status |-> v]]
             /\ mine' = [mine EXCEPT ![s].status = IF v = "approved" THEN "PAID" ELSE @]
             /\ Goto(s, IF v = "approved" /\ ~mine[s].processed THEN "sending" ELSE "committing")
        BY <1>2, ZenonT(60) DEF PayCharge
    <2>2. mine' \in [Sessions -> Orders] /\ pc' \in [Sessions -> PCs]
        BY <2>1 DEF Statuses
    <2>3. TypeOK'
        BY <1>2, <2>1, <2>2 DEF PayCharge
    <2>4. \A p \in Payments \cup {NoPayment} : Agrees(p) => Agrees(p)'
        BY <1>0, <2>1 DEF Verdicts
    <2>5. Agrees([attempt |-> i, status |-> v])'
        BY <2>1 DEF Verdicts
    <2>6. Agrees(pay)' /\ \A t \in Sessions : Agrees(paid[t])'
        BY <1>2, <2>1, <2>4, <2>5 DEF PayCharge
    <2>7. ASSUME NEW t \in Sessions, pc'[t] = "applying"
          PROVE  t # s /\ pc[t] = "applying" /\ answer'[t] = answer[t] /\ paid'[t] = paid[t]
        BY <2>1, <2>7
    <2>8. ASSUME NEW t \in Sessions, pc'[t] = "applying"
          PROVE  /\ answer'[t] \in Verdicts
                 /\ Agrees([attempt |-> paid[t].attempt, status |-> answer[t]])'
        <3>1. paid[t] \in Payments /\ answer[t] \in Verdicts
            BY <2>7, <2>8
        <3>2. Agrees([attempt |-> paid[t].attempt, status |-> answer[t]])
            BY <2>7, <2>8
        <3>3. /\ gate[paid[t].attempt] # "unused"
              /\ answer[t] \in {"approved", "declined"} => gate[paid[t].attempt] = answer[t]
            BY <1>0, <3>1, <3>2
        <3>. QED BY <2>1, <2>7, <2>8, <3>1, <3>3 DEF Verdicts
    <2>9. \A t \in Sessions : pc'[t] \in Knowing => paid'[t] # NoPayment
        BY <1>0, <2>1
    <2>. QED BY <2>3, <2>6, <2>8, <2>9
<1>3. ASSUME NEW s \in Sessions, ChargeFails(s) PROVE AnyRegime'
    BY <1>0, <1>3 DEF ChargeFails
<1>4. ASSUME NEW s \in Sessions, SendInvoice(s) PROVE AnyRegime'
    <2>0. mine[s] \in Orders
        OBVIOUS
    <2>a. [mine[s] EXCEPT !.processed = TRUE] \in Orders
        BY <2>0
    <2>b. mine' \in [Sessions -> Orders]
        BY <1>4, <2>a DEF SendInvoice
    <2>1. mine' \in [Sessions -> Orders] /\ pc' \in [Sessions -> PCs] /\ msgs' \in 0 .. MaxMsgs
        BY <1>4, <2>b DEF SendInvoice
    <2>2. UNCHANGED <<rows, gate, locks, paid, answer, faults, overwritten>>
        BY <1>4 DEF SendInvoice
    <2>3. \A t \in Sessions : /\ pc'[t] \in Knowing => pc[t] \in Knowing
                              /\ pc'[t] = "applying" => pc[t] = "applying"
        BY <1>4 DEF SendInvoice
    <2>. QED BY <2>1, <2>2, <2>3
<1>5. ASSUME NEW s \in Sessions, Commit(s) PROVE AnyRegime'
    BY <1>0, <1>5 DEF Commit
<1>6. ASSUME NEW s \in Sessions, ViewOrder(s) PROVE AnyRegime'
    BY <1>0, <1>6 DEF ViewOrder
<1>7. ASSUME NEW s \in Sessions, ViewPayment(s) PROVE AnyRegime'
    BY <1>0, <1>7 DEF ViewPayment, Verdicts
<1>8. ASSUME NEW s \in Sessions, ViewRefused(s) PROVE AnyRegime'
    BY <1>0, <1>8 DEF ViewRefused
<1>9. ASSUME NEW s \in Sessions, SyncLockPayment(s) PROVE AnyRegime'
    BY <1>0, <1>9 DEF SyncLockPayment
<1>10. ASSUME NEW s \in Sessions, SyncRead(s) PROVE AnyRegime'
    <2>1. CASE pay.status = "pending"
        <3>1. /\ Unlock(s)
              /\ mine' = [mine EXCEPT ![s] = order]
              /\ paid' = [paid EXCEPT ![s] = pay]
              /\ Goto(s, "asking")
              /\ UNCHANGED <<rows, gate, msgs, answer, faults, overwritten>>
            BY <1>10, <2>1 DEF SyncRead
        <3>. QED BY <1>0, <2>1, <3>1
    <2>2. CASE pay.status # "pending"
        <3>1. Unlock(s) /\ Forget(s) /\ UNCHANGED <<rows, gate, msgs, faults, overwritten>>
            BY <1>10, <2>2 DEF SyncRead
        <3>. QED BY <1>0, <3>1
    <2>. QED BY <2>1, <2>2
<1>11. ASSUME NEW s \in Sessions, Ask(s) PROVE AnyRegime'
    BY <1>0, <1>11 DEF Ask, Verdicts
<1>12. ASSUME NEW s \in Sessions, AskFails(s) PROVE AnyRegime'
    BY <1>0, <1>12 DEF AskFails
<1>13. ASSUME NEW s \in Sessions, ApplyGone(s) PROVE AnyRegime'
    BY <1>0, <1>13 DEF ApplyGone
<1>14. ASSUME NEW s \in Sessions, ApplyPayment(s) PROVE AnyRegime'
    BY <1>0, <1>14 DEF ApplyPayment
<1>15. ASSUME NEW s \in Sessions, ApplyApproved(s) PROVE AnyRegime'
    BY <1>0, <1>15 DEF ApplyApproved, Verdicts, MarksPaid, Statuses
<1>16. ASSUME NEW s \in Sessions, Claim(s) PROVE AnyRegime'
    BY <1>0, <1>16 DEF Claim
<1>17. ASSUME NEW s \in Sessions, ItemRead(s) PROVE AnyRegime'
    BY <1>0, <1>17 DEF ItemRead
<1>18. ASSUME NEW s \in Sessions, ItemSave(s) PROVE AnyRegime'
    <2>1. mine[s] \in Orders /\ [mine[s] EXCEPT !.status = "CANCELLED"] \in Orders
        BY DEF Statuses
    <2>2. order' \in Orders /\ overwritten' \in BOOLEAN
        BY <1>18, <2>1 DEF ItemSave, SaveOrder
    <2>3. Forget(s) /\ UNCHANGED <<pay, gate, msgs, locks, faults>>
        BY <1>18 DEF ItemSave, SaveOrder
    <2>. QED BY <1>0, <2>2, <2>3
<1>19. ASSUME NEW s \in Sessions, RollBack(s) PROVE AnyRegime'
    BY <1>0, <1>19 DEF RollBack
<1>20. ASSUME NEW i \in Attempts, Decide(i) PROVE AnyRegime'
    BY <1>0, <1>20 DEF Decide, Verdicts
<1>21. ASSUME NEW s \in Sessions, NEW t \in Sessions, BreakDeadlock(s, t) PROVE AnyRegime'
    <2>1. CASE Abort(s)
        BY <1>0, <1>21, <2>1 DEF BreakDeadlock
    <2>2. CASE Abort(t)
        BY <1>0, <1>21, <2>2 DEF BreakDeadlock
    <2>. QED BY <1>21, <2>1, <2>2 DEF BreakDeadlock
<1>22. CASE UNCHANGED vars
    BY <1>22 DEF vars
<1>23. ASSUME NEW s \in Sessions, StatusRead(s) PROVE AnyRegime'
    BY <1>0, <1>23 DEF StatusRead
<1>24. ASSUME NEW s \in Sessions, StatusSave(s) PROVE AnyRegime'
    BY <1>0, <1>24, TargetsType DEF StatusSave, SaveOrder
<1>25. ASSUME NEW s \in Sessions, RowRead(s) PROVE AnyRegime'
    BY <1>0, <1>25 DEF RowRead
<1>26. ASSUME NEW s \in Sessions, RowSave(s) PROVE AnyRegime'
    BY <1>0, <1>26 DEF RowSave, SaveOrder
<1>27. ASSUME NEW s \in Sessions, RowDropped(s) PROVE AnyRegime'
    BY <1>0, <1>27 DEF RowDropped
<1>. QED
    BY <1>1, <1>2, <1>3, <1>4, <1>5, <1>6, <1>7, <1>8, <1>9, <1>10, <1>11, <1>12, <1>13,
       <1>14, <1>15, <1>16, <1>17, <1>18, <1>19, <1>20, <1>21, <1>22, <1>23, <1>24, <1>25, <1>26, <1>27
       DEF Next, PayStep, ConfirmStep, Apply, Sessions

(* AnyRegime is an invariant of the specification.                         *)
THEOREM AnyRegimeHolds == Spec => []AnyRegime
BY AnyInit, AnyStep, PTL DEF Spec

(* Every variable keeps its type, whoever runs and whatever fails.         *)
THEOREM TypeCorrect == Spec => []TypeOK
<1>1. AnyRegime => TypeOK
    BY DEF AnyRegime
<1>. QED BY <1>1, AnyRegimeHolds, PTL

(* Rolled back charges, deleted attempts and late confirmations included,  *)
(* a decided payment row is what the gateway decided about that attempt.   *)
THEOREM RowsMatchGateway == Spec => []RowMatchesGateway
<1>1. AnyRegime => RowMatchesGateway
    BY DEF AnyRegime, TypeOK, RowsAgree, Agrees, RowMatchesGateway, NoPayment
<1>. QED BY <1>1, AnyRegimeHolds, PTL

--------------------------------------------------------------------------------
(* Who is about to write holds the locks, in every regime.                 *)
LEMMA LocksInit == Init => LocksHeld /\ ClaimIsCurrent
BY DEF Init, LocksHeld, ClaimIsCurrent, Writing

(* A lock is taken from nobody and released by its holder.                 *)
LEMMA LocksStep ==
    AnyRegime /\ LocksHeld /\ ClaimIsCurrent /\ [Next]_vars => (LocksHeld /\ ClaimIsCurrent)'
<1> DEFINE Held == LocksHeld /\ ClaimIsCurrent
<1> SUFFICES ASSUME AnyRegime, Held, [Next]_vars PROVE Held'
    OBVIOUS
<1> USE DEF LocksHeld, ClaimIsCurrent, Writing, Goto, Forget, Unlock, Abort, rows, locks, session
<1>0. /\ TypeOK /\ NoPayment.attempt = 0 /\ 0 \notin Attempts /\ Nobody \notin Sessions
      /\ \A p \in Payments : p.attempt \in Attempts
      /\ \A s \in Sessions : pc[s] \in Knowing => paid[s] \in Payments
    <2>1. TypeOK /\ Nobody \notin Sessions
        BY DEF AnyRegime
    <2>2. NoPayment.attempt = 0 /\ 0 \notin Attempts
        BY DEF NoPayment, Attempts
    <2>3. \A p \in Payments : p.attempt \in Attempts
        BY DEF Payments
    <2>4. \A s \in Sessions : pc[s] \in Knowing => paid[s] \in Payments
        BY DEF AnyRegime, TypeOK, RowsAgree
    <2>. QED BY <2>1, <2>2, <2>3, <2>4
<1> USE DEF TypeOK, Knowing
<1>1. ASSUME NEW s \in Sessions, PayStart(s) PROVE Held'
    BY <1>0, <1>1 DEF PayStart
<1>2. ASSUME NEW s \in Sessions, PayCharge(s) PROVE Held'
    BY <1>0, <1>2 DEF PayCharge
<1>3. ASSUME NEW s \in Sessions, ChargeFails(s) PROVE Held'
    BY <1>0, <1>3 DEF ChargeFails
<1>4. ASSUME NEW s \in Sessions, SendInvoice(s) PROVE Held'
    BY <1>0, <1>4 DEF SendInvoice
<1>5. ASSUME NEW s \in Sessions, Commit(s) PROVE Held'
    BY <1>0, <1>5 DEF Commit
<1>6. ASSUME NEW s \in Sessions, ViewOrder(s) PROVE Held'
    BY <1>0, <1>6 DEF ViewOrder
<1>7. ASSUME NEW s \in Sessions, ViewPayment(s) PROVE Held'
    BY <1>0, <1>7 DEF ViewPayment
<1>8. ASSUME NEW s \in Sessions, ViewRefused(s) PROVE Held'
    BY <1>0, <1>8 DEF ViewRefused
<1>9. ASSUME NEW s \in Sessions, SyncLockPayment(s) PROVE Held'
    BY <1>0, <1>9 DEF SyncLockPayment
<1>10. ASSUME NEW s \in Sessions, SyncRead(s) PROVE Held'
    BY <1>0, <1>10 DEF SyncRead
<1>11. ASSUME NEW s \in Sessions, Ask(s) PROVE Held'
    BY <1>0, <1>11 DEF Ask
<1>12. ASSUME NEW s \in Sessions, AskFails(s) PROVE Held'
    BY <1>0, <1>12 DEF AskFails
<1>13. ASSUME NEW s \in Sessions, ApplyGone(s) PROVE Held'
    BY <1>0, <1>13 DEF ApplyGone
<1>14. ASSUME NEW s \in Sessions, ApplyPayment(s) PROVE Held'
    BY <1>0, <1>14 DEF ApplyPayment
<1>15. ASSUME NEW s \in Sessions, ApplyApproved(s) PROVE Held'
    BY <1>0, <1>15 DEF ApplyApproved
<1>16. ASSUME NEW s \in Sessions, Claim(s) PROVE Held'
    BY <1>0, <1>16 DEF Claim
<1>17. ASSUME NEW s \in Sessions, ItemRead(s) PROVE Held'
    BY <1>0, <1>17 DEF ItemRead
<1>18. ASSUME NEW s \in Sessions, ItemSave(s) PROVE Held'
    BY <1>0, <1>18 DEF ItemSave, SaveOrder
<1>19. ASSUME NEW s \in Sessions, RollBack(s) PROVE Held'
    BY <1>0, <1>19 DEF RollBack
<1>20. ASSUME NEW i \in Attempts, Decide(i) PROVE Held'
    BY <1>0, <1>20 DEF Decide
<1>21. ASSUME NEW s \in Sessions, NEW t \in Sessions, BreakDeadlock(s, t) PROVE Held'
    <2>1. CASE Abort(s)
        BY <1>0, <1>21, <2>1 DEF BreakDeadlock, WaitForEachOther
    <2>2. CASE Abort(t)
        BY <1>0, <1>21, <2>2 DEF BreakDeadlock, WaitForEachOther
    <2>. QED BY <1>21, <2>1, <2>2 DEF BreakDeadlock
<1>22. CASE UNCHANGED vars
    BY <1>22 DEF vars
<1>23. ASSUME NEW s \in Sessions, StatusRead(s) PROVE Held'
    BY <1>0, <1>23 DEF StatusRead
<1>24. ASSUME NEW s \in Sessions, StatusSave(s) PROVE Held'
    BY <1>0, <1>24 DEF StatusSave, SaveOrder
<1>25. ASSUME NEW s \in Sessions, RowRead(s) PROVE Held'
    BY <1>0, <1>25 DEF RowRead
<1>26. ASSUME NEW s \in Sessions, RowSave(s) PROVE Held'
    BY <1>0, <1>26 DEF RowSave, SaveOrder
<1>27. ASSUME NEW s \in Sessions, RowDropped(s) PROVE Held'
    BY <1>0, <1>27 DEF RowDropped
<1>. QED
    BY <1>1, <1>2, <1>3, <1>4, <1>5, <1>6, <1>7, <1>8, <1>9, <1>10, <1>11, <1>12, <1>13,
       <1>14, <1>15, <1>16, <1>17, <1>18, <1>19, <1>20, <1>21, <1>22, <1>23, <1>24, <1>25, <1>26, <1>27
       DEF Next, PayStep, ConfirmStep, Apply, Sessions

(* AnyRegime and the locks together.                                       *)
LEMMA LocksHold == Spec => [](AnyRegime /\ LocksHeld /\ ClaimIsCurrent)
BY AnyInit, AnyStep, LocksInit, LocksStep, PTL DEF Spec

--------------------------------------------------------------------------------
(* As long as nothing failed after a charge. Faults are counted upwards.   *)
LEMMA FaultsCount == TypeOK /\ [Next]_vars /\ faults' = 0 => faults = 0
BY DEF TypeOK, Next, PayStep, ConfirmStep, Apply, PayStart, PayCharge, ChargeFails, SendInvoice,
       Commit, ViewOrder, ViewPayment, ViewRefused, SyncLockPayment, SyncRead, Ask, AskFails,
       ApplyGone, ApplyPayment, ApplyApproved, Claim, StatusRead, StatusSave, ItemRead, ItemSave, SaveOrder, RowRead, RowSave,
       RowDropped, Decide, BreakDeadlock, RollBack, vars

(* No attempt has been made.                                               *)
LEMMA DeadInit == Init => OthersDead
BY DEF Init, OthersDead, Dead, Writing

(* A payer starts only when every attempt is dead, and what it then creates*)
(* is the only live one until it is stored.                                *)
LEMMA DeadStep ==
    AnyRegime /\ LocksHeld /\ ClaimIsCurrent /\ (faults = 0 => OthersDead) /\ [Next]_vars
    => (faults = 0 => OthersDead)'
<1> SUFFICES ASSUME AnyRegime, LocksHeld, ClaimIsCurrent, faults = 0 => OthersDead,
                    [Next]_vars, faults' = 0
             PROVE  OthersDead'
    OBVIOUS
<1>a. OthersDead
    BY FaultsCount DEF AnyRegime
<1>0. /\ TypeOK /\ RowsAgree
      /\ NoPayment.attempt = 0 /\ NoPayment.status = "none" /\ 0 \notin Attempts
      /\ \A p \in Payments : p.attempt \in Attempts
    <2>1. TypeOK /\ RowsAgree
        BY DEF AnyRegime
    <2>2. NoPayment.attempt = 0 /\ NoPayment.status = "none" /\ 0 \notin Attempts
        BY DEF NoPayment, Attempts
    <2>. QED BY <2>1, <2>2 DEF Payments
<1> USE DEF OthersDead, Dead, LocksHeld, ClaimIsCurrent, RowsAgree, Agrees, Writing, Knowing,
            Goto, Forget, Unlock, Abort, rows, locks, session, TypeOK
<1>1. ASSUME NEW s \in Sessions, PayStart(s) PROVE OthersDead'
    <2>1. \A t \in Sessions : pc[t] \notin Writing
        BY <1>0, <1>a, <1>1 DEF PayStart
    <2>2. pay.attempt \in Attempts => Dead(pay.attempt)
        BY <1>0, <1>a, <1>1 DEF PayStart, Payments, Verdicts
    <2>3. \A i \in Attempts : Dead(i)
        BY <1>a, <2>1, <2>2
    <2>. QED BY <1>1, <2>3 DEF PayStart
<1>2. ASSUME NEW s \in Sessions, PayCharge(s) PROVE OthersDead'
    BY <1>0, <1>a, <1>2 DEF PayCharge
<1>3. ASSUME NEW s \in Sessions, ChargeFails(s) PROVE OthersDead'
    BY <1>0, <1>a, <1>3 DEF ChargeFails
<1>4. ASSUME NEW s \in Sessions, SendInvoice(s) PROVE OthersDead'
    BY <1>0, <1>a, <1>4 DEF SendInvoice
<1>5. ASSUME NEW s \in Sessions, Commit(s) PROVE OthersDead'
    BY <1>0, <1>a, <1>5 DEF Commit
<1>6. ASSUME NEW s \in Sessions, ViewOrder(s) PROVE OthersDead'
    BY <1>0, <1>a, <1>6 DEF ViewOrder
<1>7. ASSUME NEW s \in Sessions, ViewPayment(s) PROVE OthersDead'
    BY <1>0, <1>a, <1>7 DEF ViewPayment
<1>8. ASSUME NEW s \in Sessions, ViewRefused(s) PROVE OthersDead'
    BY <1>0, <1>a, <1>8 DEF ViewRefused
<1>9. ASSUME NEW s \in Sessions, SyncLockPayment(s) PROVE OthersDead'
    BY <1>0, <1>a, <1>9 DEF SyncLockPayment
<1>10. ASSUME NEW s \in Sessions, SyncRead(s) PROVE OthersDead'
    BY <1>0, <1>a, <1>10 DEF SyncRead
<1>11. ASSUME NEW s \in Sessions, Ask(s) PROVE OthersDead'
    BY <1>0, <1>a, <1>11 DEF Ask
<1>12. ASSUME NEW s \in Sessions, AskFails(s) PROVE OthersDead'
    BY <1>0, <1>a, <1>12 DEF AskFails
<1>13. ASSUME NEW s \in Sessions, ApplyGone(s) PROVE OthersDead'
    BY <1>0, <1>a, <1>13 DEF ApplyGone
<1>14. ASSUME NEW s \in Sessions, ApplyPayment(s) PROVE OthersDead'
    BY <1>0, <1>a, <1>14 DEF ApplyPayment
<1>15. ASSUME NEW s \in Sessions, ApplyApproved(s) PROVE OthersDead'
    BY <1>0, <1>a, <1>15 DEF ApplyApproved
<1>16. ASSUME NEW s \in Sessions, Claim(s) PROVE OthersDead'
    BY <1>0, <1>a, <1>16 DEF Claim
<1>17. ASSUME NEW s \in Sessions, ItemRead(s) PROVE OthersDead'
    BY <1>0, <1>a, <1>17 DEF ItemRead
<1>18. ASSUME NEW s \in Sessions, ItemSave(s) PROVE OthersDead'
    BY <1>0, <1>a, <1>18 DEF ItemSave, SaveOrder
<1>19. ASSUME NEW s \in Sessions, RollBack(s) PROVE OthersDead'
    BY <1>0, <1>a, <1>19 DEF RollBack
<1>20. ASSUME NEW i \in Attempts, Decide(i) PROVE OthersDead'
    BY <1>0, <1>a, <1>20 DEF Decide
<1>21. ASSUME NEW s \in Sessions, NEW t \in Sessions, BreakDeadlock(s, t) PROVE OthersDead'
    <2>1. CASE Abort(s)
        BY <1>0, <1>a, <1>21, <2>1 DEF BreakDeadlock, WaitForEachOther
    <2>2. CASE Abort(t)
        BY <1>0, <1>a, <1>21, <2>2 DEF BreakDeadlock, WaitForEachOther
    <2>. QED BY <1>21, <2>1, <2>2 DEF BreakDeadlock
<1>22. CASE UNCHANGED vars
    BY <1>22 DEF vars
<1>23. ASSUME NEW s \in Sessions, StatusRead(s) PROVE OthersDead'
    BY <1>0, <1>a, <1>23 DEF StatusRead
<1>24. ASSUME NEW s \in Sessions, StatusSave(s) PROVE OthersDead'
    BY <1>0, <1>a, <1>24 DEF StatusSave, SaveOrder
<1>25. ASSUME NEW s \in Sessions, RowRead(s) PROVE OthersDead'
    BY <1>0, <1>a, <1>25 DEF RowRead
<1>26. ASSUME NEW s \in Sessions, RowSave(s) PROVE OthersDead'
    BY <1>0, <1>a, <1>26 DEF RowSave, SaveOrder
<1>27. ASSUME NEW s \in Sessions, RowDropped(s) PROVE OthersDead'
    BY <1>0, <1>a, <1>27 DEF RowDropped
<1>. QED
    BY <1>1, <1>2, <1>3, <1>4, <1>5, <1>6, <1>7, <1>8, <1>9, <1>10, <1>11, <1>12, <1>13,
       <1>14, <1>15, <1>16, <1>17, <1>18, <1>19, <1>20, <1>21, <1>22, <1>23, <1>24, <1>25, <1>26, <1>27
       DEF Next, PayStep, ConfirmStep, Apply, Sessions

(* As long as no transaction failed after its charge, any number of payers,*)
(* confirmations, sync workers and editors charges the customer at most    *)
(* once.                                                                   *)
THEOREM ChargedOnce == Spec => []OneCharge
<1>1. (faults = 0 => OthersDead) => OneCharge
    BY DEF OthersDead, Dead, OneCharge, Charged, Writing
<1>. QED BY <1>1, LocksHold, DeadInit, DeadStep, PTL DEF Spec
--------------------------------------------------------------------------------
(* Nobody sells without a charge: the editors neither set PAID by hand nor *)
(* give the order away as COURTESY.                                        *)
NoHandMadeSale == Requests \cap {"PAID", "COURTESY"} = {}

Sold == {"PAID", "SHIPPED"}

(* Everything that makes an order sold comes after a charge, the copies in *)
(* memory and the messages under way included.                             *)
SaleIsCharged ==
    /\ order.status # "COURTESY"
    /\ order.status \in Sold \/ msgs > 0 => Charged # {}
    /\ \A s \in Sessions :
          /\ mine[s].status # "COURTESY"
          /\ mine[s].status \in Sold \/ pc[s] \in {"claiming", "sending"} => Charged # {}

(* The first order is not sold and nobody remembers one that is.           *)
LEMMA SaleInit == Init => SaleIsCharged
BY DEF Init, SaleIsCharged, Sold, NoOrder

(* A charge is never undone, so only the steps that make an order sold     *)
(* matter; they follow the gateway's approval.                             *)
LEMMA SaleStep ==
    ASSUME NoHandMadeSale
    PROVE  AnyRegime /\ SaleIsCharged /\ [Next]_vars => SaleIsCharged'
<1> SUFFICES ASSUME AnyRegime, SaleIsCharged, [Next]_vars PROVE SaleIsCharged'
    OBVIOUS
<1>0. /\ TypeOK /\ RowsAgree
      /\ NoPayment.attempt = 0 /\ NoPayment.status = "none" /\ 0 \notin Attempts
      /\ NoOrder.status = "DRAFT"
      /\ \A p \in Payments : p.attempt \in Attempts
    <2>1. TypeOK /\ RowsAgree
        BY DEF AnyRegime
    <2>2. NoPayment.attempt = 0 /\ NoPayment.status = "none" /\ 0 \notin Attempts
        BY DEF NoPayment, Attempts
    <2>3. NoOrder.status = "DRAFT"
        BY DEF NoOrder
    <2>. QED BY <2>1, <2>2, <2>3 DEF Payments
<1> USE DEF SaleIsCharged, Charged, Sold, RowsAgree, Agrees, Knowing,
            Goto, Forget, Unlock, Abort, rows, locks, session, TypeOK
<1>1. ASSUME NEW s \in Sessions, PayStart(s) PROVE SaleIsCharged'
    BY <1>0, <1>1 DEF PayStart
<1>2. ASSUME NEW s \in Sessions, PayCharge(s) PROVE SaleIsCharged'
    BY <1>0, <1>2 DEF PayCharge
<1>3. ASSUME NEW s \in Sessions, ChargeFails(s) PROVE SaleIsCharged'
    BY <1>0, <1>3 DEF ChargeFails
<1>4. ASSUME NEW s \in Sessions, SendInvoice(s) PROVE SaleIsCharged'
    BY <1>0, <1>4 DEF SendInvoice
<1>5. ASSUME NEW s \in Sessions, Commit(s) PROVE SaleIsCharged'
    BY <1>0, <1>5 DEF Commit
<1>6. ASSUME NEW s \in Sessions, ViewOrder(s) PROVE SaleIsCharged'
    BY <1>0, <1>6 DEF ViewOrder
<1>7. ASSUME NEW s \in Sessions, ViewPayment(s) PROVE SaleIsCharged'
    BY <1>0, <1>7 DEF ViewPayment
<1>8. ASSUME NEW s \in Sessions, ViewRefused(s) PROVE SaleIsCharged'
    BY <1>0, <1>8 DEF ViewRefused
<1>9. ASSUME NEW s \in Sessions, SyncLockPayment(s) PROVE SaleIsCharged'
    BY <1>0, <1>9 DEF SyncLockPayment
<1>10. ASSUME NEW s \in Sessions, SyncRead(s) PROVE SaleIsCharged'
    BY <1>0, <1>10 DEF SyncRead
<1>11. ASSUME NEW s \in Sessions, Ask(s) PROVE SaleIsCharged'
    BY <1>0, <1>11 DEF Ask
<1>12. ASSUME NEW s \in Sessions, AskFails(s) PROVE SaleIsCharged'
    BY <1>0, <1>12 DEF AskFails
<1>13. ASSUME NEW s \in Sessions, ApplyGone(s) PROVE SaleIsCharged'
    BY <1>0, <1>13 DEF ApplyGone
<1>14. ASSUME NEW s \in Sessions, ApplyPayment(s) PROVE SaleIsCharged'
    BY <1>0, <1>14 DEF ApplyPayment
<1>15. ASSUME NEW s \in Sessions, ApplyApproved(s) PROVE SaleIsCharged'
    BY <1>0, <1>15 DEF ApplyApproved, MarksPaid
<1>16. ASSUME NEW s \in Sessions, Claim(s) PROVE SaleIsCharged'
    BY <1>0, <1>16 DEF Claim
<1>17. ASSUME NEW s \in Sessions, ItemRead(s) PROVE SaleIsCharged'
    BY <1>0, <1>17 DEF ItemRead
<1>18. ASSUME NEW s \in Sessions, ItemSave(s) PROVE SaleIsCharged'
    <2>1. order'.status \in {mine[s].status, "CANCELLED"}
        BY <1>0, <1>18 DEF ItemSave, SaveOrder, Orders
    <2>2. Charged' = Charged /\ msgs' = msgs
        BY <1>18 DEF ItemSave, SaveOrder
    <2>3. \A t \in Sessions : /\ mine'[t] = mine[t] \/ mine'[t] = NoOrder
                              /\ pc'[t] \in {"claiming", "sending"} => pc'[t] = pc[t]
        BY <1>0, <1>18 DEF ItemSave, SaveOrder
    <2>. QED BY <1>0, <2>1, <2>2, <2>3
<1>19. ASSUME NEW s \in Sessions, RollBack(s) PROVE SaleIsCharged'
    BY <1>0, <1>19 DEF RollBack
<1>20. ASSUME NEW i \in Attempts, Decide(i) PROVE SaleIsCharged'
    BY <1>0, <1>20 DEF Decide
<1>21. ASSUME NEW s \in Sessions, NEW t \in Sessions, BreakDeadlock(s, t) PROVE SaleIsCharged'
    <2>1. CASE Abort(s)
        BY <1>0, <1>21, <2>1 DEF BreakDeadlock, WaitForEachOther
    <2>2. CASE Abort(t)
        BY <1>0, <1>21, <2>2 DEF BreakDeadlock, WaitForEachOther
    <2>. QED BY <1>21, <2>1, <2>2 DEF BreakDeadlock
<1>22. CASE UNCHANGED vars
    BY <1>22 DEF vars
<1>23. ASSUME NEW s \in Sessions, StatusRead(s) PROVE SaleIsCharged'
    BY <1>0, <1>23 DEF StatusRead
<1>24. ASSUME NEW s \in Sessions, StatusSave(s) PROVE SaleIsCharged'
    <2>1. PICK st \in Targets(mine[s]) : order' = [mine[s] EXCEPT !.status = st]
        BY <1>24 DEF StatusSave, SaveOrder
    <2>2. /\ st # "COURTESY" /\ st # "PAID"
          /\ st = "SHIPPED" => mine[s].status \in {"PAID", "COURTESY"}
        <3>1. \A x \in Statuses : "SHIPPED" \in ValidTransitions(x) => x \in {"PAID", "COURTESY"}
            BY DEF ValidTransitions, Statuses
        <3>2. mine[s].status \in Statuses
            BY <1>0 DEF Orders
        <3>. QED BY <3>1, <3>2 DEF Targets, NoHandMadeSale
    <2>3. order'.status = st
        BY <1>0, <2>1 DEF Orders
    <2>4. Charged' = Charged /\ msgs' = msgs
        BY <1>24 DEF StatusSave, SaveOrder
    <2>5. \A t \in Sessions : /\ mine'[t] = mine[t] \/ mine'[t] = NoOrder
                              /\ pc'[t] \in {"claiming", "sending"} => pc'[t] = pc[t]
        BY <1>0, <1>24 DEF StatusSave, SaveOrder
    <2>. QED BY <1>0, <2>2, <2>3, <2>4, <2>5
<1>25. ASSUME NEW s \in Sessions, RowRead(s) PROVE SaleIsCharged'
    BY <1>0, <1>25 DEF RowRead
<1>26. ASSUME NEW s \in Sessions, RowSave(s) PROVE SaleIsCharged'
    BY <1>0, <1>26 DEF RowSave, SaveOrder
<1>27. ASSUME NEW s \in Sessions, RowDropped(s) PROVE SaleIsCharged'
    BY <1>0, <1>27 DEF RowDropped
<1>. QED
    BY <1>1, <1>2, <1>3, <1>4, <1>5, <1>6, <1>7, <1>8, <1>9, <1>10, <1>11, <1>12, <1>13,
       <1>14, <1>15, <1>16, <1>17, <1>18, <1>19, <1>20, <1>21, <1>22, <1>23, <1>24, <1>25, <1>26, <1>27
       DEF Next, PayStep, ConfirmStep, Apply, Sessions

(* An order is PAID or SHIPPED, and its invoice asked for, only after a    *)
(* charge, in every regime in which no editor sells by hand.               *)
THEOREM SoldIsCharged == ASSUME NoHandMadeSale PROVE Spec => []PaidIsCharged
<1>1. SaleIsCharged => PaidIsCharged
    BY DEF SaleIsCharged, PaidIsCharged, Sold
<1>. QED BY <1>1, AnyRegimeHolds, SaleInit, SaleStep, PTL DEF Spec
--------------------------------------------------------------------------------
(* While nobody edits the order it goes from PENDING to PAID and stays, a  *)
(* DRAFT has no payment, and nobody remembers a later state than the row's.*)
Reading == {"viewing", "asking", "applying"}

PaidTogether ==
    /\ order.status \in {"DRAFT", "PENDING", "PAID"}
    /\ pay.status = "approved" => order.status = "PAID"
    /\ pay # NoPayment => order.status # "DRAFT"
    /\ \A s \in Sessions :
          /\ pc[s] \in Reading => mine[s].status \in {"DRAFT", "PENDING", "PAID"}
          /\ pc[s] \in Reading /\ mine[s].status # "PENDING" => mine[s].status = order.status
          /\ pc[s] \in {"asking", "applying"} => pay # NoPayment
          /\ pc[s] = "charging" => mine[s].status = "PENDING" /\ order.status = "PENDING"
          /\ pc[s] = "claiming" => mine[s].status = "PAID" /\ order.status # "DRAFT"
          /\ pc[s] \in Writing => order.status # "DRAFT"
          /\ pc[s] \in Writing =>
                \/ mine[s].status = "PAID"
                \/ mine[s].status = "PENDING" /\ order.status = "PENDING" /\ paid[s].status # "approved"
          /\ pc[s] \notin {"moving", "editing"}

(* Of the statuses an unedited order has, PENDING alone can become PAID.   *)
LEMMA PayablePending ==
    \A o : o.status \in {"DRAFT", "PENDING", "PAID"} => (Payable(o) <=> o.status = "PENDING")
BY DEF Payable, ValidTransitions

(* Nobody has read anything and there is no payment.                       *)
LEMMA TogetherInit == Init => PaidTogether
BY DEF Init, PaidTogether, NoPayment, Reading, Writing

(* The history only grows, and until it does every save by a task writes   *)
(* back the row as it is.                                                  *)
LEMMA HistoryGrows == TypeOK /\ [Next]_vars /\ ~overwritten' => ~overwritten
BY DEF TypeOK, Next, PayStep, ConfirmStep, Apply, PayStart, PayCharge, ChargeFails, SendInvoice,
       Commit, ViewOrder, ViewPayment, ViewRefused, SyncLockPayment, SyncRead, Ask, AskFails,
       ApplyGone, ApplyPayment, ApplyApproved, Claim, StatusRead, StatusSave, ItemRead, ItemSave, SaveOrder,
       RowRead, RowSave, RowDropped, Decide, BreakDeadlock, RollBack, vars

LEMMA FreshSave ==
    ASSUME NEW s \in Sessions, RowSave(s) \/ RowDropped(s), ~overwritten'
    PROVE  pc[s] = "rendering" /\ Forget(s) /\ UNCHANGED <<rows, gate, msgs, locks, faults>>
BY DEF RowSave, RowDropped, SaveOrder, rows

(* The transaction that stores an approval stores the PAID order.          *)
LEMMA TogetherStep ==
    ASSUME Editors = {}
    PROVE  AnyRegime /\ LocksHeld /\ ClaimIsCurrent /\ (overwritten \/ PaidTogether) /\ [Next]_vars
           => (overwritten \/ PaidTogether)'
<1> SUFFICES ASSUME AnyRegime, LocksHeld, ClaimIsCurrent, PaidTogether, [Next]_vars, ~overwritten'
             PROVE  PaidTogether'
    BY HistoryGrows DEF AnyRegime
<1>0. /\ TypeOK /\ RowsAgree
      /\ NoPayment.attempt = 0 /\ NoPayment.status = "none" /\ 0 \notin Attempts
      /\ NoOrder.status = "DRAFT"
      /\ \A p \in Payments : p.attempt \in Attempts
    <2>1. TypeOK /\ RowsAgree
        BY DEF AnyRegime
    <2>2. NoPayment.attempt = 0 /\ NoPayment.status = "none" /\ 0 \notin Attempts
        BY DEF NoPayment, Attempts
    <2>3. NoOrder.status = "DRAFT"
        BY DEF NoOrder
    <2>. QED BY <2>1, <2>2, <2>3 DEF Payments
<1> USE DEF PaidTogether, Reading, LocksHeld, ClaimIsCurrent, Writing,
            Goto, Forget, Unlock, Abort, rows, locks, session, TypeOK
<1>1. ASSUME NEW s \in Sessions, PayStart(s) PROVE PaidTogether'
    BY <1>0, <1>1, PayablePending DEF PayStart
<1>2. ASSUME NEW s \in Sessions, PayCharge(s) PROVE PaidTogether'
    BY <1>0, <1>2 DEF PayCharge, Orders
<1>3. ASSUME NEW s \in Sessions, ChargeFails(s) PROVE PaidTogether'
    BY <1>0, <1>3 DEF ChargeFails
<1>4. ASSUME NEW s \in Sessions, SendInvoice(s) PROVE PaidTogether'
    BY <1>0, <1>4 DEF SendInvoice
<1>5. ASSUME NEW s \in Sessions, Commit(s) PROVE PaidTogether'
    <2>1. orderLock = s /\ order' = mine[s] /\ pay' = paid[s] /\ Forget(s)
        BY <1>5 DEF Commit
    <2>2. /\ mine[s].status \in {"PENDING", "PAID"}
          /\ paid[s].status = "approved" => mine[s].status = "PAID"
          /\ order.status = "PAID" => mine[s].status = "PAID"
          /\ order.status # "DRAFT"
        BY <1>5 DEF Commit
    <2>3. paid[s] # NoPayment
        BY <1>0, <1>5 DEF Commit, RowsAgree, Knowing
    <2>4. \A t \in Sessions \ {s} :
             /\ pc'[t] = pc[t] /\ mine'[t] = mine[t] /\ paid'[t] = paid[t]
             /\ pc[t] \notin Writing \cup {"charging"}
        BY <1>0, <2>1
    <2>5. pc'[s] = "idle"
        BY <1>0, <2>1
    <2>6. ASSUME NEW t \in Sessions \ {s}, pc[t] \in Reading, mine[t].status # "PENDING"
          PROVE  mine[t].status = order'.status
        BY <2>1, <2>2, <2>6
    <2>. QED BY <2>1, <2>2, <2>3, <2>4, <2>5, <2>6
<1>6. ASSUME NEW s \in Sessions, ViewOrder(s) PROVE PaidTogether'
    BY <1>0, <1>6 DEF ViewOrder
<1>7. ASSUME NEW s \in Sessions, ViewPayment(s) PROVE PaidTogether'
    BY <1>0, <1>7 DEF ViewPayment
<1>8. ASSUME NEW s \in Sessions, ViewRefused(s) PROVE PaidTogether'
    BY <1>0, <1>8 DEF ViewRefused
<1>9. ASSUME NEW s \in Sessions, SyncLockPayment(s) PROVE PaidTogether'
    BY <1>0, <1>9 DEF SyncLockPayment
<1>10. ASSUME NEW s \in Sessions, SyncRead(s) PROVE PaidTogether'
    BY <1>0, <1>10 DEF SyncRead
<1>11. ASSUME NEW s \in Sessions, Ask(s) PROVE PaidTogether'
    BY <1>0, <1>11 DEF Ask
<1>12. ASSUME NEW s \in Sessions, AskFails(s) PROVE PaidTogether'
    BY <1>0, <1>12 DEF AskFails
<1>13. ASSUME NEW s \in Sessions, ApplyGone(s) PROVE PaidTogether'
    BY <1>0, <1>13 DEF ApplyGone
<1>14. ASSUME NEW s \in Sessions, ApplyPayment(s) PROVE PaidTogether'
    <2>1. mine[s].status \in {"DRAFT", "PENDING", "PAID"} /\ pay # NoPayment
        BY <1>14 DEF ApplyPayment
    <2>2. answer[s] = "approved" => mine[s].status # "PENDING"
        BY <1>14, <2>1, PayablePending DEF ApplyPayment, MarksPaid
    <2>3. answer[s] = "approved" => order.status = "PAID"
        BY <1>14, <2>1, <2>2 DEF ApplyPayment
    <2>4. pay'.status = answer[s] /\ pay' # NoPayment
        <3>1. pay \in Payments /\ pay' = [pay EXCEPT !.status = answer[s]]
            BY <1>0, <1>14, <2>1 DEF ApplyPayment
        <3>2. pay'.attempt = pay.attempt /\ pay'.status = answer[s]
            BY <3>1 DEF Payments
        <3>. QED BY <1>0, <3>1, <3>2
    <2>5. UNCHANGED <<order, locks>> /\ Forget(s)
        BY <1>14 DEF ApplyPayment
    <2>6. \A t \in Sessions : t # s => pc'[t] = pc[t] /\ mine'[t] = mine[t] /\ paid'[t] = paid[t]
        BY <1>0, <2>5
    <2>7. pc'[s] = "idle"
        BY <1>0, <2>5
    <2>8. order' = order
        BY <2>5
    <2>9. /\ order'.status \in {"DRAFT", "PENDING", "PAID"}
          /\ pay'.status = "approved" => order'.status = "PAID"
          /\ pay' # NoPayment => order'.status # "DRAFT"
        BY <2>1, <2>3, <2>4, <2>8
    <2>10. ASSUME NEW t \in Sessions, t # s
           PROVE  /\ pc'[t] \in Reading => mine'[t].status \in {"DRAFT", "PENDING", "PAID"}
                  /\ pc'[t] \in Reading /\ mine'[t].status # "PENDING" => mine'[t].status = order'.status
                  /\ pc'[t] = "charging" => mine'[t].status = "PENDING" /\ order'.status = "PENDING"
                  /\ pc'[t] = "claiming" => mine'[t].status = "PAID" /\ order'.status # "DRAFT"
                  /\ pc'[t] \in Writing => order'.status # "DRAFT"
                  /\ pc'[t] \in Writing =>
                        \/ mine'[t].status = "PAID"
                        \/ /\ mine'[t].status = "PENDING" /\ order'.status = "PENDING"
                           /\ paid'[t].status # "approved"
                  /\ pc'[t] \notin {"moving", "editing"}
        BY <2>6, <2>8, <2>10
    <2>. QED BY <2>4, <2>7, <2>9, <2>10
<1>15. ASSUME NEW s \in Sessions, ApplyApproved(s) PROVE PaidTogether'
    BY <1>0, <1>15, PayablePending DEF ApplyApproved, MarksPaid
<1>16. ASSUME NEW s \in Sessions, Claim(s) PROVE PaidTogether'
    BY <1>0, <1>16 DEF Claim
<1>19. ASSUME NEW s \in Sessions, RollBack(s) PROVE PaidTogether'
    BY <1>0, <1>19 DEF RollBack
<1>20. ASSUME NEW i \in Attempts, Decide(i) PROVE PaidTogether'
    BY <1>0, <1>20 DEF Decide
<1>21. ASSUME NEW s \in Sessions, NEW t \in Sessions, BreakDeadlock(s, t) PROVE PaidTogether'
    <2>1. CASE Abort(s)
        BY <1>0, <1>21, <2>1 DEF BreakDeadlock, WaitForEachOther
    <2>2. CASE Abort(t)
        BY <1>0, <1>21, <2>2 DEF BreakDeadlock, WaitForEachOther
    <2>. QED BY <1>21, <2>1, <2>2 DEF BreakDeadlock
<1>22. CASE UNCHANGED vars
    BY <1>22 DEF vars
<1>25. ASSUME NEW s \in Sessions, RowRead(s) PROVE PaidTogether'
    BY <1>0, <1>25 DEF RowRead
<1>26. ASSUME NEW s \in Sessions, RowSave(s) \/ RowDropped(s) PROVE PaidTogether'
    BY <1>0, <1>26, FreshSave
<1>. QED
    BY <1>1, <1>2, <1>3, <1>4, <1>5, <1>6, <1>7, <1>8, <1>9, <1>10, <1>11, <1>12, <1>13,
       <1>14, <1>15, <1>16, <1>19, <1>20, <1>21, <1>22, <1>25, <1>26
       DEF Next, PayStep, ConfirmStep, Apply, Sessions

(* While nobody edits the order, and whatever rolls back, no payment is    *)
(* approved on an order that still waits for one until a task has saved a  *)
(* copy of the order that it read before the order changed.                *)
THEOREM ApprovalPaysOrder == ASSUME Editors = {} PROVE Spec => []ApprovedPaysOrder
<1>1. AnyRegime /\ (overwritten \/ PaidTogether) => ApprovedPaysOrder
    BY PayablePending DEF PaidTogether, ApprovedPaysOrder
<1>. QED BY <1>1, LocksHold, TogetherInit, TogetherStep, PTL DEF Spec

--------------------------------------------------------------------------------
(* While nobody edits and nothing fails after a charge. A confirmation can *)
(* still sell the order if its copy is PENDING or it waits for the claim,  *)
(* and counts if the attempt in its memory was not declined. A late one    *)
(* overwrites the row with a copy that does not know of the workflow.      *)
Confirmers == Viewers \cup Syncers

Counts(s) == pc[s] \in {"asking", "applying", "claiming"} /\ gate[paid[s].attempt] # "declined"

Stale(s) == \/ pc[s] \in Reading /\ mine[s].status = "PENDING"
            \/ pc[s] = "claiming"

Late(s) == \/ Stale(s)
           \/ pc[s] = "committing" /\ mine[s].status = "PAID" /\ ~mine[s].processed

NobodyCounts == \A s \in Sessions : ~Counts(s)

(* Who confirms is a viewer or a syncer; who claims or sends was approved. *)
Roles ==
    \A s \in Sessions :
        /\ pc[s] \in Reading \cup {"locking", "claiming"} => s \in Confirmers
        /\ pc[s] \in {"claiming", "sending"} => paid[s].status = "approved"

(* Until the order is sold no copy says its workflow is done but that of   *)
(* the session which has just sent the message.                            *)
Unprocessed ==
    /\ order.status # "PAID" => ~order.processed
    /\ \A s \in Sessions :
          /\ Stale(s) \/ pc[s] \in {"charging", "sending"} => ~mine[s].processed
          /\ pc[s] = "sending" => mine[s].status = "PAID"
          /\ pc[s] \in Writing /\ mine[s].status = "PENDING" => ~mine[s].processed
          /\ pc[s] = "committing" /\ mine[s].status = "PAID" /\ order.status # "PAID"
             => mine[s].processed

(* A message has been sent only by the session about to commit the sale or *)
(* for the sale committed, and nobody is about to send another.            *)
Invoiced ==
    /\ msgs > 0 =>
          \/ order.status = "PAID"
          \/ \E s \in Sessions : /\ pc[s] = "committing"
                                 /\ mine[s].status = "PAID" /\ mine[s].processed
    /\ \A s \in Sessions : pc[s] = "sending" => msgs = 0 /\ order.status # "PAID"

(* The sale about to be committed is a confirmation's, or a payer's whose  *)
(* approved attempt no confirmation knows of.                              *)
FirstSale ==
    \A s \in Sessions :
        pc[s] \in Writing /\ mine[s].status = "PAID" /\ order.status # "PAID" =>
            \/ s \in Confirmers
            \/ /\ paid[s].status = "approved"
               /\ NobodyCounts
               /\ pay # NoPayment => gate[pay.attempt] = "declined"

(* After the sale either no confirmation counts any more, or one is late   *)
(* at most and finds, under the lock, that the workflow is done.           *)
AfterSale ==
    order.status = "PAID" =>
        \/ /\ pay.status = "approved"
           /\ NobodyCounts
           /\ \A s \in Sessions : pc[s] \notin Writing
        \/ /\ \A s, t \in Sessions : Late(s) /\ Late(t) => s = t
           /\ order.processed \/ \A s \in Sessions : ~Stale(s)

SoldOnce == Roles /\ Unprocessed /\ Invoiced /\ FirstSale /\ AfterSale

(* Nobody has read, sent or sold anything.                                 *)
LEMMA OnceInit == Init => SoldOnce
<1> SUFFICES ASSUME Init PROVE SoldOnce
    OBVIOUS
<1>1. order.status # "PAID" /\ ~order.processed /\ msgs = 0 /\ \A s \in Sessions : pc[s] = "idle"
    BY DEF Init
<1>. QED BY <1>1 DEF SoldOnce, Roles, Unprocessed, Invoiced, FirstSale, AfterSale, Stale, Writing, Reading

(* What every step may use of the invariants proved before.                *)
Known == AnyRegime /\ LocksHeld /\ ClaimIsCurrent /\ OthersDead /\ PaidTogether

(* A session that gives up forgets what it read; nobody else notices.      *)
LEMMA OnceForget ==
    ASSUME NEW s \in Sessions, Known, SoldOnce, pc[s] # "committing", Forget(s),
           UNCHANGED <<rows, gate, msgs>>
    PROVE  SoldOnce'
<1>1. /\ pc'[s] = "idle" /\ UNCHANGED <<order, pay, gate, msgs>>
      /\ \A t \in Sessions \ {s} : pc'[t] = pc[t] /\ mine'[t] = mine[t] /\ paid'[t] = paid[t]
    BY DEF Known, AnyRegime, TypeOK, Forget, Goto, rows
<1> USE DEF SoldOnce
<1>2. Roles' /\ Unprocessed'
    BY <1>1 DEF Roles, Unprocessed, Stale, Writing, Reading
<1>3. Invoiced'
    BY <1>1 DEF Invoiced
<1>4. NobodyCounts => NobodyCounts'
    BY <1>1 DEF NobodyCounts, Counts
<1>5. FirstSale'
    BY <1>1, <1>4 DEF FirstSale, Writing
<1>6. AfterSale'
    BY <1>1, <1>4 DEF AfterSale, Late, Stale, Writing, Reading
<1>. QED BY <1>2, <1>3, <1>5, <1>6

(* Every step keeps what is known.                                         *)
LEMMA OnceStep ==
    ASSUME Editors = {}, MaxFaults = 0, NEW a, NEW b, Confirmers \subseteq {a, b}
    PROVE  Known /\ SoldOnce /\ [Next]_vars /\ ~overwritten' => SoldOnce'
<1> SUFFICES ASSUME Known, SoldOnce, [Next]_vars, ~overwritten' PROVE SoldOnce'
    OBVIOUS
<1>0. /\ TypeOK /\ RowsAgree
      /\ NoPayment.attempt = 0 /\ NoPayment.status = "none" /\ 0 \notin Attempts
      /\ \A p \in Payments : p.attempt \in Attempts /\ p.status \in Verdicts
      /\ \A s \in Sessions : pc[s] \in Knowing => paid[s] \in Payments
    <2>1. TypeOK /\ RowsAgree
        BY DEF Known, AnyRegime
    <2>2. NoPayment.attempt = 0 /\ NoPayment.status = "none" /\ 0 \notin Attempts
        BY DEF NoPayment, Attempts
    <2>. QED BY <2>1, <2>2 DEF Payments, TypeOK, RowsAgree
<1> USE DEF Known, SoldOnce, Roles, Unprocessed, Invoiced, FirstSale, AfterSale, NobodyCounts, Counts, Late, Stale,
            LocksHeld, PaidTogether, Reading, Writing, Knowing, TypeOK,
            Goto, Forget, Unlock, rows, locks, session
<1>1. ASSUME NEW s \in Payers, PayStart(s) PROVE SoldOnce'
    <2>1. /\ order.status = "PENDING" /\ ~order.processed
          /\ pc[s] = "idle" /\ pc' = [pc EXCEPT ![s] = "charging"]
          /\ mine' = [mine EXCEPT ![s] = order] /\ paid' = [paid EXCEPT ![s] = pay]
          /\ UNCHANGED <<order, pay, gate, msgs>>
        BY <1>1, PayablePending DEF PayStart
    <2>2. /\ pc'[s] = "charging" /\ mine'[s] = order
          /\ \A t \in Sessions \ {s} : pc'[t] = pc[t] /\ mine'[t] = mine[t] /\ paid'[t] = paid[t]
        BY <1>0, <2>1 DEF Sessions
    <2>3. NobodyCounts => NobodyCounts'
        BY <2>1, <2>2
    <2>. QED BY <2>1, <2>2, <2>3
<1>2. ASSUME NEW s \in Payers, PayCharge(s) PROVE SoldOnce'
    <2>0. s \in Sessions /\ pc[s] = "charging" /\ mine[s].status = "PENDING" /\ ~mine[s].processed
          /\ order.status = "PENDING" /\ orderLock = s /\ mine[s] \in Orders
        BY <1>0, <1>2 DEF PayCharge, Sessions
    <2>1. PICK i \in Attempts, v \in Verdicts :
             /\ gate[i] = "unused"
             /\ gate' = [gate EXCEPT ![i] = v]
             /\ paid' = [paid EXCEPT ![s] = [attempt |-> i, status |-> v]]
             /\ mine' = [mine EXCEPT ![s].status = IF v = "approved" THEN "PAID" ELSE @]
             /\ pc' = [pc EXCEPT ![s] = IF v = "approved" /\ ~mine[s].processed THEN "sending" ELSE "committing"]
        BY <1>2, ZenonT(60) DEF PayCharge
    <2>2. /\ UNCHANGED <<order, pay, msgs>>
          /\ \A t \in Sessions \ {s} : /\ pc'[t] = pc[t] /\ mine'[t] = mine[t] /\ paid'[t] = paid[t]
                                     /\ pc[t] \notin {"charging", "sending", "committing"}
        BY <1>0, <1>2, <2>0, <2>1 DEF PayCharge
    <2>3. /\ mine'[s].processed = FALSE /\ paid'[s] = [attempt |-> i, status |-> v]
          /\ v = "approved" => pc'[s] = "sending" /\ mine'[s].status = "PAID"
          /\ v # "approved" => pc'[s] = "committing" /\ mine'[s].status = "PENDING"
        BY <1>0, <2>0, <2>1 DEF Orders
    <2>4. \A j \in Attempts : gate[j] \in {"unused", "declined"} /\ (j # i => gate'[j] = gate[j])
        BY <1>0, <2>0, <2>1 DEF OthersDead, Dead
    <2>5. ASSUME NEW p \in Payments, Agrees(p) PROVE gate'[p.attempt] = "declined"
        BY <1>0, <2>1, <2>4, <2>5 DEF Agrees
    <2>6. NobodyCounts' /\ (pay' # NoPayment => gate'[pay'.attempt] = "declined")
        <3>1. \A t \in Sessions : pc[t] \in Knowing => paid[t] \in Payments /\ Agrees(paid[t])
            BY <1>0 DEF RowsAgree
        <3>2. pay # NoPayment => pay \in Payments /\ Agrees(pay)
            BY <1>0 DEF RowsAgree
        <3>. QED BY <2>2, <2>3, <2>5, <3>1, <3>2
    <2>7. msgs = 0
        BY <1>0, <2>0, <2>2
    <2>. QED BY <2>0, <2>2, <2>3, <2>6, <2>7
<1>3. ASSUME NEW s \in Sessions, SendInvoice(s) PROVE SoldOnce'
    BY <1>0, <1>3 DEF SendInvoice, Orders
<1>4. ASSUME NEW s \in Sessions, Commit(s) PROVE SoldOnce'
    BY <1>0, <1>4 DEF Commit
<1>5. ASSUME NEW s \in Viewers, ViewOrder(s) PROVE SoldOnce'
    BY <1>0, <1>5 DEF ViewOrder, Sessions, Confirmers
<1>6. ASSUME NEW s \in Viewers, ViewPayment(s) PROVE SoldOnce'
    BY <1>0, <1>6 DEF ViewPayment, Sessions
<1>7. ASSUME NEW s \in Syncers, SyncLockPayment(s) PROVE SoldOnce'
    BY <1>0, <1>7 DEF SyncLockPayment, Sessions, Confirmers
<1>8. ASSUME NEW s \in Sessions, SyncRead(s) PROVE SoldOnce'
    BY <1>0, <1>8 DEF SyncRead
<1>9. ASSUME NEW s \in Sessions, Ask(s) PROVE SoldOnce'
    BY <1>0, <1>9 DEF Ask
<1>10. ASSUME NEW s \in Sessions, ApplyPayment(s) PROVE SoldOnce'
    <2>1. /\ pc[s] = "applying" /\ pay.attempt = paid[s].attempt /\ pay' = [pay EXCEPT !.status = answer[s]]
          /\ Forget(s) /\ UNCHANGED <<order, gate, msgs>>
        BY <1>10 DEF ApplyPayment
    <2>2. /\ pc'[s] = "idle"
          /\ \A t \in Sessions \ {s} : pc'[t] = pc[t] /\ mine'[t] = mine[t] /\ paid'[t] = paid[t]
        BY <1>0, <2>1
    <2>3. /\ pay # NoPayment /\ pay'.attempt = pay.attempt
          /\ pay.status = "approved" => gate[pay.attempt] = "approved"
        BY <1>0, <2>1 DEF RowsAgree, Agrees, Payments
    <2>4. NobodyCounts => NobodyCounts' /\ pay.status # "approved"
        BY <2>1, <2>2, <2>3
    <2>5. Roles' /\ Unprocessed' /\ Invoiced'
        BY <2>1, <2>2
    <2>6. FirstSale'
        BY <2>1, <2>2, <2>3, <2>4
    <2>7. AfterSale'
        BY <2>1, <2>2, <2>4
    <2>. QED BY <2>5, <2>6, <2>7
<1>11. ASSUME NEW s \in Sessions, ApplyApproved(s) PROVE SoldOnce'
    BY <1>0, <1>11, PayablePending DEF ApplyApproved, MarksPaid
<1>12. ASSUME NEW s \in Sessions, Claim(s) PROVE SoldOnce'
    <2>1. /\ pc[s] = "claiming" /\ ~mine[s].processed /\ mine[s].status = "PAID" /\ s \in Confirmers
          /\ order.status # "PAID" => ~order.processed
          /\ pc' = [pc EXCEPT ![s] = IF order.processed THEN "committing" ELSE "sending"]
          /\ UNCHANGED <<order, pay, gate, msgs, mine, paid>>
        BY <1>12 DEF Claim
    <2>2. \A t \in Sessions : pc[t] \notin Writing
        BY <1>0, <1>12 DEF Claim
    <2>3. \A t \in Sessions \ {s} : pc'[t] = pc[t]
        BY <1>0, <2>1
    <2>4. Counts(s)
        BY <1>0, <2>1 DEF RowsAgree, Agrees
    <2>5. NobodyCounts => NobodyCounts'
        BY <2>4
    <2>6. CASE order.processed
        <3>1. pc'[s] = "committing" /\ order.status = "PAID"
            BY <1>0, <2>1, <2>6
        <3>2. \A t, u \in Sessions : Late(t) /\ Late(u) => t = u
            BY <2>1, <2>4, <3>1
        <3>3. \A t \in Sessions : Late(t)' => Late(t)
            BY <2>1, <2>3, <3>1
        <3>4. AfterSale'
            BY <2>1, <2>6, <3>2, <3>3
        <3>. QED BY <2>1, <2>2, <2>3, <3>1, <3>4
    <2>7. CASE ~order.processed
        <3>1. pc'[s] = "sending"
            BY <1>0, <2>1, <2>7
        <3>2. order.status # "PAID"
            BY <2>1, <2>4, <2>7
        <3>3. msgs = 0
            BY <1>0, <2>2, <3>2
        <3>. QED BY <2>1, <2>2, <2>3, <3>1, <3>2, <3>3
    <2>. QED BY <2>6, <2>7
<1>13. ASSUME NEW i \in Attempts, Decide(i) PROVE SoldOnce'
    BY <1>0, <1>13 DEF Decide
<1>14. ASSUME NEW s \in Sessions, ChargeFails(s) \/ ViewRefused(s) \/ AskFails(s) \/ ApplyGone(s)
       PROVE SoldOnce'
    BY <1>14, OnceForget DEF ChargeFails, ViewRefused, AskFails, ApplyGone, Abort
<1>15. ASSUME NEW s \in Sessions, NEW t \in Sessions, BreakDeadlock(s, t) PROVE SoldOnce'
    BY <1>15, OnceForget DEF BreakDeadlock, WaitForEachOther, Abort
<1>16. ~ \E s \in Sessions : RollBack(s)
    BY <1>0 DEF RollBack
<1>17. CASE UNCHANGED vars
    BY <1>17 DEF vars
<1>25. ASSUME NEW s \in Sessions, RowRead(s) PROVE SoldOnce'
    BY <1>0, <1>25 DEF RowRead
<1>26. ASSUME NEW s \in Sessions, RowSave(s) \/ RowDropped(s) PROVE SoldOnce'
    BY <1>26, FreshSave, OnceForget
<1>. QED
    BY <1>1, <1>2, <1>3, <1>4, <1>5, <1>6, <1>7, <1>8, <1>9, <1>10, <1>11, <1>12, <1>13,
       <1>14, <1>15, <1>16, <1>17, <1>25, <1>26
       DEF Next, PayStep, ConfirmStep, Apply, Sessions

(* The attempts change by a first charge alone, the messages by the first  *)
(* message after it, until the history says otherwise.                     *)
LEMMA PromiseStep ==
    ASSUME AnyRegime, OthersDead, overwritten \/ (Known /\ SoldOnce), [Next]_vars
    PROVE  \/ Charged' = Charged /\ msgs' = msgs
           \/ Charged = {} /\ (\E i : Charged' = {i}) /\ msgs' = msgs
           \/ (\E i : Charged = {i}) /\ Charged' = Charged /\ msgs = 0 /\ msgs' = 1
           \/ overwritten /\ Charged' = Charged
<1> DEFINE Step ==
               \/ Charged' = Charged /\ msgs' = msgs
               \/ Charged = {} /\ (\E i : Charged' = {i}) /\ msgs' = msgs
               \/ (\E i : Charged = {i}) /\ Charged' = Charged /\ msgs = 0 /\ msgs' = 1
               \/ overwritten /\ Charged' = Charged
<1>0. /\ TypeOK /\ RowsAgree
      /\ \A p \in Payments : p.attempt \in Attempts
      /\ \A s \in Sessions : pc[s] \in Knowing => paid[s] \in Payments
    BY DEF AnyRegime, TypeOK, RowsAgree, Payments
<1>1. ASSUME NEW s \in Payers, PayCharge(s) PROVE Step
    <2>0. s \in Sessions /\ \A i \in Attempts : gate[i] # "approved"
        BY <1>1 DEF PayCharge, Sessions, OthersDead, Dead
    <2>1. PICK i \in Attempts, v \in Verdicts : gate' = [gate EXCEPT ![i] = v]
        BY <1>1, ZenonT(60) DEF PayCharge
    <2>2. Charged = {} /\ Charged' = IF v = "approved" THEN {i} ELSE {}
        BY <1>0, <2>0, <2>1 DEF Charged, TypeOK
    <2>3. msgs' = msgs
        BY <1>1 DEF PayCharge
    <2>. QED BY <2>2, <2>3
<1>2. ASSUME NEW i \in Attempts, Decide(i) PROVE Step
    <2>1. gate[i] = "pending" /\ msgs' = msgs
        BY <1>2 DEF Decide
    <2>2. PICK v \in {"approved", "declined"} : gate' = [gate EXCEPT ![i] = v]
        BY <1>2 DEF Decide
    <2>3. \A j \in Attempts : j = i \/ gate[j] \in {"unused", "declined"}
        BY <2>1 DEF OthersDead, Dead
    <2>4. Charged = {} /\ Charged' = IF v = "approved" THEN {i} ELSE {}
        BY <1>0, <2>1, <2>2, <2>3 DEF Charged, TypeOK
    <2>. QED BY <2>1, <2>4
<1>3. ASSUME NEW s \in Sessions, SendInvoice(s) PROVE Step
    <2>1. pc[s] = "sending" /\ gate' = gate /\ msgs' = IF msgs < MaxMsgs THEN msgs + 1 ELSE msgs
        BY <1>3 DEF SendInvoice
    <2>2. CASE overwritten
        BY <2>1, <2>2 DEF Charged
    <2>3. CASE Known /\ SoldOnce
        <3>1. msgs = 0 /\ msgs' = 1
            BY <2>1, <2>3, PaymentAssumption DEF SoldOnce, Invoiced, PaymentAssumption
        <3>2. paid[s].attempt \in Attempts /\ gate[paid[s].attempt] = "approved"
            BY <1>0, <2>1, <2>3 DEF SoldOnce, Roles, RowsAgree, Agrees, Knowing
        <3>3. \A i \in Attempts : i = paid[s].attempt \/ gate[i] # "approved"
            BY <2>1 DEF OthersDead, Dead, Writing
        <3>. QED BY <2>1, <3>1, <3>2, <3>3 DEF Charged
    <2>. QED BY <2>2, <2>3
<1>4. CASE UNCHANGED <<gate, msgs>>
    BY <1>4 DEF Charged
<1>. QED
    BY <1>1, <1>2, <1>3, <1>4
       DEF Next, PayStep, ConfirmStep, Apply, Sessions, PayStart, ChargeFails, Commit, ViewOrder,
           ViewPayment, ViewRefused, SyncLockPayment, SyncRead, Ask, AskFails, ApplyGone, ApplyPayment,
           ApplyApproved, Claim, StatusRead, StatusSave, ItemRead, ItemSave, SaveOrder, RowRead, RowSave, RowDropped,
           BreakDeadlock, RollBack, Abort, vars

(* While nobody edits the order and nothing fails after a charge, two      *)
(* confirmations, be they views or sync tasks, and any number of payers    *)
(* and saving tasks charge the customer at most once and ask for one       *)
(* invoice, after the charge: the payment implements ChargeOnce, except    *)
(* that after the save of an outdated copy the invoice may be asked for    *)
(* again.                                                                  *)
THEOREM ChargesOnceAndAsksOnce ==
    ASSUME Editors = {}, MaxFaults = 0, NEW a, NEW b, Confirmers \subseteq {a, b}
    PROVE  Spec => ImplementsChargeOnce
<1> DEFINE Inv == /\ AnyRegime /\ LocksHeld /\ ClaimIsCurrent /\ (faults = 0 => OthersDead)
                  /\ overwritten \/ PaidTogether
                  /\ overwritten \/ SoldOnce
<1>1. Inv => AnyRegime /\ OthersDead /\ (overwritten \/ (Known /\ SoldOnce))
    BY DEF Known, AnyRegime, TypeOK
<1>2. Init => Inv
    BY AnyInit, LocksInit, DeadInit, TogetherInit, OnceInit
<1>3. Inv /\ [Next]_vars => Inv'
    <2>1. Inv /\ [Next]_vars => (AnyRegime /\ LocksHeld /\ ClaimIsCurrent /\ (faults = 0 => OthersDead))'
        BY AnyStep, LocksStep, DeadStep
    <2>2. Inv /\ [Next]_vars => (overwritten \/ PaidTogether)'
        BY TogetherStep
    <2>3. Inv /\ [Next]_vars => (overwritten \/ SoldOnce)'
        <3> SUFFICES ASSUME Inv, [Next]_vars, ~overwritten' PROVE SoldOnce'
            OBVIOUS
        <3>1. ~overwritten
            BY HistoryGrows DEF AnyRegime
        <3>. QED BY <1>1, <3>1, OnceStep
    <2>. QED BY <2>1, <2>2, <2>3
<1>4. Init => Promise!Init
    <2>1. Init => Charged = {} /\ msgs = 0
        BY DEF Init, Charged
    <2>. QED BY <2>1, FS_EmptySet DEF Promise!Init
<1>5. Inv /\ [Next]_vars => [Promise!Next \/ AskAgain]_(Promise!vars)
    <2> SUFFICES ASSUME Inv, [Next]_vars PROVE [Promise!Next \/ AskAgain]_(Promise!vars)
        OBVIOUS
    <2>1. CASE Charged' = Charged /\ msgs' = msgs
        BY <2>1 DEF Promise!vars
    <2>2. CASE Charged = {} /\ (\E i : Charged' = {i}) /\ msgs' = msgs
        BY <2>2, FS_EmptySet, FS_Singleton DEF Promise!Next, Promise!Charge
    <2>3. CASE (\E i : Charged = {i}) /\ Charged' = Charged /\ msgs = 0 /\ msgs' = 1
        BY <2>3, FS_Singleton DEF Promise!Next, Promise!AskForInvoice
    <2>4. CASE overwritten /\ Charged' = Charged
        BY <2>4 DEF AskAgain
    <2>. QED BY <1>1, <2>1, <2>2, <2>3, <2>4, PromiseStep
<1>. QED BY <1>2, <1>3, <1>4, <1>5, PTL DEF Spec, ImplementsChargeOnce
================================================================================

------------------------------- MODULE BackOffice -------------------------------
(***************************************************************************)
(* The dashboard and the reports of one organization share the clock: a    *)
(* page, look-ups and report tasks run side by side while invoices move.   *)
(***************************************************************************)
EXTENDS Dashboard, Reporting

CONSTANTS
    StartAt, LastTick,  \* bounds on the clock
    MaxEvents           \* bound on what users, the pipeline and faults do

ASSUME BackOfficeAssumption ==
    StartAt \in Nat /\ LastTick \in Nat /\ StartAt <= LastTick /\ MaxEvents \in Nat

VARIABLE events

vars == <<now, dashVars, repVars, events>>

-----------------------------------------------------------------------------
Init ==
    /\ now = StartAt
    /\ DashInit /\ RepInit
    /\ events = 0

\* Every tick of a day comes, but a look-up ends in time.
Tick ==
    /\ now < LastTick /\ InTime
    /\ now' = now + 1
    /\ UNCHANGED <<dashVars, repVars, events>>

Event == events < MaxEvents /\ events' = events + 1 /\ UNCHANGED now

DashEvent ==
    /\ Event /\ UNCHANGED repVars
    /\ \/ \E o \in Orders : OrderCreated(o) \/ InvoiceMoves(o) \/ QueueMoves(o)
       \/ \E q \in Requests : OpenPage(q)
       \/ FollowLink

RepEvent ==
    /\ Event /\ UNCHANGED dashVars
    /\ \E s \in Sessions : LookUp(s) \/ StartMonthly(s) \/ LoseTask(s)

Step ==
    /\ UNCHANGED <<now, events>>
    /\ \/ DashStep /\ UNCHANGED repVars
       \/ (\E s \in Sessions : RepStep(s)) /\ UNCHANGED dashVars

Next == Tick \/ DashEvent \/ RepEvent \/ Step

Spec == Init /\ [][Next]_vars

=============================================================================

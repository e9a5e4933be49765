------------------------------- MODULE ChargeOnce -------------------------------
(***************************************************************************)
(* What paying an order promises, whatever requests, tasks and retries do: *)
(* the customer is charged at most once, and the order's invoice is asked  *)
(* for at most once and only after the charge.                             *)
(* OrderPayment implements this specification (see Promise there).         *)
(***************************************************************************)
EXTENDS Naturals

VARIABLES
    charges,    \* payment attempts the gateway has approved
    invoices    \* create_invoice messages sent

vars == <<charges, invoices>>

Init == charges = 0 /\ invoices = 0

Charge == charges = 0 /\ charges' = 1 /\ UNCHANGED invoices

AskForInvoice == charges = 1 /\ invoices = 0 /\ invoices' = 1 /\ UNCHANGED charges

Next == Charge \/ AskForInvoice

Spec == Init /\ [][Next]_vars
================================================================================

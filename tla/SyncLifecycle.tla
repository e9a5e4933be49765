----------------------------- MODULE SyncLifecycle -----------------------------
(***************************************************************************)
(* What the polling engine promises about one invoice, whatever workers,   *)
(* locks and queue messages do: an invoice submitted to SUNAT stays open   *)
(* until it is settled by one of SUNAT's final answers or given up for     *)
(* manual review, and neither end is ever left again.                      *)
(* InvoiceSync implements this specification (see Lifecycle there).        *)
(***************************************************************************)
CONSTANTS Invoices, FinalAnswers

VARIABLE outcome

Init == outcome = [i \in Invoices |-> "unsent"]

(* The invoice is accepted by Nubefact and queued for polling.             *)
Submit(i) ==
    /\ outcome[i] = "unsent"
    /\ outcome' = [outcome EXCEPT ![i] = "open"]

(* A poll learns SUNAT's final answer and records it in the order.         *)
Settle(i) ==
    /\ outcome[i] = "open"
    /\ \E a \in FinalAnswers : outcome' = [outcome EXCEPT ![i] = a]

(* Polling stops without an answer: permanent error or attempts used up.   *)
GiveUp(i) ==
    /\ outcome[i] = "open"
    /\ outcome' = [outcome EXCEPT ![i] = "given_up"]

Next == \E i \in Invoices : Submit(i) \/ Settle(i) \/ GiveUp(i)

Spec == Init /\ [][Next]_outcome

(* Without faults every open invoice is eventually closed.                 *)
FairSpec == Spec /\ \A i \in Invoices : WF_outcome(Settle(i) \/ GiveUp(i))
================================================================================

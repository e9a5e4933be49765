----------------------------- MODULE MCInvoiceSync -----------------------------
(* Instances of InvoiceSync for TLC. One tick stands for the shortest delay. *)
EXTENDS InvoiceSync, TLC

CONSTANTS e1, e2, w1, w2, a1, v1

\* Workers are interchangeable wherever only safety is checked.
MCSymmetry == Permutations(Workers)

MCBackoff == [n \in 0 .. MaxAttempts - 1 |-> n + 1]
================================================================================

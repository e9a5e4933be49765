----------------------------- MODULE MCOrderPayment -----------------------------
(* Instances of OrderPayment for TLC. *)
EXTENDS OrderPayment

CONSTANTS p1, p2, v1, v2, s1, d1, w1
================================================================================

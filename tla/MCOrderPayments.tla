-------------------------- MODULE MCOrderPayments --------------------------
(***************************************************************************)
(* Instance of OrderPayments for TLC.                                      *)
(***************************************************************************)
EXTENDS OrderPayments

CONSTANTS o1, o2, i1, c1, s1, w1, w2
=============================================================================

----------------------------- MODULE MCPayments -----------------------------
(***************************************************************************)
(* Instances of Payments for TLC.                                          *)
(***************************************************************************)
EXTENDS PaymentsRefinement, PaymentsClaims, TLC

CONSTANTS w1, w2, d1, r1, r2

Symmetry ==
    Permutations(Workers) \cup Permutations(Deliveries) \cup Permutations(RequestIds)
=============================================================================

--------------------------- MODULE MCFulfillment ---------------------------
(***************************************************************************)
(* Instance of Fulfillment for TLC.                                        *)
(***************************************************************************)
EXTENDS Fulfillment, TLC

CONSTANTS o1, o2, i1, i2, c1, c2, s1, s2, l1, l2, l3, p1, p2, w1, w2

\* Packers and lots are interchangeable; used only where no liveness is checked.
Interchangeable == Permutations({p1, p2}) \cup Permutations({l1, l2})
=============================================================================

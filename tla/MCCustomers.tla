---------------------------- MODULE MCCustomers ----------------------------
(***************************************************************************)
(* Instance of Customers for TLC.                                          *)
(***************************************************************************)
EXTENDS Customers, TLC

CONSTANTS c1, c2, c3, k1, k2, a1, a2, n1, v1, v2, p1, p2, u1

Interchangeable ==
    Permutations(CustomerIds) \cup Permutations(ContactIds)
    \cup Permutations(AddressIds) \cup Permutations(Values)
=============================================================================

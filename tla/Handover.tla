------------------------------ MODULE Handover ------------------------------
(***************************************************************************)
(* What integrations and messaging both promise of an item that is handed  *)
(* over to an external system, without leases, batches, retries or crashes:*)
(* an item is started only while it waits, so only if it was not taken;    *)
(* what is recorded of it is what happened to it; and an outcome nobody    *)
(* heard of is called uncertain and never started again.                   *)
(***************************************************************************)
CONSTANTS
    Items,
    Enquiry   \* whether an uncertain outcome is asked for later

VARIABLES
    phase,    \* of each item
    taken     \* how often the external system took it

vars == <<phase, taken>>

Init ==
    /\ phase = [i \in Items |-> "absent"]
    /\ taken = [i \in Items |-> 0]

Moves(i, from, to) ==
    /\ phase[i] = from
    /\ phase' = [phase EXCEPT ![i] = to]
    /\ UNCHANGED taken

Plan(i) == Moves(i, "absent", "waiting")
Start(i) == Moves(i, "waiting", "handing")
Withdraw(i) == Moves(i, "waiting", "refused")

\* The answer may be late: the item may have been called uncertain meanwhile.
Take(i) ==
    /\ phase[i] \in {"handing", "uncertain"}
    /\ taken[i] = 0
    /\ taken' = [taken EXCEPT ![i] = 1]
    /\ UNCHANGED phase

Confirm(i) ==
    /\ taken[i] = 1
    /\ Moves(i, "handing", "done") \/ (Enquiry /\ Moves(i, "uncertain", "done"))

\* It is kept for another start or given up.
Refuse(i) ==
    /\ taken[i] = 0
    /\ Moves(i, "handing", "waiting") \/ Moves(i, "handing", "refused")

\* Taken or not: nobody knows any more.
Doubt(lost) ==
    /\ \A i \in lost : phase[i] = "handing"
    /\ phase' = [i \in Items |-> IF i \in lost THEN "uncertain" ELSE phase[i]]
    /\ UNCHANGED taken

Next ==
    \/ \E i \in Items :
        Plan(i) \/ Start(i) \/ Withdraw(i) \/ Take(i) \/ Confirm(i) \/ Refuse(i)
    \/ \E lost \in SUBSET Items : Doubt(lost)

Spec == Init /\ [][Next]_vars
=============================================================================

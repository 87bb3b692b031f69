------------------------ MODULE PaymentsRefinement ------------------------
(***************************************************************************)
(* Payments implements HostedCheckout: the refinement mapping reads the    *)
(* phase of a checkout off its attempt's status and its callers off the    *)
(* workers' control states.                                                *)
(***************************************************************************)
EXTENDS Payments

CallingPhase == {"create", "activate", "cancel_call", "cancel_apply"}

Phase(a) ==
    IF att[a].st \in ClosedAttempt THEN "closed"
    ELSE [none |-> "absent", requested |-> "waiting",
          active |-> "open", processing |-> "open"][att[a].st]

PhaseOf == [a \in Attempts |-> Phase(a)]
CallersOf ==
    [a \in Attempts |-> {w \in Workers : worker[w].pc \in CallingPhase /\ worker[w].at = a}]

Checkout == INSTANCE HostedCheckout WITH
    Checkouts <- Attempts, Callers <- Workers, phase <- PhaseOf, calling <- CallersOf

\* Every behaviour of Payments in which the lease outlives the worker is, seen
\* through the mapping, a behaviour of HostedCheckout: dispatch, retry, crash,
\* callback, reconciliation and cancellation keep its promises.
ImplementsHostedCheckout == Checkout!Spec
=============================================================================

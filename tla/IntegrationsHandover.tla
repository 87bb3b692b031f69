------------------------ MODULE IntegrationsHandover ------------------------
(***************************************************************************)
(* Integrations implements Handover: a failed delivery waits as long as    *)
(* another attempt is planned, and reconciliation is the enquiry.          *)
(***************************************************************************)
EXTENDS Integrations

Phase(row) ==
    IF row.st = "failed" /\ row.next # "unset" THEN "waiting"
    ELSE [none |-> "absent", queued |-> "waiting", sending |-> "handing",
          succeeded |-> "done", failed |-> "refused", uncertain |-> "uncertain"][row.st]

PhaseOf == [d \in Deliveries |-> Phase(delivery[d])]

Handed == INSTANCE Handover WITH
    Items <- Deliveries, Enquiry <- TRUE, phase <- PhaseOf, taken <- accepted

\* Dispatch, retry, dead workers, recovered leases and reconciliation are, seen through
\* the mapping, steps of Handover: a delivery is sent again only after an attempt that
\* was refused, and what is uncertain is settled by reconciliation alone.
ImplementsHandover == Handed!Spec
=============================================================================

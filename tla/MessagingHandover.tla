------------------------- MODULE MessagingHandover -------------------------
(***************************************************************************)
(* Messaging implements Handover without an enquiry: a message that is     *)
(* uncertain stays so, which is what the code does and not what            *)
(* MESSAGING.md:99-100 says of it (see UncertainHasNoId).  One with        *)
(* the provider's id was handed over, whatever a callback says of its      *)
(* delivery afterwards.                                                    *)
(***************************************************************************)
EXTENDS MessageEvents

Phase(row) ==
    CASE row.st = "none" -> "absent"
      [] row.st \in {"pending", "queued"} -> "waiting"
      [] row.st = "sending" -> "handing"
      [] row.st = "uncertain" -> "uncertain"
      [] row.st \in {"sent", "delivered", "failed", "cancelled"} ->
            IF row.ext THEN "done" ELSE "refused"

PhaseOf == [m \in Messages |-> Phase(msg[m])]

Handed == INSTANCE Handover WITH
    Items <- Messages, Enquiry <- FALSE, phase <- PhaseOf, taken <- accepted

\* Claims, refusals, lost answers, dead workers, cancellations and callbacks are, seen
\* through the mapping, steps of Handover: a message is sent again only when the call was
\* not made, and nothing settles an uncertain one, not even a late acceptance or, against
\* MESSAGING.md:99-100, a manager's reconciliation.
ImplementsHandover == Handed!Spec
=============================================================================

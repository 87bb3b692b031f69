--------------------------- MODULE PaymentsClaims ---------------------------
(***************************************************************************)
(* Statements that docs/domains/PAYMENTS.md makes about the code and that  *)
(* the code, as modelled by Payments, does not keep.  Each is the property *)
(* of a run that must find a counterexample; the README tells its story.   *)
(***************************************************************************)
EXTENDS Payments

\* PAYMENTS.md:111-114: every authoritative answer to a cancellation is applied,
\* processing keeps retrying and cancelled concludes.  The second answer under
\* the same event cannot insert its history row.
CancellationAnswerApplied ==
    [][\A w \in Workers :
          /\ worker[w].pc = "cancel_apply"
          /\ att[worker[w].at].lease = w
          => worker'[w].pc # "release"]_vars

\* PAYMENTS.md:99-103: once the provider created the checkout its identifiers
\* are always persisted.  The oldest event of the intent refuses the answer of
\* the second attempt.
CreatedCheckoutPersisted ==
    [][\A w \in Workers : worker[w].pc = "activate" => worker'[w].pc # "release"]_vars
=============================================================================

--------------------------- MODULE OrderPayments ---------------------------
(***************************************************************************)
(* apps/orders and apps/payments together: the payments of several orders  *)
(* and the Celery workers that read the order.cancelled events of the      *)
(* outbox in batches and settle the payment of each cancelled order.       *)
(*                                                                         *)
(* An order has one checkout, the bound of this module: Payments has       *)
(* several for one order, with the leases and the calls of their workers.  *)
(* Here a command, a claim or an answer is one transaction of the payment, *)
(* and a provider account may be inactive whenever one looks at it.        *)
(***************************************************************************)
EXTENDS Orders, FiniteSets

CONSTANTS
    Workers,    \* Celery workers running consume_order_cancellations
    BatchLimit  \* limit of consume_order_cancellations, 20 in the code

ASSUME BatchAssumption == BatchLimit \in Nat \ {0}

VARIABLES
    intent,    \* status of the PaymentIntent of each order
    checkout,  \* its PaymentAttempt, one for each order
    batch,     \* consume_order_cancellations: the events left of its batch
    settled,   \* orders whose cancellation event has a completed receipt
    resolved   \* history: settled payments changed by an answer that was asked for

paymentVars == <<intent, checkout, batch, settled, resolved>>
vars == <<ordersVars, paymentVars>>

IntentStatus == {"none", "pending", "awaiting_payment", "processing", "paid",
                 "cancelled", "expired", "requires_attention"}
TerminalIntent == {"paid", "cancelled", "expired"}

\* A requested attempt is sending while a live dispatcher holds its lease and abandoned
\* when the dispatcher died with it: the token stays. An unsent one was closed, cancelled
\* or failed, before the provider knew it.
CheckoutStatus == {"none", "requested", "sending", "abandoned", "active", "processing",
                   "unsent", "paid", "failed", "cancelled", "expired"}
OpenCheckout == {"requested", "sending", "abandoned", "active", "processing"}
AnsweredCheckout == {"paid", "failed", "cancelled", "expired"}
KnownToProvider == {"active", "processing"} \cup AnsweredCheckout

Init ==
    /\ OrdersInit
    /\ intent = [o \in OrderIds |-> "none"]
    /\ checkout = [o \in OrderIds |-> "none"]
    /\ batch = [w \in Workers |-> {}]
    /\ settled = {}
    /\ resolved = {}

(***************************************************************************)
(* The payment of an order                                                 *)
(***************************************************************************)
Pays(o, i, c) ==
    /\ intent' = [intent EXCEPT ![o] = i]
    /\ checkout' = [checkout EXCEPT ![o] = c]

CreatePaymentIntent(o) ==
    /\ order[o].status = "confirmed"
    /\ intent[o] = "none"
    /\ Pays(o, "pending", "none")

RequestHostedCheckout(o) ==
    /\ order[o].status = "confirmed"
    /\ intent[o] = "pending"
    /\ checkout[o] = "none"
    /\ Pays(o, "pending", "requested")

\* request_hosted_checkout_cancellation of a checkout that nobody sends.
CancelUnsentCheckout(o) ==
    /\ checkout[o] = "requested"
    /\ Pays(o, intent[o], "unsent")

ReopenPaymentAfterVerifiedClosure(o) ==
    /\ order[o].status = "confirmed"
    /\ intent[o] \in {"pending", "cancelled", "expired"}
    /\ checkout[o] \in {"unsent", "failed", "cancelled", "expired"}
    /\ Pays(o, "pending", checkout[o])

\* The task's hard limit is shorter than a lease: an expired lease is a dead dispatcher's.
Claimable(o) == checkout[o] \in {"requested", "abandoned"}
Eligible(o) == order[o].status = "confirmed" /\ intent[o] = "pending"

ClaimRequestedCheckout(o) ==
    /\ Claimable(o)
    /\ Eligible(o)
    /\ Pays(o, intent[o], "sending")

\* The other outcome of the claim, for an eligible payment when its account is inactive.
CloseIneligible(o) ==
    /\ Claimable(o)
    /\ Pays(o, IF order[o].status # "confirmed" /\ intent[o] \notin TerminalIntent
               THEN "cancelled" ELSE intent[o], "unsent")

ReleaseCheckoutLease(o) ==
    /\ checkout[o] = "sending"
    /\ Pays(o, intent[o], "requested")

DispatcherDies(o) ==
    /\ checkout[o] = "sending"
    /\ Pays(o, intent[o], "abandoned")

\* Mutation: the order is not read again.
ActivateForAnyOrder(o) ==
    /\ checkout[o] = "sending"
    /\ Pays(o, "awaiting_payment", "active")
\* An account switched off meanwhile asks for attention, too.
ActivateHostedCheckout(o) ==
    /\ checkout[o] = "sending"
    /\ \/ Eligible(o) /\ Pays(o, "awaiting_payment", "active")
       \/ Pays(o, "requires_attention", "active")

CommandStep(o) ==
    \/ CreatePaymentIntent(o)
    \/ RequestHostedCheckout(o)
    \/ CancelUnsentCheckout(o)
    \/ ReopenPaymentAfterVerifiedClosure(o)

DispatcherStep(o) ==
    \/ ClaimRequestedCheckout(o)
    \/ CloseIneligible(o)
    \/ ReleaseCheckoutLease(o)
    \/ DispatcherDies(o)
    \/ ActivateHostedCheckout(o)

(***************************************************************************)
(* The provider's answers: callbacks, the reconciliation a manager asks    *)
(* for and the cancellation of a checkout he asked for.  Each was read     *)
(* before the payment is locked, so any answer may meet any later state:   *)
(* more than the code applies, which refuses a stale reconciliation and a  *)
(* second outcome of one cancellation (see Payments).                      *)
(***************************************************************************)
Sources == {"callback", "reconciliation", "cancellation_worker"}

\* map_provider_status; an unknown status or another amount requires attention.
Answers == {"awaiting_payment", "processing", "paid", "cancelled", "expired", "failed",
            "requires_attention"}

\* The table of transitions refuses one open status the way back.
NonMonotonic(o, answer) ==
    \/ checkout[o] \in AnsweredCheckout /\ answer # checkout[o]
    \/ intent[o] \in TerminalIntent /\ answer # intent[o]
    \/ intent[o] = "processing" /\ answer = "awaiting_payment"

PaidOnCancelledOrder(o, answer, source) ==
    /\ source = "cancellation_worker"
    /\ order[o].status = "cancelled"
    /\ answer = "paid"

Target(o, answer, source) ==
    IF PaidOnCancelledOrder(o, answer, source) \/ NonMonotonic(o, answer)
    THEN "requires_attention"
    ELSE answer

Changes(o, answer, source) ==
    LET target == Target(o, answer, source) IN
    /\ intent[o] = "requires_attention" => source # "callback"
    /\ IF target = "failed" THEN checkout[o] # "failed" \/ intent[o] # "pending"
                            ELSE target # intent[o]

IntentAfter(o, target) == IF target = "failed" THEN "pending" ELSE target

CheckoutNeedingAttention(o, answer, source) ==
    IF checkout[o] \in AnsweredCheckout THEN checkout[o]
    ELSE IF PaidOnCancelledOrder(o, answer, source) /\ intent[o] \notin TerminalIntent
    THEN "paid"
    ELSE "processing"

CheckoutAfter(o, answer, source) ==
    LET target == Target(o, answer, source) IN
    IF target = "requires_attention" THEN CheckoutNeedingAttention(o, answer, source)
    ELSE IF target = "awaiting_payment" THEN "active"
    ELSE target

ApplyAnswer(o, answer, source) ==
    /\ checkout[o] \in KnownToProvider
    /\ Changes(o, answer, source)
    /\ Pays(o, IntentAfter(o, Target(o, answer, source)), CheckoutAfter(o, answer, source))
    /\ resolved' = IF source # "callback" THEN resolved \cup (settled \cap {o}) ELSE resolved

PaymentStep ==
    /\ \E o \in OrderIds :
        \/ CommandStep(o) /\ UNCHANGED resolved
        \/ DispatcherStep(o) /\ UNCHANGED resolved
        \/ \E answer \in Answers, source \in Sources : ApplyAnswer(o, answer, source)
    /\ UNCHANGED <<ordersVars, batch, settled>>

(***************************************************************************)
(* consume_order_cancellations                                             *)
(***************************************************************************)
\* Mutation: events that have a receipt are read again.
EveryCancellation == 1 .. Len(cancelled)
\* The events without a receipt, by their place in the outbox.
Unsettled == {k \in 1 .. Len(cancelled) : cancelled[k] \notin settled}

OldestUnsettled == {k \in Unsettled : Cardinality({j \in Unsettled : j <= k}) <= BatchLimit}

SelectCancellations(w) ==
    /\ batch[w] = {}
    /\ Unsettled # {}
    /\ batch' = [batch EXCEPT ![w] = OldestUnsettled]
    /\ UNCHANGED <<ordersVars, intent, checkout, settled, resolved>>

\* consume_order_cancelled: what becomes of the payment of a cancelled order.
Settlement(o) ==
    \/ /\ checkout[o] = "requested"
       /\ Pays(o, "cancelled", "unsent")
    \/ /\ checkout[o] # "requested"
       /\ intent[o] \in {"paid", "processing"} \/ checkout[o] \in OpenCheckout
       /\ Pays(o, "requires_attention", checkout[o])
    \/ /\ checkout[o] \notin OpenCheckout
       /\ intent[o] \in {"pending", "awaiting_payment"}
       /\ Pays(o, "cancelled", checkout[o])
    \/ /\ checkout[o] \notin OpenCheckout
       /\ intent[o] \in {"cancelled", "expired", "requires_attention"}
       /\ UNCHANGED <<intent, checkout>>

\* The next event of the batch: passed over when the order has no payment, without a
\* receipt, and when another worker has settled it; settled with its receipt otherwise.
ConsumeCancellation(w, k) ==
    LET o == cancelled[k] IN
    /\ k \in batch[w]
    /\ \A j \in batch[w] : k <= j
    /\ batch' = [batch EXCEPT ![w] = @ \ {k}]
    /\ \/ /\ intent[o] = "none" \/ o \in settled
          /\ UNCHANGED <<intent, checkout, settled>>
       \/ /\ intent[o] # "none"
          /\ o \notin settled
          /\ Settlement(o)
          /\ settled' = settled \cup {o}
    /\ UNCHANGED <<ordersVars, resolved>>

WorkerDies(w) ==
    /\ batch[w] # {}
    /\ batch' = [batch EXCEPT ![w] = {}]
    /\ UNCHANGED <<ordersVars, intent, checkout, settled, resolved>>

WorkerStep ==
    \E w \in Workers :
        \/ SelectCancellations(w)
        \/ \E k \in 1 .. Len(cancelled) : ConsumeCancellation(w, k)
        \/ WorkerDies(w)

Next ==
    \/ OrdersNext /\ UNCHANGED paymentVars
    \/ PaymentStep
    \/ WorkerStep

Spec == Init /\ [][Next]_vars

\* The beat starts the task every ten seconds and a worker does not die at every event.
Fairness ==
    \A w \in Workers :
        /\ WF_vars(SelectCancellations(w))
        /\ \A k \in 1 .. Cardinality(OrderIds) :
            SF_vars(k <= Len(cancelled) /\ ConsumeCancellation(w, k))

FairSpec == Spec /\ Fairness

(***************************************************************************)
(* Properties                                                              *)
(***************************************************************************)

\* Once a cancellation has its receipt its payment is closed or asks for attention, and a
\* checkout the customer may still pay is never behind a closed payment: no dispatcher that
\* was sending it, no callback and no other worker waits for money again. Only an answer
\* that was asked for, of a manager's reconciliation or cancellation, ends this when it comes
\* after the settlement: "failed" leaves the payment pending, against PAYMENTS.md:151.
SettledStays ==
    \A o \in settled \ resolved :
        /\ intent[o] \in {"cancelled", "expired", "requires_attention"}
        /\ checkout[o] \in OpenCheckout => intent[o] = "requires_attention"

\* The cancellations of orders without a payment, which never get a receipt.
Unpayable == {o \in OrderIds : order[o].status = "cancelled" /\ intent[o] = "none"}

\* The cancellation of every order with a payment is consumed in the end, whichever worker
\* dies with which batch, unless orders without a payment fill the whole batch: without
\* that escape it does not hold, a paid order's cancellation may wait behind them for ever.
CancellationReachesPayment ==
    \A o \in OrderIds :
        order[o].status = "cancelled" /\ intent[o] # "none" ~>
            o \in settled \/ Cardinality(Unpayable) >= BatchLimit
=============================================================================

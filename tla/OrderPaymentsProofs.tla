------------------------ MODULE OrderPaymentsProofs ------------------------
(***************************************************************************)
(* SettledStays for any orders, sellers, workers and batch limit.  The     *)
(* inductive invariant adds that a settled order is cancelled: that is     *)
(* what keeps a dispatcher that comes back late, and a manager who reopens *)
(* the payment, from waiting for money again.                              *)
(***************************************************************************)
EXTENDS OrderPayments, OrdersProofs, TLAPS

PaymentsTypeOK ==
    /\ intent \in [OrderIds -> IntentStatus]
    /\ checkout \in [OrderIds -> CheckoutStatus]
    /\ settled \in SUBSET OrderIds

SettledInv ==
    /\ OrdersTypeOK
    /\ PaymentsTypeOK
    /\ OneCancellationEvent
    /\ \A o \in settled : order[o].status = "cancelled"
    /\ SettledStays

Closed(i, c) ==
    /\ i \in {"cancelled", "expired", "requires_attention"}
    /\ c \in OpenCheckout => i = "requires_attention"

LEMMA SettledInitially == Init => SettledInv
<1> SUFFICES ASSUME Init PROVE SettledInv
    OBVIOUS
<1>1. OrdersTypeOK
    BY OrdersTypeInitially DEF Init
<1>2. PaymentsTypeOK
    BY DEF Init, PaymentsTypeOK, IntentStatus, CheckoutStatus
<1>3. OneCancellationEvent
    BY DEF Init, OrdersInit, NoOrder, OneCancellationEvent
<1> QED
    BY <1>1, <1>2, <1>3 DEF Init, SettledInv, SettledStays

\* A seller changes no cancelled order and no payment.
LEMMA SellersKeepSettled ==
    ASSUME SettledInv, OrdersNext, UNCHANGED paymentVars
    PROVE  SettledInv'
<1>1. OrdersTypeOK' /\ OneCancellationEvent'
    BY OrdersTypeStep, OneEventStep DEF SettledInv
<1>2. \A o \in settled : order'[o].status = "cancelled"
    BY CancelledStays DEF SettledInv, PaymentsTypeOK
<1> QED
    BY <1>1, <1>2 DEF SettledInv, PaymentsTypeOK, SettledStays, paymentVars

\* What one write of a payment owes to the invariant.
LEMMA PaysKeepsSettled ==
    ASSUME SettledInv, NEW o \in OrderIds,
           NEW i \in IntentStatus, NEW c \in CheckoutStatus, Pays(o, i, c),
           UNCHANGED <<ordersVars, settled>>, resolved \subseteq resolved',
           o \in settled \ resolved' => Closed(i, c)
    PROVE  SettledInv'
<1>1. OrdersTypeOK' /\ OneCancellationEvent'
    BY DEF SettledInv, OrdersTypeOK, OneCancellationEvent, ordersVars
<1>2. PaymentsTypeOK'
    BY DEF SettledInv, PaymentsTypeOK, Pays
<1>3. SettledStays'
    <2> SUFFICES ASSUME NEW p \in settled \ resolved'
                 PROVE  Closed(intent'[p], checkout'[p])
        BY DEF SettledStays, Closed
    <2>1. p \in OrderIds /\ Closed(intent[p], checkout[p])
        BY DEF SettledInv, PaymentsTypeOK, SettledStays, Closed
    <2>2. CASE p = o
        BY <2>2 DEF Pays, SettledInv, PaymentsTypeOK
    <2>3. CASE p # o
        BY <2>1, <2>3 DEF Pays, SettledInv, PaymentsTypeOK
    <2> QED
        BY <2>2, <2>3
<1> QED
    BY <1>1, <1>2, <1>3 DEF SettledInv, ordersVars

\* A command on a settled payment only closes the checkout that nobody sends.
LEMMA CommandsKeepSettled ==
    ASSUME SettledInv, NEW o \in OrderIds, CommandStep(o),
           UNCHANGED <<ordersVars, settled, resolved>>
    PROVE  SettledInv'
<1>1. intent[o] \in IntentStatus /\ checkout[o] \in CheckoutStatus
    BY DEF SettledInv, PaymentsTypeOK
<1>2. o \in settled => order[o].status = "cancelled"
    BY DEF SettledInv
<1>3. o \in settled \ resolved => Closed(intent[o], checkout[o])
    BY DEF SettledInv, SettledStays, Closed
<1>4. CASE CreatePaymentIntent(o)
    BY <1>2, <1>4, PaysKeepsSettled DEF CreatePaymentIntent, IntentStatus, CheckoutStatus
<1>5. CASE RequestHostedCheckout(o)
    BY <1>2, <1>5, PaysKeepsSettled DEF RequestHostedCheckout, IntentStatus, CheckoutStatus
<1>6. CASE CancelUnsentCheckout(o)
    <2>1. o \in settled \ resolved => Closed(intent[o], "unsent")
        BY <1>3 DEF Closed, OpenCheckout
    <2>2. "unsent" \in CheckoutStatus
        BY DEF CheckoutStatus
    <2> QED
        BY <1>1, <1>6, <2>1, <2>2, PaysKeepsSettled DEF CancelUnsentCheckout
<1>7. CASE ReopenPaymentAfterVerifiedClosure(o)
    <2>1. "pending" \in IntentStatus
        BY DEF IntentStatus
    <2>2. Pays(o, "pending", checkout[o]) /\ o \notin settled
        BY <1>2, <1>7 DEF ReopenPaymentAfterVerifiedClosure
    <2> QED
        BY <1>1, <2>1, <2>2, PaysKeepsSettled
<1> QED
    BY <1>4, <1>5, <1>6, <1>7 DEF CommandStep

\* A dispatcher that comes back to a settled payment asks for attention or closes it.
LEMMA DispatchersKeepSettled ==
    ASSUME SettledInv, NEW o \in OrderIds, DispatcherStep(o),
           UNCHANGED <<ordersVars, settled, resolved>>
    PROVE  SettledInv'
<1>1. intent[o] \in IntentStatus /\ checkout[o] \in CheckoutStatus
    BY DEF SettledInv, PaymentsTypeOK
<1>2. o \in settled => order[o].status = "cancelled"
    BY DEF SettledInv
<1>3. o \in settled \ resolved => Closed(intent[o], checkout[o])
    BY DEF SettledInv, SettledStays, Closed
<1>4. /\ {"awaiting_payment", "requires_attention", "cancelled"} \subseteq IntentStatus
      /\ {"requested", "sending", "abandoned", "active", "unsent"} \subseteq CheckoutStatus
    BY DEF IntentStatus, CheckoutStatus
<1>5. CASE ClaimRequestedCheckout(o)
    <2>1. Pays(o, intent[o], "sending") /\ o \notin settled
        BY <1>2, <1>5 DEF ClaimRequestedCheckout, Eligible
    <2> QED
        BY <1>1, <1>4, <2>1, PaysKeepsSettled
<1>6. CASE CloseIneligible(o)
    <2> DEFINE i == IF order[o].status # "confirmed" /\ intent[o] \notin TerminalIntent
                    THEN "cancelled" ELSE intent[o]
    <2>1. Pays(o, i, "unsent")
        BY <1>6 DEF CloseIneligible
    <2>2. i \in IntentStatus
        BY <1>1, <1>4
    <2>3. o \in settled \ resolved => Closed(i, "unsent")
        BY <1>3 DEF Closed, OpenCheckout
    <2> HIDE DEF i
    <2> QED
        BY <1>4, <2>1, <2>2, <2>3, PaysKeepsSettled
<1>7. CASE checkout[o] = "sending" /\ \E c \in {"requested", "abandoned"} : Pays(o, intent[o], c)
    <2>1. PICK c \in {"requested", "abandoned"} : Pays(o, intent[o], c)
        BY <1>7
    <2>2. o \in settled \ resolved => Closed(intent[o], c)
        BY <1>3, <1>7 DEF Closed, OpenCheckout
    <2> QED
        BY <1>1, <1>4, <2>1, <2>2, PaysKeepsSettled
<1>8. CASE ActivateHostedCheckout(o)
    <2>1. CASE Eligible(o) /\ Pays(o, "awaiting_payment", "active")
        <3>1. o \notin settled
            BY <1>2, <2>1 DEF Eligible
        <3> QED
            BY <1>4, <2>1, <3>1, PaysKeepsSettled
    <2>2. CASE Pays(o, "requires_attention", "active")
        <3>1. Closed("requires_attention", "active")
            BY DEF Closed
        <3> QED
            BY <1>4, <2>2, <3>1, PaysKeepsSettled
    <2> QED
        BY <1>8, <2>1, <2>2 DEF ActivateHostedCheckout
<1>9. CASE ReleaseCheckoutLease(o)
    BY <1>7, <1>9 DEF ReleaseCheckoutLease
<1>10. CASE DispatcherDies(o)
    BY <1>7, <1>10 DEF DispatcherDies
<1> QED
    BY <1>5, <1>6, <1>8, <1>9, <1>10 DEF DispatcherStep

\* A callback finds a settled payment locked, or closed: there it may only ask for
\* attention. The other answers are remembered in resolved.
LEMMA AnswersKeepSettled ==
    ASSUME SettledInv, NEW o \in OrderIds, NEW answer \in Answers, NEW source \in Sources,
           ApplyAnswer(o, answer, source), UNCHANGED <<ordersVars, settled>>
    PROVE  SettledInv'
<1> DEFINE target == Target(o, answer, source)
           i == IntentAfter(o, target)
           c == CheckoutAfter(o, answer, source)
<1>1. Pays(o, i, c) /\ Changes(o, answer, source)
    BY DEF ApplyAnswer
<1>2. target \in Answers
    BY DEF Target, Answers
<1>3. i \in IntentStatus
    BY <1>2 DEF IntentAfter, IntentStatus, Answers
<1>4. c \in CheckoutStatus
    <2>1. CASE target = "awaiting_payment"
        BY <2>1 DEF CheckoutAfter, CheckoutStatus
    <2>2. CASE target \notin {"awaiting_payment", "requires_attention"}
        <3>1. c = target
            BY <2>2 DEF CheckoutAfter
        <3> QED
            BY <1>2, <2>2, <3>1 DEF Answers, CheckoutStatus
    <2>3. CASE target = "requires_attention"
        <3>1. c \in AnsweredCheckout \cup {"paid", "processing"}
            BY <2>3 DEF CheckoutAfter, CheckoutNeedingAttention
        <3> QED
            BY <3>1 DEF AnsweredCheckout, CheckoutStatus
    <2> QED
        BY <2>1, <2>2, <2>3
<1>5. resolved \subseteq resolved'
    BY DEF ApplyAnswer
<1>6. ASSUME o \in settled \ resolved'
      PROVE  Closed(i, c)
    <2>1. source = "callback"
        BY <1>6 DEF ApplyAnswer
    <2>2. intent[o] \in {"cancelled", "expired"}
        BY <1>1, <1>5, <1>6, <2>1 DEF SettledInv, SettledStays, Changes
    <2>3. answer # intent[o] => target = "requires_attention"
        BY <2>2 DEF Target, NonMonotonic, TerminalIntent
    <2>4. target = "requires_attention"
        BY <1>1, <2>1, <2>2, <2>3 DEF Changes, Target
    <2> QED
        BY <2>4 DEF IntentAfter, Closed
<1> HIDE DEF i, c
<1> QED
    BY <1>1, <1>3, <1>4, <1>5, <1>6, PaysKeepsSettled

LEMMA PaymentsKeepSettled ==
    ASSUME SettledInv, PaymentStep
    PROVE  SettledInv'
<1>1. UNCHANGED <<ordersVars, settled>>
    BY DEF PaymentStep
<1>2. PICK o \in OrderIds :
        \/ CommandStep(o) /\ UNCHANGED resolved
        \/ DispatcherStep(o) /\ UNCHANGED resolved
        \/ \E answer \in Answers, source \in Sources : ApplyAnswer(o, answer, source)
    BY DEF PaymentStep
<1> QED
    BY <1>1, <1>2, CommandsKeepSettled, DispatchersKeepSettled, AnswersKeepSettled

\* Every case of the settlement closes the payment or asks for attention.
LEMMA SettlementSettles ==
    ASSUME PaymentsTypeOK, NEW o \in OrderIds, Settlement(o)
    PROVE  \E i \in IntentStatus, c \in CheckoutStatus : Pays(o, i, c) /\ Closed(i, c)
<1>1. intent[o] \in IntentStatus /\ checkout[o] \in CheckoutStatus
    BY DEF PaymentsTypeOK
<1>2. CASE checkout[o] = "requested" /\ Pays(o, "cancelled", "unsent")
    BY <1>2 DEF Closed, OpenCheckout, IntentStatus, CheckoutStatus
<1>3. CASE Pays(o, "requires_attention", checkout[o])
    BY <1>1, <1>3 DEF Closed, IntentStatus
<1>4. CASE checkout[o] \notin OpenCheckout /\ Pays(o, "cancelled", checkout[o])
    BY <1>1, <1>4 DEF Closed, IntentStatus
<1>5. CASE /\ checkout[o] \notin OpenCheckout
           /\ intent[o] \in {"cancelled", "expired", "requires_attention"}
           /\ UNCHANGED <<intent, checkout>>
    <2>1. Pays(o, intent[o], checkout[o])
        BY <1>5 DEF Pays, PaymentsTypeOK
    <2>2. Closed(intent[o], checkout[o])
        BY <1>5 DEF Closed
    <2> QED
        BY <1>1, <2>1, <2>2
<1> QED
    BY <1>2, <1>3, <1>4, <1>5 DEF Settlement

LEMMA WorkersKeepSettled ==
    ASSUME SettledInv, NEW w \in Workers, NEW k \in 1 .. Len(cancelled), ConsumeCancellation(w, k)
    PROVE  SettledInv'
<1> DEFINE o == cancelled[k]
<1>1. o \in OrderIds /\ order[o].status = "cancelled"
    BY DEF SettledInv, OrdersTypeOK, OneCancellationEvent
<1>2. UNCHANGED <<ordersVars, resolved>>
    BY DEF ConsumeCancellation
<1>3. OrdersTypeOK' /\ OneCancellationEvent'
    BY <1>2 DEF SettledInv, OrdersTypeOK, OneCancellationEvent, ordersVars
<1>4. CASE UNCHANGED <<intent, checkout, settled>>
    BY <1>2, <1>3, <1>4 DEF SettledInv, PaymentsTypeOK, SettledStays, ordersVars
<1>5. CASE Settlement(o) /\ settled' = settled \cup {o}
    <2>1. PICK i \in IntentStatus, c \in CheckoutStatus : Pays(o, i, c) /\ Closed(i, c)
        BY <1>1, <1>5, SettlementSettles DEF SettledInv
    <2>2. PaymentsTypeOK'
        BY <1>1, <1>5, <2>1 DEF SettledInv, PaymentsTypeOK, Pays
    <2>3. SettledStays'
        <3> SUFFICES ASSUME NEW p \in settled' \ resolved
                     PROVE  Closed(intent'[p], checkout'[p])
            BY <1>2 DEF SettledStays, Closed
        <3>1. CASE p = o
            BY <1>1, <2>1, <3>1 DEF Pays, SettledInv, PaymentsTypeOK
        <3>2. CASE p # o
            <4>1. p \in OrderIds /\ Closed(intent[p], checkout[p])
                BY <1>5, <3>2 DEF SettledInv, PaymentsTypeOK, SettledStays, Closed
            <4> QED
                BY <2>1, <3>2, <4>1 DEF Pays, SettledInv, PaymentsTypeOK
        <3> QED
            BY <3>1, <3>2
    <2>4. \A p \in settled' : order'[p].status = "cancelled"
        BY <1>1, <1>2, <1>5 DEF SettledInv, ordersVars
    <2> QED
        BY <1>3, <2>2, <2>3, <2>4 DEF SettledInv
<1> QED
    BY <1>4, <1>5 DEF ConsumeCancellation

LEMMA SettledStep == SettledInv /\ [Next]_vars => SettledInv'
<1> SUFFICES ASSUME SettledInv, [Next]_vars PROVE SettledInv'
    OBVIOUS
<1>1. CASE UNCHANGED <<order, orderPage, cancelled, intent, checkout, settled, resolved>>
    BY <1>1 DEF SettledInv, OrdersTypeOK, PaymentsTypeOK, OneCancellationEvent, SettledStays
<1>2. CASE WorkerStep
    BY <1>1, <1>2, WorkersKeepSettled DEF WorkerStep, SelectCancellations, WorkerDies, ordersVars
<1>3. CASE UNCHANGED vars
    BY <1>1, <1>3 DEF vars, ordersVars, paymentVars
<1> QED
    BY <1>2, <1>3, SellersKeepSettled, PaymentsKeepSettled DEF Next

\* A cancellation that has its receipt left the payment closed or asking for attention, and
\* no dispatcher, callback, other worker or reopening undoes it; only an answer asked for
\* afterwards may.
THEOREM SettledStaysHolds == Spec => []SettledStays
<1>1. SettledInv => SettledStays
    BY DEF SettledInv
<1> QED
    BY <1>1, SettledInitially, SettledStep, PTL DEF Spec
=============================================================================

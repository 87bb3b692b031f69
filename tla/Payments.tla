------------------------------ MODULE Payments ------------------------------
(***************************************************************************)
(* apps/payments: one PaymentIntent of one Order, its hosted checkout      *)
(* attempts, the Celery workers that call the payment provider outside any *)
(* transaction, the provider callbacks, the manager's commands and the     *)
(* consumer of order.cancelled.                                            *)
(*                                                                         *)
(* Every service function of services.py is one @transaction.atomic body   *)
(* that locks Order, PaymentIntent and PaymentAttempt in this order, so it *)
(* is one action.  What is NOT atomic is a dispatch: claim (transaction),  *)
(* provider call (I/O), apply or release (transaction); between two of     *)
(* those steps anyone may run and the worker process may die.              *)
(*                                                                         *)
(* Intents do not interact (each transaction locks one), so the model has  *)
(* one.  PaymentIntent.version is represented by manager.fresh: it is TRUE *)
(* while the version the manager's request carries is still current.       *)
(***************************************************************************)
EXTENDS Naturals, FiniteSets

CONSTANTS
    MaxAttempts,         \* bound: checkouts requested for the intent
    MaxCancels,          \* bound: cancellation requests per attempt
    Workers,             \* Celery worker processes of the queue "integrations"
    Deliveries,          \* HTTP handlers of provider callbacks
    RequestIds,          \* X-Request-Id values the provider signs
    ProviderStatuses,    \* answers the provider may give, see AllProviderStatuses
    LeaseOutlivesWorker, \* the 90 s lease exceeds the 60 s task hard limit
    AccountMayChange,    \* the provider account is switched off and on
    NoWorker

AllProviderStatuses ==
    {"pending", "in_process", "approved", "cancelled", "rejected", "expired",
     "refunded", "divergent", "unknown"}

ASSUME MaxAttemptsAssumption == MaxAttempts \in Nat \ {0}
ASSUME MaxCancelsAssumption == MaxCancels \in Nat
ASSUME NoWorkerAssumption == NoWorker \notin Workers
ASSUME SwitchAssumption ==
    LeaseOutlivesWorker \in BOOLEAN /\ AccountMayChange \in BOOLEAN
ASSUME ProviderAssumption ==
    /\ ProviderStatuses \subseteq AllProviderStatuses
    /\ "pending" \in ProviderStatuses

Attempts == 1 .. MaxAttempts

VARIABLES
    order,             \* Order.status, as payments reads it
    accountActive,     \* PaymentProviderAccount.is_active
    intent,            \* PaymentIntent.status, "none" before it exists
    att,               \* the PaymentAttempt rows, "none" before they exist
    activation,        \* receipts of activate_hosted_checkout: event -> attempt
    cancelHistory,     \* cancellation events that already own a history row
    callbackReceipts,  \* PaymentWebhookReceipt rows
    consumed,          \* receipt of payment_consume_order_cancelled
    manager,           \* a fetch_and_reconcile between fetch and apply
    delivery,          \* callbacks between the authoritative read and apply
    worker,            \* the Celery workers
    link               \* the provider's resource of each attempt (external)

rows == <<intent, att>>
receiptVars == <<activation, cancelHistory, callbackReceipts, consumed>>
outside == <<order, accountActive>>
vars == <<order, accountActive, intent, att, activation, cancelHistory,
          callbackReceipts, consumed, manager, delivery, worker, link>>

(***************************************************************************)
(* Statuses                                                                *)
(***************************************************************************)

IntentStatus ==
    {"pending", "awaiting_payment", "processing", "paid", "cancelled",
     "expired", "requires_attention"}
TerminalIntent == {"paid", "cancelled", "expired"}

OpenAttempt == {"requested", "active", "processing"}
ClosedAttempt == {"paid", "failed", "cancelled", "expired"}
AttemptStatus == OpenAttempt \cup ClosedAttempt

Open(a) == att[a].st \in OpenAttempt
Created(a) == att[a].st # "none"
\* Mutation: a requested attempt does not count as open.
NoActiveAttempt == \A a \in Attempts : att[a].st \notin {"active", "processing"}
NoOpenAttempt == \A a \in Attempts : ~Open(a)
\* Mutation: the lease of a dispatcher in a provider call is not looked at.
JustRequested(a) == att[a].st = "requested"
NotInFlight(a) == att[a].st = "requested" /\ att[a].lease = NoWorker
IsNext(a) == /\ ~Created(a)
             /\ \A b \in Attempts : b < a => Created(b)
IsLatest(a) == /\ Created(a)
               /\ \A b \in Attempts : b > a => ~Created(b)

NoAttempt == [st |-> "none", ext |-> FALSE, lease |-> NoWorker, live |-> FALSE,
              backoff |-> FALSE, cancel |-> 0, cancelDone |-> FALSE]
NewAttempt == [NoAttempt EXCEPT !.st = "requested"]
Leased(a, w) == [att[a] EXCEPT !.lease = w, !.live = TRUE]
Unleased(a) == [att[a] EXCEPT !.lease = NoWorker, !.live = FALSE]
SetAttempt(a, row) == att' = [att EXCEPT ![a] = row]
SetStatus(a, st) == SetAttempt(a, [att[a] EXCEPT !.st = st])

CancelPending(a) == att[a].cancel > 0 /\ ~att[a].cancelDone

(***************************************************************************)
(* Worker, delivery and manager control states                             *)
(***************************************************************************)

IdleWorker == [pc |-> "idle", at |-> 1, evt |-> 0, last |-> 0, got |-> "none"]
IdleDelivery == [at |-> 0, rid |-> "none", got |-> "none"]
IdleManager == [at |-> 0, got |-> "none", fresh |-> FALSE]

Bump == manager' = [manager EXCEPT !.fresh = FALSE]

\* The worker is past its claim and has not yet applied or released.
LeasePhase == {"create", "activate", "cancel_call", "cancel_apply", "release"}
Holding(w, a) == worker[w].pc \in LeasePhase /\ worker[w].at = a

\* The next event of the batch list, or the end of the task.
NextItem(w) ==
    IF worker[w].evt < worker[w].last
    THEN [worker[w] EXCEPT !.pc = "item", !.evt = @ + 1, !.at = 1]
    ELSE IdleWorker

SetWorker(w, state) == worker' = [worker EXCEPT ![w] = state]
Step(w, pc) == SetWorker(w, [worker[w] EXCEPT !.pc = pc])
Finish(w) == SetWorker(w, NextItem(w))

(***************************************************************************)
(* Provider evidence: _apply_resource_to_locked_attempt and                *)
(* _canonical_transition                                                   *)
(***************************************************************************)

\* map_provider_status, plus the amount and currency comparison; "unknown"
\* reaches here only from the cancellation worker.
ProviderStatusMapping ==
    [pending   |-> "awaiting_payment", in_process |-> "processing", approved |-> "paid",
     cancelled |-> "cancelled",        rejected   |-> "failed",     expired  |-> "expired"]

Mapped(s) ==
    IF s \in DOMAIN ProviderStatusMapping THEN ProviderStatusMapping[s]
    ELSE "requires_attention"

MonotonicProviderTransitions ==
    [pending          |-> {"awaiting_payment", "processing", "paid", "cancelled",
                           "expired", "requires_attention"},
     awaiting_payment |-> {"processing", "paid", "cancelled", "expired",
                           "requires_attention"},
     processing       |-> {"paid", "cancelled", "expired", "requires_attention"}]

\* Mutation: the outcome the attempt closed with is not looked at.
RegressiveForIntent(a, target) ==
    \/ intent \in TerminalIntent /\ target # intent
    \/ /\ intent \in DOMAIN MonotonicProviderTransitions
       /\ target \notin {intent, "failed"} \cup MonotonicProviderTransitions[intent]
\* Mutation: the outcome the intent ended with is not looked at.
RegressiveForAttempt(a, target) ==
    \/ att[a].st \in ClosedAttempt /\ target # att[a].st
    \/ /\ intent \in DOMAIN MonotonicProviderTransitions
       /\ target \notin {intent, "failed"} \cup MonotonicProviderTransitions[intent]

Regressive(a, target) ==
    \/ att[a].st \in ClosedAttempt /\ target # att[a].st
    \/ intent \in TerminalIntent /\ target # intent
    \/ /\ intent \in DOMAIN MonotonicProviderTransitions
       /\ target \notin {intent, "failed"} \cup MonotonicProviderTransitions[intent]

PaidOnCancelledOrder(s, source) ==
    source = "cancellation_worker" /\ order = "cancelled" /\ Mapped(s) = "paid"

Target(a, s, source) ==
    IF PaidOnCancelledOrder(s, source) \/ Regressive(a, Mapped(s))
    THEN "requires_attention"
    ELSE Mapped(s)

Locked(source) == intent = "requires_attention" /\ source = "provider_callback"

Changes(a, s, source) ==
    LET target == Target(a, s, source) IN
    /\ ~Locked(source)
    /\ IF target = "failed"
       THEN att[a].st # "failed" \/ intent # "pending"
       ELSE target # intent

\* Mutation: the result "failed" is written on the intent, too.
ResultVerbatim(a, s, source) == Target(a, s, source)

IntentAfter(a, s, source) ==
    LET target == Target(a, s, source) IN
    IF target = "failed" THEN "pending" ELSE target

\* Mutation: a closed attempt is processed again when attention is required.
AttemptReprocessed(a, s, source) == "processing"

AttemptNeedingAttention(a, s, source) ==
    IF att[a].st \in ClosedAttempt THEN att[a].st
    ELSE IF PaidOnCancelledOrder(s, source) /\ intent \notin TerminalIntent
    THEN "paid"
    ELSE "processing"

AttemptAfter(a, s, source) ==
    LET target == Target(a, s, source) IN
    IF target = "requires_attention" THEN AttemptNeedingAttention(a, s, source)
    ELSE IF target = "awaiting_payment" THEN "active"
    ELSE target

ApplyResource(a, s, source) ==
    IF Changes(a, s, source)
    THEN /\ intent' = IntentAfter(a, s, source)
         /\ SetStatus(a, AttemptAfter(a, s, source))
    ELSE UNCHANGED rows

(***************************************************************************)
(* Initial state                                                           *)
(***************************************************************************)

Init ==
    /\ order = "confirmed"
    /\ accountActive = TRUE
    /\ intent = "none"
    /\ att = [a \in Attempts |-> NoAttempt]
    /\ activation = [e \in Attempts |-> 0]
    /\ cancelHistory = {}
    /\ callbackReceipts = {}
    /\ consumed = FALSE
    /\ manager = IdleManager
    /\ delivery = [d \in Deliveries |-> IdleDelivery]
    /\ worker = [w \in Workers |-> IdleWorker]
    /\ link = [a \in Attempts |-> "none"]

(***************************************************************************)
(* The manager's commands.  A replayed command returns its receipt and     *)
(* changes nothing; a stale expected_version is refused.                   *)
(***************************************************************************)

CreatePaymentIntent ==
    /\ intent = "none"
    /\ order = "confirmed"
    /\ intent' = "pending"
    /\ UNCHANGED <<outside, att, receiptVars, manager, delivery, worker, link>>

RequestHostedCheckout ==
    /\ order = "confirmed"
    /\ intent = "pending"
    /\ accountActive
    /\ NoOpenAttempt
    /\ \E a \in Attempts :
          /\ IsNext(a)
          /\ SetAttempt(a, NewAttempt)
    /\ Bump
    /\ UNCHANGED <<outside, intent, receiptVars, delivery, worker, link>>

RequestHostedCheckoutCancellation ==
    /\ \E a \in Attempts :
          /\ Open(a)
          /\ ~CancelPending(a)
          /\ \/ /\ NotInFlight(a)
                /\ SetAttempt(a, [att[a] EXCEPT !.st = "cancelled", !.backoff = FALSE])
             \/ /\ ~NotInFlight(a)
                /\ att[a].cancel < MaxCancels
                /\ SetAttempt(a, [att[a] EXCEPT !.cancel = @ + 1, !.cancelDone = FALSE])
    /\ Bump
    /\ UNCHANGED <<outside, intent, receiptVars, delivery, worker, link>>

ReopenPaymentAfterVerifiedClosure ==
    /\ order = "confirmed"
    /\ intent \in {"pending", "cancelled", "expired"}
    /\ NoOpenAttempt
    /\ \E a \in Attempts :
          IsLatest(a) /\ att[a].st \in {"failed", "cancelled", "expired"}
    /\ intent' = "pending"
    /\ Bump
    /\ UNCHANGED <<outside, att, receiptVars, delivery, worker, link>>

\* fetch_and_reconcile up to the provider's answer: no row is locked.
FetchForReconciliation ==
    /\ manager = IdleManager
    /\ accountActive
    /\ \E a \in Attempts :
          /\ att[a].ext
          /\ \A b \in Attempts : b > a => ~att[b].ext
          /\ manager' = [at |-> a, got |-> link[a], fresh |-> TRUE]
    /\ UNCHANGED <<outside, rows, receiptVars, delivery, worker, link>>

ReconcileVerifiedResource ==
    /\ manager # IdleManager
    /\ manager.fresh /\ manager.got # "unknown"
    /\ ApplyResource(manager.at, manager.got, "reconciliation")
    /\ manager' = IdleManager
    /\ UNCHANGED <<outside, receiptVars, delivery, worker, link>>

RefuseReconciliation ==
    /\ manager # IdleManager
    /\ ~manager.fresh \/ manager.got = "unknown"
    /\ manager' = IdleManager
    /\ UNCHANGED <<outside, rows, receiptVars, delivery, worker, link>>

(***************************************************************************)
(* Provider callbacks                                                      *)
(***************************************************************************)

\* process_mercado_pago_callback up to the authoritative read.
ReadForCallback(d) ==
    /\ delivery[d] = IdleDelivery
    /\ accountActive
    /\ \E a \in Attempts, r \in RequestIds :
          /\ link[a] # "none"
          /\ <<a, r>> \notin callbackReceipts
          /\ delivery' = [delivery EXCEPT ![d] = [at |-> a, rid |-> r, got |-> link[a]]]
    /\ UNCHANGED <<outside, rows, receiptVars, manager, worker, link>>

CallbackAcceptable(d) ==
    /\ accountActive
    /\ att[delivery[d].at].ext
    /\ <<delivery[d].at, delivery[d].rid>> \notin callbackReceipts
    /\ delivery[d].got # "unknown"

ApplyVerifiedProviderResource(d) ==
    /\ delivery[d] # IdleDelivery
    /\ CallbackAcceptable(d)
    /\ ApplyResource(delivery[d].at, delivery[d].got, "provider_callback")
    /\ IF Changes(delivery[d].at, delivery[d].got, "provider_callback")
       THEN Bump ELSE UNCHANGED manager
    /\ callbackReceipts' = callbackReceipts \cup {<<delivery[d].at, delivery[d].rid>>}
    /\ delivery' = [delivery EXCEPT ![d] = IdleDelivery]
    /\ UNCHANGED <<outside, activation, cancelHistory, consumed, worker, link>>

RefuseCallback(d) ==
    /\ delivery[d] # IdleDelivery
    /\ ~CallbackAcceptable(d)
    /\ delivery' = [delivery EXCEPT ![d] = IdleDelivery]
    /\ UNCHANGED <<outside, rows, receiptVars, manager, worker, link>>

(***************************************************************************)
(* Order cancellation                                                      *)
(***************************************************************************)

\* orders.services.cancel_order: the order and the event order.cancelled.
CancelOrder ==
    /\ order = "confirmed"
    /\ order' = "cancelled"
    /\ UNCHANGED <<accountActive, rows, receiptVars, manager, delivery, worker, link>>

\* consume_order_cancellations, for the event of this order.
ConsumeOrderCancelled ==
    /\ order = "cancelled"
    /\ ~consumed
    /\ intent # "none"
    /\ consumed' = TRUE
    /\ \/ \E a \in Attempts :
             /\ NotInFlight(a)
             /\ SetStatus(a, "cancelled")
             /\ intent' = "cancelled"
             /\ Bump
       \/ /\ \A a \in Attempts : ~NotInFlight(a)
          /\ intent \in {"paid", "processing"} \/ ~NoOpenAttempt
          /\ intent' = "requires_attention"
          /\ Bump /\ UNCHANGED att
       \/ /\ intent \in {"pending", "awaiting_payment"}
          /\ NoOpenAttempt
          /\ intent' = "cancelled"
          /\ Bump /\ UNCHANGED att
       \/ /\ intent \in {"cancelled", "expired", "requires_attention"}
          /\ NoOpenAttempt
          /\ UNCHANGED <<rows, manager>>
    /\ UNCHANGED <<outside, activation, cancelHistory, callbackReceipts, delivery,
                   worker, link>>

(***************************************************************************)
(* Dispatch of requested checkouts                                         *)
(*                                                                         *)
(* dispatch_checkout_events lists the checkout_requested events of intents *)
(* with an attempt waiting to be sent, oldest first, whatever became of    *)
(* the attempt each event was written for; event e is attempt e's.         *)
(***************************************************************************)

PollCheckouts(w) ==
    /\ worker[w] = IdleWorker
    /\ \E a \in Attempts : att[a].st = "requested" /\ ~att[a].backoff
    /\ \E n \in Attempts :
          /\ IsLatest(n)
          /\ SetWorker(w, [IdleWorker EXCEPT !.pc = "item", !.evt = 1, !.last = n])
    /\ UNCHANGED <<outside, rows, receiptVars, manager, delivery, link>>

\* Mutation: a lease is not looked at, or only its token and never its expiry.
ClaimableWhileLeased(a) == ~att[a].backoff
ClaimableOnce(a) == ~att[a].backoff /\ att[a].lease = NoWorker
Claimable(a) == ~att[a].backoff /\ ~att[a].live
DispatchEligible == order = "confirmed" /\ intent = "pending" /\ accountActive

SkipItem(w) ==
    /\ worker[w].pc = "item"
    /\ \A a \in Attempts : att[a].st = "requested" => ~Claimable(a)
    /\ Finish(w)
    /\ UNCHANGED <<outside, rows, receiptVars, manager, delivery, link>>

ClaimRequestedCheckout(w) ==
    /\ worker[w].pc = "item"
    /\ DispatchEligible
    /\ \E a \in Attempts :
          /\ att[a].st = "requested" /\ Claimable(a)
          /\ SetAttempt(a, Leased(a, w))
          /\ SetWorker(w, [worker[w] EXCEPT !.pc = "create", !.at = a])
    /\ UNCHANGED <<outside, intent, receiptVars, manager, delivery, link>>

\* The other outcome of claim_requested_checkout: the attempt is closed without
\* a provider call.  A lease token left by an earlier dispatcher stays.
CloseIneligible(w) ==
    /\ worker[w].pc = "item"
    /\ ~DispatchEligible
    /\ \E a \in Attempts :
          /\ att[a].st = "requested" /\ Claimable(a)
          /\ \/ /\ order = "cancelled"
                /\ SetStatus(a, "cancelled")
                /\ intent' = IF intent \in TerminalIntent THEN intent ELSE "cancelled"
                /\ IF intent \in TerminalIntent THEN UNCHANGED manager ELSE Bump
             \/ /\ order = "confirmed" /\ intent # "pending"
                /\ SetStatus(a, "cancelled")
                /\ UNCHANGED <<intent, manager>>
             \/ /\ order = "confirmed" /\ intent = "pending" /\ ~accountActive
                /\ SetStatus(a, "failed")
                /\ Bump /\ UNCHANGED intent
    /\ Finish(w)
    /\ UNCHANGED <<outside, receiptVars, delivery, link>>

\* adapter.create_checkout: the attempt's idempotency key makes a second call
\* return the resource of the first.
CreateCheckout(w) ==
    /\ worker[w].pc = "create"
    /\ link' = [link EXCEPT ![worker[w].at] = IF @ = "none" THEN "pending" ELSE @]
    /\ Step(w, "activate")
    /\ UNCHANGED <<outside, rows, receiptVars, manager, delivery>>

\* A timeout, transport error, blocked effect or soft time limit: the provider
\* may have created the resource or not.
CreateCheckoutFails(w) ==
    /\ worker[w].pc = "create"
    /\ \/ UNCHANGED link
       \/ link' = [link EXCEPT ![worker[w].at] = IF @ = "none" THEN "pending" ELSE @]
    /\ Step(w, "release")
    /\ UNCHANGED <<outside, rows, receiptVars, manager, delivery>>

\* The receipt of activate_hosted_checkout is keyed by the event, its payload
\* by the attempt.
ReceiptConflict(w) == activation[worker[w].evt] \notin {0, worker[w].at}
ReceiptReplay(w) == activation[worker[w].evt] = worker[w].at

ResultAfterLocalCancel(a) ==
    att[a].st = "cancelled" /\ att[a].lease # NoWorker /\ ~att[a].ext

\* The last conjunct is the constraint payment_attempt_one_active.
Activatable(w, a) ==
    /\ ~ReceiptConflict(w)
    /\ att[a].st = "requested" \/ ResultAfterLocalCancel(a)
    /\ att[a].lease \in {NoWorker, w}
    /\ \A b \in Attempts \ {a} : ~Open(b)

\* Mutation: what changed during the provider call is not looked at.
AlwaysAwaiting == "awaiting_payment"
IntentAfterActivation ==
    IF DispatchEligible THEN "awaiting_payment" ELSE "requires_attention"

ActivateHostedCheckout(w) ==
    LET a == worker[w].at IN
    /\ worker[w].pc = "activate"
    /\ ~ReceiptReplay(w)
    /\ Activatable(w, a)
    /\ SetAttempt(a, [Unleased(a) EXCEPT !.st = "active", !.ext = TRUE, !.backoff = FALSE])
    /\ intent' = IntentAfterActivation
    /\ activation' = [activation EXCEPT ![worker[w].evt] = a]
    /\ Bump
    /\ Finish(w)
    /\ UNCHANGED <<outside, cancelHistory, callbackReceipts, consumed, delivery, link>>

\* The command was already completed with the same payload.
ActivationReplayed(w) ==
    /\ worker[w].pc = "activate"
    /\ ReceiptReplay(w)
    /\ Finish(w)
    /\ UNCHANGED <<outside, rows, receiptVars, manager, delivery, link>>

\* activate_hosted_checkout raises: the provider's answer is dropped.
ActivationRefused(w) ==
    /\ worker[w].pc = "activate"
    /\ ~ReceiptReplay(w)
    /\ ~Activatable(w, worker[w].at)
    /\ Step(w, "release")
    /\ UNCHANGED <<outside, rows, receiptVars, manager, delivery, link>>

ReleaseCheckoutLease(w) ==
    LET a == worker[w].at IN
    /\ worker[w].pc = "release"
    /\ IF att[a].lease = w
       THEN SetAttempt(a, [Unleased(a) EXCEPT !.backoff = TRUE])
       ELSE UNCHANGED att
    /\ Finish(w)
    /\ UNCHANGED <<outside, intent, receiptVars, manager, delivery, link>>

(***************************************************************************)
(* Dispatch of checkout cancellations.  job.evt is the cancellation event  *)
(* the task selected; the claim does not look at it again.                 *)
(***************************************************************************)

SelectCancellation(w) ==
    /\ worker[w] = IdleWorker
    /\ \E a \in Attempts :
          /\ CancelPending(a)
          /\ SetWorker(w, [IdleWorker EXCEPT !.pc = "cancel_item", !.at = a,
                                             !.evt = att[a].cancel])
    /\ UNCHANGED <<outside, rows, receiptVars, manager, delivery, link>>

CompleteForTerminalAttempt(w) ==
    LET a == worker[w].at IN
    /\ worker[w].pc = "cancel_item"
    /\ att[a].cancel = worker[w].evt
    /\ att[a].cancelDone \/ att[a].st \in ClosedAttempt
    /\ SetAttempt(a, [att[a] EXCEPT !.cancelDone = TRUE])
    /\ Finish(w)
    /\ UNCHANGED <<outside, intent, receiptVars, manager, delivery, link>>

\* Mutation: only an active attempt is cancelled, a processing one is not.
ActiveClaimable(a) == att[a].st = "active" /\ att[a].ext /\ Claimable(a)
CancellationClaimable(a) ==
    att[a].st \in {"active", "processing"} /\ att[a].ext /\ Claimable(a)

\* The task looks at the event first, in a read of its own: another worker may conclude
\* it before this claim, which does not look at it.
ClaimCheckoutCancellation(w) ==
    LET a == worker[w].at IN
    /\ worker[w].pc = "cancel_item"
    /\ CancellationClaimable(a)
    /\ SetAttempt(a, Leased(a, w))
    /\ Step(w, "cancel_call")
    /\ UNCHANGED <<outside, intent, receiptVars, manager, delivery, link>>

SkipCancellation(w) ==
    LET a == worker[w].at IN
    /\ worker[w].pc = "cancel_item"
    /\ ~CancellationClaimable(a)
    /\ ~(att[a].cancel = worker[w].evt /\ (att[a].cancelDone \/ att[a].st \in ClosedAttempt))
    /\ Finish(w)
    /\ UNCHANGED <<outside, rows, receiptVars, manager, delivery, link>>

\* What the provider may do with a cancellation call: close the resource or
\* leave it as it is.
CancelAtProvider(a) ==
    \/ UNCHANGED link
    \/ /\ link[a] \in {"pending", "in_process"}
       /\ "cancelled" \in ProviderStatuses
       /\ link' = [link EXCEPT ![a] = "cancelled"]

CancelCheckout(w) ==
    LET a == worker[w].at IN
    /\ worker[w].pc = "cancel_call"
    /\ CancelAtProvider(a)
    /\ SetWorker(w, [worker[w] EXCEPT !.pc = "cancel_apply", !.got = link'[a]])
    /\ UNCHANGED <<outside, rows, receiptVars, manager, delivery>>

CancelCheckoutFails(w) ==
    /\ worker[w].pc = "cancel_call"
    /\ CancelAtProvider(worker[w].at)
    /\ Step(w, "release")
    /\ UNCHANGED <<outside, rows, receiptVars, manager, delivery>>

\* The history row of the transition is keyed by the cancellation event.
CancelHistoryClash(w) ==
    /\ Changes(worker[w].at, worker[w].got, "cancellation_worker")
    /\ <<worker[w].at, worker[w].evt>> \in cancelHistory

ApplyVerifiedCheckoutCancellation(w) ==
    LET a == worker[w].at
        s == worker[w].got
        changed == Changes(a, s, "cancellation_worker")
        status == IF changed THEN AttemptAfter(a, s, "cancellation_worker") ELSE att[a].st
        complete == intent' \notin {"awaiting_payment", "processing"}
    IN
    /\ worker[w].pc = "cancel_apply"
    /\ att[a].lease = w
    /\ ~CancelHistoryClash(w)
    /\ intent' = IF changed THEN IntentAfter(a, s, "cancellation_worker") ELSE intent
    /\ SetAttempt(a, [Unleased(a) EXCEPT !.st = status, !.backoff = ~complete,
                                         !.cancelDone = complete])
    /\ cancelHistory' = IF changed THEN cancelHistory \cup {<<a, worker[w].evt>>}
                        ELSE cancelHistory
    /\ IF changed THEN Bump ELSE UNCHANGED manager
    /\ Finish(w)
    /\ UNCHANGED <<outside, activation, callbackReceipts, consumed, delivery, link>>

\* The lease was taken over, or the insert of the history row violates
\* payment_history_command_unique: the transaction rolls back.
CancellationRefused(w) ==
    /\ worker[w].pc = "cancel_apply"
    /\ att[worker[w].at].lease # w \/ CancelHistoryClash(w)
    /\ SetWorker(w, [worker[w] EXCEPT !.pc = "release", !.got = "none"])
    /\ UNCHANGED <<outside, rows, receiptVars, manager, delivery, link>>

(***************************************************************************)
(* Processes and time                                                      *)
(***************************************************************************)

\* The process dies (deploy, OOM, hard time limit); Celery redelivers the task,
\* which is another poll.
WorkerDies(w) ==
    /\ worker[w] # IdleWorker
    /\ SetWorker(w, IdleWorker)
    /\ UNCHANGED <<outside, rows, receiptVars, manager, delivery, link>>

LeaseExpires(a) ==
    /\ att[a].live
    /\ LeaseOutlivesWorker => \A w \in Workers : ~(att[a].lease = w /\ Holding(w, a))
    /\ SetAttempt(a, [att[a] EXCEPT !.live = FALSE])
    /\ UNCHANGED <<outside, intent, receiptVars, manager, delivery, worker, link>>

BackoffElapses(a) ==
    /\ att[a].backoff
    /\ SetAttempt(a, [att[a] EXCEPT !.backoff = FALSE])
    /\ UNCHANGED <<outside, intent, receiptVars, manager, delivery, worker, link>>

(***************************************************************************)
(* External: the provider's resource and the account switch                *)
(***************************************************************************)

ProviderTransitions ==
    [pending    |-> {"in_process", "approved", "cancelled", "rejected", "expired",
                     "divergent", "unknown"},
     in_process |-> {"approved", "cancelled", "rejected"},
     approved   |-> {"refunded"}]

ProviderMoves(s) ==
    IF s \in DOMAIN ProviderTransitions THEN ProviderTransitions[s] ELSE {}

ProviderUpdates(a) ==
    /\ \E s \in ProviderMoves(link[a]) \cap ProviderStatuses :
          link' = [link EXCEPT ![a] = s]
    /\ UNCHANGED <<outside, rows, receiptVars, manager, delivery, worker>>

SwitchAccount ==
    /\ AccountMayChange
    /\ accountActive' = ~accountActive
    /\ UNCHANGED <<order, rows, receiptVars, manager, delivery, worker, link>>

(***************************************************************************)
(* Specification                                                           *)
(***************************************************************************)

ManagerStep ==
    \/ CreatePaymentIntent
    \/ RequestHostedCheckout
    \/ RequestHostedCheckoutCancellation
    \/ ReopenPaymentAfterVerifiedClosure
    \/ FetchForReconciliation
    \/ ReconcileVerifiedResource
    \/ RefuseReconciliation

CallbackStep(d) ==
    \/ ReadForCallback(d)
    \/ ApplyVerifiedProviderResource(d)
    \/ RefuseCallback(d)

CheckoutStep(w) ==
    \/ PollCheckouts(w)
    \/ SkipItem(w)
    \/ ClaimRequestedCheckout(w)
    \/ CloseIneligible(w)
    \/ CreateCheckout(w)
    \/ CreateCheckoutFails(w)
    \/ ActivateHostedCheckout(w)
    \/ ActivationReplayed(w)
    \/ ActivationRefused(w)
    \/ ReleaseCheckoutLease(w)

CancellationStep(w) ==
    \/ SelectCancellation(w)
    \/ CompleteForTerminalAttempt(w)
    \/ ClaimCheckoutCancellation(w)
    \/ SkipCancellation(w)
    \/ CancelCheckout(w)
    \/ CancelCheckoutFails(w)
    \/ ApplyVerifiedCheckoutCancellation(w)
    \/ CancellationRefused(w)

Next ==
    \/ ManagerStep
    \/ CancelOrder
    \/ ConsumeOrderCancelled
    \/ SwitchAccount
    \/ \E d \in Deliveries : CallbackStep(d)
    \/ \E w \in Workers : CheckoutStep(w) \/ CancellationStep(w) \/ WorkerDies(w)
    \/ \E a \in Attempts : LeaseExpires(a) \/ BackoffElapses(a) \/ ProviderUpdates(a)

Spec == Init /\ [][Next]_vars

CancelConcludes(w) ==
    CancelCheckout(w) /\ worker'[w].got \notin {"pending", "in_process"}

\* What a worker does next without asking anyone.
GoesOn(w) ==
    \/ SkipItem(w) \/ SkipCancellation(w)
    \/ ActivationRefused(w) \/ CancellationRefused(w)
    \/ ReleaseCheckoutLease(w) \/ ActivationReplayed(w)

\* Celery beat polls every ten seconds and redelivers the task of a dead worker,
\* time passes, and neither the provider nor the worker processes fail for ever:
\* among calls repeated again and again one succeeds some day, and some worker
\* survives some dispatch.  Strong fairness, because the workers serve both queues
\* and the account or a lease may interrupt them; of the workers together, so that
\* one of them may die each time.  Nothing is assumed of managers, callbacks,
\* crashes or errors.
Fairness ==
    /\ WF_vars(ConsumeOrderCancelled)
    /\ \A a \in Attempts : WF_vars(LeaseExpires(a)) /\ WF_vars(BackoffElapses(a))
    /\ \A w \in Workers : WF_vars(GoesOn(w))
    /\ SF_vars(\E w \in Workers : PollCheckouts(w))
    /\ SF_vars(\E w \in Workers : ClaimRequestedCheckout(w) \/ CloseIneligible(w))
    /\ SF_vars(\E w \in Workers : CreateCheckout(w))
    /\ SF_vars(\E w \in Workers : ActivateHostedCheckout(w))
    /\ SF_vars(\E w \in Workers : SelectCancellation(w))
    /\ SF_vars(\E w \in Workers : CompleteForTerminalAttempt(w) \/ ClaimCheckoutCancellation(w))
    /\ SF_vars(\E w \in Workers : CancelConcludes(w))
    /\ SF_vars(\E w \in Workers : ApplyVerifiedCheckoutCancellation(w))

FairSpec == Spec /\ Fairness

(***************************************************************************)
(* Invariants                                                              *)
(***************************************************************************)

AttemptRow ==
    [st : AttemptStatus \cup {"none"}, ext : BOOLEAN, lease : Workers \cup {NoWorker},
     live : BOOLEAN, backoff : BOOLEAN, cancel : 0 .. MaxCancels, cancelDone : BOOLEAN]

WorkerState ==
    [pc : {"idle", "item", "cancel_item"} \cup LeasePhase, at : Attempts,
     evt : Nat, last : 0 .. MaxAttempts, got : AllProviderStatuses \cup {"none"}]

ManagerState ==
    [at : 0 .. MaxAttempts, got : AllProviderStatuses \cup {"none"}, fresh : BOOLEAN]

DeliveryState ==
    [at : 0 .. MaxAttempts, rid : RequestIds \cup {"none"},
     got : AllProviderStatuses \cup {"none"}]

\* Every variable keeps its type; in particular statuses stay within the
\* check constraints of payments/models.py.
TypeOK ==
    /\ order \in {"confirmed", "cancelled"}
    /\ accountActive \in BOOLEAN
    /\ intent \in IntentStatus \cup {"none"}
    /\ att \in [Attempts -> AttemptRow]
    /\ activation \in [Attempts -> 0 .. MaxAttempts]
    /\ cancelHistory \subseteq Attempts \X (1 .. MaxCancels)
    /\ callbackReceipts \subseteq Attempts \X RequestIds
    /\ consumed \in BOOLEAN
    /\ manager \in ManagerState
    /\ delivery \in [Deliveries -> DeliveryState]
    /\ worker \in [Workers -> WorkerState]
    /\ link \in [Attempts -> ProviderStatuses \cup {"none"}]

\* At most one checkout of an intent is requested, active or processing.
OneOpenAttempt ==
    \A a, b \in Attempts : Open(a) /\ Open(b) => a = b

\* Two workers are never in a provider call for the same attempt at once,
\* whatever leases expired and whichever processes died in between.
InProviderCall(w) == worker[w].pc \in {"create", "cancel_call"}
OneProviderCaller ==
    \A v, w \in Workers :
        InProviderCall(v) /\ InProviderCall(w) /\ worker[v].at = worker[w].at => v = w

\* While a worker waits for the provider's checkout or has its answer in hand,
\* nobody closes the attempt or takes it over: no manager, order event, callback
\* or other worker.
CallerOwnsAttempt ==
    \A w \in Workers :
        worker[w].pc \in {"create", "activate"} =>
            /\ att[worker[w].at].st = "requested"
            /\ att[worker[w].at].lease = w

\* No checkout other than the latest was ever asked to be cancelled, so no late
\* answer to such a request is on its way.
NoOlderCancellation ==
    \A a, b \in Attempts : a < b /\ Created(b) => att[a].cancel = 0

\* A payment once recorded on an attempt shows on the intent, as paid or as
\* requiring attention, through every later callback, reconciliation, reopening
\* or order event.  The condition is needed: the answer to the cancellation of an
\* earlier checkout is applied to the intent whatever was requested since, and
\* may cancel the intent under a paid checkout.
PaidNeverForgotten ==
    NoOlderCancellation =>
        \A a \in Attempts :
            att[a].st = "paid" => intent \in {"paid", "requires_attention"}

\* A paid intent is left only for a human to look at it: nothing reopens,
\* cancels or expires it.
PaidOnlyToAttention ==
    [][NoOlderCancellation /\ intent = "paid"
          => intent' \in {"paid", "requires_attention"}]_vars

\* A closed checkout never opens again and keeps the outcome it closed with.
ClosedIsFinal ==
    [][\A a \in Attempts : att[a].st \in ClosedAttempt => att'[a].st = att[a].st]_vars

\* When leases may expire under a slow worker, a closed checkout opens again only
\* to record the resource its late answer brings, and the intent says so.
LateResultKept ==
    [][\A a \in Attempts :
          att[a].st \in ClosedAttempt /\ att'[a].st # att[a].st =>
             /\ ~att[a].ext /\ att'[a].ext /\ att'[a].st = "active"
             /\ intent' \in {"awaiting_payment", "requires_attention"}
             /\ order = "cancelled" => intent' = "requires_attention"]_vars

\* Every requested checkout is sent or closed, however often workers die, calls
\* time out and leases have to expire first.  (One attempt only: a second one
\* waits behind the first one's event, see CreatedCheckoutPersisted.)
RequestedCheckoutResolves ==
    \A a \in Attempts : att[a].st = "requested" ~> att[a].st # "requested"

\* Every requested cancellation concludes, unless an inconclusive answer already
\* spent the history row of its event (see CancellationAnswerApplied).
CancellationConcludes ==
    \A a \in Attempts :
        CancelPending(a) ~> \/ ~CancelPending(a)
                            \/ <<a, att[a].cancel>> \in cancelHistory

=============================================================================

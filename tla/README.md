# TLA+ verification of Vidalys Flow

Vidalys Flow is a multi-tenant Django modular monolith on PostgreSQL: orders,
hosted payments, fulfillment, messages and external integrations of small shops.
Celery workers poll the database on a beat schedule; providers answer by HTTP
calls and callbacks. Its services are short transactions that lock rows, so most
single functions are easy to test. What is hard is everything between two
transactions: a provider call in flight, a worker that dies, an answer that comes
late, twice or not at all, and a second command in the meantime. That is what
these modules model.

## How the system behaves, in one page

* A command of a user or a callback is **one transaction**. It locks the aggregate
  (always in the order Order, PaymentIntent, PaymentAttempt, or Order,
  Fulfillment), checks an `expected_version` and a command receipt, writes rows,
  history, audit and an `OutboxEvent`, and commits. In the models it is one action.
* A **worker** (Celery, `acks_late`, `reject_on_worker_lost`, soft limit 50 s, hard
  limit 60 s) runs in steps: claim (transaction, takes a lease of 90 s), provider
  call (no transaction), apply or release (transaction). In the models every step
  is an action, anyone may act in between, and the process may die at any of them.
* **Celery beat** starts each polling task every 10 s (reconciliation every 30 s).
  Tasks read a bounded batch and go through it one item after the other.
* Modules talk through rows: a consumer polls `OutboxEvent` rows of a type, whatever
  their own status, and keeps a receipt of what it consumed.

## Inventory

| component | state | operations | what is hard | what makes it correct |
|---|---|---|---|---|
| **payments** (`apps/payments`) | PaymentIntent, PaymentAttempt (status, lease, backoff, cancellation), history, callback and command receipts; the provider's resource | create intent, request / cancel / reopen checkout, reconcile, callbacks, checkout and cancellation dispatch, consumer of `order.cancelled` | three transactions around a call, late and repeated evidence of old and new checkouts, dead workers, expired leases, order cancelled meanwhile | one open checkout; one provider caller; nobody closes a checkout being created; a payment never forgotten; closed is final; requests resolve |
| **integrations** (`apps/integrations`) | connections with a circuit breaker, deliveries, attempts, reconciliation runs, webhook receipts | create, claim, send, finish, recover expired leases, reconcile, ingest webhook | ambiguous acceptance, crash during send, shared batch, breaker with attempts in flight | accepted at most once; recorded outcome true; no delivery stays with a dead worker; breaker bounded |
| **messaging** (`apps/messaging`) | Message with its delivery attempt (lease, backoff, provider id), history, webhook and command receipts; permissions, rules, channels, connections | create by command or source event, claim, prepare, send, apply the answer, callbacks, cancel, switch what a message depends on | a lost answer, a dead worker, callbacks out of order, dependencies that change between claim and send, an event polled again | handed over at most once; rows tell what happened; evidence moves forward; nothing changed is sent; an event is consumed and told once |
| **orders** (`apps/orders`) | Order (status, version, totals), items, history, receipts | create, edit, confirm, cancel | concurrent edits, retried commands, stale totals | nobody changes an order he does not see; one event per cancellation |
| **fulfillment** (`apps/fulfillment`) | lots and allocated items | create, prepare, ready, transit, complete, cancel, consume `order.cancelled` | allocation by several lots at once, order cancelled while lots move | allocation never exceeds the order; nothing is delivered for an order cancelled before |
| **outbox** (`apps/platform`) | OutboxEvent (status, attempts) | enqueue, publish, mark attempt / success / failure | crash between `mark_attempt` and the result leaves PROCESSING for good | one event per key; consumers look at events whatever their status |
| **customers** (`apps/customers`) | customers, contacts, addresses, notes, merges | create, edit, add contact / address / note, merge | a merge moves rows of two customers under requests that read one of them before it | merges lead to an unmerged customer; nothing is lost or doubled by a merge |
| **organizations** (`apps/organizations`) | organizations, memberships | bootstrap, deactivate a membership | two owners leaving at once | an active owner remains |
| **products** | product rows | create, edit, deactivate | nothing shared between two operations | unique keys |
| **users, audit** | accounts, append-only records | log in; record | none of their own | written in the transaction of their cause |
| **views, dashboard** | none | HTTP around the services | none of their own | |
| **settings, health** | configuration | | | limits and schedule are assumptions below |

The hazards, each with its line and the properties that cover it, are the list
`hazards` of `PROJECT.json`.

## Plan

Payments came first because they hold money and most of the concurrency, then
integrations, which has the same lease protocol in another form, then fulfillment
with orders, where several people and a worker write the same rows, then messaging,
the third external effect, then customers, whose merge moves rows under everybody
else, and the composition of orders and payments over a batch of events. All of these
are modelled, checked and proved. What would come next:

1. Prices and totals of orders as functions of their lines, with the rounding.
2. The outbox, when a publisher that may refuse or reach out replaces
   `DummyOutboxPublisher`; `ingest_webhook` and `deactivate_membership`, when something
   calls them.

## Modules

| module | what it is |
|---|---|
| `Payments` | one intent of one order with its checkouts, workers, callbacks, manager, order event and provider |
| `HostedCheckout` | abstract: one checkout in progress, one caller, closed stays closed |
| `PaymentsRefinement` | the mapping from `Payments` to `HostedCheckout` |
| `PaymentsClaims` | statements of `docs/domains/PAYMENTS.md` the code does not keep |
| `PaymentsProofs` | proofs about `Payments`: types, leases, closed checkouts |
| `PaymentsSafetyProofs` | proofs about `Payments`: what is paid, late answers, the refinement |
| `MCPayments` | model values and symmetry for TLC |
| `Integrations` | connections, deliveries, dispatch workers, breaker, reconciliation |
| `Handover` | abstract: an item is sent again only if it was refused, and recorded as what happened to it |
| `IntegrationsHandover`, `MessagingHandover` | the mappings from `Integrations` and `MessageEvents` to `Handover` |
| `IntegrationsProofs` | proofs about `Integrations` |
| `MCIntegrations` | model values and the connection of each delivery for TLC |
| `Orders` | orders, the pages sellers edit them from, the cancellation events |
| `Fulfillment` | `Orders` with lots, packers and the workers that consume cancellations |
| `OrderPayments` | `Orders` with a payment for each order and the workers that consume cancellations |
| `OrdersProofs` | lemmas about `Orders` that the next two rest on |
| `FulfillmentProofs`, `OrderPaymentsProofs` | proofs about `Fulfillment` and `OrderPayments` |
| `MCFulfillment`, `MCOrderPayments` | model values and symmetry for TLC |
| `Messaging` | messages, dispatch workers, callbacks, managers, and what messages depend on |
| `MessageEvents` | `Messaging` with the workers that consume source events under automation rules |
| `MessagingProofs` | proofs about both |
| `MCMessaging` | model values for TLC |
| `Customers` | customers with contacts, addresses and notes, requests, and the merge |
| `CustomersProofs` | proofs about `Customers` |
| `MCCustomers` | model values and symmetry for TLC |

### Payments

One intent is enough because every transaction locks one intent and none reads
another's. The state is the code's rows: `intent`, `att` (status, `ext` = the
external id is stored, `lease` = token and `live` = not yet expired, `backoff` =
`next_attempt_at` is ahead, `cancel` = number of the current cancellation event,
`cancelDone`), the receipts that decide replay (`activation`, `cancelHistory`,
`callbackReceipts`, `consumed`), and the control state of everyone who reads
before locking: `worker`, `delivery` (a callback between its authoritative read
and its transaction) and `manager` (`fetch_and_reconcile`). `link` is the
provider's resource and external.

Each service function is the action of its name. `_apply_resource_to_locked_attempt`
with `_canonical_transition` is `ApplyResource`, used by callbacks, reconciliation
and cancellations, as in the code. Dispatch walks the events of an intent oldest
first (`NextItem`), each of its steps is an action, and `WorkerDies` may follow any.

Abstractions: `PaymentIntent.version` is represented by whether the version a
manager's fetched request carries is still current; commands that are replayed
return their receipt and change nothing, so they are no action; amounts and
currencies are the provider status `divergent`; the batch limit and the order of
different intents in a batch are left out here and are the subject of `OrderPayments`.

### Integrations

`connection`, `delivery`, `tries` (the attempt rows by sequence), `run` are the
code's rows; `lapsed` says that a lease ran out; `worker` and `reconciler` are tasks
between their statements; `accepted` counts what the external system accepted and
is a history variable: no guard reads it except the external `AskAdapter`.

`dispatch_pending_deliveries` is `RecoverExpiredDeliveryLeases`, `SelectBatch` (the
two queries and the limit they share), and then for each delivery `ClaimDelivery`
or `SkipDelivery`, `Send`, `FinishAttempt`. `reconcile_delivery` has no
transaction around it, so its four statements are four actions on a copy of the
delivery read before. An adapter that raises anything but its three declared
exceptions ends the task, which is `WorkerDies` or `ReconcilerDies`.

The external assumption is the adapter's contract: `transient` and `permanent` mean
not accepted, `ok` means accepted, `ambiguous` means either; and an answer of
`adapter.reconcile`, when there is one, is the truth.

### Orders and Fulfillment

`order` is the order row with its lines (a line is its quantity, 0 means no line),
`lot` the fulfillment row with its items, `cancelled` the `order.cancelled` events in
the order they were committed, `consumed` the orders whose event has a completed
receipt. `cancelled` holds order ids: `OneCancellationEvent` shows that events and
cancelled orders are one to one, so a receipt per event is one per order.

A command locks the order, then the lot, and is one action of its name. A page is
not one: the view loads the row and, in a further statement, its lines, and the
transaction isolation is READ COMMITTED, so `OpenOrder` / `ReadOrderItems` and
`OpenLotPage` / `ReadLotItems` are two actions each, and everyone may act between
them, or between the page and the post. A post carries the version of the first
read. `CreateFulfillment` has no version; its form only names the order.
(FULFILLMENT.md:118 says every command takes `expected_version`; creation changes
no lot anyone has seen, so nothing hangs on it.)

`consume_order_cancellations` is `SelectCancellations` (the oldest `BatchLimit`
events without a receipt) and one `ConsumeOrderCancelledEvent` per event: one
transaction for the receipt and every lot, with `cancel_from_order_event` as
`CancelledLot`. An event that raises ends the task, which is `ConsumerDies`.

Left out: prices and totals, snapshots, permissions, catalog and customer checks
(a command they refuse rolls back and is no action), order and lot numbers. A
repeated command finds its receipt and changes nothing, so it is no action either.

### OrderPayments

`Payments` has one order and consumes its event whenever it likes. What it cannot show
is the batch: `consume_order_cancellations` of payments reads the oldest `BatchLimit`
events without a receipt, and passes over an event whose order has no payment without
giving it one, so such events stay in the batch for ever. `OrderPayments` has several
orders, each with one payment and one checkout: `intent` and `checkout` have the
statuses of the code, and a requested checkout is further `sending` while a dispatcher
holds its lease or `abandoned` when he died with it. `batch` is what a worker still has
to do of the list it read, `settled` the completed receipts. `ConsumeCancellation` is one
event; `Settlement` is the branches of `consume_order_cancelled`, the one that leaves a
closed, expired or attention-seeking intent as it is included. A command, a claim and the
result of a call are one action each. `ApplyAnswer` is
`_apply_resource_to_locked_attempt` with any status of the provider, from a callback, a
reconciliation or a cancellation, before and after the settlement; what was asked and
fetched before is not kept, so any answer may come at any time: more than the code
applies, which refuses a stale version and a second outcome of one cancellation, so what
holds here holds for the code. `resolved` is history: the settled payments that an answer
somebody asked for (a reconciliation or a cancellation) changed afterwards.

### Customers

`customer`, `contact`, `address` and `note` are the rows; `page` is the copy of a customer
that a request has read. The services take that copy: `_require_customer` looks at its
`merged_into`, `set_customer_status` and `update_customer` at its fields, and none of
them locks or reads the row again. So `ReadCustomer` and the command are two
actions and everyone may act between them. `add_contact` looks for the value in one
statement and inserts it in another, without a lock that keeps a second request or a merge
away, so `LookForContact` and `AddContact` are two actions as well; `AddContact` carries the
constraint on the values of contacts as a guard, because the insert that breaks it is
rolled back, and the request then does `Leave`. `merge_customers` is given ids, locks both
rows and reads them again, and is one action.

Contacts of one kind, and one kind of default address, stand for all: different kinds
never meet in a guard. Left out: roles, documents, normalization (values that
normalize alike are one value), merge reasons and audit rows, the checks of forms.

### Messaging and MessageEvents

`msg` is a Message row with its one MessageDeliveryAttempt: `st` and `at` are their
statuses, `ext` says that the provider's id is stored, `lease` and `live` are the lease
token and whether it has not expired, `waits` that the backoff is ahead,
`sendingRow` that the history has its `<attempt>:sending` row, `source`, `version`,
`to` and `evidence` the snapshot it was created with, `auto` and `rule` the rule
version of an event's message. `receipts` are the webhook receipts. `source`,
`contact`, `primary`, `channel`, `rule` are what messages depend on; `worker` and
`consumer` are the two tasks between their transactions. Two variables are history and no
guard reads them: `accepted` counts how often the provider accepted a message, and `born`
keeps the whole source and contact that a message was created with, of which the code
keeps only the two numbers.

`dispatch_message_events` is `SelectMessages` (the oldest `BatchLimit` pending
messages) and for each of them `TakeMessage` (the attempt, read without a lock) and
`dispatch_message`: `ClaimDispatch`, `ClaimLostSender` or `ClaimRefused`;
`PrepareSendRequest`, `PrepareFails` or `PrepareRefused`; `SendText`; then
`ApplyProviderAcceptance`, `MarkUncertain`, `MarkFailed` or `ReleaseDispatch`.
`PrepareFails` is the transaction whose last insert repeats a unique history row.
What `send_text` may come back with is the constant `Answers`: accepted with or
without an id, rejected, an error before or after the provider accepted, or blocked
by `require_network_allowed`. A lease may expire under a live worker although 90 s of
lease exceed the 60 s of the hard limit: the properties do not need that assumption.

`consume_source_events` is `SelectSourceEvents`, and for each event `ReadRules`,
`CreateMessageFromEvent` or `NothingToCreate`, and `RecordSourceConsumed`, each of
them a transaction or a read of its own; an event is its source, in version 1. The
receipt of a creation is the message itself: its digest holds event, rule version,
template, channel and contact value, and one rule has one template and channel.
`ConsumerFails` is a dead process or any other exception, which leaves the event
for the next poll.

`MergeCustomers` is `merge_customers` away from the customer of the contacts: a contact
that the target has as well is deactivated where it is, the others become the target's
(`place`), and the source takes no new ones.

Abstractions: `source` has a status that its messages may have or not (`open`);
whatever else takes a contact's permission away (a contact or customer deactivated) is
`RecordPreference(k, FALSE)`, and gets new evidence when it comes back, as the code
demands; the checkout link and its expiry are part of
`source`. No code under `src/` changes the value of a contact, so the comparison with
`destination_snapshot` never decides and is left out; `DisableChannel` is final
because `activate_channel` waits for a pairing that is not enabled. A replayed or
refused command changes nothing and is no action. Left out: the set-up of templates,
connections and channels; `mark_sending` and `build_send_request`, which
nothing calls; the branch for an adapter of another provider, which the resolver
excludes; what `reconcile_uncertain` would write if it did not refuse every message it
can be asked about (`UncertainHasNoId`, observed below); and suppression by hard feedback, since those statuses are
SES's and `process_delivery_callback` accepts callbacks of Evolution only.

### Handover

Integrations and messaging send things to the outside by different code with one
promise: an item waits, is handed over, and is then done, refused or, when nobody heard
the answer, uncertain; it is started only from waiting, so never after it was taken.
`Handover` says this with two variables: the phase of each item and how often it was
taken. Leases, batches, retries, crashes and callbacks are what the two modules add,
and their steps are steps of `Handover` or none. They differ in `Enquiry`: an uncertain
delivery may be settled by reconciliation, an uncertain message by nothing the code can
reach, although MESSAGING.md:99-100 lets managers reconcile it. The mappings read the phase
off the row alone: a failed delivery with a planned retry waits; a message with the
provider's id was handed over, whatever a callback says of its delivery later; `taken`
is `accepted`.

## Runs

| run | checks | bounds | distinct states |
|---|---|---|---|
| `payments_paid` | `CallerOwnsAttempt`, `PaidNeverForgotten`, `PaidOnlyToAttention`, `ClosedIsFinal`, `ImplementsHostedCheckout` | 2 checkouts, 1 worker, 1 callback handler, cancellations, refunds | 1 708 319 |
| `payments_late_results` | `TypeOK`, `LateResultKept` | 1 checkout, 2 workers whose leases may expire under them, 1 callback handler, account switched, 5 provider statuses; deadlock checked | 1 091 532 |
| `payments_liveness` | `OneProviderCaller`, `RequestedCheckoutResolves`, `CancellationConcludes` | 1 checkout, 2 workers, fair | 17 847 |
| `integrations` | `OutcomeIsTrue`, `AttemptsMatchDelivery`, `BreakerBound`, `RunNeverAhead`, `SendingEnds`, `ImplementsHandover` | 2 deliveries of 1 connection, 2 workers, 1 reconciler, 2 attempts, breaker at 2 failures, an administrator who disables, fair | 130 194 |
| `fulfillment` | `TypeOK`, `AllocationBounded`, `NothingAdvancesAfterCancellation`, `LotChangedAsShown` | 1 order with 1 line of at most 2, 1 seller, 2 lots, 2 packers, 1 consumer, delivery and pickup | 2 574 169 |
| `order_cancellation` | `OneCancellationEvent`, `ConsumedMeansClosed`, `ChangedAsShown`, `CancelledOrderIsClosed` | 2 orders, 2 sellers, 1 lot, 1 packer, 1 consumer, batches of 1 event, pickup only, fair | 671 053 |
| `order_payments` | `SettledStays`, `CancellationReachesPayment` | 2 orders, 1 seller, 2 workers, batches of 1 event, every answer of the provider, fair | 155 886 |
| `messaging` | `SentAtMostOnce`, `OutcomeIsTrue`, `AttemptFollowsMessage`, `StatusMovesForward`, `SentAsCreated`, `ImplementsHandover` | 2 messages of 1 source, 2 workers, every answer, 2 callback request ids, 1 change, 1 death, no consumer | 1 311 691 |
| `message_events` | `ReplayTellsNothing`, `PendingIsConcluded`, `EventIsConsumed` | 1 source, 2 consumers, 1 worker with batches of 1, 2 messages, 2 contacts, 1 change, 1 death, every message accepted, fair | 249 765 |
| `customers` | `MergesLeadSomewhere`, `RowsStayUnique`, `MergeKeepsAll`, `MergedLeftAlone` | 3 customers, 2 contacts with 2 values, 2 addresses, 1 note, 1 request | 2 128 579 |
| `claim_*` | one documented statement each | the smallest instance that shows it | stops at the counterexample |

Why the bounds are enough. The payments hazards are about pairs: a worker and a
second one on the same attempt (`payments_late_results`, `payments_liveness`), evidence
about the first checkout meeting the second (`payments_paid`). A third worker or
checkout meets the same guards; the proofs below remove the bound for the safety
properties. One cancellation event per attempt suffices because a further one is the
same request with another key. In `integrations` two deliveries and two workers are what
it takes for attempts in flight when the breaker opens; two attempts give a first, a
retry and an exhausted budget. Connections meet only in the batch (the second observation below). In `fulfillment` two lots and two packers are what it
takes to allocate a line twice or to act on a lot another one moved; a seller who edits
up to version 3 gives lines that shrink after a page was loaded. In `order_cancellation`
and `order_payments` two orders with a batch of one event show an event waiting behind
another, and two workers give one that holds an event the other has settled. In `messaging` two workers on one message and a second message in
the same batch are all that meets in a guard; one change shows each thing a message
depends on changing at every point. In `message_events` one change gives a second rule
version between two polls; a second contact needs two changes (it is added, then
permitted), which triples the states, and is left to the theorem `EventsToldOnce`. In
`customers` three make the shortest chain of two merges and the smallest circle that
guards on one row would let through; one request is enough because a request touches
what others do only through the rows. Symmetry is used only in runs without
liveness (`payments_late_results`, `fulfillment`, `customers`). `MaxVersion` and
`MaxLotEdits` bound how often drafts are edited and nothing else: a draft at the bound is
still confirmed, moved and cancelled. `CHECK_DEADLOCK FALSE` is set where the system may
come to rest (everything sent or closed and every bound used up).
`payments_late_results` and `customers` keep the deadlock check: an account can always
be switched, and a request can always read a customer.

The type invariants that no run lists (`Integrations`, `MessageEvents`, `Customers`) are
theorems.

`LeaseOutlivesWorker` is TRUE where 90 s of lease exceed 60 s of hard limit and the
clocks agree, which is what the settings intend. The hard limit is enforced only by
Celery's prefork pool, so `payments_late_results` drops the assumption.

### Fairness

`Spec` has none; safety holds whatever stops. `FairSpec` assumes what the beat
schedule and the operating system give: polling goes on, a live task takes its next
step, time passes (leases and backoffs run out), and a step that a crash, an error
or another queue interrupts again and again succeeds some time (strong fairness,
which the comments at `Fairness` justify action by action). In `Payments` only what a
worker does without asking anyone is fair for each worker (`GoesOn`, weak); the
steps that a crash, the provider or the other queue may interrupt are strongly fair for
the workers together, so one particular worker may die every time. In `Fulfillment` the beat keeps
selecting (weak), and a worker that dies again and again gets through an event some
time (strong): a death is a lost process, not a reaction to an event. `OrderPayments`
assumes the same of the consumer of payments, and nothing of the dispatcher. In
`MessageEvents` weak fairness is enough: deaths are bounded, and a step of a worker or
consumer is only disabled by its own next one. Nothing is
assumed of sellers, packers, managers, administrators, callbacks, reconcilers, crashes or the kind of answer a
provider gives, except that a cancellation repeated for ever is answered some day.

### What the runs show about the code

Passing: under crashes, timeouts, races and late evidence the lease protocol of
payments is safe, payments are not forgotten, and both dispatchers make progress;
deliveries are accepted at most once and recorded truthfully; versions read before
the lines protect every edit of orders and lots; the status read under the order's
lock keeps lots from moving in the time between a cancellation and its consumer;
a settled payment of a cancelled order stays settled against dispatchers, callbacks and
other workers, until an answer that somebody asked for comes afterwards;
a message is handed over at most once, its rows never lie, nothing is sent that
changed after it was created, and an event is consumed and told once; merges of
customers make no circle, lose nothing and make no row twice.

Findings, each a run that must find its counterexample:

* `claim_cancellation_answer`: an inconclusive answer spends the history row of its
  cancellation event; the concluding answer cannot be stored, for ever
  (`services.py:996`, `models.py:318`).
* `claim_second_checkout`: after a first checkout failed, the second one is
  dispatched under the first one's event and its answer is refused as a receipt
  conflict; the provider's link exists and is never stored (`tasks.py:40`).

`PaidNeverForgotten` and `PaidOnlyToAttention` carry the condition
`NoOlderCancellation` because of the first observation below, and
`CancellationConcludes` excepts a spent history row because of the first finding:
without them they fail. `CancellationReachesPayment` excepts a batch full of events that
are never answered, `SettledStays` payments that an answer asked for changed after the settlement, `PendingIsConcluded` the
three ways a message is stuck, `MergedLeftAlone` requests with a copy from before the merge.

Observed while modelling and not turned into a run:

* The answer to the cancellation of a first checkout is applied to the intent whatever
  was requested since, and cancels it while a second checkout is open or paid
  (`payments/services.py:978`), against PAYMENTS.md:109-111.
* The dispatch of deliveries selects one batch over all connections, the due retries first
  and whatever their connection's status, and skips what belongs to one that is not active
  (`integrations/tasks.py:11`). As many due retries of a degraded connection as the batch
  holds, and no delivery of a healthy connection is ever sent, against
  INTEGRATIONS_VISION.md:40. TLC finds it with three deliveries of two connections and a
  batch of two; no property says that what was planned is sent.
* A checkout whose `create_checkout` timed out after the provider made the link is
  released and may be closed; nobody knows that link afterwards, and the customer may
  still pay it (`payments/services.py:451`).
* `consume_order_cancellations` of payments passes over the event of an order without a
  payment and leaves it without a receipt (`payments/tasks.py:140`). As many of those as
  the batch holds, and no later cancellation is ever settled, against
  PAYMENTS.md:149-154. `CancellationReachesPayment` names the exception.
* A repeated failure of the first checkout takes the intent back from
  `awaiting_payment` to `pending` (`services.py:651`), against PAYMENTS.md:135.
* No uncertain message has the provider's id, without which `reconcile_uncertain` refuses
  it (`messaging/services.py:1378`), so nobody can reconcile one, against
  MESSAGING.md:99-100. The test of it writes the id into the attempt by hand
  (`messaging/tests/test_dispatch.py:467-468`).
* `dispatch_message_events` selects pending messages only, so a message left queued or
  sending by a dead worker is never claimed again (`messaging/tasks.py:69`), unless
  another worker's batch holds it already, although `claim_dispatch` has the branches for
  it and project/qa/phase-06-qa-security.md:48 counts on them. And a message released because the network is blocked can never be prepared again
  (`messaging/services.py:914`): it stays queued.
* A message whose contact `merge_customers` moved while it waited is never concluded:
  `prepare_send_request` looks the contact up by customer, and the `DoesNotExist` it gets
  is no `MessagingDomainError`, so nothing cancels the message
  (`messaging/services.py:880-883`). `messaging/tests/test_concurrency.py:138` and
  MESSAGING.md:59-62 expect a refusal that cancels. `PendingIsConcluded` names the three
  exceptions.
* `apply_delivery_evidence` locks the attempt and then the message, every other
  transaction the message first (`messaging/services.py:1235`): PostgreSQL would end
  one of two that meet.
* A dispatcher that finds the order cancelled takes an intent from
  `requires_attention` to `cancelled` (`services.py:343-347`); PAYMENTS.md:63-65
  names reconciliation and verified cancellation as the only ways out.
* A paid answer to a cancellation is dropped when the intent already requires
  attention (`services.py:657`), against PAYMENTS.md:111-112.
* A reconciliation or cancellation that answers "failed" after `order.cancelled` was
  consumed leaves the payment of the cancelled order pending, without a checkout
  (`payments/services.py:558`), against PAYMENTS.md:151. With other answers it awaits
  payment or is in processing, with an open checkout (`payments/services.py:574-583`).
  `SettledStays` names the exception.
* Attempts in flight take a connection an administrator disabled to degraded and
  then to active (`integrations/services.py:209-221`). No document says what a disabled
  connection may become, so no property does.
* An inconclusive reconciliation of a delivery is never repeated, because its
  cursor, `updated_at`, does not change (`integrations/services.py:286-290`).
* A request that read a customer before its merge writes to the merged row: a status
  makes it active again, a contact, address or note stays behind there
  (`customers/services.py:40`), against CUSTOMERS.md:40-42. `MergedLeftAlone` says that
  nothing else writes to it.
* `add_contact` looks for the value and inserts it without a lock: of two inserts of one
  value, or one and a merge that moves it, the later ends in an `IntegrityError` that
  nothing catches (`customers/services.py:179-195`).
* The target of a merge may be left without a primary contact: the source's primary one
  is deactivated when it repeats a contact of the target that is not primary
  (`customers/services.py:336-343`).
* A merged customer keeps its document, and creating another customer with it ends in an
  `IntegrityError` that is raised again rather than in `DuplicateDocumentError`
  (`customers/services.py:80-87`, `selectors.py:52-59`).
* The insert of a contact locks its customer when the foreign key is checked, at commit,
  and waits for a merge that holds the row. The models do not speak of locks, and a
  transaction that is rolled back is no action.

## Proofs

Every safety property of the runs has a theorem, for every value of the constants under
the named assumptions of the modules.

`PaymentsProofs` (any number of attempts, cancellations, workers, callback handlers
and request ids):

| theorem | statement |
|---|---|
| `TypeCorrect` | `Spec => []TypeOK` |
| `OneOpenAttemptHolds` | with `LeaseOutlivesWorker`: `Spec => []OneOpenAttempt` |
| `OneProviderCallerHolds` | the same for `OneProviderCaller` |
| `CallerOwnsAttemptHolds` | the same for `CallerOwnsAttempt` |
| `ClosedIsFinalHolds` | the same for the action property `ClosedIsFinal` |

`TypeOK` is not inductive: a worker in a cancellation must carry an event, a callback
or reconciliation in progress an attempt (`CancelJobInv`, `CallbackJobInv`,
`ManagerJobInv`; together `TypeInv`). The lease properties follow from `LeaseInv`:
a worker past its claim holds the live lease of its attempt (`HeldInv`), a checkout
is created only for a waiting attempt and cancelled only for one the provider knows
(`PhaseInv`), the provider does not know a waiting attempt (`UnsentInv`), every
attempt before another one is closed (`OrderedInv`), and a reconciliation in
progress is about an attempt the provider knows (`FetchedInv`). Every action is one
lemma or step; the effects that several actions share (evidence, lease, release)
are lemmas of their own.

`PaymentsSafetyProofs` (the same constants):

| theorem | statement |
|---|---|
| `PaidNeverForgottenHolds` | with `LeaseOutlivesWorker`: `Spec => []PaidNeverForgotten` |
| `PaidOnlyToAttentionHolds` | the same for the action property `PaidOnlyToAttention` |
| `ImplementsHostedCheckoutHolds` | the same for `ImplementsHostedCheckout`: `Payments` implements `HostedCheckout` |
| `LateResultKeptHolds` | `Spec => LateResultKept`, without `LeaseOutlivesWorker` |

`PaidNeverForgotten` is not inductive: an answer about another attempt may close the
intent. `PaidInv` adds that a paid attempt is the latest one and known to the provider
(`PaidKept`, `PaidRowInv`), that a paid intent has one (`PaidSeenInv`), that what a
manager fetched and is still fresh is about the latest attempt the provider knows
(`FreshInv`), and that a worker only cancels what was asked to be cancelled
(`BornInv`, `AskedInv`).

The refinement maps the initial states of `Payments` to those of `HostedCheckout`, and
each of its steps to one of the abstract ones: it enters a call, leaves one with or
without an outcome, requests or closes a checkout, or changes nothing. The proof sorts
the actions by these kinds; that a caller is the only one of its attempt, and that
others do not close an attempt that is being created, rests on `HeldInv`. `LateResultKept` needs types only: it follows from what a
single step may do to a closed attempt.

`IntegrationsProofs` (any connections, deliveries, workers, reconcilers, limits and
administrator):

| theorem | statement |
|---|---|
| `TypeCorrect` | `Spec => []TypeOK` |
| `AcceptedAtMostOnceHolds` | `Spec => []AcceptedAtMostOnce` |
| `OutcomeIsTrueHolds` | `Spec => []OutcomeIsTrue` |
| `RunNeverAheadHolds` | `Spec => []RunNeverAhead` |
| `AttemptsMatchDeliveryHolds` | `Spec => []AttemptsMatchDelivery` |
| `ImplementsHandoverHolds` | `Spec => ImplementsHandover`: `Integrations` implements `Handover` |
| `BreakerBoundHolds` | with finitely many workers and an administrator who does not activate: `Spec => []BreakerBound` |

`AcceptedAtMostOnce` says nothing of who may still send, so it is strengthened: a
sending worker holds its delivery, which is `sending` under a live lease, and no
two hold the same (`HoldingInv`, `AloneInv`); only a lease in use expires
(`SendingInv`); what a worker heard bounds what was accepted (`AnswerInv`); a
delivery that can be claimed was never accepted (`AcceptInv`); and what is under
reconciliation is not claimed again (`ReconcilingInv`). `RunNeverAhead` needs that
a reconciler saves the run as succeeded after the delivery, and that what succeeded stays
(`RunInv`). `AttemptsMatchDelivery` is `Story` for every delivery, and inductive with the
above. `BreakerBound` counts failures after the breaker opened, which were all in flight
before: failures and deliveries in flight together never exceed the limit less one plus
the workers (`Breaker`).

`FulfillmentProofs`, on the lemmas of `OrdersProofs` about each command and page of a
seller (any orders, items, people, lots, workers and bounds):

| theorem | statement |
|---|---|
| `TypeCorrect` | `Spec => []TypeOK` |
| `AllocationBoundedHolds` | `Spec => []AllocationBounded` |
| `OneCancellationEventHolds` | `Spec => []OneCancellationEvent` |
| `ChangedAsShownHolds` | `Spec => ChangedAsShown` |
| `LotChangedAsShownHolds` | `Spec => LotChangedAsShown` |
| `NothingAdvancesHolds` | `Spec => NothingAdvancesAfterCancellation` |
| `ConsumedMeansClosedHolds` | `Spec => []ConsumedMeansClosed` |

A guard compares versions, not contents, so the two properties about pages need that
an equal version means an equal row although the lines were read later: a page's
version is never ahead, and when it is the row's, the page shows the row, without
its lines while they are being read (`OrderPagesHonest`, `LotPagesHonest`).
`ConsumedMeansClosed` needs that a consumed order is cancelled and that lots are
created only for confirmed ones (`ConsumedInv`). `IInv` is their conjunction with
`TypeOK`, `OneCancellationEvent` and `AllocationBounded`.

`AllocationBounded` is about a sum over lots. `Allocated` counts it as the cardinality of
the set of units in them, for finitely many lots (`LotsAssumption`), so the facts about
finite sets of the library replace an induction: lots of an order that are not written
take no more than before (`TakenShrinks`), a lot adds its own items to what the others
take (`TakenWithOne`), and `Fits` compares just that sum with the order
(`WriteKeepsAllocation`). It is not inductive alone: a seller who edits lines changes what
it is compared with. `LotsPlaced` says that only orders past the draft have lots, and
`PlacedStays` of `OrdersProofs` that their lines are fixed.

`OrderPaymentsProofs` (any orders, workers and batches), on the same lemmas:

| theorem | statement |
|---|---|
| `SettledStaysHolds` | `Spec => []SettledStays` |

It needs that a settled order is cancelled and stays so (`SettledInv`): that is why a
dispatcher who was sending its checkout finds it cancelled and asks for attention, and why
nobody reopens the payment. A callback is no exception because it changes nothing that
needs attention and the rest only to attention (`Target`, `Changes`).

`CustomersProofs` (any customers, rows and requests):

| theorem | statement |
|---|---|
| `TypeCorrect` | `Spec => []TypeOK` |
| `MergesLeadSomewhereHolds` | `Spec => []MergesLeadSomewhere` |
| `RowsStayUniqueHolds` | `Spec => []RowsStayUnique` |
| `MergeKeepsAllHolds` | `Spec => MergeKeepsAll` |
| `MergedLeftAloneHolds` | `Spec => MergedLeftAlone` |

`MergesLeadSomewhere` is stated on sets of customers, so no path is followed: the target of
a merge is not merged, so a set without a way out would have been one before.
`RowsStayUnique` rests on what a merge makes of the contacts of either customer
(`MergedContacts`); the guard of `AddContact` is the constraint on contact values, and what
is shown is that everything else keeps the rows unique without one. `MergedLeftAlone` needs that a request's copy is of a customer that
was not merged when it was read (`PagesUnmerged`).

`MessagingProofs` (any sources, contacts, workers, consumers, messages, request ids,
answers and bounds; leases may expire under a live worker):

| theorem | statement |
|---|---|
| `TypeCorrect` | `Spec => []TypeOK` |
| `HandedOverOnce` | `Spec => []SentAtMostOnce` |
| `RowsTellTheTruth` | `Spec => []OutcomeIsTrue` |
| `AttemptFollows` | `Spec => []AttemptFollowsMessage` |
| `UncertainStaysUnidentified` | `Spec => []UncertainHasNoId` |
| `ImplementsHandoverHolds` | `Spec => ImplementsHandover`: `MessageEvents` implements `Handover` |
| `StatusForward` | `Spec => StatusMovesForward` |
| `SendsAsCreated` | `Spec => SentAsCreated` |
| `EventsToldOnce` | `Spec => []ReplayTellsNothing` |

`RowOK` relates a row to what was accepted outside and contains the four invariants
about rows. It is not inductive without what a worker between two transactions knows
of its row (`KnowsRow`): before the call, that a row it still holds was not accepted;
at the provider, that the row is being sent under its lease or was declared
uncertain by somebody else; and after the answer, how often it was accepted. Two workers at
the provider are never at the same message (`Alone`), so the knowledge of one is not
spoilt by the other's call. The frame lemmas (`WorkerFrame`, `RowFrame`,
`IdleFrame`) say once what a step at one row leaves true elsewhere. `StatusForward` and
`EventsToldOnce` follow from how one step may change a row (`StepGood`).

`SendsAsCreated` compares with `born`, which no guard reads; the guard compares numbers.
That they tell every change apart is an invariant of its own (`BornOK`, with `PlacesOK`): a
source or a permission never changes without getting another number and gets none back
(`Aged`, `WorldAged`), and of a contact that a merge moved, whose number stays, every message
of the customer is refused.

Both refinements to `Handover` follow the same argument. A step writes one row, which moves one item
between phases (`RowSeen`) or leaves its phase as it was (`SamePhase`), or it counts an
acceptance; one lemma for each action then names the abstract step. What an abstract
guard asks, that an item was taken or not when it is confirmed or refused and that it is
taken at most once, is what the worker knows of its row (`AnswerInv` and `HoldingInv`,
`KnowsRow`), and that a recovered lease is of an item being handed over is `SendingInv`.
`AcceptedAtMostOnce` and `UncertainHasNoId` are proved as well, and no run checks them
apart: the first is a consequence of `ImplementsHandover`, and without the second a
callback would settle an uncertain message.

Only model-checked: the liveness properties (`RequestedCheckoutResolves`,
`CancellationConcludes`, `SendingEnds`, `CancelledOrderIsClosed`,
`CancellationReachesPayment`, `PendingIsConcluded`, `EventIsConsumed`), since fairness and
ENABLED are out of the prover's reach.

## Not modelled

* **Outbox.** What the commands enqueue is modelled where it is read. The task
  `publish_pending_outbox` hands events to `DummyOutboxPublisher`, which accepts all of
  them and sends nothing, and marks them; a worker that dies in between leaves an event
  PROCESSING for good. No consumer reads that status: they select events by type and by
  receipt.
* **`integrations.ingest_webhook`** reads the latest receipt and inserts without a lock, so
  of two events at once the older may be stored as accepted after the newer. It has no
  caller yet, shares no row with deliveries, and no code reads the disposition.
* **Organizations.** `deactivate_membership` counts the owners under the lock of the
  organization and has no caller yet; `bootstrap_organization` is one transaction of a
  management command.
* **Products** create, edit and deactivate single rows under unique constraints.
* **Users, audit, views, settings** keep no state that two operations share; the views
  that post commands are the pages and steps of people in the models.
* In the modelled parts: prices and totals, snapshots, the parts of messaging listed
  above, HTTP signatures, sanitising of payloads, formatting and money arithmetic. Signed
  callbacks enter as verified, amounts as equal or divergent. `Payments` has an order
  cancellation of its own: it needs one order and no lines, and consumes the event with
  receipts of its own.

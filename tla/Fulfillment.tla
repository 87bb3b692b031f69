---------------------------- MODULE Fulfillment ----------------------------
(***************************************************************************)
(* apps/fulfillment on top of apps/orders: the lots of confirmed orders,   *)
(* moved by packers from the pages they loaded, and the Celery workers     *)
(* that consume the order.cancelled events of the outbox and close the     *)
(* lots.  Orders does not know of lots; the lots read the order again in   *)
(* every command.                                                          *)
(*                                                                         *)
(* A command locks the order and then the lot: one action.  A worker reads *)
(* a batch of events and consumes each in a transaction of its own.        *)
(***************************************************************************)
EXTENDS Orders, FiniteSets

CONSTANTS
    Lots,
    Packers,
    Consumers,    \* Celery workers running consume_order_cancellations
    BatchLimit,   \* limit of consume_order_cancellations, 100 in the code
    Methods,      \* how the shop hands over lots
    MaxLotEdits   \* bound: the version up to which a draft lot is edited

ASSUME LotsAssumption == IsFiniteSet(Lots)
ASSUME BatchAssumption == BatchLimit \in Nat \ {0}

VARIABLES
    lot,       \* Fulfillment rows with their FulfillmentItem rows
    lotPage,   \* the page each packer has open
    consumer,  \* consume_order_cancellations: the events left of its batch
    consumed   \* orders whose cancellation event has a completed receipt

lotVars == <<lot, lotPage, consumer, consumed>>
vars == <<ordersVars, lotVars>>

LotStatus == {"none", "draft", "preparing", "ready", "in_transit", "completed", "cancelled"}
OpenLot == {"draft", "preparing", "ready", "in_transit"}
Method == {"delivery", "pickup"}
ASSUME MethodAssumption == Methods \subseteq Method

LotRow == [status : LotStatus, version : Nat, of : OrderIds \cup {Nothing},
           method : Method, items : Lines]
NoLot == [status |-> "none", version |-> 0, of |-> Nothing,
          method |-> "delivery", items |-> NoLines]

\* A detail page shows a lot; a creation form is for an order and has no version.
LotPage == [pc : {"closed", "loading", "open", "create"},
            of : Lots \cup OrderIds \cup {Nothing}, shown : LotRow]
ClosedLotPage == [pc |-> "closed", of |-> Nothing, shown |-> NoLot]

Init ==
    /\ OrdersInit
    /\ lot = [l \in Lots |-> NoLot]
    /\ lotPage = [p \in Packers |-> ClosedLotPage]
    /\ consumer = [w \in Consumers |-> {}]
    /\ consumed = {}

(***************************************************************************)
(* Allocation                                                              *)
(***************************************************************************)
LotsOf(o) == {l \in Lots : lot[l].of = o /\ lot[l].status # "cancelled"}

\* The quantity of an item in lots is the number of its units there.
Units(ls, i) == {unit \in ls \X (1 .. MaxQuantity) : unit[2] <= lot[unit[1]].items[i]}
Allocated(ls, i) == Cardinality(Units(ls, i))

\* Mutation: the allocation is compared with the order's quantity alone.
FitsAlone(o, items, others) ==
    \A i \in Items : items[i] <= order[o].lines[i]
\* others: the lots of the order that count beside the one being written.
Fits(o, items, others) ==
    \A i \in Items : items[i] > 0 => Allocated(others, i) + items[i] <= order[o].lines[i]

(***************************************************************************)
(* Pages                                                                   *)
(***************************************************************************)
OpenLotForm(p, o) ==
    /\ order[o].status # "none"
    /\ lotPage' = [lotPage EXCEPT ![p] = [ClosedLotPage EXCEPT !.pc = "create", !.of = o]]
    /\ UNCHANGED <<ordersVars, lot, consumer, consumed>>

\* Mutation: the view does not refuse a lot that does not exist.
OpenAnyLotPage(p, l) ==
    /\ lotPage' = [lotPage EXCEPT ![p] =
            [pc |-> "loading", of |-> l, shown |-> [lot[l] EXCEPT !.items = NoLines]]]
    /\ UNCHANGED <<ordersVars, lot, consumer, consumed>>
\* The view loads the lot; its items are read later.
OpenLotPage(p, l) ==
    /\ lot[l].status # "none"
    /\ lotPage' = [lotPage EXCEPT ![p] =
            [pc |-> "loading", of |-> l, shown |-> [lot[l] EXCEPT !.items = NoLines]]]
    /\ UNCHANGED <<ordersVars, lot, consumer, consumed>>

ReadLotItems(p) ==
    /\ lotPage[p].pc = "loading"
    /\ lotPage' = [lotPage EXCEPT ![p].pc = "open",
                                  ![p].shown.items = lot[lotPage[p].of].items]
    /\ UNCHANGED <<ordersVars, lot, consumer, consumed>>

(***************************************************************************)
(* Commands                                                                *)
(***************************************************************************)

\* A form posted twice finds its receipt.
CreateFulfillment(p, l, items, m) ==
    LET o == lotPage[p].of IN
    /\ lotPage[p].pc = "create"
    /\ lot[l].status = "none"
    /\ order[o].status = "confirmed"
    /\ items # NoLines
    /\ Fits(o, items, LotsOf(o))
    /\ lot' = [lot EXCEPT ![l] = [status |-> "draft", version |-> 1, of |-> o,
                                  method |-> m, items |-> items]]
    /\ lotPage' = [lotPage EXCEPT ![p] = ClosedLotPage]
    /\ UNCHANGED <<ordersVars, consumer, consumed>>

\* _lock_order_then_fulfillment and _ensure_version of a page that shows a lot.
Commands(p, l) ==
    /\ lotPage[p].pc = "open"
    /\ lotPage[p].of = l
    /\ order[lot[l].of].status = "confirmed"
    /\ lotPage[p].shown.version = lot[l].version

SaveLot(p, l, row) ==
    /\ lot' = [lot EXCEPT ![l] = [row EXCEPT !.version = lot[l].version + 1]]
    /\ lotPage' = [lotPage EXCEPT ![p] = ClosedLotPage]
    /\ UNCHANGED <<ordersVars, consumer, consumed>>

\* Mutation: the items are replaced under the same version.
ReplaceKeepingVersion(p, l, items) ==
    /\ Commands(p, l)
    /\ lot[l].status = "draft"
    /\ lot[l].version < MaxLotEdits
    /\ items # NoLines
    /\ Fits(lot[l].of, items, LotsOf(lot[l].of) \ {l})
    /\ lot' = [lot EXCEPT ![l].items = items]
    /\ lotPage' = [lotPage EXCEPT ![p] = ClosedLotPage]
    /\ UNCHANGED <<ordersVars, consumer, consumed>>
ReplaceAllocations(p, l, items) ==
    /\ Commands(p, l)
    /\ lot[l].status = "draft"
    /\ lot[l].version < MaxLotEdits
    /\ items # NoLines
    /\ Fits(lot[l].of, items, LotsOf(lot[l].of) \ {l})
    /\ SaveLot(p, l, [lot[l] EXCEPT !.items = items])

\* ensure_transition
Allowed(l) ==
    CASE lot[l].status = "draft" -> {"preparing", "cancelled"}
      [] lot[l].status = "preparing" -> {"ready", "cancelled"}
      [] lot[l].status = "ready" ->
            IF lot[l].method = "pickup" THEN {"completed", "cancelled"}
                                        ELSE {"in_transit", "cancelled"}
      [] lot[l].status = "in_transit" -> {"completed", "cancelled"}
      [] OTHER -> {}

\* Mutation: the command does not read the order again.
TransitionOfAnyOrder(p, l, target) ==
    /\ lotPage[p].pc = "open"
    /\ lotPage[p].of = l
    /\ lotPage[p].shown.version = lot[l].version
    /\ target \in Allowed(l)
    /\ SaveLot(p, l, [lot[l] EXCEPT !.status = target])
TransitionFulfillment(p, l, target) ==
    /\ Commands(p, l)
    /\ target \in Allowed(l)
    /\ SaveLot(p, l, [lot[l] EXCEPT !.status = target])

(***************************************************************************)
(* consume_order_cancellations                                             *)
(***************************************************************************)
\* The events without a receipt, by their place in the outbox.
Pending == {k \in 1 .. Len(cancelled) : cancelled[k] \notin consumed}

OldestPending == {k \in Pending : Cardinality({j \in Pending : j <= k}) <= BatchLimit}

SelectCancellations(w) ==
    /\ consumer[w] = {}
    /\ Pending # {}
    /\ consumer' = [consumer EXCEPT ![w] = OldestPending]
    /\ UNCHANGED <<ordersVars, lot, lotPage, consumed>>

IsNext(w, k) == k \in consumer[w] /\ \A j \in consumer[w] : k <= j

\* Mutation: a lot that is ready or on its way is left to arrive.
CancelledUnlessReady(l) ==
    IF lot[l].status \in {"draft", "preparing"}
    THEN [lot[l] EXCEPT !.status = "cancelled", !.version = @ + 1]
    ELSE lot[l]
\* cancel_from_order_event
CancelledLot(l) ==
    IF lot[l].status \in OpenLot
    THEN [lot[l] EXCEPT !.status = "cancelled", !.version = @ + 1]
    ELSE lot[l]

\* Mutation: the event is consumed before the lots, in a transaction of its own.
ConsumeReceiptOnly(w, k) ==
    /\ IsNext(w, k)
    /\ consumer' = [consumer EXCEPT ![w] = @ \ {k}]
    /\ consumed' = consumed \cup {cancelled[k]}
    /\ UNCHANGED <<ordersVars, lot, lotPage>>
\* The receipt, every open lot of the order and their history in one transaction.  An
\* event another worker consumed meanwhile has its receipt and is passed over.
ConsumeOrderCancelledEvent(w, k) ==
    /\ IsNext(w, k)
    /\ consumer' = [consumer EXCEPT ![w] = @ \ {k}]
    /\ LET o == cancelled[k] IN
        \/ /\ o \in consumed
           /\ UNCHANGED <<lot, consumed>>
        \/ /\ o \notin consumed
           /\ order[o].status = "cancelled"
           /\ lot' = [l \in Lots |-> IF lot[l].of = o THEN CancelledLot(l) ELSE lot[l]]
           /\ consumed' = consumed \cup {o}
    /\ UNCHANGED <<ordersVars, lotPage>>

\* The process dies between two events; a transaction it had open rolls back.
ConsumerDies(w) ==
    /\ consumer[w] # {}
    /\ consumer' = [consumer EXCEPT ![w] = {}]
    /\ UNCHANGED <<ordersVars, lot, lotPage, consumed>>

PackerStep ==
    \E p \in Packers :
        \/ ReadLotItems(p)
        \/ \E o \in OrderIds : OpenLotForm(p, o)
        \/ \E l \in Lots :
            \/ OpenLotPage(p, l)
            \/ \E items \in Lines :
                \/ ReplaceAllocations(p, l, items)
                \/ \E m \in Methods : CreateFulfillment(p, l, items, m)
            \/ \E target \in LotStatus : TransitionFulfillment(p, l, target)

ConsumerStep ==
    \E w \in Consumers :
        \/ SelectCancellations(w)
        \/ \E k \in 1 .. Len(cancelled) : ConsumeOrderCancelledEvent(w, k)
        \/ ConsumerDies(w)

Next ==
    \/ OrdersNext /\ UNCHANGED lotVars
    \/ PackerStep
    \/ ConsumerStep

Spec == Init /\ [][Next]_vars

\* The beat starts the task every ten seconds and a worker does not die at every event.
Fairness ==
    \A w \in Consumers :
        /\ WF_vars(SelectCancellations(w))
        /\ SF_vars(\E k \in 1 .. Len(cancelled) : ConsumeOrderCancelledEvent(w, k))

FairSpec == Spec /\ Fairness

(***************************************************************************)
(* Properties                                                              *)
(***************************************************************************)

\* The rows, pages, batches and receipts have the declared shape, and a lot belongs to
\* an order.
TypeOK ==
    /\ OrdersTypeOK
    /\ lot \in [Lots -> LotRow]
    /\ \A l \in Lots : lot[l].status # "none" => lot[l].of \in OrderIds
    /\ lotPage \in [Packers -> LotPage]
    /\ \A p \in Packers :
        /\ lotPage[p].pc \in {"loading", "open"} =>
            lotPage[p].of \in Lots /\ lot[lotPage[p].of].status # "none"
        /\ lotPage[p].pc = "create" => lotPage[p].of \in OrderIds
    /\ consumer \in [Consumers -> SUBSET (1 .. Len(cancelled))]
    /\ consumed \in SUBSET OrderIds

\* The lots of an order that are not cancelled never take more of an item than the order
\* has, although several packers create and edit lots of it at once, cancelled lots give
\* their quantity back and the order was edited before it was confirmed.
AllocationBounded ==
    \A o \in OrderIds, i \in Items : Allocated(LotsOf(o), i) <= order[o].lines[i]

\* Once an order is cancelled its lots change only by being cancelled: none advances,
\* none is created and a completed one stays as it is, also before the event is consumed.
NothingAdvancesAfterCancellation ==
    [][\A l \in Lots :
        lot'[l] # lot[l] /\ lot'[l].of \in OrderIds =>
            \/ order[lot'[l].of].status = "confirmed"
            \/ /\ order[lot'[l].of].status = "cancelled"
               /\ lot[l].status \in OpenLot
               /\ lot'[l] = [lot[l] EXCEPT !.status = "cancelled",
                                           !.version = lot[l].version + 1]]_vars

\* A lot of a confirmed order is changed only by a packer whose page shows it as it is.
LotChangedAsShown ==
    [][\A l \in Lots :
        lot[l].status # "none" /\ lot'[l] # lot[l] /\ order[lot[l].of].status = "confirmed" =>
            \E p \in Packers :
                /\ lotPage[p].pc = "open"
                /\ lotPage[p].of = l
                /\ lotPage[p].shown = lot[l]]_vars

\* A consumed cancellation left no open lot behind and none appears later.
ConsumedMeansClosed ==
    \A l \in Lots : lot[l].of \in consumed => lot[l].status \notin OpenLot

\* All lots of a cancelled order are closed in the end, whichever worker dies with which
\* batch and however many cancellations come before it.
CancelledOrderIsClosed ==
    \A o \in OrderIds :
        order[o].status = "cancelled" ~>
            \A l \in Lots : lot[l].of = o => lot[l].status \notin OpenLot
=============================================================================

------------------------------- MODULE Orders -------------------------------
(***************************************************************************)
(* apps/orders: orders edited by several sellers, each on the page he      *)
(* loaded earlier, confirmed, and cancelled.                               *)
(*                                                                         *)
(* A command is one transaction that locks the order, so it is one action. *)
(* A page is not: order_detail reads the order and then its items, and its *)
(* forms post the version of the first read whenever the seller likes.     *)
(*                                                                         *)
(* A repeated command finds its receipt and changes nothing, and a refused *)
(* one rolls back: neither is an action.  Prices, discounts and totals,    *)
(* which every edit recomputes from the lines, are left out.               *)
(***************************************************************************)
EXTENDS Naturals, Sequences

CONSTANTS
    OrderIds,
    Items,        \* the places of an order's lines
    Customers,    \* customers an order may be for
    Sellers,
    MaxQuantity,  \* bound: quantity of a line
    MaxVersion,   \* bound: the version up to which a draft is edited
    Nothing

ASSUME QuantityAssumption == MaxQuantity \in Nat
ASSUME VersionAssumption == MaxVersion \in Nat

VARIABLES
    order,      \* Order rows with their OrderItem rows
    orderPage,  \* the order page each seller has open
    cancelled   \* the order.cancelled events of the outbox, oldest first

ordersVars == <<order, orderPage, cancelled>>

\* A line with quantity 0 does not exist.
Lines == [Items -> 0 .. MaxQuantity]
NoLines == [i \in Items |-> 0]

OrderStatus == {"none", "draft", "confirmed", "cancelled"}
OrderRow == [status : OrderStatus, version : Nat,
             customer : Customers \cup {Nothing}, lines : Lines]
NoOrder == [status |-> "none", version |-> 0, customer |-> Nothing, lines |-> NoLines]

\* shown: the row of the order and its lines as the page shows them.
OrderPage == [pc : {"closed", "loading", "open"}, of : OrderIds \cup {Nothing},
              shown : OrderRow]
ClosedOrderPage == [pc |-> "closed", of |-> Nothing, shown |-> NoOrder]

OrdersInit ==
    /\ order = [o \in OrderIds |-> NoOrder]
    /\ orderPage = [s \in Sellers |-> ClosedOrderPage]
    /\ cancelled = <<>>

(***************************************************************************)
(* The page                                                                *)
(***************************************************************************)

\* The view loads the order; its lines are read later.
OpenOrder(s, o) ==
    /\ order[o].status # "none"
    /\ orderPage' = [orderPage EXCEPT ![s] =
            [pc |-> "loading", of |-> o, shown |-> [order[o] EXCEPT !.lines = NoLines]]]
    /\ UNCHANGED <<order, cancelled>>

ReadOrderItems(s) ==
    /\ orderPage[s].pc = "loading"
    /\ orderPage' = [orderPage EXCEPT ![s].pc = "open",
                                      ![s].shown.lines = order[orderPage[s].of].lines]
    /\ UNCHANGED <<order, cancelled>>

(***************************************************************************)
(* The commands.  Each posts the version of the page, and the page is      *)
(* loaded again after it.                                                  *)
(***************************************************************************)
PostedOn(s, o) == orderPage[s].pc = "open" /\ orderPage[s].of = o

SameVersion(s, o) == orderPage[s].shown.version = order[o].version

Save(s, o, row) ==
    /\ order' = [order EXCEPT ![o] = [row EXCEPT !.version = order[o].version + 1]]
    /\ orderPage' = [orderPage EXCEPT ![s] = ClosedOrderPage]

CreateOrder(o, c) ==
    /\ order[o].status = "none"
    /\ order' = [order EXCEPT ![o] =
            [status |-> "draft", version |-> 1, customer |-> c, lines |-> NoLines]]
    /\ UNCHANGED <<orderPage, cancelled>>

Editable(s, o) ==
    /\ PostedOn(s, o)
    /\ order[o].status = "draft"
    /\ SameVersion(s, o)
    /\ order[o].version < MaxVersion

ChangeCustomer(s, o, c) ==
    /\ Editable(s, o)
    /\ Save(s, o, [order[o] EXCEPT !.customer = c])
    /\ UNCHANGED cancelled

\* Mutation: the lines change under the same version.
AddItemKeepingVersion(s, o, i, q) ==
    /\ Editable(s, o)
    /\ order[o].lines[i] = 0
    /\ q > 0
    /\ order' = [order EXCEPT ![o].lines[i] = q]
    /\ orderPage' = [orderPage EXCEPT ![s] = ClosedOrderPage]
    /\ UNCHANGED cancelled
AddItem(s, o, i, q) ==
    /\ Editable(s, o)
    /\ order[o].lines[i] = 0
    /\ q > 0
    /\ Save(s, o, [order[o] EXCEPT !.lines[i] = q])
    /\ UNCHANGED cancelled

UpdateItem(s, o, i, q) ==
    /\ Editable(s, o)
    /\ order[o].lines[i] > 0
    /\ q > 0
    /\ Save(s, o, [order[o] EXCEPT !.lines[i] = q])
    /\ UNCHANGED cancelled

RemoveItem(s, o, i) ==
    /\ Editable(s, o)
    /\ order[o].lines[i] > 0
    /\ Save(s, o, [order[o] EXCEPT !.lines[i] = 0])
    /\ UNCHANGED cancelled

ConfirmOrder(s, o) ==
    /\ PostedOn(s, o)
    /\ SameVersion(s, o)
    /\ order[o].status = "draft"
    /\ order[o].lines # NoLines
    /\ Save(s, o, [order[o] EXCEPT !.status = "confirmed"])
    /\ UNCHANGED cancelled

\* Mutation: the transition is not checked, a cancelled order is cancelled again.
CancelAgain(s, o) ==
    /\ PostedOn(s, o)
    /\ SameVersion(s, o)
    /\ order[o].version <= MaxVersion + 1
    /\ Save(s, o, [order[o] EXCEPT !.status = "cancelled"])
    /\ cancelled' = Append(cancelled, o)
CancelOrder(s, o) ==
    /\ PostedOn(s, o)
    /\ SameVersion(s, o)
    /\ order[o].status \in {"draft", "confirmed"}
    /\ Save(s, o, [order[o] EXCEPT !.status = "cancelled"])
    /\ cancelled' = Append(cancelled, o)

OrdersNext ==
    \/ \E o \in OrderIds, c \in Customers : CreateOrder(o, c)
    \/ \E s \in Sellers :
        \/ ReadOrderItems(s)
        \/ \E o \in OrderIds :
            \/ OpenOrder(s, o)
            \/ ConfirmOrder(s, o)
            \/ CancelOrder(s, o)
            \/ \E c \in Customers : ChangeCustomer(s, o, c)
            \/ \E i \in Items :
                \/ RemoveItem(s, o, i)
                \/ \E q \in 1 .. MaxQuantity : AddItem(s, o, i, q) \/ UpdateItem(s, o, i, q)

(***************************************************************************)
(* Properties                                                              *)
(***************************************************************************)

\* A row of orders has the shape the models declare, and only cancelled orders have
\* a cancellation event.
OrdersTypeOK ==
    /\ order \in [OrderIds -> OrderRow]
    /\ orderPage \in [Sellers -> OrderPage]
    /\ \A s \in Sellers : orderPage[s].pc # "closed" => orderPage[s].of \in OrderIds
    /\ cancelled \in Seq(OrderIds)

\* An order is edited, confirmed or cancelled only by someone whose page shows it as
\* it is: nobody overwrites or confirms a change he has not seen, although the page
\* reads the order and its lines one after the other.
ChangedAsShown ==
    [][\A o \in OrderIds :
        order[o].status # "none" /\ order'[o] # order[o] =>
            \E s \in Sellers :
                /\ orderPage[s].pc = "open"
                /\ orderPage[s].of = o
                /\ orderPage[s].shown = order[o]]_ordersVars

\* One order.cancelled event for each cancelled order, and none for another, so that
\* one receipt per event is one receipt per order.
OneCancellationEvent ==
    /\ \A k \in 1 .. Len(cancelled) : order[cancelled[k]].status = "cancelled"
    /\ \A o \in OrderIds : order[o].status = "cancelled" =>
        \E k \in 1 .. Len(cancelled) : cancelled[k] = o
    /\ \A j, k \in 1 .. Len(cancelled) : cancelled[j] = cancelled[k] => j = k
=============================================================================

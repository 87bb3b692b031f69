---------------------------- MODULE OrdersProofs ----------------------------
(***************************************************************************)
(* What the commands of Orders keep, for the modules that put Orders       *)
(* together with fulfillment and with payments.                            *)
(***************************************************************************)
EXTENDS Orders, TLAPS

(***************************************************************************)
(* Types                                                                   *)
(***************************************************************************)

LEMMA NoLinesType == NoLines \in Lines
  BY QuantityAssumption DEF NoLines, Lines

\* Saving a row changes only its version.
LEMMA NewVersion ==
  ASSUME NEW row \in OrderRow, NEW v \in Nat
  PROVE [row EXCEPT !.version = v] \in OrderRow
  BY DEF OrderRow

\* The page after each of its two reads.
LEMMA PageOfRow ==
  ASSUME NEW row \in OrderRow, NEW o \in OrderIds
  PROVE [pc |-> "loading", of |-> o, shown |-> [row EXCEPT !.lines = NoLines]] \in OrderPage
<1>1. [row EXCEPT !.lines = NoLines] \in OrderRow
  BY NoLinesType DEF OrderRow
<1>2. QED
  BY <1>1 DEF OrderPage

LEMMA PageWithLines ==
  ASSUME NEW page \in OrderPage, NEW lines \in Lines
  PROVE /\ [page EXCEPT !.pc = "open", !.shown.lines = lines] \in OrderPage
        /\ [page EXCEPT !.pc = "open", !.shown.lines = lines].of = page.of
        /\ [page EXCEPT !.pc = "open", !.shown.lines = lines].pc = "open"
<1>1. [page.shown EXCEPT !.lines = lines] \in OrderRow
  BY DEF OrderPage, OrderRow
<1>2. [page EXCEPT !.pc = "open", !.shown.lines = lines]
        = [page EXCEPT !.pc = "open", !.shown = [page.shown EXCEPT !.lines = lines]]
  BY DEF OrderPage
<1>3. QED
  BY <1>1, <1>2 DEF OrderPage

LEMMA OpenedPage ==
  ASSUME OrdersTypeOK, NEW s \in Sellers, orderPage[s].of \in OrderIds
  PROVE LET page == [orderPage[s] EXCEPT !.pc = "open",
                                         !.shown.lines = order[orderPage[s].of].lines]
        IN page \in OrderPage /\ page.of = orderPage[s].of
<1>1. orderPage[s] \in OrderPage /\ order[orderPage[s].of] \in OrderRow
  BY DEF OrdersTypeOK
<1>2. order[orderPage[s].of].lines \in Lines
  BY <1>1 DEF OrderRow
<1>3. QED
  BY <1>1, <1>2, PageWithLines

\* A row with one line written is a row.
LEMMA NewLine ==
  ASSUME NEW row \in OrderRow, NEW i \in Items, NEW q \in 0 .. MaxQuantity
  PROVE [row EXCEPT !.lines[i] = q] \in OrderRow
<1>1. row.lines \in Lines
  BY DEF OrderRow
<1>2. [row.lines EXCEPT ![i] = q] \in Lines
  BY <1>1 DEF Lines
<1>3. [row EXCEPT !.lines[i] = q] = [row EXCEPT !.lines = [row.lines EXCEPT ![i] = q]]
  OBVIOUS
<1>4. QED
  BY <1>2, <1>3 DEF OrderRow

LEMMA ClosedPageType == ClosedOrderPage \in OrderPage /\ ClosedOrderPage.pc = "closed"
<1>1. NoOrder \in OrderRow
  BY NoLinesType DEF NoOrder, OrderRow, OrderStatus
<1>2. QED
  BY <1>1 DEF ClosedOrderPage, OrderPage

\* A step that saves a row, or writes one page, keeps the types.
LEMMA SaveType ==
  ASSUME OrdersTypeOK, NEW s \in Sellers, NEW o \in OrderIds, NEW row \in OrderRow,
         Save(s, o, row), cancelled' \in Seq(OrderIds)
  PROVE OrdersTypeOK'
<1>1. order[o].version + 1 \in Nat
  BY DEF OrdersTypeOK, OrderRow
<1>2. [row EXCEPT !.version = order[o].version + 1] \in OrderRow
  BY <1>1, NewVersion
<1>3. order' = [order EXCEPT ![o] = [row EXCEPT !.version = order[o].version + 1]]
      /\ orderPage' = [orderPage EXCEPT ![s] = ClosedOrderPage]
  BY DEF Save
<1>4. order' \in [OrderIds -> OrderRow]
  BY <1>2, <1>3 DEF OrdersTypeOK
<1>5. orderPage' \in [Sellers -> OrderPage]
      /\ \A t \in Sellers : orderPage'[t].pc # "closed" => orderPage'[t].of \in OrderIds
  BY <1>3, ClosedPageType DEF OrdersTypeOK
<1>6. QED
  BY <1>4, <1>5 DEF OrdersTypeOK

LEMMA PageType ==
  ASSUME OrdersTypeOK, NEW s \in Sellers, NEW page \in OrderPage, page.of \in OrderIds,
         orderPage' = [orderPage EXCEPT ![s] = page], UNCHANGED <<order, cancelled>>
  PROVE OrdersTypeOK'
<1>1. orderPage' \in [Sellers -> OrderPage]
      /\ \A t \in Sellers : orderPage'[t].pc # "closed" => orderPage'[t].of \in OrderIds
  BY DEF OrdersTypeOK
<1>2. QED
  BY <1>1 DEF OrdersTypeOK

\* Every step of a seller keeps the shape of orders, pages and events.
LEMMA OrdersTypeStep == OrdersTypeOK /\ OrdersNext => OrdersTypeOK'
<1> SUFFICES ASSUME OrdersTypeOK, OrdersNext PROVE OrdersTypeOK'
  OBVIOUS
<1>0. /\ \A o \in OrderIds : order[o] \in OrderRow
      /\ cancelled \in Seq(OrderIds)
      /\ \A o \in OrderIds : Append(cancelled, o) \in Seq(OrderIds)
  BY DEF OrdersTypeOK
<1>1. ASSUME NEW o \in OrderIds, NEW c \in Customers, CreateOrder(o, c)
      PROVE OrdersTypeOK'
  <2> DEFINE row == [status |-> "draft", version |-> 1, customer |-> c, lines |-> NoLines]
  <2>1. row \in OrderRow
    BY NoLinesType DEF OrderRow, OrderStatus
  <2>2. order' = [order EXCEPT ![o] = row] /\ UNCHANGED <<orderPage, cancelled>>
    BY <1>1 DEF CreateOrder
  <2> HIDE DEF row
  <2>3. QED
    BY <2>1, <2>2 DEF OrdersTypeOK
<1>2. ASSUME NEW s \in Sellers, ReadOrderItems(s) PROVE OrdersTypeOK'
  <2> DEFINE page == [orderPage[s] EXCEPT !.pc = "open",
                                          !.shown.lines = order[orderPage[s].of].lines]
  <2>1. orderPage[s].of \in OrderIds
    BY <1>2 DEF ReadOrderItems, OrdersTypeOK
  <2>2. page \in OrderPage /\ page.of \in OrderIds
    BY <2>1, OpenedPage
  <2>3. orderPage' = [orderPage EXCEPT ![s] = page] /\ UNCHANGED <<order, cancelled>>
    BY <1>2 DEF ReadOrderItems
  <2> HIDE DEF page
  <2>4. QED
    BY <2>2, <2>3, PageType
<1>3. ASSUME NEW s \in Sellers, NEW o \in OrderIds, OpenOrder(s, o) PROVE OrdersTypeOK'
  <2> DEFINE page == [pc |-> "loading", of |-> o, shown |-> [order[o] EXCEPT !.lines = NoLines]]
  <2>1. page \in OrderPage /\ page.of \in OrderIds
    BY <1>0, PageOfRow
  <2>2. orderPage' = [orderPage EXCEPT ![s] = page] /\ UNCHANGED <<order, cancelled>>
    BY <1>3 DEF OpenOrder
  <2> HIDE DEF page
  <2>3. QED
    BY <2>1, <2>2, PageType
<1>4. \A status \in {"confirmed", "cancelled"} : status \in OrderStatus
  BY DEF OrderStatus
<1>5. ASSUME NEW s \in Sellers, NEW o \in OrderIds, NEW c \in Customers,
             ChangeCustomer(s, o, c)
      PROVE OrdersTypeOK'
  <2>1. [order[o] EXCEPT !.customer = c] \in OrderRow
    BY <1>0 DEF OrderRow
  <2>2. Save(s, o, [order[o] EXCEPT !.customer = c]) /\ cancelled' = cancelled
    BY <1>5 DEF ChangeCustomer
  <2>3. QED
    BY <1>0, <2>1, <2>2, SaveType
<1>6. ASSUME NEW s \in Sellers, NEW o \in OrderIds, ConfirmOrder(s, o) PROVE OrdersTypeOK'
  <2>1. [order[o] EXCEPT !.status = "confirmed"] \in OrderRow
    BY <1>0, <1>4 DEF OrderRow
  <2>2. Save(s, o, [order[o] EXCEPT !.status = "confirmed"]) /\ cancelled' = cancelled
    BY <1>6 DEF ConfirmOrder
  <2>3. QED
    BY <1>0, <2>1, <2>2, SaveType
<1>7. ASSUME NEW s \in Sellers, NEW o \in OrderIds, CancelOrder(s, o) PROVE OrdersTypeOK'
  <2>1. [order[o] EXCEPT !.status = "cancelled"] \in OrderRow
    BY <1>0, <1>4 DEF OrderRow
  <2>2. Save(s, o, [order[o] EXCEPT !.status = "cancelled"])
        /\ cancelled' = Append(cancelled, o)
    BY <1>7 DEF CancelOrder
  <2>3. QED
    BY <1>0, <2>1, <2>2, SaveType
<1>9. ASSUME NEW s \in Sellers, NEW o \in OrderIds, NEW i \in Items, RemoveItem(s, o, i)
      PROVE OrdersTypeOK'
  <2>1. 0 \in 0 .. MaxQuantity
    BY QuantityAssumption
  <2>2. Save(s, o, [order[o] EXCEPT !.lines[i] = 0]) /\ cancelled' = cancelled
    BY <1>9 DEF RemoveItem
  <2>3. [order[o] EXCEPT !.lines[i] = 0] \in OrderRow
    BY <1>0, <2>1, NewLine
  <2>4. QED
    BY <1>0, <2>2, <2>3, SaveType
<1>10. ASSUME NEW s \in Sellers, NEW o \in OrderIds, NEW i \in Items,
              NEW q \in 1 .. MaxQuantity, AddItem(s, o, i, q) \/ UpdateItem(s, o, i, q)
       PROVE OrdersTypeOK'
  <2>1. q \in 0 .. MaxQuantity
    BY QuantityAssumption
  <2>2. Save(s, o, [order[o] EXCEPT !.lines[i] = q]) /\ cancelled' = cancelled
    BY <1>10 DEF AddItem, UpdateItem
  <2>3. [order[o] EXCEPT !.lines[i] = q] \in OrderRow
    BY <1>0, <2>1, NewLine
  <2>4. QED
    BY <1>0, <2>2, <2>3, SaveType
<1>11. QED
  BY <1>1, <1>2, <1>3, <1>5, <1>6, <1>7, <1>9, <1>10 DEF OrdersNext

(***************************************************************************)
(* What a step of a seller does to an order and to the outbox              *)
(***************************************************************************)

\* A step leaves an order, or creates it, or saves it from the page of a seller that
\* shows its version.
SavedFrom(s, o) ==
    /\ orderPage[s].pc = "open"
    /\ orderPage[s].of = o
    /\ orderPage[s].shown.version = order[o].version
    /\ order[o].status \in {"draft", "confirmed"}
    /\ order'[o].version = order[o].version + 1
    /\ order'[o].status # "none"

LEMMA OrderStep ==
  ASSUME OrdersTypeOK, OrdersNext, NEW o \in OrderIds
  PROVE \/ order'[o] = order[o]
        \/ order[o].status = "none"
        \/ \E s \in Sellers : SavedFrom(s, o)
<1> USE DEF OrdersTypeOK
<1>1. ASSUME NEW s \in Sellers, NEW p \in OrderIds, NEW row \in OrderRow,
             row.status # "none", order[p].status \in {"draft", "confirmed"},
             PostedOn(s, p), SameVersion(s, p), Save(s, p, row)
      PROVE \/ order'[o] = order[o]
            \/ \E t \in Sellers : SavedFrom(t, o)
  <2>1. CASE o # p
    BY <1>1, <2>1 DEF Save
  <2>2. CASE o = p
    <3>1. order'[o] = [row EXCEPT !.version = order[o].version + 1]
      BY <1>1, <2>2 DEF Save
    <3>2. order'[o].version = order[o].version + 1 /\ order'[o].status # "none"
      BY <1>1, <3>1 DEF OrderRow
    <3>3. QED
      BY <1>1, <2>2, <3>2 DEF SavedFrom, PostedOn, SameVersion
  <2>3. QED
    BY <2>1, <2>2
<1>2. ASSUME NEW p \in OrderIds, NEW c \in Customers, CreateOrder(p, c)
      PROVE order'[o] = order[o] \/ order[o].status = "none"
  BY <1>2 DEF CreateOrder
<1>3. ASSUME NEW s \in Sellers,
             ReadOrderItems(s) \/ \E p \in OrderIds : OpenOrder(s, p)
      PROVE order'[o] = order[o]
  BY <1>3 DEF OpenOrder, ReadOrderItems
<1>4. ASSUME NEW s \in Sellers, NEW p \in OrderIds, NEW c \in Customers,
             ChangeCustomer(s, p, c)
      PROVE order'[o] = order[o] \/ \E t \in Sellers : SavedFrom(t, o)
  <2>1. /\ [order[p] EXCEPT !.customer = c] \in OrderRow
        /\ [order[p] EXCEPT !.customer = c].status = order[p].status
    BY DEF OrderRow
  <2>2. QED
    BY <1>1, <1>4, <2>1 DEF ChangeCustomer, Editable
<1>5. ASSUME NEW s \in Sellers, NEW p \in OrderIds, ConfirmOrder(s, p)
      PROVE order'[o] = order[o] \/ \E t \in Sellers : SavedFrom(t, o)
  <2>1. /\ [order[p] EXCEPT !.status = "confirmed"] \in OrderRow
        /\ [order[p] EXCEPT !.status = "confirmed"].status = "confirmed"
    BY DEF OrderRow, OrderStatus
  <2>2. QED
    BY <1>1, <1>5, <2>1 DEF ConfirmOrder
<1>6. ASSUME NEW s \in Sellers, NEW p \in OrderIds, CancelOrder(s, p)
      PROVE order'[o] = order[o] \/ \E t \in Sellers : SavedFrom(t, o)
  <2>1. /\ [order[p] EXCEPT !.status = "cancelled"] \in OrderRow
        /\ [order[p] EXCEPT !.status = "cancelled"].status = "cancelled"
    BY DEF OrderRow, OrderStatus
  <2>2. QED
    BY <1>1, <1>6, <2>1 DEF CancelOrder
<1>7. ASSUME NEW s \in Sellers, NEW p \in OrderIds, NEW i \in Items,
             \/ RemoveItem(s, p, i)
             \/ \E q \in 1 .. MaxQuantity : AddItem(s, p, i, q) \/ UpdateItem(s, p, i, q)
      PROVE order'[o] = order[o] \/ \E t \in Sellers : SavedFrom(t, o)
  <2>1. ASSUME NEW n \in 0 .. MaxQuantity
        PROVE /\ [order[p] EXCEPT !.lines[i] = n] \in OrderRow
              /\ [order[p] EXCEPT !.lines[i] = n].status = order[p].status
    BY DEF OrderRow, Lines
  <2>2. CASE RemoveItem(s, p, i)
    <3>1. 0 \in 0 .. MaxQuantity
      BY QuantityAssumption
    <3>2. QED
      BY <1>1, <2>1, <2>2, <3>1 DEF RemoveItem, Editable
  <2>3. ASSUME NEW q \in 1 .. MaxQuantity, AddItem(s, p, i, q) \/ UpdateItem(s, p, i, q)
        PROVE order'[o] = order[o] \/ \E t \in Sellers : SavedFrom(t, o)
    <3>1. q \in 0 .. MaxQuantity
      BY QuantityAssumption
    <3>2. QED
      BY <1>1, <2>1, <2>3, <3>1 DEF AddItem, UpdateItem, Editable
  <2>4. QED
    BY <1>7, <2>2, <2>3
<1>8. QED
  BY <1>2, <1>3, <1>4, <1>5, <1>6, <1>7 DEF OrdersNext

\* A step appends the event of an order to the outbox exactly when it cancels it.
LEMMA EventStep ==
  ASSUME OrdersTypeOK, OrdersNext
  PROVE \/ /\ cancelled' = cancelled
           /\ \A o \in OrderIds : order'[o].status = "cancelled" <=> order[o].status = "cancelled"
        \/ \E p \in OrderIds :
            /\ cancelled' = Append(cancelled, p)
            /\ order[p].status \in {"draft", "confirmed"}
            /\ order'[p].status = "cancelled"
            /\ \A o \in OrderIds \ {p} : order'[o] = order[o]
<1> USE DEF OrdersTypeOK
<1>1. ASSUME NEW s \in Sellers, NEW p \in OrderIds, NEW row,
             row.status # "cancelled", order[p].status # "cancelled",
             row \in OrderRow, Save(s, p, row)
      PROVE \A o \in OrderIds : order'[o].status = "cancelled" <=> order[o].status = "cancelled"
  BY <1>1 DEF Save, OrderRow
<1>2. ASSUME NEW s \in Sellers, NEW p \in OrderIds, CancelOrder(s, p)
      PROVE /\ cancelled' = Append(cancelled, p)
            /\ order[p].status \in {"draft", "confirmed"}
            /\ order'[p].status = "cancelled"
            /\ \A o \in OrderIds \ {p} : order'[o] = order[o]
  <2>1. order[p] \in OrderRow
    OBVIOUS
  <2>2. order'[p] = [[order[p] EXCEPT !.status = "cancelled"] EXCEPT
                        !.version = order[p].version + 1]
    BY <1>2 DEF CancelOrder, Save
  <2>3. order'[p].status = "cancelled"
    BY <2>1, <2>2 DEF OrderRow
  <2>4. QED
    BY <1>2, <2>3 DEF CancelOrder, Save
<1>3. ASSUME NEW s \in Sellers, NEW p \in OrderIds,
             ConfirmOrder(s, p) \/ \E c \in Customers : ChangeCustomer(s, p, c)
      PROVE /\ cancelled' = cancelled
            /\ \A o \in OrderIds : order'[o].status = "cancelled" <=> order[o].status = "cancelled"
  <2>1. CASE ConfirmOrder(s, p)
    <3>1. /\ [order[p] EXCEPT !.status = "confirmed"] \in OrderRow
          /\ [order[p] EXCEPT !.status = "confirmed"].status = "confirmed"
      BY DEF OrderRow, OrderStatus
    <3>2. QED
      BY <1>1, <2>1, <3>1 DEF ConfirmOrder
  <2>2. ASSUME NEW c \in Customers, ChangeCustomer(s, p, c)
        PROVE /\ cancelled' = cancelled
              /\ \A o \in OrderIds :
                    order'[o].status = "cancelled" <=> order[o].status = "cancelled"
    <3>1. /\ [order[p] EXCEPT !.customer = c] \in OrderRow
          /\ [order[p] EXCEPT !.customer = c].status = order[p].status
      BY DEF OrderRow
    <3>2. QED
      BY <1>1, <2>2, <3>1 DEF ChangeCustomer, Editable
  <2>3. QED
    BY <1>3, <2>1, <2>2
<1>4. ASSUME NEW s \in Sellers, NEW p \in OrderIds, NEW i \in Items,
             \/ RemoveItem(s, p, i)
             \/ \E q \in 1 .. MaxQuantity : AddItem(s, p, i, q) \/ UpdateItem(s, p, i, q)
      PROVE /\ cancelled' = cancelled
            /\ \A o \in OrderIds : order'[o].status = "cancelled" <=> order[o].status = "cancelled"
  <2>1. ASSUME NEW n \in 0 .. MaxQuantity
        PROVE /\ [order[p] EXCEPT !.lines[i] = n] \in OrderRow
              /\ [order[p] EXCEPT !.lines[i] = n].status = order[p].status
    BY DEF OrderRow, Lines
  <2>2. CASE RemoveItem(s, p, i)
    <3>1. 0 \in 0 .. MaxQuantity
      BY QuantityAssumption
    <3>2. QED
      BY <1>1, <2>1, <2>2, <3>1 DEF RemoveItem, Editable
  <2>3. ASSUME NEW q \in 1 .. MaxQuantity, AddItem(s, p, i, q) \/ UpdateItem(s, p, i, q)
        PROVE /\ cancelled' = cancelled
              /\ \A o \in OrderIds :
                    order'[o].status = "cancelled" <=> order[o].status = "cancelled"
    <3>1. q \in 0 .. MaxQuantity
      BY QuantityAssumption
    <3>2. QED
      BY <1>1, <2>1, <2>3, <3>1 DEF AddItem, UpdateItem, Editable
  <2>4. QED
    BY <1>4, <2>2, <2>3
<1>5. ASSUME \/ \E p \in OrderIds, c \in Customers : CreateOrder(p, c)
             \/ \E s \in Sellers : ReadOrderItems(s)
             \/ \E s \in Sellers, p \in OrderIds : OpenOrder(s, p)
      PROVE /\ cancelled' = cancelled
            /\ \A o \in OrderIds : order'[o].status = "cancelled" <=> order[o].status = "cancelled"
  <2>1. ASSUME NEW p \in OrderIds, NEW c \in Customers, CreateOrder(p, c)
        PROVE /\ cancelled' = cancelled
              /\ \A o \in OrderIds :
                    order'[o].status = "cancelled" <=> order[o].status = "cancelled"
    BY <2>1 DEF CreateOrder
  <2>2. QED
    BY <1>5, <2>1 DEF OpenOrder, ReadOrderItems
<1>6. QED
  BY <1>2, <1>3, <1>4, <1>5 DEF OrdersNext

(***************************************************************************)
(* Pages                                                                   *)
(***************************************************************************)

\* What a page shows is the order as it is, unless its version has moved on.
OrderPagesHonest ==
    \A s \in Sellers : orderPage[s].pc # "closed" =>
        LET now == order[orderPage[s].of]
            shown == orderPage[s].shown IN
        /\ now.status # "none"
        /\ shown.version <= now.version
        /\ shown.version = now.version =>
            shown = IF orderPage[s].pc = "open" THEN now ELSE [now EXCEPT !.lines = NoLines]

\* A step closes a page, loads it, reads its lines or leaves it as it is.
LEMMA OrderPageStep ==
  ASSUME OrdersTypeOK, OrdersNext, NEW s \in Sellers
  PROVE \/ orderPage'[s] = orderPage[s]
        \/ orderPage'[s] = ClosedOrderPage
        \/ /\ order' = order
           /\ \E o \in OrderIds :
                /\ order[o].status # "none"
                /\ orderPage'[s] = [pc |-> "loading", of |-> o,
                                    shown |-> [order[o] EXCEPT !.lines = NoLines]]
        \/ /\ order' = order
           /\ orderPage[s].pc = "loading"
           /\ orderPage'[s] = [orderPage[s] EXCEPT
                    !.pc = "open",
                    !.shown.lines = order[orderPage[s].of].lines]
<1> USE DEF OrdersTypeOK
<1>1. ASSUME NEW t \in Sellers, NEW p \in OrderIds, NEW row, Save(t, p, row)
      PROVE orderPage'[s] = orderPage[s] \/ orderPage'[s] = ClosedOrderPage
  BY <1>1 DEF Save
<1>2. ASSUME NEW t \in Sellers, NEW p \in OrderIds,
             \/ \E c \in Customers : ChangeCustomer(t, p, c)
             \/ ConfirmOrder(t, p)
             \/ CancelOrder(t, p)
             \/ \E i \in Items : RemoveItem(t, p, i)
             \/ \E i \in Items, q \in 1 .. MaxQuantity :
                    AddItem(t, p, i, q) \/ UpdateItem(t, p, i, q)
      PROVE orderPage'[s] = orderPage[s] \/ orderPage'[s] = ClosedOrderPage
  BY <1>1, <1>2 DEF ChangeCustomer, ConfirmOrder, CancelOrder, RemoveItem, AddItem, UpdateItem
<1>3. ASSUME NEW t \in Sellers, NEW p \in OrderIds, OpenOrder(t, p)
      PROVE \/ orderPage'[s] = orderPage[s]
            \/ /\ order' = order
               /\ order[p].status # "none"
               /\ orderPage'[s] = [pc |-> "loading", of |-> p,
                                   shown |-> [order[p] EXCEPT !.lines = NoLines]]
  BY <1>3 DEF OpenOrder
<1>4. ASSUME NEW t \in Sellers, ReadOrderItems(t)
      PROVE \/ orderPage'[s] = orderPage[s]
            \/ /\ order' = order
               /\ orderPage[s].pc = "loading"
               /\ orderPage'[s] = [orderPage[s] EXCEPT
                        !.pc = "open",
                        !.shown.lines = order[orderPage[s].of].lines]
  BY <1>4 DEF ReadOrderItems
<1>5. ASSUME NEW p \in OrderIds, NEW c \in Customers, CreateOrder(p, c)
      PROVE orderPage'[s] = orderPage[s]
  BY <1>5 DEF CreateOrder
<1>6. QED
  BY <1>2, <1>3, <1>4, <1>5 DEF OrdersNext

LEMMA OrderPagesHonestStep ==
  OrdersTypeOK /\ OrderPagesHonest /\ OrdersNext => OrderPagesHonest'
<1> SUFFICES ASSUME OrdersTypeOK, OrderPagesHonest, OrdersNext,
                    NEW s \in Sellers, orderPage'[s].pc # "closed"
             PROVE LET now == order'[orderPage'[s].of]
                       shown == orderPage'[s].shown IN
                   /\ now.status # "none"
                   /\ shown.version <= now.version
                   /\ shown.version = now.version =>
                        shown = IF orderPage'[s].pc = "open" THEN now
                                ELSE [now EXCEPT !.lines = NoLines]
  BY DEF OrderPagesHonest
<1> DEFINE o == orderPage[s].of
<1>1. CASE orderPage'[s] = orderPage[s]
  <2>1. o \in OrderIds /\ order[o] \in OrderRow /\ orderPage[s].shown \in OrderRow
    BY <1>1 DEF OrdersTypeOK, OrderPage
  <2>2. \/ order'[o] = order[o]
        \/ order'[o].version = order[o].version + 1 /\ order'[o].status # "none"
    <3>1. order[o].status # "none"
      BY <1>1 DEF OrderPagesHonest
    <3>2. order'[o] = order[o] \/ \E t \in Sellers : SavedFrom(t, o)
      BY <2>1, <3>1, OrderStep
    <3>3. QED
      BY <3>2 DEF SavedFrom
  <2>3. orderPage[s].shown.version \in Nat /\ order[o].version \in Nat
    BY <2>1 DEF OrderRow
  <2>4. CASE order'[o] = order[o]
    BY <1>1, <2>4 DEF OrderPagesHonest
  <2>5. CASE order'[o].version = order[o].version + 1 /\ order'[o].status # "none"
    <3>1. orderPage[s].shown.version <= order[o].version
      BY <1>1 DEF OrderPagesHonest
    <3>2. /\ orderPage[s].shown.version <= order'[o].version
          /\ orderPage[s].shown.version # order'[o].version
      BY <2>3, <2>5, <3>1
    <3>3. QED
      BY <1>1, <2>5, <3>2
  <2>6. QED
    BY <2>2, <2>4, <2>5
<1>2. CASE orderPage'[s] = ClosedOrderPage
  BY <1>2 DEF ClosedOrderPage
<1>3. ASSUME order' = order, NEW p \in OrderIds, order[p].status # "none",
             orderPage'[s] = [pc |-> "loading", of |-> p,
                              shown |-> [order[p] EXCEPT !.lines = NoLines]]
      PROVE LET now == order'[orderPage'[s].of]
                shown == orderPage'[s].shown IN
            /\ now.status # "none"
            /\ shown.version <= now.version
            /\ shown.version = now.version =>
                 shown = IF orderPage'[s].pc = "open" THEN now
                         ELSE [now EXCEPT !.lines = NoLines]
  <2>1. order[p] \in OrderRow
    BY DEF OrdersTypeOK
  <2>2. order[p].version \in Nat /\ [order[p] EXCEPT !.lines = NoLines].version = order[p].version
    BY <2>1 DEF OrderRow
  <2>3. /\ orderPage'[s].of = p
        /\ orderPage'[s].pc = "loading"
        /\ orderPage'[s].shown = [order[p] EXCEPT !.lines = NoLines]
    BY <1>3
  <2>4. orderPage'[s].shown.version = order[p].version
    BY <2>2, <2>3
  <2>5. order[p].version <= order[p].version
    BY <2>2
  <2>6. QED
    BY <1>3, <2>3, <2>4, <2>5
<1>4. CASE /\ order' = order
           /\ orderPage[s].pc = "loading"
           /\ orderPage'[s] = [orderPage[s] EXCEPT !.pc = "open",
                                                   !.shown.lines = order[o].lines]
  <2>1. o \in OrderIds /\ order[o] \in OrderRow /\ orderPage[s] \in OrderPage
    BY <1>4 DEF OrdersTypeOK
  <2>2. orderPage[s].shown \in OrderRow
    BY <2>1 DEF OrderPage
  <2>3. orderPage'[s].shown = [orderPage[s].shown EXCEPT !.lines = order[o].lines]
    BY <1>4, <2>1 DEF OrderPage
  <2>4. orderPage'[s].pc = "open" /\ orderPage'[s].of = o
    BY <1>4, <2>1 DEF OrderPage
  <2>5. orderPage'[s].shown.version = orderPage[s].shown.version
    BY <2>2, <2>3 DEF OrderRow
  <2>6. CASE orderPage[s].shown.version = order[o].version
    <3>1. orderPage[s].shown = [order[o] EXCEPT !.lines = NoLines]
      BY <1>4, <2>6 DEF OrderPagesHonest
    <3>2. orderPage'[s].shown = order[o]
      BY <2>1, <2>3, <3>1 DEF OrderRow
    <3>3. QED
      BY <1>4, <2>4, <2>5, <3>2 DEF OrderPagesHonest
  <2>7. CASE orderPage[s].shown.version # order[o].version
    BY <1>4, <2>4, <2>5, <2>7 DEF OrderPagesHonest
  <2>8. QED
    BY <2>6, <2>7
<1>5. QED
  BY <1>1, <1>2, <1>3, <1>4, OrderPageStep

(***************************************************************************)
(* Orders                                                                  *)
(***************************************************************************)

LEMMA CancelledStays ==
  ASSUME OrdersTypeOK, OrdersNext, NEW o \in OrderIds, order[o].status = "cancelled"
  PROVE order'[o] = order[o]
  BY OrderStep DEF SavedFrom

\* The lines of an order are fixed once it is confirmed, and it is no draft again.
LEMMA PlacedStays ==
  ASSUME OrdersTypeOK, OrdersNext, NEW o \in OrderIds,
         order[o].status \in {"confirmed", "cancelled"}
  PROVE /\ order'[o].lines = order[o].lines
        /\ order'[o].status \in {"confirmed", "cancelled"}
<1>0. order \in [OrderIds -> OrderRow]
  BY DEF OrdersTypeOK
<1>1. \A p \in OrderIds : order[p] \in OrderRow /\ order[p].version + 1 \in Nat
  BY <1>0 DEF OrderRow
<1>2. CASE order'[o] = order[o]
  BY <1>2
<1>3. ASSUME NEW s \in Sellers, NEW p \in OrderIds, CancelOrder(s, p)
      PROVE \/ order'[o] = order[o]
            \/ /\ order'[o].lines = order[o].lines
               /\ order'[o].status = "cancelled"
  <2> DEFINE row == [order[p] EXCEPT !.status = "cancelled"]
  <2>1. row \in OrderRow /\ row.lines = order[p].lines /\ row.status = "cancelled"
    BY <1>1 DEF OrderRow, OrderStatus
  <2>2. order' = [order EXCEPT ![p] = [row EXCEPT !.version = order[p].version + 1]]
    BY <1>3 DEF CancelOrder, Save
  <2> HIDE DEF row
  <2>3. /\ [row EXCEPT !.version = order[p].version + 1].lines = row.lines
        /\ [row EXCEPT !.version = order[p].version + 1].status = row.status
    BY <2>1 DEF OrderRow
  <2>4. CASE p = o
    <3>1. order'[o] = [row EXCEPT !.version = order[p].version + 1]
      BY <1>0, <2>2, <2>4
    <3>2. QED
      BY <2>1, <2>3, <2>4, <3>1
  <2>5. CASE p # o
    BY <1>0, <2>2, <2>5
  <2>6. QED
    BY <2>4, <2>5
<1>4. ASSUME NEW s \in Sellers, NEW p \in OrderIds, order[p].status = "draft",
             NEW row, Save(s, p, row)
      PROVE order'[o] = order[o]
  BY <1>0, <1>4 DEF Save
<1>5. ASSUME NEW p \in OrderIds, NEW c \in Customers, CreateOrder(p, c)
      PROVE order'[o] = order[o]
  BY <1>0, <1>5 DEF CreateOrder
<1>6. ASSUME NEW s \in Sellers, ReadOrderItems(s) \/ \E p \in OrderIds : OpenOrder(s, p)
      PROVE order'[o] = order[o]
  BY <1>6 DEF ReadOrderItems, OpenOrder
<1>7. ASSUME NEW s \in Sellers, NEW p \in OrderIds,
             ConfirmOrder(s, p) \/ \E c \in Customers : ChangeCustomer(s, p, c)
      PROVE order'[o] = order[o]
  BY <1>4, <1>7 DEF ConfirmOrder, ChangeCustomer, Editable
<1>8. ASSUME NEW s \in Sellers, NEW p \in OrderIds, NEW i \in Items,
             \/ RemoveItem(s, p, i)
             \/ \E q \in 1 .. MaxQuantity : AddItem(s, p, i, q) \/ UpdateItem(s, p, i, q)
      PROVE order'[o] = order[o]
  BY <1>4, <1>8 DEF RemoveItem, AddItem, UpdateItem, Editable
<1>9. QED
  BY <1>2, <1>3, <1>5, <1>6, <1>7, <1>8 DEF OrdersNext

LEMMA OneEventStep == OrdersTypeOK /\ OneCancellationEvent /\ OrdersNext => OneCancellationEvent'
<1> SUFFICES ASSUME OrdersTypeOK, OneCancellationEvent, OrdersNext
             PROVE OneCancellationEvent'
  OBVIOUS
<1>1. cancelled \in Seq(OrderIds) /\ Len(cancelled) \in Nat
  BY DEF OrdersTypeOK
<1>2. \A k \in 1 .. Len(cancelled) : cancelled[k] \in OrderIds
  BY <1>1
<1>3. CASE /\ cancelled' = cancelled
           /\ \A o \in OrderIds : order'[o].status = "cancelled" <=> order[o].status = "cancelled"
  BY <1>2, <1>3 DEF OneCancellationEvent
<1>4. ASSUME NEW p \in OrderIds,
             cancelled' = Append(cancelled, p),
             order[p].status \in {"draft", "confirmed"},
             order'[p].status = "cancelled",
             \A o \in OrderIds \ {p} : order'[o] = order[o]
      PROVE OneCancellationEvent'
  <2>1. /\ Len(cancelled') = Len(cancelled) + 1
        /\ cancelled'[Len(cancelled) + 1] = p
        /\ \A k \in 1 .. Len(cancelled) : cancelled'[k] = cancelled[k]
    BY <1>1, <1>4
  <2>2. \A k \in 1 .. Len(cancelled) : cancelled[k] # p
    BY <1>2, <1>4 DEF OneCancellationEvent
  <2>3. \A k \in 1 .. Len(cancelled') :
            k = Len(cancelled) + 1 \/ k \in 1 .. Len(cancelled)
    BY <1>1, <2>1
  <2>4. \A k \in 1 .. Len(cancelled') : order'[cancelled'[k]].status = "cancelled"
    BY <1>2, <1>4, <2>1, <2>2, <2>3 DEF OneCancellationEvent
  <2>5. ASSUME NEW o \in OrderIds, order'[o].status = "cancelled"
        PROVE \E k \in 1 .. Len(cancelled') : cancelled'[k] = o
    <3>1. CASE o = p
      BY <1>1, <2>1, <3>1
    <3>2. CASE o # p
      <4>1. PICK k \in 1 .. Len(cancelled) : cancelled[k] = o
        BY <1>4, <2>5, <3>2 DEF OneCancellationEvent
      <4>2. k \in 1 .. Len(cancelled') /\ cancelled'[k] = o
        BY <1>1, <2>1, <4>1
      <4>3. QED
        BY <4>2
    <3>3. QED
      BY <3>1, <3>2
  <2>6. \A j, k \in 1 .. Len(cancelled') : cancelled'[j] = cancelled'[k] => j = k
    BY <2>1, <2>2, <2>3 DEF OneCancellationEvent
  <2>7. QED
    BY <2>4, <2>5, <2>6 DEF OneCancellationEvent
<1>5. QED
  BY <1>3, <1>4, EventStep

LEMMA ChangedAsShownStep ==
  ASSUME OrdersTypeOK, OrderPagesHonest, OrdersNext, NEW o \in OrderIds,
         order[o].status # "none", order'[o] # order[o]
  PROVE \E s \in Sellers :
            /\ orderPage[s].pc = "open"
            /\ orderPage[s].of = o
            /\ orderPage[s].shown = order[o]
<1>1. PICK s \in Sellers : SavedFrom(s, o)
  BY OrderStep
<1>2. QED
  BY <1>1 DEF SavedFrom, OrderPagesHonest

LEMMA OrdersTypeInitially == OrdersInit => OrdersTypeOK
<1>1. NoOrder \in OrderRow
  BY NoLinesType DEF NoOrder, OrderRow, OrderStatus
<1>2. ClosedOrderPage \in OrderPage /\ ClosedOrderPage.pc = "closed"
  BY <1>1 DEF ClosedOrderPage, OrderPage
<1>3. QED
  BY <1>1, <1>2 DEF OrdersInit, OrdersTypeOK
=============================================================================

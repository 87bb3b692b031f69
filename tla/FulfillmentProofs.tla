------------------------- MODULE FulfillmentProofs -------------------------
(***************************************************************************)
(* Proofs about Fulfillment, for any number of orders, sellers, lots,      *)
(* packers, consumers and any bounds.                                      *)
(***************************************************************************)
EXTENDS Fulfillment, OrdersProofs, FiniteSetTheorems, TLAPS

(***************************************************************************)
(* Lots                                                                    *)
(***************************************************************************)

\* A step of the lots leaves a lot, creates it for a confirmed order, moves it from a page
\* that shows its version, or closes it because its order is cancelled.
CreatedFor(l) ==
    /\ lot[l].status = "none"
    /\ lot'[l].status = "draft"
    /\ lot'[l].of \in OrderIds
    /\ order[lot'[l].of].status = "confirmed"
MovedFrom(p, l) ==
    /\ lotPage[p].pc = "open"
    /\ lotPage[p].of = l
    /\ lotPage[p].shown.version = lot[l].version
    /\ order[lot[l].of].status = "confirmed"
    /\ lot'[l].of = lot[l].of
    /\ lot'[l].version = lot[l].version + 1
    /\ lot'[l].status # "none"
ClosedWithOrder(l) ==
    /\ order[lot[l].of].status = "cancelled"
    /\ lot[l].status \in OpenLot
    /\ lot'[l] = [lot[l] EXCEPT !.status = "cancelled", !.version = lot[l].version + 1]

LEMMA NextCases ==
  ASSUME [Next]_vars
  PROVE \/ (OrdersNext \/ UNCHANGED ordersVars) /\ UNCHANGED lotVars
        \/ PackerStep \/ ConsumerStep
  BY DEF Next, vars

\* Packers and consumers do not write orders, and packers do not consume.
LEMMA PackerFrame ==
  ASSUME PackerStep PROVE UNCHANGED ordersVars /\ consumed' = consumed
<1>1. PICK p \in Packers :
        \/ ReadLotItems(p)
        \/ \E o \in OrderIds : OpenLotForm(p, o)
        \/ \E l \in Lots :
            \/ OpenLotPage(p, l)
            \/ \E items \in Lines :
                \/ ReplaceAllocations(p, l, items)
                \/ \E m \in Methods : CreateFulfillment(p, l, items, m)
            \/ \E target \in LotStatus : TransitionFulfillment(p, l, target)
  BY DEF PackerStep
<1>2. CASE ReadLotItems(p) \/ \E o \in OrderIds : OpenLotForm(p, o)
  BY <1>2 DEF ReadLotItems, OpenLotForm
<1>3. CASE \E l \in Lots : OpenLotPage(p, l)
  BY <1>3 DEF OpenLotPage
<1>4. CASE \E l \in Lots, items \in Lines : ReplaceAllocations(p, l, items)
  BY <1>4 DEF ReplaceAllocations, SaveLot
<1>5. CASE \E l \in Lots, items \in Lines, m \in Methods : CreateFulfillment(p, l, items, m)
  BY <1>5 DEF CreateFulfillment
<1>6. CASE \E l \in Lots, target \in LotStatus : TransitionFulfillment(p, l, target)
  BY <1>6 DEF TransitionFulfillment, SaveLot
<1>7. QED
  BY <1>1, <1>2, <1>3, <1>4, <1>5, <1>6

LEMMA ConsumerFrame ==
  ASSUME ConsumerStep PROVE UNCHANGED ordersVars
<1>1. PICK w \in Consumers :
        \/ SelectCancellations(w)
        \/ \E k \in 1 .. Len(cancelled) : ConsumeOrderCancelledEvent(w, k)
        \/ ConsumerDies(w)
  BY DEF ConsumerStep
<1>2. CASE SelectCancellations(w) \/ ConsumerDies(w)
  BY <1>2 DEF SelectCancellations, ConsumerDies
<1>3. CASE \E k \in 1 .. Len(cancelled) : ConsumeOrderCancelledEvent(w, k)
  BY <1>3 DEF ConsumeOrderCancelledEvent
<1>4. QED
  BY <1>1, <1>2, <1>3

\* What any step does to the orders.
LEMMA OrdersSide ==
  ASSUME [Next]_vars PROVE OrdersNext \/ UNCHANGED ordersVars
  BY NextCases, PackerFrame, ConsumerFrame

LEMMA LotRowSaved ==
  ASSUME NEW row \in LotRow, NEW v \in Nat
  PROVE /\ [row EXCEPT !.version = v] \in LotRow
        /\ [row EXCEPT !.version = v].version = v
        /\ [row EXCEPT !.version = v].of = row.of
        /\ [row EXCEPT !.version = v].status = row.status
  BY DEF LotRow

LEMMA LotRowMoved ==
  ASSUME NEW row \in LotRow, NEW target \in LotStatus
  PROVE /\ [row EXCEPT !.status = target] \in LotRow
        /\ [row EXCEPT !.status = target].of = row.of
        /\ [row EXCEPT !.status = target].status = target
  BY DEF LotRow

LEMMA LotRowFilled ==
  ASSUME NEW row \in LotRow, NEW items \in Lines
  PROVE /\ [row EXCEPT !.items = items] \in LotRow
        /\ [row EXCEPT !.items = items].of = row.of
        /\ [row EXCEPT !.items = items].status = row.status
        /\ [row EXCEPT !.items = items].version = row.version
  BY DEF LotRow

LEMMA LotPageWithItems ==
  ASSUME NEW page \in LotPage, NEW items \in Lines
  PROVE /\ [page EXCEPT !.pc = "open", !.shown.items = items] \in LotPage
        /\ [page EXCEPT !.pc = "open", !.shown.items = items].of = page.of
        /\ [page EXCEPT !.pc = "open", !.shown.items = items].pc = "open"
<1>1. [page.shown EXCEPT !.items = items] \in LotRow
  BY LotRowFilled DEF LotPage
<1>2. [page EXCEPT !.pc = "open", !.shown.items = items]
        = [page EXCEPT !.pc = "open", !.shown = [page.shown EXCEPT !.items = items]]
  BY DEF LotPage
<1>3. QED
  BY <1>1, <1>2 DEF LotPage

LEMMA CancelledLotRow ==
  ASSUME TypeOK, NEW l \in Lots
  PROVE /\ CancelledLot(l) \in LotRow
        /\ CancelledLot(l).of = lot[l].of
        /\ CancelledLot(l).status \notin OpenLot
        /\ CancelledLot(l).status = "none" <=> lot[l].status = "none"
        /\ \/ CancelledLot(l) = lot[l]
           \/ /\ lot[l].status \in OpenLot
              /\ CancelledLot(l) = [lot[l] EXCEPT !.status = "cancelled",
                                                  !.version = lot[l].version + 1]
              /\ CancelledLot(l).version = lot[l].version + 1
              /\ CancelledLot(l).status = "cancelled"
<1>1. lot[l] \in LotRow
  BY DEF TypeOK
<1>2. CASE lot[l].status \in OpenLot
  <2> DEFINE row == [lot[l] EXCEPT !.status = "cancelled", !.version = lot[l].version + 1]
  <2>1. /\ row \in LotRow
        /\ row.of = lot[l].of
        /\ row.status = "cancelled"
        /\ row.version = lot[l].version + 1
    <3>1. "cancelled" \in LotStatus /\ lot[l].version + 1 \in Nat
      BY <1>1 DEF LotRow, LotStatus
    <3> DEFINE half == [lot[l] EXCEPT !.status = "cancelled"]
    <3>2. row = [half EXCEPT !.version = lot[l].version + 1]
      OBVIOUS
    <3>3. half \in LotRow /\ half.of = lot[l].of /\ half.status = "cancelled"
      BY <1>1, <3>1, LotRowMoved
    <3> HIDE DEF row, half
    <3>4. QED
      BY <3>1, <3>2, <3>3, LotRowSaved
  <2>2. CancelledLot(l) = row
    BY <1>2 DEF CancelledLot
  <2> HIDE DEF row
  <2>3. "cancelled" \notin OpenLot /\ "none" \notin OpenLot
    BY DEF OpenLot
  <2>4. QED
    BY <1>2, <2>1, <2>2, <2>3 DEF row
<1>3. CASE lot[l].status \notin OpenLot
  BY <1>1, <1>3 DEF CancelledLot
<1>4. QED
  BY <1>2, <1>3

LEMMA LotStep ==
  ASSUME TypeOK, [Next]_vars, NEW l \in Lots
  PROVE \/ lot'[l] = lot[l]
        \/ CreatedFor(l)
        \/ \E p \in Packers : MovedFrom(p, l)
        \/ ClosedWithOrder(l)
<1>1. lot \in [Lots -> LotRow] /\ lot[l] \in LotRow
  BY DEF TypeOK
<1>2. ASSUME NEW p \in Packers, NEW m \in Lots, NEW row \in LotRow,
             Commands(p, m), row.of = lot[m].of, row.status # "none", SaveLot(p, m, row)
      PROVE lot'[l] = lot[l] \/ \E q \in Packers : MovedFrom(q, l)
  <2>1. CASE m # l
    BY <1>1, <1>2, <2>1 DEF SaveLot
  <2>2. CASE m = l
    <3>1. lot'[l] = [row EXCEPT !.version = lot[l].version + 1]
      BY <1>1, <1>2, <2>2 DEF SaveLot
    <3>2. lot[l].version + 1 \in Nat
      BY <1>1 DEF LotRow
    <3>3. /\ lot'[l].of = lot[l].of
          /\ lot'[l].status # "none"
          /\ lot'[l].version = lot[l].version + 1
      BY <1>2, <2>2, <3>1, <3>2, LotRowSaved
    <3>4. MovedFrom(p, l)
      BY <1>2, <2>2, <3>3 DEF MovedFrom, Commands
    <3>5. QED
      BY <3>4
  <2>3. QED
    BY <2>1, <2>2
<1>3. ASSUME NEW p \in Packers, NEW m \in Lots, NEW items \in Lines,
             ReplaceAllocations(p, m, items)
      PROVE lot'[l] = lot[l] \/ \E q \in Packers : MovedFrom(q, l)
  <2>1. lot[m] \in LotRow /\ lot[m].status = "draft"
    BY <1>1, <1>3 DEF ReplaceAllocations
  <2>2. QED
    BY <1>2, <1>3, <2>1, LotRowFilled DEF ReplaceAllocations
<1>4. ASSUME NEW p \in Packers, NEW m \in Lots, NEW target \in LotStatus,
             TransitionFulfillment(p, m, target)
      PROVE lot'[l] = lot[l] \/ \E q \in Packers : MovedFrom(q, l)
  <2>1. lot[m] \in LotRow /\ target # "none"
    BY <1>1, <1>4 DEF TransitionFulfillment, Allowed
  <2>2. QED
    BY <1>2, <1>4, <2>1, LotRowMoved DEF TransitionFulfillment
<1>5. ASSUME NEW p \in Packers, NEW m \in Lots, NEW items \in Lines, NEW h \in Methods,
             CreateFulfillment(p, m, items, h)
      PROVE lot'[l] = lot[l] \/ CreatedFor(l)
  <2>1. CASE m # l
    BY <1>1, <1>5, <2>1 DEF CreateFulfillment
  <2>2. CASE m = l
    <3>1. lotPage[p].of \in OrderIds
      BY <1>5 DEF TypeOK, CreateFulfillment
    <3>2. QED
      BY <1>1, <1>5, <2>2, <3>1 DEF CreateFulfillment, CreatedFor
  <2>3. QED
    BY <2>1, <2>2
<1>6. ASSUME NEW w \in Consumers, NEW k \in 1 .. Len(cancelled),
             ConsumeOrderCancelledEvent(w, k)
      PROVE lot'[l] = lot[l] \/ ClosedWithOrder(l)
  <2>1. CASE UNCHANGED lot
    BY <2>1
  <2>2. CASE /\ order[cancelled[k]].status = "cancelled"
             /\ lot' = [m \in Lots |->
                          IF lot[m].of = cancelled[k] THEN CancelledLot(m) ELSE lot[m]]
    <3>1. CASE lot[l].of = cancelled[k]
      BY <2>2, <3>1, CancelledLotRow DEF ClosedWithOrder
    <3>2. CASE lot[l].of # cancelled[k]
      BY <2>2, <3>2
    <3>3. QED
      BY <3>1, <3>2
  <2>3. QED
    BY <1>6, <2>1, <2>2 DEF ConsumeOrderCancelledEvent
<1>7. CASE PackerStep
  <2>1. ASSUME NEW p \in Packers,
               \/ ReadLotItems(p)
               \/ \E o \in OrderIds : OpenLotForm(p, o)
               \/ \E m \in Lots : OpenLotPage(p, m)
        PROVE lot'[l] = lot[l]
    BY <2>1 DEF ReadLotItems, OpenLotForm, OpenLotPage
  <2>2. QED
    BY <1>3, <1>4, <1>5, <1>7, <2>1 DEF PackerStep
<1>8. CASE ConsumerStep
  BY <1>6, <1>8 DEF ConsumerStep, SelectCancellations, ConsumerDies
<1>9. QED
  BY <1>7, <1>8, NextCases DEF lotVars

LEMMA LotsTypeStep == TypeOK /\ [Next]_vars => TypeOK'
<1> SUFFICES ASSUME TypeOK, [Next]_vars PROVE TypeOK'
  OBVIOUS
<1>1. lot \in [Lots -> LotRow] /\ lotPage \in [Packers -> LotPage]
  BY DEF TypeOK
<1>2. OrdersTypeOK
  BY DEF TypeOK
<1>3. /\ UNCHANGED ordersVars => OrdersTypeOK'
  BY <1>2 DEF OrdersTypeOK, ordersVars
<1>4. ClosedLotPage \in LotPage
  BY NoLinesType DEF ClosedLotPage, LotPage, NoLot, LotRow, LotStatus, Method
<1>5. CASE (OrdersNext \/ UNCHANGED ordersVars) /\ UNCHANGED lotVars
  <2>1. OrdersTypeOK'
    BY <1>2, <1>3, <1>5, OrdersTypeStep
  <2>2. 1 .. Len(cancelled) \subseteq 1 .. Len(cancelled')
    <3>1. CASE cancelled' = cancelled
      BY <3>1
    <3>2. ASSUME NEW o \in OrderIds, cancelled' = Append(cancelled, o)
          PROVE 1 .. Len(cancelled) \subseteq 1 .. Len(cancelled')
      BY <1>2, <3>2 DEF OrdersTypeOK
    <3>3. QED
      BY <1>2, <1>5, <3>1, <3>2, EventStep DEF ordersVars
  <2>3. consumer' \in [Consumers -> SUBSET (1 .. Len(cancelled'))]
    BY <1>5, <2>2 DEF TypeOK, lotVars
  <2>4. QED
    BY <1>5, <2>1, <2>3 DEF TypeOK, lotVars
<1>6. ASSUME NEW p \in Packers, NEW m \in Lots, NEW row \in LotRow,
             lot[m].status # "none", row.of = lot[m].of, row.status # "none",
             SaveLot(p, m, row)
      PROVE TypeOK'
  <2>1. [row EXCEPT !.version = lot[m].version + 1] \in LotRow
    BY <1>1, LotRowSaved DEF LotRow
  <2>2. /\ [row EXCEPT !.version = lot[m].version + 1].of = lot[m].of
        /\ [row EXCEPT !.version = lot[m].version + 1].status # "none"
    BY <1>1, <1>6, LotRowSaved DEF LotRow
  <2>3. lot' \in [Lots -> LotRow]
    BY <1>1, <1>6, <2>1 DEF SaveLot
  <2>4. lotPage' = [lotPage EXCEPT ![p] = ClosedLotPage]
    BY <1>6 DEF SaveLot
  <2>5. lotPage' \in [Packers -> LotPage]
    BY <1>1, <1>4, <2>4
  <2>6. \A l \in Lots : lot'[l].of = lot[l].of /\ (lot[l].status # "none" => lot'[l].status # "none")
    BY <1>1, <1>6, <2>2 DEF SaveLot
  <2>7. \A l \in Lots : lot'[l].status # "none" => lot'[l].of \in OrderIds
    BY <1>1, <1>6, <2>2, <2>6 DEF TypeOK, SaveLot
  <2>8. \A q \in Packers : lotPage'[q] = lotPage[q] \/ lotPage'[q].pc = "closed"
    BY <1>1, <2>4 DEF ClosedLotPage
  <2>9. UNCHANGED <<ordersVars, consumer, consumed>>
    BY <1>6 DEF SaveLot
  <2>10. QED
    BY <1>3, <2>3, <2>5, <2>6, <2>7, <2>8, <2>9 DEF TypeOK, ordersVars
<1>7. ASSUME NEW p \in Packers, NEW page \in LotPage,
             page.pc \in {"loading", "open"} =>
                page.of \in Lots /\ lot[page.of].status # "none",
             page.pc = "create" => page.of \in OrderIds,
             lotPage' = [lotPage EXCEPT ![p] = page],
             UNCHANGED <<ordersVars, lot, consumer, consumed>>
      PROVE TypeOK'
  BY <1>1, <1>3, <1>7 DEF TypeOK, ordersVars
<1>8. ASSUME NEW p \in Packers, NEW o \in OrderIds, OpenLotForm(p, o) PROVE TypeOK'
  <2> DEFINE page == [ClosedLotPage EXCEPT !.pc = "create", !.of = o]
  <2>1. page \in LotPage /\ page.pc = "create" /\ page.of = o
    BY <1>4 DEF LotPage
  <2> HIDE DEF page
  <2>2. QED
    BY <1>7, <1>8, <2>1 DEF OpenLotForm, page
<1>9. ASSUME NEW p \in Packers, NEW m \in Lots, OpenLotPage(p, m) PROVE TypeOK'
  <2> DEFINE page == [pc |-> "loading", of |-> m,
                      shown |-> [lot[m] EXCEPT !.items = NoLines]]
  <2>1. [lot[m] EXCEPT !.items = NoLines] \in LotRow
    BY <1>1, NoLinesType, LotRowFilled
  <2>2. page \in LotPage /\ page.pc = "loading" /\ page.of = m
    BY <2>1 DEF LotPage
  <2> HIDE DEF page
  <2>3. QED
    BY <1>7, <1>9, <2>2 DEF OpenLotPage, page
<1>10. ASSUME NEW p \in Packers, ReadLotItems(p) PROVE TypeOK'
  <2> DEFINE items == lot[lotPage[p].of].items
             page == [lotPage[p] EXCEPT !.pc = "open", !.shown.items = items]
  <2>1. lotPage[p].of \in Lots /\ lot[lotPage[p].of].status # "none"
    BY <1>10 DEF TypeOK, ReadLotItems
  <2>2. items \in Lines
    BY <1>1, <2>1 DEF LotRow
  <2> HIDE DEF items
  <2>3. page \in LotPage /\ page.pc = "open" /\ page.of = lotPage[p].of
    BY <1>1, <2>2, LotPageWithItems
  <2>4. lotPage' = [lotPage EXCEPT ![p] = page]
    BY <1>10 DEF ReadLotItems, items
  <2> HIDE DEF page
  <2>5. QED
    BY <1>7, <1>10, <2>1, <2>3, <2>4 DEF ReadLotItems
<1>11. ASSUME NEW p \in Packers, NEW m \in Lots, NEW items \in Lines,
              ReplaceAllocations(p, m, items)
       PROVE TypeOK'
  <2>1. lot[m] \in LotRow /\ lot[m].status = "draft"
    BY <1>1, <1>11 DEF ReplaceAllocations
  <2>2. QED
    BY <1>6, <1>11, <2>1, LotRowFilled DEF ReplaceAllocations
<1>12. ASSUME NEW p \in Packers, NEW m \in Lots, NEW target \in LotStatus,
              TransitionFulfillment(p, m, target)
       PROVE TypeOK'
  <2>1. lot[m] \in LotRow /\ lot[m].status # "none" /\ target # "none"
    BY <1>1, <1>12 DEF TransitionFulfillment, Allowed
  <2>2. QED
    BY <1>6, <1>12, <2>1, LotRowMoved DEF TransitionFulfillment
<1>13. ASSUME NEW p \in Packers, NEW m \in Lots, NEW items \in Lines, NEW h \in Methods,
              CreateFulfillment(p, m, items, h)
       PROVE TypeOK'
  <2> DEFINE row == [status |-> "draft", version |-> 1, of |-> lotPage[p].of,
                     method |-> h, items |-> items]
  <2>1. lotPage[p].of \in OrderIds /\ lotPage[p].pc = "create"
    BY <1>13 DEF TypeOK, CreateFulfillment
  <2>2. row \in LotRow
    BY <2>1, MethodAssumption DEF LotRow, LotStatus
  <2>3. row.status = "draft" /\ row.of = lotPage[p].of
    OBVIOUS
  <2>4. ClosedLotPage \in LotPage /\ ClosedLotPage.pc = "closed"
    BY <1>4 DEF ClosedLotPage
  <2>5. lot' = [lot EXCEPT ![m] = row] /\ lotPage' = [lotPage EXCEPT ![p] = ClosedLotPage]
    BY <1>13 DEF CreateFulfillment
  <2> HIDE DEF row
  <2>6. \A l \in Lots : lot'[l].status # "none" => lot'[l].of \in OrderIds
    BY <1>1, <2>1, <2>3, <2>5 DEF TypeOK
  <2>7. \A l \in Lots : lot[l].status # "none" => lot'[l].status # "none"
    BY <1>1, <2>3, <2>5
  <2>8. \A q \in Packers : lotPage'[q].pc = "closed" \/ lotPage'[q] = lotPage[q]
    BY <1>1, <2>4, <2>5
  <2>9. lot' \in [Lots -> LotRow] /\ lotPage' \in [Packers -> LotPage]
    BY <1>1, <2>2, <2>4, <2>5
  <2>10. UNCHANGED <<ordersVars, consumer, consumed>>
    BY <1>13 DEF CreateFulfillment
  <2>11. QED
    BY <1>3, <2>6, <2>7, <2>8, <2>9, <2>10 DEF TypeOK, ordersVars
<1>14. ASSUME NEW w \in Consumers, NEW left \in SUBSET (1 .. Len(cancelled)),
              consumer' = [consumer EXCEPT ![w] = left],
              UNCHANGED <<ordersVars, lot, lotPage, consumed>>
       PROVE TypeOK'
  BY <1>3, <1>14 DEF TypeOK, ordersVars
<1>15. ASSUME NEW w \in Consumers, SelectCancellations(w) \/ ConsumerDies(w) PROVE TypeOK'
  <2>1. OldestPending \in SUBSET (1 .. Len(cancelled))
    BY DEF OldestPending, Pending
  <2>2. QED
    BY <1>14, <1>15, <2>1 DEF SelectCancellations, ConsumerDies
<1>16. ASSUME NEW w \in Consumers, NEW k \in 1 .. Len(cancelled),
              ConsumeOrderCancelledEvent(w, k)
       PROVE TypeOK'
  <2>1. consumer[w] \ {k} \in SUBSET (1 .. Len(cancelled))
    BY DEF TypeOK
  <2>2. CASE UNCHANGED <<lot, consumed>>
    BY <1>14, <1>16, <2>1, <2>2 DEF ConsumeOrderCancelledEvent
  <2>3. CASE /\ lot' = [m \in Lots |->
                          IF lot[m].of = cancelled[k] THEN CancelledLot(m) ELSE lot[m]]
             /\ consumed' = consumed \cup {cancelled[k]}
    <3>1. \A l \in Lots : /\ lot'[l] \in LotRow
                          /\ lot'[l].of = lot[l].of
                          /\ lot'[l].status = "none" <=> lot[l].status = "none"
      BY <1>1, <2>3, CancelledLotRow
    <3>2. lot' \in [Lots -> LotRow]
      BY <2>3, <3>1
    <3>3. cancelled[k] \in OrderIds
      BY <1>2 DEF OrdersTypeOK
    <3>4. consumed' \in SUBSET OrderIds
      BY <2>3, <3>3 DEF TypeOK
    <3>5. UNCHANGED <<ordersVars, lotPage>> /\ consumer' = [consumer EXCEPT ![w] = consumer[w] \ {k}]
      BY <1>16 DEF ConsumeOrderCancelledEvent
    <3>6. consumer' \in [Consumers -> SUBSET (1 .. Len(cancelled'))]
      BY <2>1, <3>5 DEF TypeOK, ordersVars
    <3>7. QED
      BY <1>3, <3>1, <3>2, <3>4, <3>5, <3>6 DEF TypeOK
  <2>4. QED
    BY <1>16, <2>2, <2>3 DEF ConsumeOrderCancelledEvent
<1>17. CASE PackerStep
  BY <1>8, <1>9, <1>10, <1>11, <1>12, <1>13, <1>17 DEF PackerStep
<1>18. CASE ConsumerStep
  BY <1>15, <1>16, <1>18 DEF ConsumerStep
<1>19. QED
  BY <1>5, <1>17, <1>18, NextCases

LEMMA InitTypeOK == Init => TypeOK
<1> SUFFICES ASSUME Init PROVE TypeOK
  OBVIOUS
<1>1. OrdersTypeOK
  BY OrdersTypeInitially DEF Init
<1>2. NoLot \in LotRow /\ NoLot.status = "none"
  BY NoLinesType DEF NoLot, LotRow, LotStatus, Method
<1>3. ClosedLotPage \in LotPage /\ ClosedLotPage.pc = "closed"
  BY <1>2 DEF ClosedLotPage, LotPage
<1>4. QED
  BY <1>1, <1>2, <1>3 DEF Init, TypeOK

\* Orders, lots, pages, batches and receipts keep their shape and a lot belongs to an
\* order: the whole state of Orders and Fulfillment in any execution.
THEOREM TypeCorrect == Spec => []TypeOK
  BY InitTypeOK, LotsTypeStep, PTL DEF Spec

(***************************************************************************)
(* Safety                                                                  *)
(***************************************************************************)

\* What a lot's page shows is the lot as it is, unless its version has moved on.
LotPagesHonest ==
    \A p \in Packers : lotPage[p].pc \in {"loading", "open"} =>
        LET now == lot[lotPage[p].of]
            shown == lotPage[p].shown IN
        /\ now.status # "none"
        /\ shown.version <= now.version
        /\ shown.version = now.version =>
            shown = IF lotPage[p].pc = "open" THEN now ELSE [now EXCEPT !.items = NoLines]

\* A step closes a page, makes it a creation form, loads a lot, reads its items or leaves
\* what it shows as it is.
LEMMA LotPageStep ==
  ASSUME TypeOK, [Next]_vars, NEW p \in Packers
  PROVE \/ lotPage'[p] = lotPage[p]
        \/ lotPage'[p].pc \notin {"loading", "open"}
        \/ /\ lot' = lot
           /\ \E l \in Lots :
                /\ lot[l].status # "none"
                /\ lotPage'[p] = [pc |-> "loading", of |-> l,
                                  shown |-> [lot[l] EXCEPT !.items = NoLines]]
        \/ /\ lot' = lot
           /\ lotPage[p].pc = "loading"
           /\ lotPage'[p] = [lotPage[p] EXCEPT
                    !.pc = "open",
                    !.shown.items = lot[lotPage[p].of].items]
<1>1. lotPage \in [Packers -> LotPage]
  BY DEF TypeOK
<1>2. ClosedLotPage.pc = "closed"
  BY DEF ClosedLotPage
<1>3. ASSUME NEW q \in Packers, NEW l \in Lots,
             \/ \E items \in Lines : ReplaceAllocations(q, l, items)
             \/ \E target \in LotStatus : TransitionFulfillment(q, l, target)
      PROVE lotPage'[p] = lotPage[p] \/ lotPage'[p].pc \notin {"loading", "open"}
  BY <1>1, <1>2, <1>3 DEF ReplaceAllocations, TransitionFulfillment, SaveLot
<1>4. ASSUME NEW q \in Packers, NEW o \in OrderIds, OpenLotForm(q, o)
      PROVE lotPage'[p] = lotPage[p] \/ lotPage'[p].pc \notin {"loading", "open"}
  BY <1>1, <1>4 DEF OpenLotForm, ClosedLotPage
<1>5. ASSUME NEW q \in Packers, NEW l \in Lots, NEW items \in Lines, NEW h \in Methods,
             CreateFulfillment(q, l, items, h)
      PROVE lotPage'[p] = lotPage[p] \/ lotPage'[p].pc \notin {"loading", "open"}
  BY <1>1, <1>2, <1>5 DEF CreateFulfillment
<1>6. ASSUME NEW q \in Packers, NEW l \in Lots, OpenLotPage(q, l)
      PROVE \/ lotPage'[p] = lotPage[p]
            \/ /\ lot' = lot
               /\ lot[l].status # "none"
               /\ lotPage'[p] = [pc |-> "loading", of |-> l,
                                 shown |-> [lot[l] EXCEPT !.items = NoLines]]
  BY <1>1, <1>6 DEF OpenLotPage
<1>7. ASSUME NEW q \in Packers, ReadLotItems(q)
      PROVE \/ lotPage'[p] = lotPage[p]
            \/ /\ lot' = lot
               /\ lotPage[p].pc = "loading"
               /\ lotPage'[p] = [lotPage[p] EXCEPT
                        !.pc = "open",
                        !.shown.items = lot[lotPage[p].of].items]
  BY <1>1, <1>7 DEF ReadLotItems
<1>8. CASE PackerStep
  BY <1>3, <1>4, <1>5, <1>6, <1>7, <1>8 DEF PackerStep
<1>9. CASE ConsumerStep
  BY <1>9 DEF ConsumerStep, SelectCancellations, ConsumeOrderCancelledEvent, ConsumerDies
<1>10. QED
  BY <1>8, <1>9, NextCases DEF lotVars

LEMMA LotPagesHonestStep == TypeOK /\ LotPagesHonest /\ [Next]_vars => LotPagesHonest'
<1> SUFFICES ASSUME TypeOK, LotPagesHonest, [Next]_vars,
                    NEW p \in Packers, lotPage'[p].pc \in {"loading", "open"}
             PROVE LET now == lot'[lotPage'[p].of]
                       shown == lotPage'[p].shown IN
                   /\ now.status # "none"
                   /\ shown.version <= now.version
                   /\ shown.version = now.version =>
                        shown = IF lotPage'[p].pc = "open" THEN now
                                ELSE [now EXCEPT !.items = NoLines]
  BY DEF LotPagesHonest
<1> DEFINE l == lotPage[p].of
<1>1. CASE lotPage'[p] = lotPage[p]
  <2>1. l \in Lots /\ lot[l] \in LotRow /\ lot[l].status # "none" /\ lotPage[p].shown \in LotRow
    BY <1>1 DEF TypeOK, LotPage
  <2>2. lotPage[p].shown.version \in Nat /\ lot[l].version \in Nat
    BY <2>1 DEF LotRow
  <2>3. CASE lot'[l] = lot[l]
    BY <1>1, <2>3 DEF LotPagesHonest
  <2>4. ASSUME lot'[l].version = lot[l].version + 1, lot'[l].status # "none"
        PROVE LET now == lot'[lotPage'[p].of]
                  shown == lotPage'[p].shown IN
              /\ now.status # "none"
              /\ shown.version <= now.version
              /\ shown.version = now.version =>
                   shown = IF lotPage'[p].pc = "open" THEN now
                           ELSE [now EXCEPT !.items = NoLines]
    <3>1. lotPage[p].shown.version <= lot[l].version
      BY <1>1 DEF LotPagesHonest
    <3>2. /\ lotPage[p].shown.version <= lot'[l].version
          /\ lotPage[p].shown.version # lot'[l].version
      BY <2>2, <2>4, <3>1
    <3>3. QED
      BY <1>1, <2>4, <3>2
  <2>5. CASE \E q \in Packers : MovedFrom(q, l)
    BY <2>4, <2>5 DEF MovedFrom
  <2>6. CASE ClosedWithOrder(l)
    <3> DEFINE row == [lot[l] EXCEPT !.status = "cancelled"]
    <3>1. row \in LotRow /\ row.status = "cancelled"
      BY <2>1, LotRowMoved DEF LotStatus
    <3>2. lot'[l] = [row EXCEPT !.version = lot[l].version + 1]
      BY <2>6 DEF ClosedWithOrder
    <3>3. lot[l].version + 1 \in Nat
      BY <2>2
    <3> HIDE DEF row
    <3>4. lot'[l].version = lot[l].version + 1 /\ lot'[l].status # "none"
      BY <3>1, <3>2, <3>3, LotRowSaved
    <3>5. QED
      BY <2>4, <3>4
  <2>7. QED
    BY <2>1, <2>3, <2>5, <2>6, LotStep DEF CreatedFor
<1>2. ASSUME lot' = lot, NEW m \in Lots, lot[m].status # "none",
             lotPage'[p] = [pc |-> "loading", of |-> m,
                            shown |-> [lot[m] EXCEPT !.items = NoLines]]
      PROVE LET now == lot'[lotPage'[p].of]
                shown == lotPage'[p].shown IN
            /\ now.status # "none"
            /\ shown.version <= now.version
            /\ shown.version = now.version =>
                 shown = IF lotPage'[p].pc = "open" THEN now
                         ELSE [now EXCEPT !.items = NoLines]
  <2>1. lot[m] \in LotRow
    BY DEF TypeOK
  <2>2. [lot[m] EXCEPT !.items = NoLines].version = lot[m].version
    BY <2>1, NoLinesType, LotRowFilled
  <2>3. /\ lotPage'[p].of = m
        /\ lotPage'[p].pc = "loading"
        /\ lotPage'[p].shown = [lot[m] EXCEPT !.items = NoLines]
    BY <1>2
  <2>4. lotPage'[p].shown.version = lot[m].version
    BY <2>2, <2>3
  <2>5. lot[m].version <= lot[m].version
    BY <2>1 DEF LotRow
  <2>6. QED
    BY <1>2, <2>3, <2>4, <2>5
<1>3. CASE /\ lot' = lot
           /\ lotPage[p].pc = "loading"
           /\ lotPage'[p] = [lotPage[p] EXCEPT !.pc = "open",
                                               !.shown.items = lot[l].items]
  <2>1. l \in Lots /\ lot[l] \in LotRow /\ lotPage[p] \in LotPage
    BY <1>3 DEF TypeOK
  <2>2. lotPage[p].shown \in LotRow /\ lot[l].items \in Lines
    BY <2>1 DEF LotPage, LotRow
  <2>3. /\ lotPage'[p].shown = [lotPage[p].shown EXCEPT !.items = lot[l].items]
        /\ lotPage'[p].pc = "open"
        /\ lotPage'[p].of = l
    BY <1>3, <2>1 DEF LotPage
  <2>4. lotPage'[p].shown.version = lotPage[p].shown.version
    BY <2>2, <2>3, LotRowFilled
  <2>5. CASE lotPage[p].shown.version = lot[l].version
    <3>1. lotPage[p].shown = [lot[l] EXCEPT !.items = NoLines]
      BY <1>3, <2>5 DEF LotPagesHonest
    <3>2. lotPage'[p].shown = lot[l]
      BY <2>1, <2>3, <3>1 DEF LotRow
    <3>3. QED
      BY <1>3, <2>3, <2>4, <3>2 DEF LotPagesHonest
  <2>6. CASE lotPage[p].shown.version # lot[l].version
    BY <1>3, <2>3, <2>4, <2>6 DEF LotPagesHonest
  <2>7. QED
    BY <2>5, <2>6
<1>4. QED
  BY <1>1, <1>2, <1>3, LotPageStep

\* The consumed events, and what they left behind.
ConsumedInv ==
    /\ \A o \in consumed : order[o].status = "cancelled"
    /\ ConsumedMeansClosed

LEMMA ConsumedStep ==
  TypeOK /\ OneCancellationEvent /\ ConsumedInv /\ [Next]_vars => ConsumedInv'
<1> SUFFICES ASSUME TypeOK, OneCancellationEvent, ConsumedInv, [Next]_vars
             PROVE ConsumedInv'
  OBVIOUS
<1>1. consumed \in SUBSET OrderIds /\ OrdersTypeOK
  BY DEF TypeOK
<1>2. ASSUME consumed' = consumed PROVE ConsumedInv'
  <2>1. ASSUME NEW o \in consumed PROVE order'[o].status = "cancelled"
    <3>1. CASE OrdersNext
      BY <1>1, <3>1, CancelledStays DEF ConsumedInv
    <3>2. CASE UNCHANGED ordersVars
      BY <3>2 DEF ConsumedInv, ordersVars
    <3>3. QED
      BY <3>1, <3>2, OrdersSide
  <2>2. ASSUME NEW l \in Lots, lot'[l].of \in consumed PROVE lot'[l].status \notin OpenLot
    <3>1. order[lot'[l].of].status = "cancelled"
      BY <2>2 DEF ConsumedInv
    <3>2. CASE lot'[l] = lot[l]
      BY <2>2, <3>2 DEF ConsumedInv, ConsumedMeansClosed
    <3>3. CASE CreatedFor(l) \/ \E p \in Packers : MovedFrom(p, l)
      BY <3>1, <3>3 DEF CreatedFor, MovedFrom
    <3>4. CASE ClosedWithOrder(l)
      <4>1. lot[l] \in LotRow
        BY DEF TypeOK
      <4>2. lot'[l].of = lot[l].of
        BY <3>4, <4>1 DEF ClosedWithOrder, LotRow
      <4>3. QED
        BY <2>2, <3>4, <4>2 DEF ConsumedInv, ConsumedMeansClosed, ClosedWithOrder
    <3>5. QED
      BY <3>2, <3>3, <3>4, LotStep
  <2>3. QED
    BY <1>2, <2>1, <2>2 DEF ConsumedInv, ConsumedMeansClosed
<1>3. ASSUME NEW w \in Consumers, NEW k \in 1 .. Len(cancelled),
             order[cancelled[k]].status = "cancelled",
             lot' = [m \in Lots |->
                        IF lot[m].of = cancelled[k] THEN CancelledLot(m) ELSE lot[m]],
             consumed' = consumed \cup {cancelled[k]},
             UNCHANGED ordersVars
      PROVE ConsumedInv'
  <2>1. \A o \in consumed' : order'[o].status = "cancelled"
    BY <1>3 DEF ConsumedInv, ordersVars
  <2>2. ASSUME NEW l \in Lots, lot'[l].of \in consumed' PROVE lot'[l].status \notin OpenLot
    <3>1. CASE lot[l].of = cancelled[k]
      BY <1>3, <3>1, CancelledLotRow
    <3>2. CASE lot[l].of # cancelled[k]
      BY <1>3, <2>2, <3>2 DEF ConsumedInv, ConsumedMeansClosed
    <3>3. QED
      BY <3>1, <3>2
  <2>3. QED
    BY <2>1, <2>2 DEF ConsumedInv, ConsumedMeansClosed
<1>4. CASE PackerStep
  BY <1>2, <1>4, PackerFrame
<1>5. CASE ConsumerStep
  <2>1. ASSUME NEW w \in Consumers, SelectCancellations(w) \/ ConsumerDies(w)
        PROVE ConsumedInv'
    BY <1>2, <2>1 DEF SelectCancellations, ConsumerDies
  <2>2. ASSUME NEW w \in Consumers, NEW k \in 1 .. Len(cancelled),
               ConsumeOrderCancelledEvent(w, k)
        PROVE ConsumedInv'
    BY <1>2, <1>3, <2>2 DEF ConsumeOrderCancelledEvent
  <2>3. QED
    BY <1>5, <2>1, <2>2 DEF ConsumerStep
<1>6. QED
  BY <1>2, <1>4, <1>5, NextCases DEF lotVars

(***************************************************************************)
(* What the lots take of an order                                          *)
(***************************************************************************)

\* Allocated with the lots as a parameter: f is lot before or after a step.
UnitsIn(f, ls, i) == {unit \in ls \X (1 .. MaxQuantity) : unit[2] <= f[unit[1]].items[i]}
Taken(f, ls, i) == Cardinality(UnitsIn(f, ls, i))

LEMMA AllocatedTaken ==
  ASSUME NEW o, NEW i
  PROVE /\ Allocated(LotsOf(o), i) = Taken(lot, LotsOf(o), i)
        /\ Allocated(LotsOf(o), i)' = Taken(lot', LotsOf(o)', i)
  BY DEF Allocated, Units, Taken, UnitsIn

LEMMA TakenNat ==
  ASSUME NEW f, NEW ls \in SUBSET Lots, NEW i
  PROVE IsFiniteSet(UnitsIn(f, ls, i)) /\ Taken(f, ls, i) \in Nat
<1>1. IsFiniteSet(ls)
  BY LotsAssumption, FS_Subset
<1>2. IsFiniteSet(1 .. MaxQuantity)
  BY QuantityAssumption, FS_Interval
<1>3. IsFiniteSet(ls \X (1 .. MaxQuantity))
  BY <1>1, <1>2, FS_Product
<1>4. UnitsIn(f, ls, i) \in SUBSET (ls \X (1 .. MaxQuantity))
  BY DEF UnitsIn
<1>5. IsFiniteSet(UnitsIn(f, ls, i))
  BY <1>3, <1>4, FS_Subset
<1>6. QED
  BY <1>5, FS_CardinalityType DEF Taken

\* Fewer lots with the same items take no more.
LEMMA TakenShrinks ==
  ASSUME NEW f, NEW g, NEW ls \in SUBSET Lots, NEW ms \in SUBSET ls, NEW i,
         \A l \in ms : g[l].items[i] = f[l].items[i]
  PROVE Taken(g, ms, i) <= Taken(f, ls, i)
<1>1. UnitsIn(g, ms, i) \in SUBSET UnitsIn(f, ls, i)
  BY DEF UnitsIn
<1>2. IsFiniteSet(UnitsIn(f, ls, i))
  BY TakenNat
<1>3. QED
  BY <1>1, <1>2, FS_Subset DEF Taken

LEMMA TakenByOne ==
  ASSUME NEW f, NEW l \in Lots, NEW i, f[l].items[i] \in 0 .. MaxQuantity
  PROVE Taken(f, {l}, i) = f[l].items[i]
<1> DEFINE q == f[l].items[i]
<1>1. q \in Nat /\ q <= MaxQuantity
  BY QuantityAssumption
<1>2. UnitsIn(f, {l}, i) = {l} \X (1 .. q)
  <2>1. ASSUME NEW unit \in UnitsIn(f, {l}, i) PROVE unit \in {l} \X (1 .. q)
    BY <1>1, <2>1, QuantityAssumption DEF UnitsIn
  <2>2. ASSUME NEW unit \in {l} \X (1 .. q) PROVE unit \in UnitsIn(f, {l}, i)
    BY <1>1, <2>2, QuantityAssumption DEF UnitsIn
  <2>3. QED
    BY <2>1, <2>2
<1>3. IsFiniteSet({l}) /\ Cardinality({l}) = 1
  BY FS_Singleton
<1>4. IsFiniteSet(1 .. q) /\ Cardinality(1 .. q) = q
  <2> HIDE DEF q
  <2>1. 1 \in Int /\ q \in Int
    BY <1>1
  <2>2. IsFiniteSet(1 .. q) /\ Cardinality(1 .. q) = IF 1 > q THEN 0 ELSE q - 1 + 1
    BY <2>1, FS_Interval
  <2>3. QED
    BY <1>1, <2>2
<1>5. Cardinality({l} \X (1 .. q)) = Cardinality({l}) * Cardinality(1 .. q)
  BY <1>3, <1>4, FS_Product
<1> HIDE DEF q
<1>6. 1 * q = q
  BY <1>1
<1>7. QED
  BY <1>2, <1>3, <1>4, <1>5, <1>6 DEF Taken, q

\* One more lot takes no more than its items.
LEMMA TakenWithOne ==
  ASSUME NEW f, NEW ls \in SUBSET Lots, NEW l \in Lots, NEW i,
         f[l].items[i] \in 0 .. MaxQuantity
  PROVE Taken(f, ls \cup {l}, i) <= Taken(f, ls, i) + f[l].items[i]
<1> DEFINE old == UnitsIn(f, ls, i)
           new == UnitsIn(f, {l}, i)
<1>1. UnitsIn(f, ls \cup {l}, i) = old \cup new
  BY DEF UnitsIn
<1>2. IsFiniteSet(old) /\ Cardinality(old) \in Nat
  BY TakenNat DEF Taken
<1>3. {l} \in SUBSET Lots
  OBVIOUS
<1>4. IsFiniteSet(new) /\ Cardinality(new) = f[l].items[i]
  BY <1>3, TakenNat, TakenByOne DEF Taken
<1>5. old \cap new \in SUBSET old
  OBVIOUS
<1> HIDE DEF old, new
<1>6. Cardinality(old \cup new) = Cardinality(old) + Cardinality(new) - Cardinality(old \cap new)
  BY <1>2, <1>4, FS_Union
<1>7. Cardinality(old \cap new) \in Nat
  <2>1. IsFiniteSet(old \cap new)
    BY <1>2, <1>5, FS_Subset
  <2>2. QED
    BY <2>1, FS_CardinalityType
<1>8. Cardinality(new) \in Nat
  BY <1>4, FS_CardinalityType
<1>9. Cardinality(old \cup new) <= Cardinality(old) + Cardinality(new)
  BY <1>2, <1>6, <1>7, <1>8
<1>10. QED
  BY <1>1, <1>4, <1>9 DEF Taken, old

\* A lot without items takes nothing.
LEMMA NothingTaken ==
  ASSUME NEW f, NEW ls \in SUBSET Lots, NEW i, \A l \in ls : f[l].items[i] = 0
  PROVE Taken(f, ls, i) = 0
<1>1. UnitsIn(f, ls, i) = {}
  <2>1. ASSUME NEW unit \in UnitsIn(f, ls, i) PROVE FALSE
    <3>1. unit[1] \in ls /\ unit[2] \in 1 .. MaxQuantity /\ unit[2] <= f[unit[1]].items[i]
      BY DEF UnitsIn
    <3>2. QED
      BY <3>1, QuantityAssumption
  <2>2. QED
    BY <2>1
<1>2. QED
  BY <1>1, FS_EmptySet DEF Taken

\* Only placed orders have lots, and a lot that was not created has no items.
LotsPlaced ==
    \A l \in Lots :
        IF lot[l].status = "none"
        THEN lot[l].items = NoLines
        ELSE order[lot[l].of].status \in {"confirmed", "cancelled"}

LEMMA LotsPlacedStep == TypeOK /\ LotsPlaced /\ [Next]_vars => LotsPlaced'
<1> SUFFICES ASSUME TypeOK, LotsPlaced, [Next]_vars, NEW l \in Lots
             PROVE IF lot'[l].status = "none"
                   THEN lot'[l].items = NoLines
                   ELSE order'[lot'[l].of].status \in {"confirmed", "cancelled"}
  BY DEF LotsPlaced
<1>1. /\ OrdersTypeOK
      /\ lot[l] \in LotRow
      /\ lot[l].status # "none" => lot[l].of \in OrderIds
  BY DEF TypeOK
<1>2. ASSUME NEW o \in OrderIds, order[o].status \in {"confirmed", "cancelled"}
      PROVE order'[o].status \in {"confirmed", "cancelled"}
  <2>1. CASE OrdersNext
    BY <1>1, <1>2, <2>1, PlacedStays
  <2>2. CASE UNCHANGED ordersVars
    BY <1>2, <2>2 DEF ordersVars
  <2>3. QED
    BY <2>1, <2>2, OrdersSide
<1>3. CASE lot'[l] = lot[l]
  BY <1>1, <1>2, <1>3 DEF LotsPlaced
<1>4. CASE CreatedFor(l)
  BY <1>2, <1>4 DEF CreatedFor
<1>5. ASSUME lot'[l].of = lot[l].of, lot[l].status # "none"
      PROVE lot'[l].status = "none" \/ order'[lot'[l].of].status \in {"confirmed", "cancelled"}
  BY <1>1, <1>2, <1>5 DEF LotsPlaced
<1>6. CASE \E p \in Packers : MovedFrom(p, l)
  <2>1. PICK p \in Packers : MovedFrom(p, l)
    BY <1>6
  <2>2. lot[l].status # "none"
    BY <2>1 DEF MovedFrom, TypeOK
  <2>3. QED
    BY <1>5, <2>1, <2>2 DEF MovedFrom
<1>7. CASE ClosedWithOrder(l)
  <2>1. lot'[l].of = lot[l].of /\ lot'[l].status = "cancelled"
    BY <1>1, <1>7 DEF ClosedWithOrder, LotRow
  <2>2. lot[l].status # "none"
    BY <1>7 DEF ClosedWithOrder, OpenLot
  <2>3. QED
    BY <1>5, <2>1, <2>2
<1>8. QED
  BY <1>3, <1>4, <1>6, <1>7, LotStep

\* A step of the orders leaves the lines of every order that has a lot.
LEMMA OrdersKeepAllocation ==
  ASSUME TypeOK, TypeOK', LotsPlaced, AllocationBounded, OrdersNext, UNCHANGED lot
  PROVE AllocationBounded'
<1> SUFFICES ASSUME NEW o \in OrderIds, NEW i \in Items
             PROVE Allocated(LotsOf(o), i)' <= order'[o].lines[i]
  BY DEF AllocationBounded
<1>1. Allocated(LotsOf(o), i)' = Taken(lot, LotsOf(o), i)
  <2>1. LotsOf(o)' = LotsOf(o)
    BY DEF LotsOf
  <2>2. QED
    BY <2>1, AllocatedTaken
<1>2. CASE order[o].status \in {"confirmed", "cancelled"}
  <2>1. order'[o].lines = order[o].lines
    BY <1>2, PlacedStays DEF TypeOK
  <2>2. Taken(lot, LotsOf(o), i) <= order[o].lines[i]
    BY AllocatedTaken DEF AllocationBounded
  <2>3. QED
    BY <1>1, <2>1, <2>2
<1>3. CASE order[o].status \notin {"confirmed", "cancelled"}
  <2>1. \A l \in LotsOf(o) : lot[l].items[i] = 0
    BY <1>3 DEF LotsOf, LotsPlaced, NoLines
  <2>2. LotsOf(o) \in SUBSET Lots
    BY DEF LotsOf
  <2>3. Taken(lot, LotsOf(o), i) = 0
    BY <2>1, <2>2, NothingTaken
  <2>4. order'[o].lines[i] \in 0 .. MaxQuantity
    BY DEF TypeOK, OrdersTypeOK, OrderRow, Lines
  <2>5. QED
    BY <1>1, <2>3, <2>4, QuantityAssumption
<1>4. QED
  BY <1>2, <1>3

\* A lot that is created or given other items takes what the other lots of its order leave.
LEMMA WriteKeepsAllocation ==
  ASSUME TypeOK, AllocationBounded, UNCHANGED order,
         NEW o \in OrderIds, NEW l \in Lots, NEW row \in LotRow, row.of = o,
         Fits(o, row.items, LotsOf(o) \ {l}),
         lot' = [lot EXCEPT ![l] = row]
  PROVE AllocationBounded'
<1> SUFFICES ASSUME NEW e \in OrderIds, NEW i \in Items
             PROVE Allocated(LotsOf(e), i)' <= order[e].lines[i]
  BY DEF AllocationBounded
<1> DEFINE others == LotsOf(e) \ {l}
           q == row.items[i]
<1>1. /\ others \in SUBSET Lots /\ LotsOf(e) \in SUBSET Lots
      /\ others \in SUBSET LotsOf(e) /\ others \in SUBSET others
  BY DEF LotsOf
<1>2. \A m \in others : lot'[m] = lot[m]
  BY DEF LotsOf, TypeOK
<1>3. lot'[l] = row /\ q \in 0 .. MaxQuantity
  BY DEF TypeOK, LotRow, Lines
<1>4. LotsOf(e)' \in SUBSET (others \cup {l}) /\ (e # o => LotsOf(e)' \in SUBSET others)
  BY <1>2, <1>3 DEF LotsOf, TypeOK
<1>5. Taken(lot, LotsOf(e), i) <= order[e].lines[i]
  BY AllocatedTaken DEF AllocationBounded
<1>6. order[e].lines[i] \in Nat
  BY QuantityAssumption DEF TypeOK, OrdersTypeOK, OrderRow, Lines
<1>7. Allocated(LotsOf(e), i)' = Taken(lot', LotsOf(e)', i)
  BY AllocatedTaken
<1> HIDE DEF others
<1>8. /\ Taken(lot, others, i) \in Nat /\ Taken(lot, LotsOf(e), i) \in Nat
      /\ Taken(lot', others, i) \in Nat
  BY <1>1, TakenNat
<1>9. Taken(lot, others, i) <= Taken(lot, LotsOf(e), i)
  BY <1>1, TakenShrinks
<1>10. Taken(lot', others, i) <= Taken(lot, others, i)
  BY <1>1, <1>2, TakenShrinks
<1>11. CASE e = o /\ q > 0
  <2>1. Allocated(others, i) + q <= order[e].lines[i]
    BY <1>11 DEF Fits, others
  <2>2. Allocated(others, i) = Taken(lot, others, i)
    BY DEF Allocated, Units, Taken, UnitsIn
  <2>3. Taken(lot', others \cup {l}, i) <= Taken(lot', others, i) + q
    BY <1>1, <1>3, TakenWithOne
  <2>4. others \cup {l} \in SUBSET Lots
    BY <1>1
  <2>5. Taken(lot', LotsOf(e)', i) <= Taken(lot', others \cup {l}, i)
    BY <1>4, <2>4, TakenShrinks
  <2>6. Taken(lot', LotsOf(e)', i) \in Nat /\ Taken(lot', others \cup {l}, i) \in Nat
    BY <1>4, <2>4, TakenNat
  <2>7. QED
    BY <1>3, <1>6, <1>7, <1>8, <1>10, <2>1, <2>2, <2>3, <2>5, <2>6, QuantityAssumption
<1>12. CASE e = o /\ q = 0
  <2>1. Taken(lot', others \cup {l}, i) <= Taken(lot', others, i) + q
    BY <1>1, <1>3, TakenWithOne
  <2>2. others \cup {l} \in SUBSET Lots
    BY <1>1
  <2>3. Taken(lot', LotsOf(e)', i) <= Taken(lot', others \cup {l}, i)
    BY <1>4, <2>2, TakenShrinks
  <2>4. Taken(lot', LotsOf(e)', i) \in Nat /\ Taken(lot', others \cup {l}, i) \in Nat
    BY <1>4, <2>2, TakenNat
  <2>5. QED
    BY <1>5, <1>6, <1>7, <1>8, <1>9, <1>10, <1>12, <2>1, <2>3, <2>4
<1>13. CASE e # o
  <2>1. Taken(lot', LotsOf(e)', i) <= Taken(lot', others, i)
    BY <1>1, <1>4, <1>13, TakenShrinks
  <2>2. Taken(lot', LotsOf(e)', i) \in Nat
    BY <1>1, <1>4, <1>13, TakenNat
  <2>3. QED
    BY <1>5, <1>6, <1>7, <1>8, <1>9, <1>10, <2>1, <2>2
<1>14. QED
  BY <1>3, <1>11, <1>12, <1>13, QuantityAssumption

\* A step that neither gives a lot items nor reopens one takes nothing more.
LEMMA SameItemsKeepAllocation ==
  ASSUME TypeOK, AllocationBounded, UNCHANGED order,
         \A l \in Lots : /\ lot'[l].of = lot[l].of
                         /\ lot'[l].items = lot[l].items
                         /\ lot[l].status = "cancelled" => lot'[l].status = "cancelled"
  PROVE AllocationBounded'
<1> SUFFICES ASSUME NEW o \in OrderIds, NEW i \in Items
             PROVE Allocated(LotsOf(o), i)' <= order[o].lines[i]
  BY DEF AllocationBounded
<1>1. LotsOf(o) \in SUBSET Lots /\ LotsOf(o)' \in SUBSET LotsOf(o)
  BY DEF LotsOf
<1>2. \A l \in LotsOf(o)' : lot'[l].items[i] = lot[l].items[i]
  BY <1>1
<1>3. Taken(lot', LotsOf(o)', i) <= Taken(lot, LotsOf(o), i)
  BY <1>1, <1>2, TakenShrinks
<1>4. Taken(lot', LotsOf(o)', i) \in Nat /\ Taken(lot, LotsOf(o), i) \in Nat
  BY <1>1, TakenNat
<1>5. Taken(lot, LotsOf(o), i) <= order[o].lines[i]
  BY AllocatedTaken DEF AllocationBounded
<1>6. order[o].lines[i] \in Nat
  BY QuantityAssumption DEF TypeOK, OrdersTypeOK, OrderRow, Lines
<1>7. QED
  BY <1>3, <1>4, <1>5, <1>6, AllocatedTaken

LEMMA AllocationStep ==
  TypeOK /\ TypeOK' /\ LotsPlaced /\ AllocationBounded /\ [Next]_vars => AllocationBounded'
<1> SUFFICES ASSUME TypeOK, TypeOK', LotsPlaced, AllocationBounded, [Next]_vars
             PROVE AllocationBounded'
  OBVIOUS
<1>1. lot \in [Lots -> LotRow] /\ \A l \in Lots : lot[l] \in LotRow
  BY DEF TypeOK
<1>2. ASSUME UNCHANGED lot, UNCHANGED ordersVars PROVE AllocationBounded'
  BY <1>2, SameItemsKeepAllocation DEF ordersVars
<1>3. ASSUME NEW p \in Packers, NEW l \in Lots, NEW items \in Lines,
             ReplaceAllocations(p, l, items)
      PROVE AllocationBounded'
  <2> DEFINE o == lot[l].of
             half == [lot[l] EXCEPT !.items = items]
             row == [half EXCEPT !.version = lot[l].version + 1]
  <2>1. o \in OrderIds
    BY <1>3 DEF ReplaceAllocations, TypeOK
  <2>2. half \in LotRow /\ half.of = o /\ half.items = items
    BY <1>1, LotRowFilled DEF LotRow
  <2>3. lot[l].version + 1 \in Nat
    BY <1>1 DEF LotRow
  <2>4. /\ lot' = [lot EXCEPT ![l] = row]
        /\ UNCHANGED order
        /\ Fits(o, items, LotsOf(o) \ {l})
    BY <1>3 DEF ReplaceAllocations, SaveLot, ordersVars
  <2> HIDE DEF half, o
  <2>5. row \in LotRow /\ row.of = o /\ row.items = items
    BY <2>2, <2>3, LotRowSaved DEF LotRow
  <2> HIDE DEF row
  <2>6. QED
    BY <2>1, <2>4, <2>5, WriteKeepsAllocation
<1>4. ASSUME NEW p \in Packers, NEW l \in Lots, NEW items \in Lines, NEW m \in Methods,
             CreateFulfillment(p, l, items, m)
      PROVE AllocationBounded'
  <2> DEFINE o == lotPage[p].of
             row == [status |-> "draft", version |-> 1, of |-> o, method |-> m, items |-> items]
  <2>1. o \in OrderIds
    BY <1>4 DEF CreateFulfillment, TypeOK
  <2>2. row \in LotRow /\ row.of = o /\ row.items = items
    BY <2>1, MethodAssumption DEF LotRow, LotStatus
  <2>3. lot' = [lot EXCEPT ![l] = row] /\ UNCHANGED order /\ Fits(o, items, LotsOf(o))
    BY <1>4 DEF CreateFulfillment, ordersVars
  <2> HIDE DEF row, o
  <2>4. Fits(o, items, LotsOf(o) \ {l})
    <3> SUFFICES ASSUME NEW i \in Items, items[i] > 0
                 PROVE Allocated(LotsOf(o) \ {l}, i) + items[i] <= order[o].lines[i]
      BY DEF Fits
    <3>1. /\ LotsOf(o) \in SUBSET Lots /\ LotsOf(o) \ {l} \in SUBSET Lots
          /\ LotsOf(o) \ {l} \in SUBSET LotsOf(o)
      BY DEF LotsOf
    <3>2. /\ Allocated(LotsOf(o) \ {l}, i) = Taken(lot, LotsOf(o) \ {l}, i)
          /\ Allocated(LotsOf(o), i) = Taken(lot, LotsOf(o), i)
      BY DEF Allocated, Units, Taken, UnitsIn
    <3>3. Taken(lot, LotsOf(o) \ {l}, i) <= Taken(lot, LotsOf(o), i)
      BY <3>1, TakenShrinks
    <3>4. Taken(lot, LotsOf(o) \ {l}, i) \in Nat /\ Taken(lot, LotsOf(o), i) \in Nat
      BY <3>1, TakenNat
    <3>5. Allocated(LotsOf(o), i) + items[i] <= order[o].lines[i]
      BY <2>3 DEF Fits
    <3>6. items[i] \in Nat /\ order[o].lines[i] \in Nat
      BY <2>1, QuantityAssumption DEF Lines, TypeOK, OrdersTypeOK, OrderRow
    <3>7. QED
      BY <3>2, <3>3, <3>4, <3>5, <3>6
  <2>5. QED
    BY <2>1, <2>2, <2>3, <2>4, WriteKeepsAllocation
<1>5. ASSUME NEW p \in Packers, NEW l \in Lots, NEW target \in LotStatus,
             TransitionFulfillment(p, l, target)
      PROVE AllocationBounded'
  <2> DEFINE half == [lot[l] EXCEPT !.status = target]
             row == [half EXCEPT !.version = lot[l].version + 1]
  <2>1. half \in LotRow /\ half.of = lot[l].of /\ half.items = lot[l].items
    BY <1>1 DEF LotRow
  <2>2. lot[l].version + 1 \in Nat
    BY <1>1 DEF LotRow
  <2>3. lot' = [lot EXCEPT ![l] = row] /\ UNCHANGED order
    BY <1>5 DEF TransitionFulfillment, SaveLot, ordersVars
  <2>4. lot[l].status # "cancelled"
    BY <1>5 DEF TransitionFulfillment, Allowed
  <2> HIDE DEF half
  <2>5. row.of = lot[l].of /\ row.items = lot[l].items
    BY <2>1, <2>2 DEF LotRow
  <2> HIDE DEF row
  <2>6. \A m \in Lots : /\ lot'[m].of = lot[m].of
                        /\ lot'[m].items = lot[m].items
                        /\ lot[m].status = "cancelled" => lot'[m].status = "cancelled"
    BY <1>1, <2>3, <2>4, <2>5
  <2>7. QED
    BY <2>3, <2>6, SameItemsKeepAllocation
<1>6. ASSUME NEW w \in Consumers, NEW k \in 1 .. Len(cancelled),
             ConsumeOrderCancelledEvent(w, k)
      PROVE AllocationBounded'
  <2>1. UNCHANGED ordersVars
    BY <1>6 DEF ConsumeOrderCancelledEvent
  <2>2. CASE UNCHANGED lot
    BY <1>2, <2>1, <2>2
  <2>3. CASE lot' = [l \in Lots |-> IF lot[l].of = cancelled[k] THEN CancelledLot(l) ELSE lot[l]]
    <3>1. ASSUME NEW l \in Lots
          PROVE /\ CancelledLot(l).of = lot[l].of
                /\ CancelledLot(l).items = lot[l].items
                /\ lot[l].status = "cancelled" => CancelledLot(l).status = "cancelled"
      <4>1. CASE lot[l].status \in OpenLot
        <5>1. CancelledLot(l) = [lot[l] EXCEPT !.status = "cancelled", !.version = @ + 1]
          BY <4>1 DEF CancelledLot
        <5>2. lot[l] \in LotRow
          BY <1>1
        <5>3. QED
          BY <5>1, <5>2 DEF LotRow
      <4>2. CASE lot[l].status \notin OpenLot
        BY <4>2 DEF CancelledLot
      <4>3. QED
        BY <4>1, <4>2
    <3>2. \A l \in Lots : lot'[l] = lot[l] \/ lot'[l] = CancelledLot(l)
      BY <2>3
    <3>3. QED
      BY <2>1, <3>1, <3>2, SameItemsKeepAllocation DEF ordersVars
  <2>4. QED
    BY <1>6, <2>2, <2>3 DEF ConsumeOrderCancelledEvent
<1>7. CASE (OrdersNext \/ UNCHANGED ordersVars) /\ UNCHANGED lotVars
  BY <1>2, <1>7, OrdersKeepAllocation DEF lotVars
<1>8. CASE PackerStep
  <2>1. ASSUME NEW p \in Packers,
               \/ ReadLotItems(p)
               \/ \E o \in OrderIds : OpenLotForm(p, o)
               \/ \E l \in Lots : OpenLotPage(p, l)
        PROVE AllocationBounded'
    <3>1. UNCHANGED lot
      BY <2>1 DEF ReadLotItems, OpenLotForm, OpenLotPage
    <3>2. QED
      BY <1>2, <1>8, <3>1, PackerFrame
  <2>2. QED
    BY <1>3, <1>4, <1>5, <1>8, <2>1 DEF PackerStep
<1>9. CASE ConsumerStep
  <2>1. ASSUME NEW w \in Consumers, SelectCancellations(w) \/ ConsumerDies(w)
        PROVE UNCHANGED lot
    BY <2>1 DEF SelectCancellations, ConsumerDies
  <2>2. QED
    BY <1>2, <1>6, <1>9, <2>1, ConsumerFrame DEF ConsumerStep
<1>10. QED
  BY <1>7, <1>8, <1>9, NextCases

\* The order and page facts under any step.
OrdersInv == OneCancellationEvent /\ OrderPagesHonest

LEMMA OrdersInvStep == TypeOK /\ OrdersInv /\ [Next]_vars => OrdersInv'
<1> SUFFICES ASSUME TypeOK, OrdersInv, [Next]_vars PROVE OrdersInv'
  OBVIOUS
<1>1. UNCHANGED ordersVars \/ OrdersNext
  BY OrdersSide
<1>2. CASE OrdersNext
  BY <1>2, OneEventStep, OrderPagesHonestStep DEF OrdersInv, TypeOK
<1>3. CASE UNCHANGED ordersVars
  BY <1>3 DEF OrdersInv, OneCancellationEvent, OrderPagesHonest, ordersVars
<1>4. QED
  BY <1>1, <1>2, <1>3

(***************************************************************************)
(* Theorems                                                                *)
(***************************************************************************)
IInv == TypeOK /\ OrdersInv /\ LotPagesHonest /\ ConsumedInv /\ LotsPlaced /\ AllocationBounded

LEMMA InitIInv == Init => IInv
<1> SUFFICES ASSUME Init
             PROVE /\ OrdersInv /\ LotPagesHonest /\ ConsumedInv /\ TypeOK
                   /\ LotsPlaced /\ AllocationBounded
  BY DEF IInv
<1>1. /\ \A o \in OrderIds : order[o].status = "none"
      /\ cancelled = <<>>
      /\ \A s \in Sellers : orderPage[s].pc = "closed"
  BY DEF Init, OrdersInit, NoOrder, ClosedOrderPage
<1>2. /\ \A l \in Lots : lot[l].status = "none"
      /\ \A p \in Packers : lotPage[p].pc = "closed"
      /\ consumed = {}
  BY DEF Init, NoLot, ClosedLotPage
<1>3. OrdersInv
  BY <1>1 DEF OrdersInv, OneCancellationEvent, OrderPagesHonest
<1>4. \A l \in Lots : lot[l].status = "none" /\ lot[l].items = NoLines
  BY DEF Init, NoLot
<1>5. AllocationBounded
  <2> SUFFICES ASSUME NEW o \in OrderIds, NEW i \in Items
               PROVE Allocated(LotsOf(o), i) <= order[o].lines[i]
    BY DEF AllocationBounded
  <2>1. LotsOf(o) \in SUBSET Lots /\ \A l \in LotsOf(o) : lot[l].items[i] = 0
    BY <1>4 DEF LotsOf, NoLines
  <2>2. Allocated(LotsOf(o), i) = 0
    BY <2>1, NothingTaken, AllocatedTaken
  <2>3. order[o].lines[i] = 0
    BY DEF Init, OrdersInit, NoOrder, NoLines
  <2>4. QED
    BY <2>2, <2>3
<1>6. QED
  BY <1>2, <1>3, <1>4, <1>5, InitTypeOK
  DEF LotPagesHonest, ConsumedInv, ConsumedMeansClosed, LotsPlaced

LEMMA NextIInv == IInv /\ [Next]_vars => IInv'
  BY LotsTypeStep, OrdersInvStep, LotPagesHonestStep, ConsumedStep, LotsPlacedStep, AllocationStep
  DEF IInv, OrdersInv

LEMMA IInvHolds == Spec => []IInv
  BY InitIInv, NextIInv, PTL DEF Spec

\* Every cancelled order has exactly one cancellation event and no other order has one.
THEOREM OneCancellationEventHolds == Spec => []OneCancellationEvent
<1>1. IInv => OneCancellationEvent
  BY DEF IInv, OrdersInv
<1>2. QED
  BY <1>1, IInvHolds, PTL

\* The lots of an order that are not cancelled never take more of an item than it has.
THEOREM AllocationBoundedHolds == Spec => []AllocationBounded
<1>1. IInv => AllocationBounded
  BY DEF IInv
<1>2. QED
  BY <1>1, IInvHolds, PTL

\* No order is edited, confirmed or cancelled from a page that shows it otherwise than it is.
THEOREM ChangedAsShownHolds == Spec => ChangedAsShown
<1> DEFINE Shown ==
      \A o \in OrderIds :
        order[o].status # "none" /\ order'[o] # order[o] =>
            \E s \in Sellers :
                /\ orderPage[s].pc = "open"
                /\ orderPage[s].of = o
                /\ orderPage[s].shown = order[o]
<1>1. IInv /\ [Next]_vars => [Shown]_ordersVars
  <2> SUFFICES ASSUME IInv, [Next]_vars, ordersVars' # ordersVars, NEW o \in OrderIds,
                      order[o].status # "none", order'[o] # order[o]
               PROVE \E s \in Sellers :
                        /\ orderPage[s].pc = "open"
                        /\ orderPage[s].of = o
                        /\ orderPage[s].shown = order[o]
    OBVIOUS
  <2>1. OrdersNext
    BY OrdersSide
  <2>2. QED
    BY <2>1, ChangedAsShownStep DEF IInv, OrdersInv, TypeOK
<1>2. QED
  BY <1>1, IInvHolds, PTL DEF Spec, ChangedAsShown

\* A lot of a confirmed order changes only from a page that shows it as it is.
THEOREM LotChangedAsShownHolds == Spec => LotChangedAsShown
<1> DEFINE Shown ==
      \A l \in Lots :
        lot[l].status # "none" /\ lot'[l] # lot[l] /\ order[lot[l].of].status = "confirmed" =>
            \E p \in Packers :
                /\ lotPage[p].pc = "open"
                /\ lotPage[p].of = l
                /\ lotPage[p].shown = lot[l]
<1>1. IInv /\ [Next]_vars => [Shown]_vars
  <2> SUFFICES ASSUME IInv, [Next]_vars, NEW l \in Lots, lot[l].status # "none",
                      lot'[l] # lot[l], order[lot[l].of].status = "confirmed"
               PROVE \E p \in Packers :
                        /\ lotPage[p].pc = "open"
                        /\ lotPage[p].of = l
                        /\ lotPage[p].shown = lot[l]
    OBVIOUS
  <2>1. PICK p \in Packers : MovedFrom(p, l)
    BY LotStep DEF IInv, CreatedFor, ClosedWithOrder
  <2>2. QED
    BY <2>1 DEF MovedFrom, IInv, LotPagesHonest
<1>2. QED
  BY <1>1, IInvHolds, PTL DEF Spec, LotChangedAsShown

\* The lots of a cancelled order only close: no execution prepares, dispatches, completes
\* or creates a lot of an order after it was cancelled.
THEOREM NothingAdvancesHolds == Spec => NothingAdvancesAfterCancellation
<1> DEFINE OnlyCloses ==
      \A l \in Lots :
        lot'[l] # lot[l] /\ lot'[l].of \in OrderIds =>
            \/ order[lot'[l].of].status = "confirmed"
            \/ /\ order[lot'[l].of].status = "cancelled"
               /\ lot[l].status \in OpenLot
               /\ lot'[l] = [lot[l] EXCEPT !.status = "cancelled",
                                           !.version = lot[l].version + 1]
<1>1. IInv /\ [Next]_vars => [OnlyCloses]_vars
  <2> SUFFICES ASSUME IInv, [Next]_vars, NEW l \in Lots, lot'[l] # lot[l]
               PROVE \/ order[lot'[l].of].status = "confirmed"
                     \/ /\ order[lot'[l].of].status = "cancelled"
                        /\ lot[l].status \in OpenLot
                        /\ lot'[l] = [lot[l] EXCEPT !.status = "cancelled",
                                                    !.version = lot[l].version + 1]
    OBVIOUS
  <2>1. CASE CreatedFor(l) \/ \E p \in Packers : MovedFrom(p, l)
    BY <2>1 DEF CreatedFor, MovedFrom
  <2>2. CASE ClosedWithOrder(l)
    <3>1. lot[l] \in LotRow
      BY DEF IInv, TypeOK
    <3>2. lot'[l].of = lot[l].of
      BY <2>2, <3>1 DEF ClosedWithOrder, LotRow
    <3>3. QED
      BY <2>2, <3>2 DEF ClosedWithOrder
  <2>3. QED
    BY <2>1, <2>2, LotStep DEF IInv
<1>2. QED
  BY <1>1, IInvHolds, PTL DEF Spec, NothingAdvancesAfterCancellation

\* Once a cancellation is consumed the order has no open lot, then and ever after.
THEOREM ConsumedMeansClosedHolds == Spec => []ConsumedMeansClosed
<1>1. IInv => ConsumedMeansClosed
  BY DEF IInv, ConsumedInv
<1>2. QED
  BY <1>1, IInvHolds, PTL
=============================================================================

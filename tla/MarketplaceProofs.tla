------------------------- MODULE MarketplaceProofs --------------------------
(***************************************************************************)
(* The promises of the marketplace for any number of employees, items and  *)
(* orders and any quantities.                                              *)
(***************************************************************************)
EXTENDS Marketplace, TLAPS

\* Orders and items agree with each other.  The parts carry each other: an item is ordered
\* only when nothing is open on it, because an open order keeps it RESERVED.
Agreement ==
    /\ TypeOK
    /\ OnePending
    /\ PendingMeansReserved
    /\ PartiesMatch

\* The open orders are covered by the stock, but for those of E, which are older than it.
CoveredExcept(E) ==
    \A o \in OrderId \ E : Pending(o) => orders[o].qty <= items[orders[o].item].qty

Promises == Agreement /\ PendingFitsStock

USE DEF ItemRow, OrderRow, NoItem, NoOrder, ItemStatus, OrderStatus, Listed, Placed, Pending

\* An open order is a row, and so is its item: its columns have their types.
LEMMA PendingRows ==
    ASSUME TypeOK, NEW o \in OrderId, Placed(o), PartiesMatch
    PROVE  /\ orders[o] \in OrderRow
           /\ orders[o].item \in ItemId
           /\ orders[o].qty \in 1..MaxQty
           /\ items[orders[o].item] \in ItemRow
           /\ items[orders[o].item].qty \in 0..MaxQty
<1>1. orders[o] \in OrderRow
  BY DEF TypeOK
<1>2. items[orders[o].item] \in ItemRow \cup {NoItem}
  BY <1>1 DEF TypeOK
<1>3. orders[o].seller \in User /\ items[orders[o].item].seller = orders[o].seller
  BY <1>1 DEF PartiesMatch
<1>4. items[orders[o].item] # NoItem
  BY <1>3, MarketAssumption
<1> QED BY <1>1, <1>2, <1>4

LEMMA PromisesInit == Init => Promises
  BY MarketAssumption DEF Init, Promises, Agreement, TypeOK, OnePending, PendingMeansReserved,
     PendingFitsStock, PartiesMatch

\* No operation breaks the agreement, whatever is in stock.
LEMMA AgreementNext == Agreement /\ [Next]_vars => Agreement'
<1> SUFFICES ASSUME Agreement, [Next]_vars PROVE Agreement'
  OBVIOUS
<1> USE MarketAssumption
<1>1. ASSUME NEW u \in User, NEW i \in ItemId, NEW q \in 1..MaxQty, List(u, i, q)
      PROVE  Agreement'
  <2>1. TypeOK'
    BY <1>1 DEF Agreement, TypeOK, List
  <2>2. \A o \in OrderId : Placed(o) => orders[o].item # i
    BY <1>1, PendingRows DEF Agreement, List
  <2> QED BY <1>1, <2>1, <2>2, PendingRows
       DEF Agreement, List, TypeOK, OnePending, PendingMeansReserved, PartiesMatch
<1>2. ASSUME NEW u \in User, NEW i \in ItemId, NEW o \in OrderId, NEW q \in 1..MaxQty,
             Place(u, i, o, q)
      PROVE  Agreement'
  <2>0. items[i] \in ItemRow
    BY <1>2 DEF Agreement, TypeOK, Place
  <2>1. TypeOK'
    BY <1>2, <2>0 DEF Agreement, TypeOK, Place
  <2>2. \A p \in OrderId : Pending(p) => orders[p].item # i
    BY <1>2 DEF Agreement, PendingMeansReserved, Place
  <2>3. \A p \in OrderId \ {o} : orders'[p] = orders[p]
    BY <1>2 DEF Agreement, TypeOK, Place
  <2>4. /\ orders'[o].item = i /\ orders'[o].status = "PENDING" /\ orders'[o].qty = q
        /\ orders'[o].buyer = u /\ orders'[o].seller = items[i].seller
    BY <1>2 DEF Agreement, TypeOK, Place
  <2>5. /\ items'[i].status = "RESERVED" /\ items'[i].qty = items[i].qty
        /\ items'[i].seller = items[i].seller
        /\ \A j \in ItemId \ {i} : items'[j] = items[j]
    BY <1>2 DEF Agreement, TypeOK, Place
  <2>6. \A p \in OrderId : Placed(p) => orders[p].item \in ItemId
    BY PendingRows DEF Agreement
  <2>7. OnePending'
    BY <2>2, <2>3, <2>4 DEF Agreement, OnePending
  <2>8. PendingMeansReserved'
    BY <2>2, <2>3, <2>4, <2>5, <2>6 DEF Agreement, PendingMeansReserved
  <2>9. PartiesMatch'
    BY <1>2, <2>3, <2>4, <2>5, <2>6 DEF Agreement, PartiesMatch, Place
  <2> QED BY <2>1, <2>7, <2>8, <2>9 DEF Agreement
<1>3. ASSUME NEW u \in User, NEW o \in OrderId, Complete(u, o)
      PROVE  Agreement'
  <2> DEFINE i == orders[o].item
             left == UnitsLeft(o)
  <2>0. /\ orders[o] \in OrderRow /\ items[i] \in ItemRow /\ i \in ItemId
        /\ left \in 0..MaxQty
        /\ StatusForStock(left) \in ItemStatus
    <3>1. orders[o] \in OrderRow /\ items[i] \in ItemRow /\ i \in ItemId
      BY <1>3, PendingRows DEF Agreement, Complete
    <3>2. left \in 0..MaxQty
      BY <3>1 DEF UnitsLeft
    <3> QED BY <3>1, <3>2 DEF StatusForStock
  <2>1. TypeOK'
    BY <1>3, <2>0 DEF Agreement, TypeOK, Complete
  <2>2. /\ \A p \in OrderId \ {o} : orders'[p] = orders[p]
        /\ ~Pending(o)' /\ orders'[o].item = i /\ orders'[o].buyer = orders[o].buyer
        /\ orders'[o].seller = orders[o].seller
    BY <1>3, <2>0 DEF Agreement, TypeOK, Complete
  <2>3. /\ \A j \in ItemId \ {i} : items'[j] = items[j]
        /\ items'[i].seller = items[i].seller
    BY <1>3, <2>0 DEF Agreement, TypeOK, Complete
  <2>4. \A p \in OrderId \ {o} : Pending(p) => orders[p].item # i
    BY <1>3 DEF Agreement, OnePending, Complete
  <2>5. \A p \in OrderId : Placed(p) => orders[p].item \in ItemId
    BY PendingRows DEF Agreement
  <2> HIDE DEF i, left
  <2>6. OnePending'
    BY <2>2 DEF Agreement, OnePending
  <2>7. PendingMeansReserved'
    BY <2>2, <2>3, <2>4, <2>5 DEF Agreement, PendingMeansReserved
  <2>8. PartiesMatch'
    <3>1. Placed(o) /\ items[i].seller = orders[o].seller /\ orders[o].buyer # orders[o].seller
      BY <1>3 DEF Agreement, PartiesMatch, Complete, i
    <3> QED BY <2>2, <2>3, <2>5, <3>1 DEF Agreement, PartiesMatch
  <2> QED BY <2>1, <2>6, <2>7, <2>8 DEF Agreement
<1>4. ASSUME NEW u \in User, NEW o \in OrderId, Cancel(u, o)
      PROVE  Agreement'
  <2> DEFINE i == orders[o].item
  <2>0. orders[o] \in OrderRow /\ items[i] \in ItemRow /\ i \in ItemId
    BY <1>4, PendingRows DEF Agreement, Cancel
  <2>1. TypeOK'
    BY <1>4, <2>0 DEF Agreement, TypeOK, Cancel
  <2>2. /\ \A p \in OrderId \ {o} : orders'[p] = orders[p]
        /\ ~Pending(o)' /\ orders'[o].item = i /\ orders'[o].buyer = orders[o].buyer
        /\ orders'[o].seller = orders[o].seller
    BY <1>4, <2>0 DEF Agreement, TypeOK, Cancel
  <2>3. /\ \A j \in ItemId \ {i} : items'[j] = items[j]
        /\ items'[i].seller = items[i].seller
    BY <1>4, <2>0 DEF Agreement, TypeOK, Cancel
  <2>4. \A p \in OrderId \ {o} : Pending(p) => orders[p].item # i
    BY <1>4 DEF Agreement, OnePending, Cancel
  <2>5. \A p \in OrderId : Placed(p) => orders[p].item \in ItemId
    BY PendingRows DEF Agreement
  <2> QED BY <1>4, <2>0, <2>1, <2>2, <2>3, <2>4, <2>5
       DEF Agreement, OnePending, PendingMeansReserved, PartiesMatch, Cancel
<1>5. ASSUME NEW u \in User, NEW o \in OrderId, AttachSlip(u, o)
      PROVE  Agreement'
  <2>1. TypeOK'
    BY <1>5 DEF Agreement, TypeOK, AttachSlip
  <2>2. /\ items' = items
        /\ \A p \in OrderId : /\ orders'[p].item = orders[p].item
                              /\ orders'[p].status = orders[p].status
                              /\ orders'[p].qty = orders[p].qty
                              /\ orders'[p].buyer = orders[p].buyer
                              /\ orders'[p].seller = orders[p].seller
    BY <1>5 DEF Agreement, TypeOK, AttachSlip
  <2> QED BY <2>1, <2>2
       DEF Agreement, OnePending, PendingMeansReserved, PartiesMatch
<1>6. ASSUME NEW u \in User, NEW i \in ItemId, NEW s \in ItemStatus, SetStatus(u, i, s)
      PROVE  Agreement'
  <2>1. TypeOK'
    BY <1>6 DEF Agreement, TypeOK, SetStatus
  <2>2. /\ orders' = orders
        /\ \A j \in ItemId : /\ items'[j].seller = items[j].seller
                             /\ items'[j].qty = items[j].qty
                             /\ j # i => items'[j].status = items[j].status
    BY <1>6 DEF Agreement, TypeOK, SetStatus
  <2>3. \A o \in OrderId : Pending(o) => orders[o].item # i
    BY <1>6 DEF SetStatus, PendingOn
  <2>4. \A o \in OrderId : Placed(o) => orders[o].item \in ItemId
    BY PendingRows DEF Agreement
  <2> QED BY <2>1, <2>2, <2>3, <2>4
       DEF Agreement, OnePending, PendingMeansReserved, PartiesMatch
<1>7. CASE UNCHANGED vars
  BY <1>7 DEF vars, Agreement, TypeOK, OnePending, PendingMeansReserved, PartiesMatch
<1> QED BY <1>1, <1>2, <1>3, <1>4, <1>5, <1>6, <1>7 DEF Next

\* No operation uncovers an open order: an item with one is not ordered, and completing it
\* takes units from no other order's item.
LEMMA CoverNext ==
    ASSUME NEW E, Agreement, CoveredExcept(E), [Next]_vars
    PROVE  CoveredExcept(E)'
<1> USE MarketAssumption
<1>0. \A o \in OrderId : Placed(o) => orders[o].item \in ItemId /\ orders[o] \in OrderRow
  BY PendingRows DEF Agreement
<1>1. ASSUME NEW u \in User, NEW i \in ItemId, NEW q \in 1..MaxQty, List(u, i, q)
      PROVE  CoveredExcept(E)'
  <2>1. \A o \in OrderId : Placed(o) => orders[o].item # i
    BY <1>1, PendingRows DEF Agreement, List
  <2> QED BY <1>0, <1>1, <2>1 DEF Agreement, TypeOK, List, CoveredExcept
<1>2. ASSUME NEW u \in User, NEW i \in ItemId, NEW o \in OrderId, NEW q \in 1..MaxQty,
             Place(u, i, o, q)
      PROVE  CoveredExcept(E)'
  <2>1. \A j \in ItemId : items'[j].qty = items[j].qty
    BY <1>2 DEF Agreement, TypeOK, Place
  <2>2. /\ \A p \in OrderId \ {o} : orders'[p] = orders[p]
        /\ orders'[o].item = i /\ orders'[o].qty = q /\ q <= items[i].qty
    BY <1>2 DEF Agreement, TypeOK, Place
  <2> QED BY <1>0, <2>1, <2>2 DEF CoveredExcept
<1>3. ASSUME NEW u \in User, NEW o \in OrderId, Complete(u, o)
      PROVE  CoveredExcept(E)'
  <2>1. \A j \in ItemId \ {orders[o].item} : items'[j] = items[j]
    BY <1>3 DEF Agreement, TypeOK, Complete
  <2>2. (\A p \in OrderId \ {o} : orders'[p] = orders[p]) /\ ~Pending(o)'
    BY <1>3 DEF Agreement, TypeOK, Complete
  <2>3. \A p \in OrderId \ {o} : Pending(p) => orders[p].item # orders[o].item
    BY <1>3 DEF Agreement, OnePending, Complete
  <2> QED BY <1>0, <2>1, <2>2, <2>3 DEF CoveredExcept
<1>4. ASSUME NEW u \in User, NEW o \in OrderId, Cancel(u, o) \/ AttachSlip(u, o)
      PROVE  CoveredExcept(E)'
  <2>1. \A j \in ItemId : items'[j].qty = items[j].qty
    BY <1>4 DEF Agreement, TypeOK, Cancel, AttachSlip
  <2>2. \A p \in OrderId : /\ orders'[p].item = orders[p].item
                           /\ orders'[p].qty = orders[p].qty
                           /\ Pending(p)' => Pending(p)
    BY <1>4 DEF Agreement, TypeOK, Cancel, AttachSlip
  <2> QED BY <1>0, <2>1, <2>2 DEF CoveredExcept
<1>5. ASSUME NEW u \in User, NEW i \in ItemId, NEW s \in ItemStatus, SetStatus(u, i, s)
      PROVE  CoveredExcept(E)'
  <2>1. (\A j \in ItemId : items'[j].qty = items[j].qty) /\ orders' = orders
    BY <1>5 DEF Agreement, TypeOK, SetStatus
  <2> QED BY <1>0, <2>1 DEF CoveredExcept
<1>6. CASE UNCHANGED vars
  BY <1>6 DEF vars, CoveredExcept
<1> QED BY <1>1, <1>2, <1>3, <1>4, <1>5, <1>6 DEF Next

LEMMA PromisesNext == Promises /\ [Next]_vars => Promises'
<1>1. PendingFitsStock <=> CoveredExcept({})
  BY DEF PendingFitsStock, CoveredExcept
<1>2. PendingFitsStock' <=> CoveredExcept({})'
  BY DEF PendingFitsStock, CoveredExcept
<1> QED BY <1>1, <1>2, AgreementNext, CoverNext DEF Promises

\* The rows keep their types, an open order keeps its item reserved, alone on it and
\* covered by its stock, and orders stay between the seller and another employee.
THEOREM PromisesHold == Spec => []Promises
  BY PromisesInit, PromisesNext, PTL DEF Spec

\* Rows have the columns and ranges the database checks.
THEOREM TypeCorrect == Spec => []TypeOK
<1>1. Promises => TypeOK
  BY DEF Promises, Agreement
<1> QED BY <1>1, PromisesHold, PTL

\* At most one order is open on an item.
THEOREM OneOpenOrder == Spec => []OnePending
<1>1. Promises => OnePending
  BY DEF Promises, Agreement
<1> QED BY <1>1, PromisesHold, PTL

\* The order and its item never disagree.
THEOREM OpenOrderReserves == Spec => []PendingMeansReserved
<1>1. Promises => PendingMeansReserved
  BY DEF Promises, Agreement
<1> QED BY <1>1, PromisesHold, PTL

\* An open order can always be delivered from the stock.
THEOREM OpenOrderIsCovered == Spec => []PendingFitsStock
<1>1. Promises => PendingFitsStock
  BY DEF Promises
<1> QED BY <1>1, PromisesHold, PTL

\* What every operation leaves as it is in an order that has been placed.
LEMMA OrdersKeepNext == TypeOK /\ Next => OrdersKeep
<1> SUFFICES ASSUME TypeOK, Next, NEW p \in OrderId, Placed(p)
             PROVE  /\ orders'[p].item = orders[p].item
                    /\ orders'[p].buyer = orders[p].buyer
                    /\ orders'[p].seller = orders[p].seller
                    /\ orders'[p].qty = orders[p].qty
                    /\ ~Pending(p) => orders'[p].status = orders[p].status
  BY DEF OrdersKeep
<1>1. CASE \E u \in User, i \in ItemId, q \in 1..MaxQty : List(u, i, q)
  BY <1>1 DEF List
<1>2. CASE \E u \in User, i \in ItemId, o \in OrderId, q \in 1..MaxQty : Place(u, i, o, q)
  BY <1>2 DEF TypeOK, Place
<1>3. CASE \E u \in User, o \in OrderId : Complete(u, o) \/ Cancel(u, o) \/ AttachSlip(u, o)
  BY <1>3 DEF TypeOK, Complete, Cancel, AttachSlip
<1>4. CASE \E u \in User, i \in ItemId, s \in ItemStatus : SetStatus(u, i, s)
  BY <1>4 DEF SetStatus
<1> QED BY <1>1, <1>2, <1>3, <1>4 DEF Next

\* An order's outcome is final, and its parties, item and quantity never change.
THEOREM OutcomesAreFinal == Spec => ClosedIsFinal
  BY OrdersKeepNext, TypeCorrect, PTL DEF Spec, ClosedIsFinal

\* Units leave the stock with the order that sells them and in no other way.
THEOREM UnitsLeaveWithTheirOrder == Spec => StockFollowsCompletion
<1>1. Promises /\ Next => StockKeeps
  <2> SUFFICES ASSUME Promises, Next, NEW i \in ItemId, Listed(i)
               PROVE  \/ /\ items'[i].qty = items[i].qty
                         /\ ~ \E o \in OrderId : orders[o].item = i /\ Completes(o)
                      \/ \E o \in OrderId :
                            /\ orders[o].item = i
                            /\ Completes(o)
                            /\ items'[i].qty + orders[o].qty = items[i].qty
    BY DEF StockKeeps
  <2>1. CASE \E u \in User, j \in ItemId, q \in 1..MaxQty : List(u, j, q)
    BY <2>1 DEF List, Promises, Agreement, TypeOK, Completes
  <2>2. CASE \E u \in User, j \in ItemId, o \in OrderId, q \in 1..MaxQty : Place(u, j, o, q)
    BY <2>2 DEF Promises, Agreement, TypeOK, Place, Completes
  <2>3. ASSUME NEW u \in User, NEW o \in OrderId, Complete(u, o)
        PROVE  IF orders[o].item = i
               THEN Completes(o) /\ items'[i].qty + orders[o].qty = items[i].qty
               ELSE /\ items'[i].qty = items[i].qty
                    /\ ~ \E p \in OrderId : orders[p].item = i /\ Completes(p)
    <3>1. orders[o].item \in ItemId /\ orders[o].qty \in Nat /\ items[orders[o].item].qty \in Nat
      BY <2>3, PendingRows, MarketAssumption DEF Promises, Agreement, Complete
    <3>2. UnitsLeft(o) + orders[o].qty = items[orders[o].item].qty
      BY <2>3, <3>1 DEF Promises, PendingFitsStock, Complete, UnitsLeft
    <3> QED BY <2>3, <3>1, <3>2 DEF Promises, Agreement, TypeOK, Complete, Completes
  <2>4. CASE \E u \in User, o \in OrderId : Cancel(u, o)
    BY <2>4 DEF Promises, Agreement, TypeOK, Cancel, Completes
  <2>5. CASE \E u \in User, o \in OrderId : AttachSlip(u, o)
    BY <2>5 DEF Promises, Agreement, TypeOK, AttachSlip, Completes
  <2>6. CASE \E u \in User, j \in ItemId, s \in ItemStatus : SetStatus(u, j, s)
    BY <2>6 DEF Promises, Agreement, TypeOK, SetStatus, Completes
  <2> QED BY <2>1, <2>2, <2>3, <2>4, <2>5, <2>6 DEF Next
<1> QED BY <1>1, PromisesHold, PTL DEF Spec, StockFollowsCompletion
=============================================================================

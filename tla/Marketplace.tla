---------------------------- MODULE Marketplace ----------------------------
(***************************************************************************)
(* What the marketplace promises its users: a listing with a stock, at     *)
(* most one open order on it, and orders that are placed, completed,       *)
(* cancelled and decorated with a payment slip as if every one of these    *)
(* happened in a single instant.                                           *)
(*                                                                         *)
(* The state is what the tables items and orders hold once committed.  The *)
(* module Orders runs the same operations as the requests of the service,  *)
(* with their awaits, row locks and failures, and is shown to implement    *)
(* this specification.                                                     *)
(***************************************************************************)
EXTENDS MarketRows

VARIABLES
    items,     \* committed rows of the table items
    orders     \* committed rows of the table orders

vars == <<items, orders>>

Listed(i) == items[i].status # "ABSENT"
Placed(o) == orders[o].status # "ABSENT"
Pending(o) == orders[o].status = "PENDING"

\* Some order on item i is still open (the query of ItemsService.updateStatus).
PendingOn(i) == \E o \in OrderId : Pending(o) /\ orders[o].item = i
-----------------------------------------------------------------------------
Init ==
    /\ items = [i \in ItemId |-> NoItem]
    /\ orders = [o \in OrderId |-> NoOrder]

\* An employee lists q units of a new item.
List(u, i, q) ==
    /\ ~Listed(i)
    /\ items' = [items EXCEPT ![i] = [seller |-> u, status |-> "AVAILABLE", qty |-> q]]
    /\ UNCHANGED orders

\* Faulty variant: the stock is not looked at.
PlaceAnyQty(u, i, o, q) ==
    /\ ~Placed(o)
    /\ items[i].status = "AVAILABLE"
    /\ items[i].seller # u
    /\ orders' = [orders EXCEPT ![o] = [item |-> i, buyer |-> u, seller |-> items[i].seller,
                                        qty |-> q, status |-> "PENDING", slip |-> "none"]]
    /\ items' = [items EXCEPT ![i].status = "RESERVED"]

\* Faulty variant: the item's status is not looked at.
PlaceAnyStatus(u, i, o, q) ==
    /\ ~Placed(o)
    /\ Listed(i)
    /\ items[i].seller # u
    /\ q <= items[i].qty
    /\ orders' = [orders EXCEPT ![o] = [item |-> i, buyer |-> u, seller |-> items[i].seller,
                                        qty |-> q, status |-> "PENDING", slip |-> "none"]]
    /\ items' = [items EXCEPT ![i].status = "RESERVED"]

\* A buyer orders q units of an available item of somebody else, which reserves it.
Place(u, i, o, q) ==
    /\ ~Placed(o)
    /\ items[i].status = "AVAILABLE"
    /\ items[i].seller # u
    /\ q <= items[i].qty
    /\ orders' = [orders EXCEPT ![o] = [item |-> i, buyer |-> u, seller |-> items[i].seller,
                                        qty |-> q, status |-> "PENDING", slip |-> "none"]]
    /\ items' = [items EXCEPT ![i].status = "RESERVED"]

\* Faulty variant: a completed order may be completed again, below an empty stock.
CompleteAgain(u, o) ==
    LET i == orders[o].item
        left == items[i].qty - orders[o].qty
    IN  /\ orders[o].status \in {"PENDING", "COMPLETED"}
        /\ u = orders[o].seller
        /\ orders' = [orders EXCEPT ![o].status = "COMPLETED"]
        /\ items' = [items EXCEPT ![i].qty = left, ![i].status = StatusForStock(left)]

\* What order o leaves of a stock: Math.max(item.quantity - order.quantity, 0).
UnitsLeft(o) ==
    LET stock == items[orders[o].item].qty IN
    IF orders[o].qty <= stock THEN stock - orders[o].qty ELSE 0

\* The seller hands the goods over: the order's units leave the stock.
Complete(u, o) ==
    LET i == orders[o].item
        left == UnitsLeft(o)
    IN  /\ Pending(o)
        /\ u = orders[o].seller
        /\ orders' = [orders EXCEPT ![o].status = "COMPLETED"]
        /\ items' = [items EXCEPT ![i].qty = left, ![i].status = StatusForStock(left)]

\* Faulty variant: a closed order may still be cancelled.
CancelClosed(u, o) ==
    /\ Placed(o)
    /\ u \in {orders[o].buyer, orders[o].seller}
    /\ orders' = [orders EXCEPT ![o].status = "CANCELLED"]
    /\ items' = [items EXCEPT ![orders[o].item].status = "AVAILABLE"]

\* Either party gives the order up: the item is offered again, its stock untouched.
Cancel(u, o) ==
    /\ Pending(o)
    /\ u \in {orders[o].buyer, orders[o].seller}
    /\ orders' = [orders EXCEPT ![o].status = "CANCELLED"]
    /\ items' = [items EXCEPT ![orders[o].item].status = "AVAILABLE"]

\* Faulty variant: open orders on the item are ignored.
SetStatusWhilePending(u, i, s) ==
    /\ Listed(i)
    /\ items[i].seller = u
    /\ items[i].status # s
    /\ items' = [items EXCEPT ![i].status = s]
    /\ UNCHANGED orders

\* The seller overrides the status of an item nobody has an open order on.
SetStatus(u, i, s) ==
    /\ Listed(i)
    /\ items[i].seller = u
    /\ items[i].status # s
    /\ ~PendingOn(i)
    /\ items' = [items EXCEPT ![i].status = s]
    /\ UNCHANGED orders

\* The buyer attaches a payment slip.  The order need not be open any more: the
\* service checks that it is some time before it writes.
AttachSlip(u, o) ==
    /\ Placed(o)
    /\ u = orders[o].buyer
    /\ orders' = [orders EXCEPT ![o].slip = "attached"]
    /\ UNCHANGED items

Next ==
    \E u \in User :
        \/ \E i \in ItemId, q \in 1..MaxQty : List(u, i, q)
        \/ \E i \in ItemId, o \in OrderId, q \in 1..MaxQty : Place(u, i, o, q)
        \/ \E o \in OrderId : Complete(u, o) \/ Cancel(u, o) \/ AttachSlip(u, o)
        \/ \E i \in ItemId, s \in ItemStatus : SetStatus(u, i, s)

Spec == Init /\ [][Next]_vars
-----------------------------------------------------------------------------
\* Every row has the columns and the ranges the database checks.
TypeOK ==
    /\ items \in [ItemId -> ItemRow \cup {NoItem}]
    /\ orders \in [OrderId -> OrderRow \cup {NoOrder}]

\* An item has at most one open order: the service gets by without ever meeting
\* the unique index UQ_orders_item_pending.
OnePending ==
    \A o, p \in OrderId :
        Pending(o) /\ Pending(p) /\ orders[o].item = orders[p].item => o = p

\* "so the order and item never disagree": while an order is open its item stays
\* RESERVED, whatever the seller does to the item's status.
PendingMeansReserved ==
    \A o \in OrderId : Pending(o) => items[orders[o].item].status = "RESERVED"

\* The units of an open order are in stock until it is closed, so completing it
\* never has to deliver more than there is.
PendingFitsStock ==
    \A o \in OrderId : Pending(o) => orders[o].qty <= items[orders[o].item].qty

\* Every order is between the item's seller and somebody else.
PartiesMatch ==
    \A o \in OrderId : Placed(o) =>
        /\ orders[o].seller = items[orders[o].item].seller
        /\ orders[o].buyer # orders[o].seller

\* A closed order keeps its outcome, and no order changes hands, item or quantity.
OrdersKeep ==
    \A o \in OrderId : Placed(o) =>
        /\ orders'[o].item = orders[o].item
        /\ orders'[o].buyer = orders[o].buyer
        /\ orders'[o].seller = orders[o].seller
        /\ orders'[o].qty = orders[o].qty
        /\ ~Pending(o) => orders'[o].status = orders[o].status
ClosedIsFinal == [][OrdersKeep]_vars

\* The order o is completed by this step.
Completes(o) == Pending(o) /\ orders'[o].status = "COMPLETED"

\* The stock of a listed item moves only when an order on it is completed, and
\* then by exactly that order's units.
StockKeeps ==
    \A i \in ItemId : Listed(i) =>
        \/ /\ items'[i].qty = items[i].qty
           /\ ~ \E o \in OrderId : orders[o].item = i /\ Completes(o)
        \/ \E o \in OrderId :
              /\ orders[o].item = i
              /\ Completes(o)
              /\ items'[i].qty + orders[o].qty = items[i].qty
StockFollowsCompletion == [][StockKeeps]_vars
=============================================================================

---------------------------- MODULE OrdersLegacy ----------------------------
(***************************************************************************)
(* The order workflow on a database that was in use before items had a     *)
(* stock.  The migration AddItemQuantity gives every listed item one unit, *)
(* whatever quantity the order that is open on it asks for.                *)
(***************************************************************************)
EXTENDS Orders

CONSTANTS
    OldItem,    \* an item listed before the migration
    OldOrder    \* the order open on it

ASSUME LegacyAssumption == OldItem \in ItemId /\ OldOrder \in OrderId

\* The rows after the migration: one unit in stock, reserved for an open order of any
\* quantity.
LegacyInit ==
    /\ \E u \in User, v \in User, q \in 1..MaxQty :
          /\ u # v
          /\ items = [i \in ItemId |-> IF i = OldItem
                        THEN [seller |-> u, status |-> "RESERVED", qty |-> 1]
                        ELSE NoItem]
          /\ orders = [o \in OrderId |-> IF o = OldOrder
                        THEN [item |-> OldItem, buyer |-> v, seller |-> u, qty |-> q,
                              status |-> "PENDING", slip |-> "none"]
                        ELSE NoOrder]
    /\ notes = {}
    /\ pc = [r \in Req |-> "idle"]
    /\ call = [r \in Req |-> NoCall]
    /\ seen = [r \in Req |-> NoRows]
    /\ held = [r \in Req |-> {}]

LegacySpec == LegacyInit /\ [][Next]_vars
-----------------------------------------------------------------------------
\* The old order may ask for more than there is; no other open order ever does, and
\* every open order still has its item reserved.
OnlyOldOrderExceeds ==
    \A o \in OrderId : Pending(o) =>
        /\ items[orders[o].item].status = "RESERVED"
        /\ o # OldOrder => orders[o].qty <= items[orders[o].item].qty

\* Completing an order larger than the stock sells the item out; the stock does not
\* go below zero, where CHK_items_quantity would refuse it and the order could never
\* be completed.
OversizedOrderSellsOut ==
    [][\A o \in OrderId :
          Pending(o) /\ orders'[o].status = "COMPLETED" =>
              LET i == orders[o].item
                  left == items[i].qty - orders[o].qty
              IN  IF left > 0 THEN items'[i].qty = left /\ items'[i].status = "AVAILABLE"
                  ELSE items'[i].qty = 0 /\ items'[i].status = "SOLD"]_<<items, orders>>
=============================================================================

---------------------------- MODULE MarketRows -----------------------------
(***************************************************************************)
(* The rows of the tables items and orders: their columns, as far as the   *)
(* order workflow reads or writes them, and the values these columns take. *)
(* Title, description, price, images and the like are never tested by the  *)
(* workflow and are left out.                                              *)
(***************************************************************************)
EXTENDS Naturals

CONSTANTS
    User,      \* employees (users.user_id)
    ItemId,    \* item ids the sequence may hand out
    OrderId,   \* order ids the sequence may hand out
    MaxQty,    \* largest quantity a listing or an order may ask for
    None       \* the null of a column of a row that is not there

ASSUME MarketAssumption ==
    /\ MaxQty \in Nat \ {0}
    /\ None \notin User \cup ItemId \cup OrderId

ItemStatus == {"AVAILABLE", "RESERVED", "SOLD"}
OrderStatus == {"PENDING", "COMPLETED", "CANCELLED"}

\* The ids the sequences have not handed out yet.
NoItem == [seller |-> None, status |-> "ABSENT", qty |-> 0]
NoOrder == [item |-> None, buyer |-> None, seller |-> None,
            qty |-> 0, status |-> "ABSENT", slip |-> "none"]

\* A row of the table items: who lists it, its status and its units in stock.
ItemRow == [seller : User, status : ItemStatus, qty : 0..MaxQty]

\* A row of the table orders; slip says whether a payment slip is attached.
OrderRow == [item : ItemId, buyer : User, seller : User, qty : 1..MaxQty,
             status : OrderStatus, slip : {"none", "attached"}]

\* An item that sold its last unit is SOLD, any other is offered again.
StatusForStock(n) == IF n > 0 THEN "AVAILABLE" ELSE "SOLD"
=============================================================================

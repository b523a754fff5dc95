------------------------------ MODULE MCOrders ------------------------------
(* The order workflow on small instances. *)
EXTENDS Orders, TLC

Symmetry == Permutations(User) \cup Permutations(OrderId) \cup Permutations(Req)

\* Notifications of new orders and of slips are written and never read again: states
\* that differ in nothing else have the same future and the same verdict.
View == <<items, orders, {n \in notes : n.type \in {"ORDER_COMPLETED", "ORDER_CANCELLED"}},
          pc, call, seen, held>>
=============================================================================

--------------------------- MODULE MCOrdersLegacy ---------------------------
(* The order workflow on a migrated database, on a small instance. *)
EXTENDS OrdersLegacy, TLC

Symmetry == Permutations(User) \cup Permutations(Req)

View == <<items, orders, pc, call, seen, held>>
=============================================================================

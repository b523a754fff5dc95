--------------------------- MODULE MCMarketplace ---------------------------
(* The abstract marketplace on a small instance. *)
EXTENDS Marketplace, TLC

Symmetry == Permutations(User) \cup Permutations(ItemId) \cup Permutations(OrderId)
=============================================================================

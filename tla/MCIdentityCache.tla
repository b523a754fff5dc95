-------------------------- MODULE MCIdentityCache --------------------------
(* The identity cache on small instances. *)
EXTENDS IdentityCache, TLC

Symmetry == Permutations(User) \cup Permutations(Identity) \cup Permutations(Req)
=============================================================================

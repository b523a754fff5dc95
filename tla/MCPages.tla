------------------------------ MODULE MCPages -------------------------------
(* Paging on small instances. *)
EXTENDS Pages, TLC

Symmetry == Permutations(Writer)
=============================================================================

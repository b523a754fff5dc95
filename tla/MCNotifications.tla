--------------------------- MODULE MCNotifications ---------------------------
(* Notifications and badges on small instances. *)
EXTENDS Notifications, TLC

Symmetry == Permutations(Stored) \cup Permutations(Note \ Stored) \cup Permutations(Req)
=============================================================================

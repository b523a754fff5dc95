----------------------------- MODULE MCProfile -----------------------------
(* Uploads and the profile that refers to an image, on small instances. *)
EXTENDS Profile, TLC

Symmetry == Permutations(File) \cup Permutations(Device) \cup Permutations(Phone)
=============================================================================

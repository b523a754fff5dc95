------------------------------- MODULE MCChat -------------------------------
(* Conversations on small instances. *)
EXTENDS Chat, TLC

Symmetry ==
    Permutations(Buyer) \cup Permutations(Socket) \cup Permutations(Msg) \cup Permutations(Req)

\* What is emitted is looked at when it is emitted; no step reads it.
View == <<owner, rooms, messages, pc, job, ghosts>>
=============================================================================

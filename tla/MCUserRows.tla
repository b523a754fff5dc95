----------------------------- MODULE MCUserRows -----------------------------
(* Push tokens among the other transactions: two employees may swap devices, and the *)
(* employees, an item and its order are what other requests refer to.  Two messages    *)
(* can be marked read together.                                                        *)
EXTENDS UserRows

MCInbox == {Entry}
MCItemOf == [o \in Order |-> CHOOSE i \in Item : TRUE]
=============================================================================

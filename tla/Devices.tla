------------------------------ MODULE Devices -------------------------------
(***************************************************************************)
(* What users.fcm_token promises: every device token belongs to one        *)
(* employee or to nobody, and changes hands in one instant.  PushTokens    *)
(* implements this with transactions over the rows of the employees.       *)
(***************************************************************************)
CONSTANTS
    User,      \* employees
    Token,     \* tokens FCM hands to devices
    None       \* nobody

VARIABLES
    owner,     \* the employee a token is stored for
    dead       \* tokens FCM no longer delivers to

vars == <<owner, dead>>

Init == owner = [t \in Token |-> None] /\ dead = {}

\* The employee's token before this one is nobody's.
SignIn(u, t) ==
    /\ owner' = [s \in Token |->
                    IF s = t THEN u ELSE IF owner[s] = u THEN None ELSE owner[s]]
    /\ UNCHANGED dead

SignOut(u) ==
    /\ owner' = [s \in Token |-> IF owner[s] = u THEN None ELSE owner[s]]
    /\ UNCHANGED dead

Dies(t) ==
    /\ dead' = dead \cup {t}
    /\ UNCHANGED owner

Forget(t) ==
    /\ t \in dead
    /\ owner' = [owner EXCEPT ![t] = None]
    /\ UNCHANGED dead

Next ==
    \/ \E u \in User : SignOut(u) \/ \E t \in Token : SignIn(u, t)
    \/ \E t \in Token : Dies(t) \/ Forget(t)

Spec == Init /\ [][Next]_vars
=============================================================================

---------------------------- MODULE PushTokens -----------------------------
(***************************************************************************)
(* The column users.fcm_token: the device an employee's notifications are  *)
(* pushed to.  PATCH /users/me/fcm-token moves a token to the employee who *)
(* signed in last, DELETE /users/me/fcm-token clears it on logout          *)
(* (users.service.ts), and a push that FCM rejects because the token is    *)
(* dead forgets it (push.service.ts).                                      *)
(*                                                                         *)
(* The move is a transaction of two UPDATEs.  Each reads the rows committed *)
(* when it starts, waits for the row locks of others and then looks again  *)
(* at the rows it found, and the second one meets the unique index on the  *)
(* column.  No lock is taken ahead, so two moves may wait for each other   *)
(* until the database aborts one of them.                                  *)
(***************************************************************************)
EXTENDS Naturals

CONSTANTS
    User,      \* employees
    Token,     \* tokens FCM hands to devices
    Req,       \* requests that may be running at a time
    None       \* null

ASSUME PushTokensAssumption == None \notin Token \cup User

VARIABLES
    fcm,       \* committed column fcm_token of every employee
    dead,      \* tokens FCM no longer delivers to
    pc,        \* where each request is
    job,       \* what each request is about, and the rows its UPDATE found
    writes     \* the rows each open transaction changed and locks, with their new token

vars == <<fcm, dead, pc, job, writes>>

NoJob == [user |-> None, token |-> None, found |-> {}]
NoWrites == [v \in {} |-> None]

Others(r) == Req \ {r}
Locks(r) == DOMAIN writes[r]
LockedByOther(r, v) == \E q \in Others(r) : v \in Locks(q)

Init ==
    /\ fcm = [u \in User |-> None]
    /\ dead = {}
    /\ pc = [r \in Req |-> "idle"]
    /\ job = [r \in Req |-> NoJob]
    /\ writes = [r \in Req |-> NoWrites]

\* A request arrives, or a notification is to be pushed.
Start(r, u, t, p) ==
    /\ pc[r] = "idle"
    /\ job' = [job EXCEPT ![r] = [user |-> u, token |-> t, found |-> {}]]
    /\ pc' = [pc EXCEPT ![r] = p]
    /\ UNCHANGED <<fcm, dead, writes>>

PatchFcmToken(r) == \E u \in User, t \in Token \ dead : Start(r, u, t, "find")
DeleteFcmToken(r) == \E u \in User : Start(r, u, None, "clear")
SendToUser(r) == \E u \in User : Start(r, u, None, "read")

\* Done or failed; an open transaction is rolled back and its locks are free.
Finish(r) ==
    /\ pc' = [pc EXCEPT ![r] = "idle"]
    /\ job' = [job EXCEPT ![r] = NoJob]
    /\ writes' = [writes EXCEPT ![r] = NoWrites]
-----------------------------------------------------------------------------
(* updateFcmToken *)

\* The first UPDATE finds the other employees the token is stored for.
FindHolders(r) ==
    /\ pc[r] = "find"
    /\ job' = [job EXCEPT ![r].found =
                {v \in User \ {job[r].user} : fcm[v] = job[r].token}]
    /\ pc' = [pc EXCEPT ![r] = "take"]
    /\ UNCHANGED <<fcm, dead, writes>>

\* Faulty variant: the rows found are not looked at again after the wait.
TakeTokenOfAll(r) ==
    /\ pc[r] = "take"
    /\ \A v \in job[r].found : ~LockedByOther(r, v)
    /\ writes' = [writes EXCEPT ![r] = [v \in job[r].found |-> None]]
    /\ pc' = [pc EXCEPT ![r] = "own"]
    /\ UNCHANGED <<fcm, dead, job>>

\* Once nobody else locks them it takes the token from those that still have it.
TakeToken(r) ==
    /\ pc[r] = "take"
    /\ \A v \in job[r].found : ~LockedByOther(r, v)
    /\ writes' = [writes EXCEPT ![r] =
                    [v \in {w \in job[r].found : fcm[w] = job[r].token} |-> None]]
    /\ pc' = [pc EXCEPT ![r] = "own"]
    /\ UNCHANGED <<fcm, dead, job>>

\* The second UPDATE locks the employee's own row ...
OwnToken(r) ==
    LET u == job[r].user IN
    /\ pc[r] = "own"
    /\ ~LockedByOther(r, u)
    /\ writes' = [writes EXCEPT ![r] =
                    [v \in Locks(r) \cup {u} |-> IF v = u THEN job[r].token ELSE None]]
    /\ pc' = [pc EXCEPT ![r] = "index"]
    /\ UNCHANGED <<fcm, dead, job>>

\* ... and enters the token into the unique index UQ_users_fcm_token: the rows that
\* still have it stored, and the transactions that have yet to decide about it.
Holders(r) == {v \in User \ Locks(r) : fcm[v] = job[r].token}
Rivals(r) ==
    {q \in Others(r) :
        \/ Locks(q) \cap Holders(r) # {}
        \/ pc[q] = "commit" /\ job[q].token = job[r].token}

\* Faulty variant: the index is not unique.
EnterIndexAnyway(r) ==
    /\ pc[r] = "index"
    /\ pc' = [pc EXCEPT ![r] = "commit"]
    /\ UNCHANGED <<fcm, dead, job, writes>>

EnterIndex(r) ==
    /\ pc[r] = "index"
    /\ Rivals(r) = {}
    /\ Holders(r) = {}
    /\ pc' = [pc EXCEPT ![r] = "commit"]
    /\ UNCHANGED <<fcm, dead, job, writes>>

\* Somebody else got the token after the first UPDATE looked: 409.
Duplicate(r) ==
    /\ pc[r] = "index"
    /\ Rivals(r) = {}
    /\ Holders(r) # {}
    /\ Finish(r)
    /\ UNCHANGED <<fcm, dead>>

\* Faulty variant: the transaction is not ended.
CommitMoveKeepsLocks(r) ==
    /\ pc[r] = "commit"
    /\ fcm' = [v \in User |-> IF v \in Locks(r) THEN writes[r][v] ELSE fcm[v]]
    /\ pc' = [pc EXCEPT ![r] = "idle"]
    /\ job' = [job EXCEPT ![r] = NoJob]
    /\ UNCHANGED <<dead, writes>>

CommitMove(r) ==
    /\ pc[r] = "commit"
    /\ fcm' = [v \in User |-> IF v \in Locks(r) THEN writes[r][v] ELSE fcm[v]]
    /\ Finish(r)
    /\ UNCHANGED dead
-----------------------------------------------------------------------------
(* clearFcmToken and sendToUser *)

ClearToken(r) ==
    /\ pc[r] = "clear"
    /\ ~LockedByOther(r, job[r].user)
    /\ fcm' = [fcm EXCEPT ![job[r].user] = None]
    /\ Finish(r)
    /\ UNCHANGED dead

\* Faulty variant: employees without a device are not left out.
ReadAnyToken(r) ==
    /\ pc[r] = "read"
    /\ job' = [job EXCEPT ![r].token = fcm[job[r].user]]
    /\ pc' = [pc EXCEPT ![r] = "send"]
    /\ UNCHANGED <<fcm, dead, writes>>

ReadToken(r) ==
    LET t == fcm[job[r].user] IN
    /\ pc[r] = "read"
    /\ t # None
    /\ job' = [job EXCEPT ![r].token = t]
    /\ pc' = [pc EXCEPT ![r] = "send"]
    /\ UNCHANGED <<fcm, dead, writes>>

NoToken(r) ==
    /\ pc[r] = "read"
    /\ fcm[job[r].user] = None
    /\ Finish(r)
    /\ UNCHANGED <<fcm, dead>>

\* FCM answers that the token is dead.
SendRejected(r) ==
    /\ pc[r] = "send"
    /\ job[r].token \in dead
    /\ pc' = [pc EXCEPT ![r] = "forget"]
    /\ UNCHANGED <<fcm, dead, job, writes>>

\* The push is accepted, or fails for a reason that says nothing about the token.
SendDone(r) ==
    /\ pc[r] = "send"
    /\ Finish(r)
    /\ UNCHANGED <<fcm, dead>>

\* Faulty variant: the UPDATE does not compare the token.
ForgetAnyToken(r) ==
    LET u == job[r].user IN
    /\ pc[r] = "forget"
    /\ ~LockedByOther(r, u)
    /\ fcm' = [fcm EXCEPT ![u] = None]
    /\ Finish(r)
    /\ UNCHANGED dead

\* "Only clear if the token was not replaced in the meantime."
ForgetToken(r) ==
    LET u == job[r].user IN
    /\ pc[r] = "forget"
    /\ fcm[u] = job[r].token => ~LockedByOther(r, u)
    /\ fcm' = IF fcm[u] = job[r].token THEN [fcm EXCEPT ![u] = None] ELSE fcm
    /\ Finish(r)
    /\ UNCHANGED dead
-----------------------------------------------------------------------------
\* The app is uninstalled or its token replaced.
Dies(t) ==
    /\ t \notin dead
    /\ dead' = dead \cup {t}
    /\ UNCHANGED <<fcm, pc, job, writes>>

\* A timeout, a lost connection or the death of the process.
Fail(r) ==
    /\ pc[r] # "idle"
    /\ Finish(r)
    /\ UNCHANGED <<fcm, dead>>

\* r cannot go on before q's transaction ends.
WaitsFor(r, q) ==
    /\ q # r
    /\ \/ pc[r] = "take" /\ Locks(q) \cap job[r].found # {}
       \/ pc[r] \in {"own", "clear"} /\ job[r].user \in Locks(q)
       \/ pc[r] = "forget" /\ job[r].user \in Locks(q) /\ fcm[job[r].user] = job[r].token
       \/ pc[r] = "index" /\ q \in Rivals(r)

\* The database aborts a transaction that waits in a circle (40P01, answered 409).
Deadlocked(r) ==
    \E S \in SUBSET Req :
        /\ r \in S
        /\ \A p \in S : (\E q \in S : WaitsFor(p, q)) /\ (\E q \in S : WaitsFor(q, p))
AbortDeadlock(r) ==
    /\ Deadlocked(r)
    /\ Finish(r)
    /\ UNCHANGED <<fcm, dead>>

Step(r) ==
    \/ FindHolders(r) \/ TakeToken(r) \/ OwnToken(r) \/ EnterIndex(r) \/ Duplicate(r)
    \/ CommitMove(r) \/ ClearToken(r) \/ ReadToken(r) \/ NoToken(r)
    \/ SendRejected(r) \/ SendDone(r) \/ ForgetToken(r) \/ AbortDeadlock(r)

Next ==
    \/ \E r \in Req : PatchFcmToken(r) \/ DeleteFcmToken(r) \/ SendToUser(r) \/ Step(r) \/ Fail(r)
    \/ \E t \in Token : Dies(t)

Spec == Init /\ [][Next]_vars
-----------------------------------------------------------------------------
PCs == {"idle", "find", "take", "own", "index", "commit", "clear", "read", "send", "forget"}
Job == [user : User \cup {None}, token : Token \cup {None}, found : SUBSET User]

Types ==
    /\ fcm \in [User -> Token \cup {None}]
    /\ dead \subseteq Token
    /\ pc \in [Req -> PCs]
    /\ job \in [Req -> Job]
    /\ DOMAIN writes = Req
    /\ \A r \in Req : Locks(r) \subseteq User /\ writes[r] \in [Locks(r) -> Token \cup {None}]

\* Every variable has its type, and what is pushed to is a token: sendToUser calls FCM only
\* for employees with a device.
TypeOK == Types /\ \A r \in Req : pc[r] = "send" => job[r].token \in Token

\* "One device token belongs to one employee": however moves interleave, none is stored
\* for two employees, so no notification reaches a device twice or two employees' at once.
OneHolder ==
    \A u, v \in User : fcm[u] # None /\ fcm[u] = fcm[v] => u = v

\* An employee who can be reached stays so: a token goes only because its device died,
\* another employee signed in on the device or the employee logged out.  In particular the
\* answer to a push never takes a token that replaced the dead one meanwhile.
LiveTokenKept(u) ==
    fcm[u] # None /\ fcm'[u] = None =>
        \/ fcm[u] \in dead
        \/ \E v \in User : fcm'[v] = fcm[u]
        \/ \E r \in Req : pc[r] = "clear" /\ job[r].user = u /\ pc'[r] = "idle"
LiveTokensKept == [][\A u \in User : LiveTokenKept(u)]_vars

\* A token belongs to one employee or nobody and changes hands in one instant: what
\* updateFcmToken, clearFcmToken and sendToUser do in several statements is one sign-in, one
\* sign-out or one forgetting of a dead token.
OwnerIn(f) ==
    [t \in Token |-> IF \E u \in User : f[u] = t THEN CHOOSE u \in User : f[u] = t ELSE None]
Owner == OwnerIn(fcm)
Registry == INSTANCE Devices WITH owner <- Owner, dead <- dead
RefinesDevices == Registry!Spec
=============================================================================

--------------------------- MODULE UserRowsProofs ---------------------------
(***************************************************************************)
(* For any number of employees, tokens, items, orders and requests: a      *)
(* token is stored for one employee at most and live tokens are kept; both *)
(* hold among all other transactions too, and no circle of waiting         *)
(* transactions is without a move of a token.                              *)
(*                                                                         *)
(* The first part is about PushTokens alone, the second about UserRows.    *)
(***************************************************************************)
EXTENDS UserRows, TLAPS

Mover(r) == pc[r] \in {"find", "take", "own", "index", "commit"}

\* The rows an open move locks: those it took the token from, which have it stored until
\* the commit, and in the end the employee's own.
TookFrom(r, v) == v # job[r].user /\ writes[r][v] = None /\ fcm[v] = job[r].token
LocksFit(r) ==
    /\ pc[r] \notin {"own", "index", "commit"} => Locks(r) = {}
    /\ pc[r] = "own" => \A v \in Locks(r) : TookFrom(r, v)
    /\ pc[r] \in {"index", "commit"} =>
          /\ job[r].user \in Locks(r)
          /\ writes[r][job[r].user] = job[r].token
          /\ \A v \in Locks(r) \ {job[r].user} : TookFrom(r, v)

JobFits(r) ==
    /\ pc[r] # "idle" => job[r].user \in User
    /\ Mover(r) => job[r].token \in Token /\ job[r].user \notin job[r].found
    /\ pc[r] = "send" => job[r].token \in Token
    /\ pc[r] = "forget" => job[r].token \in dead

\* Whoever passed the unique index commits to a token nobody else has or will have.
OnlyMover(r) ==
    pc[r] = "commit" =>
        /\ Holders(r) = {}
        /\ \A q \in Others(r) : pc[q] = "commit" => job[q].token # job[r].token

Fits(r) == LocksFit(r) /\ JobFits(r) /\ OnlyMover(r)

LocksDisjoint == \A r \in Req : \A q \in Others(r) : Locks(r) \cap Locks(q) = {}

\* The inductive invariant.
Coherent == Types /\ LocksDisjoint /\ (\A r \in Req : Fits(r)) /\ OneHolder

USE DEF Others, Locks, NoJob, NoWrites

\* Nothing changes but, at most, what belongs to r.
Elsewhere(r) ==
    \A q \in Others(r) : pc'[q] = pc[q] /\ job'[q] = job[q] /\ writes'[q] = writes[q]

\* A step that leaves the tokens alone disturbs no other request, unless it is the one
\* that passes the index.
LEMMA OthersFit ==
    ASSUME NEW r \in Req, Coherent, Elsewhere(r), UNCHANGED fcm, dead \subseteq dead',
           pc'[r] # "commit"
    PROVE  \A q \in Others(r) : Fits(q)'
<1> SUFFICES ASSUME NEW q \in Others(r) PROVE Fits(q)'
  OBVIOUS
<1>1. Fits(q) /\ pc'[q] = pc[q] /\ job'[q] = job[q] /\ writes'[q] = writes[q]
  BY DEF Coherent, Elsewhere
<1>2. LocksFit(q)'
  BY <1>1 DEF Fits, LocksFit, TookFrom
<1>3. JobFits(q)'
  BY <1>1 DEF Fits, JobFits, Mover
<1>4. OnlyMover(q)'
  <2>1. Holders(q)' = Holders(q)
    BY <1>1 DEF Holders
  <2>2. \A p \in Others(q) : pc'[p] = "commit" => pc[p] = "commit" /\ job'[p] = job[p]
    BY DEF Elsewhere
  <2> QED BY <1>1, <2>1, <2>2 DEF Fits, OnlyMover
<1> QED BY <1>2, <1>3, <1>4 DEF Fits

LEMMA DisjointKept ==
    ASSUME NEW r \in Req, LocksDisjoint, Elsewhere(r),
           \A q \in Others(r) : Locks(r)' \cap Locks(q) = {}
    PROVE  LocksDisjoint'
<1> SUFFICES ASSUME NEW p \in Req, NEW q \in Others(p) PROVE Locks(p)' \cap Locks(q)' = {}
  BY DEF LocksDisjoint
<1>1. Locks(p) \cap Locks(q) = {}
  BY DEF LocksDisjoint
<1>2. \A o \in Others(r) : Locks(o)' = Locks(o)
  BY DEF Elsewhere
<1>3. CASE p = r
  BY <1>2, <1>3
<1>4. CASE q = r
  BY <1>2, <1>4
<1>5. CASE p # r /\ q # r
  BY <1>1, <1>2, <1>5
<1> QED BY <1>3, <1>4, <1>5

\* The end of a request, whatever it did to the tokens, as far as its own state goes.
LEMMA Finished ==
    ASSUME NEW r \in Req, Coherent, Finish(r), fcm' \in [User -> Token \cup {None}],
           UNCHANGED dead
    PROVE  Types' /\ LocksDisjoint' /\ Fits(r)' /\ Elsewhere(r)
<1>1. Types
  BY DEF Coherent
<1>2. /\ pc' = [pc EXCEPT ![r] = "idle"] /\ job' = [job EXCEPT ![r] = NoJob]
      /\ writes' = [writes EXCEPT ![r] = NoWrites]
  BY DEF Finish
<1>3. /\ pc'[r] = "idle" /\ job'[r] = NoJob /\ writes'[r] = NoWrites /\ DOMAIN writes'[r] = {}
  BY <1>1, <1>2 DEF Types
<1>4. Elsewhere(r)
  BY <1>1, <1>2 DEF Types, Elsewhere
<1>5. Types'
  <2>1. pc' \in [Req -> PCs] /\ job' \in [Req -> Job] /\ DOMAIN writes' = Req
    BY <1>1, <1>2 DEF Types, PCs, Job
  <2>2. ASSUME NEW q \in Req
        PROVE Locks(q)' \subseteq User /\ writes'[q] \in [Locks(q)' -> Token \cup {None}]
    <3>1. CASE q = r
      BY <1>3, <3>1
    <3>2. CASE q # r
      BY <1>1, <1>4, <3>2 DEF Types, Elsewhere
    <3> QED BY <3>1, <3>2
  <2> QED BY <1>1, <2>1, <2>2 DEF Types
<1>6. LocksDisjoint'
  BY <1>3, <1>4, DisjointKept DEF Coherent
<1>7. Fits(r)'
  BY <1>3 DEF Fits, LocksFit, JobFits, OnlyMover, Mover
<1> QED BY <1>4, <1>5, <1>6, <1>7

\* A request that ends without touching a token.
LEMMA FinishedOnly ==
    ASSUME NEW r \in Req, Coherent, Finish(r), UNCHANGED <<fcm, dead>>
    PROVE  Coherent'
<1>1. Types' /\ LocksDisjoint' /\ Fits(r)' /\ Elsewhere(r)
  BY Finished DEF Coherent, Types
<1>2. pc'[r] # "commit"
  BY DEF Coherent, Types, Finish
<1>3. \A q \in Others(r) : Fits(q)'
  BY <1>1, <1>2, OthersFit
<1>4. OneHolder'
  BY DEF Coherent, OneHolder
<1> QED BY <1>1, <1>3, <1>4 DEF Coherent

\* A request that ends by taking the token of one employee, whose row nobody else locks.
LEMMA FinishedForgetting ==
    ASSUME NEW r \in Req, Coherent, Finish(r), UNCHANGED dead, NEW u \in User,
           ~LockedByOther(r, u), fcm' = [fcm EXCEPT ![u] = None]
    PROVE  Coherent'
<1> USE PushTokensAssumption
<1>1. fcm \in [User -> Token \cup {None}] /\ fcm' \in [User -> Token \cup {None}]
  BY DEF Coherent, Types
<1>2. Types' /\ LocksDisjoint' /\ Fits(r)' /\ Elsewhere(r)
  BY <1>1, Finished
<1>3. ASSUME NEW q \in Others(r) PROVE Fits(q)'
  <2>1. /\ Fits(q) /\ pc'[q] = pc[q] /\ job'[q] = job[q] /\ writes'[q] = writes[q]
        /\ u \notin Locks(q)
    BY <1>2 DEF Coherent, Elsewhere, LockedByOther
  <2>2. \A v \in Locks(q) : fcm'[v] = fcm[v]
    BY <1>1, <2>1 DEF Coherent, Types
  <2>3. LocksFit(q)'
    BY <2>1, <2>2 DEF Fits, LocksFit, TookFrom
  <2>4. JobFits(q)'
    BY <2>1 DEF Fits, JobFits, Mover
  <2>5. OnlyMover(q)'
    <3>1. pc[q] = "commit" => Holders(q)' \subseteq Holders(q)
      BY <1>1, <2>1 DEF Holders, Fits, JobFits, Mover
    <3>2. \A p \in Others(q) : pc'[p] = "commit" => pc[p] = "commit" /\ job'[p] = job[p]
      BY <1>2 DEF Elsewhere, Finish, Coherent, Types
    <3> QED BY <2>1, <3>1, <3>2 DEF Fits, OnlyMover
  <2> QED BY <2>3, <2>4, <2>5 DEF Fits
<1>4. OneHolder'
  BY <1>1 DEF Coherent, OneHolder
<1> QED BY <1>2, <1>3, <1>4 DEF Coherent

\* A step within a request that leaves the committed tokens alone.
LEMMA Continued ==
    ASSUME NEW r \in Req, Coherent, UNCHANGED <<fcm, dead>>, NEW p \in PCs \ {"commit"},
           NEW j \in Job, NEW w, DOMAIN w \subseteq User, w \in [DOMAIN w -> Token \cup {None}],
           pc' = [pc EXCEPT ![r] = p], job' = [job EXCEPT ![r] = j],
           DOMAIN writes' = Req, writes'[r] = w,
           \A q \in Others(r) : writes'[q] = writes[q],
           \A q \in Others(r) : DOMAIN w \cap Locks(q) = {},
           LocksFit(r)', JobFits(r)'
    PROVE  Coherent'
<1>1. Types
  BY DEF Coherent
<1>2. pc'[r] = p /\ job'[r] = j /\ writes'[r] = w /\ Elsewhere(r)
  BY <1>1 DEF Types, Elsewhere
<1>3. Types'
  <2>1. pc' \in [Req -> PCs] /\ job' \in [Req -> Job] /\ DOMAIN writes' = Req
    BY <1>1 DEF Types
  <2>2. ASSUME NEW q \in Req
        PROVE Locks(q)' \subseteq User /\ writes'[q] \in [Locks(q)' -> Token \cup {None}]
    <3>1. CASE q = r
      BY <1>2, <3>1
    <3>2. CASE q # r
      BY <1>1, <1>2, <3>2 DEF Types, Elsewhere
    <3> QED BY <3>1, <3>2
  <2> QED BY <1>1, <2>1, <2>2 DEF Types
<1>4. LocksDisjoint'
  BY <1>2, DisjointKept DEF Coherent
<1>5. \A q \in Others(r) : Fits(q)'
  BY <1>2, OthersFit
<1>6. Fits(r)'
  BY <1>2 DEF Fits, OnlyMover
<1>7. OneHolder'
  BY DEF Coherent, OneHolder
<1> QED BY <1>3, <1>4, <1>5, <1>6, <1>7 DEF Coherent

-----------------------------------------------------------------------------
LEMMA CoherentInit == Init => Coherent
  BY PushTokensAssumption
     DEF Init, Coherent, Types, LocksDisjoint, Fits, LocksFit, JobFits, OnlyMover, Mover,
         OneHolder, PCs, Job

\* Every step of a request keeps the invariant; CommitMove relies on what EnterIndex checked
\* and on the row locks taken on the way.
LEMMA StepCoherent ==
    ASSUME NEW r \in Req, Coherent, Step(r)
    PROVE  Coherent'
<1> USE PushTokensAssumption
<1>0. Types /\ LocksDisjoint /\ Fits(r) /\ OneHolder
  BY DEF Coherent
<1> DEFINE u == job[r].user
           t == job[r].token
<1>1. CASE FindHolders(r)
  <2> DEFINE j == [job[r] EXCEPT !.found = {v \in User \ {u} : fcm[v] = t}]
  <2>1. /\ j \in Job /\ j.user = u /\ j.token = t /\ u \notin j.found
        /\ u \in User /\ t \in Token /\ Locks(r) = {} /\ writes[r] \in [{} -> Token \cup {None}]
    BY <1>0, <1>1 DEF FindHolders, Types, Job, Fits, LocksFit, JobFits, Mover
  <2>2. /\ pc' = [pc EXCEPT ![r] = "take"] /\ job' = [job EXCEPT ![r] = j]
        /\ DOMAIN writes' = Req /\ writes'[r] = writes[r] /\ UNCHANGED <<fcm, dead>>
        /\ \A q \in Others(r) : writes'[q] = writes[q]
    BY <1>0, <1>1 DEF FindHolders, Types
  <2>3. pc'[r] = "take" /\ job'[r] = j /\ writes'[r] = writes[r]
    BY <1>0, <2>2 DEF Types
  <2> HIDE DEF j
  <2>4. LocksFit(r)' /\ JobFits(r)'
    BY <2>1, <2>3 DEF LocksFit, JobFits, Mover
  <2> QED BY <2>1, <2>2, <2>4, Continued DEF PCs
<1>2. CASE TakeToken(r)
  <2> DEFINE T == {v \in job[r].found : fcm[v] = t}
             w == [v \in T |-> None]
  <2>1. /\ u \in User /\ t \in Token /\ u \notin job[r].found /\ job[r] \in Job
        /\ T \subseteq User /\ DOMAIN w = T
        /\ w \in [DOMAIN w -> Token \cup {None}]
        /\ \A q \in Others(r) : T \cap Locks(q) = {}
    BY <1>0, <1>2 DEF TakeToken, Types, Job, Fits, JobFits, Mover, LockedByOther
  <2>2. /\ pc' = [pc EXCEPT ![r] = "own"] /\ job' = [job EXCEPT ![r] = job[r]]
        /\ DOMAIN writes' = Req /\ writes'[r] = w /\ UNCHANGED <<fcm, dead>>
        /\ \A q \in Others(r) : writes'[q] = writes[q]
    BY <1>0, <1>2 DEF TakeToken, Types
  <2>3. pc'[r] = "own" /\ job'[r] = job[r] /\ writes'[r] = w
    BY <1>0, <2>2 DEF Types
  <2>4. LocksFit(r)'
    BY <2>1, <2>2, <2>3 DEF LocksFit, TookFrom
  <2>5. JobFits(r)'
    BY <2>1, <2>3 DEF JobFits, Mover
  <2> HIDE DEF w, T
  <2> QED BY <2>1, <2>2, <2>4, <2>5, Continued DEF PCs
<1>3. CASE OwnToken(r)
  <2> DEFINE w == [v \in Locks(r) \cup {u} |-> IF v = u THEN t ELSE None]
  <2>1. /\ u \in User /\ t \in Token /\ u \notin job[r].found /\ job[r] \in Job
        /\ DOMAIN w \subseteq User
        /\ w \in [DOMAIN w -> Token \cup {None}]
        /\ \A v \in Locks(r) : TookFrom(r, v)
    BY <1>0, <1>3 DEF OwnToken, Types, Job, Fits, LocksFit, JobFits, Mover
  <2>2. \A q \in Others(r) : DOMAIN w \cap Locks(q) = {}
    BY <1>0, <1>3, <2>1 DEF OwnToken, LocksDisjoint, LockedByOther
  <2>3. /\ pc' = [pc EXCEPT ![r] = "index"] /\ job' = [job EXCEPT ![r] = job[r]]
        /\ DOMAIN writes' = Req /\ writes'[r] = w /\ UNCHANGED <<fcm, dead>>
        /\ \A q \in Others(r) : writes'[q] = writes[q]
    BY <1>0, <1>3 DEF OwnToken, Types
  <2>4. pc'[r] = "index" /\ job'[r] = job[r] /\ writes'[r] = w
    BY <1>0, <2>3 DEF Types
  <2>5. LocksFit(r)'
    BY <2>1, <2>3, <2>4 DEF LocksFit, TookFrom
  <2>6. JobFits(r)'
    BY <2>1, <2>4 DEF JobFits, Mover
  <2> HIDE DEF w
  <2> QED BY <2>1, <2>2, <2>3, <2>5, <2>6, Continued DEF PCs
<1>4. CASE EnterIndex(r)
  <2>1. /\ pc' = [pc EXCEPT ![r] = "commit"] /\ UNCHANGED <<fcm, dead, job, writes>>
        /\ pc[r] = "index" /\ Rivals(r) = {} /\ Holders(r) = {}
    BY <1>4 DEF EnterIndex
  <2>2. pc'[r] = "commit" /\ Elsewhere(r)
    BY <1>0, <2>1 DEF Types, Elsewhere
  <2>3. Types' /\ LocksDisjoint' /\ OneHolder'
    BY <1>0, <2>1 DEF Types, LocksDisjoint, OneHolder, PCs
  <2>4. \A q \in Others(r) : pc[q] = "commit" => job[q].token # t
    BY <2>1 DEF Rivals
  <2>5. Fits(r)'
    <3>1. LocksFit(r)' /\ JobFits(r)'
      BY <1>0, <2>1, <2>2 DEF Fits, LocksFit, JobFits, Mover, TookFrom
    <3>2. OnlyMover(r)'
      BY <2>1, <2>2, <2>4 DEF OnlyMover, Holders, Elsewhere
    <3> QED BY <3>1, <3>2 DEF Fits
  <2>6. ASSUME NEW q \in Others(r) PROVE Fits(q)'
    <3>1. Fits(q) /\ pc'[q] = pc[q]
      BY <2>2 DEF Coherent, Elsewhere
    <3>2. LocksFit(q)' /\ JobFits(q)'
      BY <2>1, <3>1 DEF Fits, LocksFit, JobFits, Mover, TookFrom
    <3>3. OnlyMover(q)'
      <4>1. ASSUME pc[q] = "commit", NEW p \in Others(q), pc'[p] = "commit"
            PROVE  job[p].token # job[q].token
        <5>1. CASE p = r
          BY <2>4, <4>1, <5>1
        <5>2. CASE p # r
          <6>1. pc[p] = "commit"
            BY <2>2, <4>1, <5>2 DEF Elsewhere
          <6> QED BY <3>1, <4>1, <6>1 DEF Fits, OnlyMover
        <5> QED BY <5>1, <5>2
      <4>2. Holders(q)' = Holders(q)
        BY <2>1 DEF Holders
      <4> QED BY <2>1, <3>1, <4>1, <4>2 DEF Fits, OnlyMover
    <3> QED BY <3>2, <3>3 DEF Fits
  <2> QED BY <2>3, <2>5, <2>6 DEF Coherent
<1>5. CASE CommitMove(r)
  <2>1. /\ fcm' = [v \in User |-> IF v \in Locks(r) THEN writes[r][v] ELSE fcm[v]]
        /\ Finish(r) /\ UNCHANGED dead /\ pc[r] = "commit"
    BY <1>5 DEF CommitMove
  <2>2. /\ u \in User /\ t \in Token /\ u \in Locks(r) /\ writes[r][u] = t
        /\ \A v \in Locks(r) \ {u} : TookFrom(r, v)
        /\ Locks(r) \subseteq User /\ writes[r] \in [Locks(r) -> Token \cup {None}]
        /\ fcm \in [User -> Token \cup {None}]
        /\ Holders(r) = {}
    BY <1>0, <2>1 DEF Types, Fits, LocksFit, JobFits, OnlyMover, Mover
  <2>3. /\ fcm' \in [User -> Token \cup {None}]
        /\ fcm'[u] = t
        /\ \A v \in Locks(r) \ {u} : fcm'[v] = None /\ fcm[v] = t
        /\ \A v \in User \ Locks(r) : fcm'[v] = fcm[v] /\ fcm[v] # t
    BY <2>1, <2>2 DEF TookFrom, Holders
  <2>4. Types' /\ LocksDisjoint' /\ Fits(r)' /\ Elsewhere(r)
    BY <2>1, <2>3, Finished
  <2>5. OneHolder'
    BY <1>0, <2>2, <2>3 DEF OneHolder
  <2>6. ASSUME NEW q \in Others(r) PROVE Fits(q)'
    <3>1. /\ Fits(q) /\ pc'[q] = pc[q] /\ job'[q] = job[q] /\ writes'[q] = writes[q]
          /\ Locks(q) \cap Locks(r) = {} /\ Locks(q) \subseteq User
      BY <1>0, <2>4 DEF Coherent, Elsewhere, LocksDisjoint, Types
    <3>2. \A v \in Locks(q) : fcm'[v] = fcm[v]
      BY <2>3, <3>1
    <3>3. LocksFit(q)'
      BY <3>1, <3>2 DEF Fits, LocksFit, TookFrom
    <3>4. JobFits(q)'
      BY <2>1, <3>1 DEF Fits, JobFits, Mover
    <3>5. OnlyMover(q)'
      <4>1. ASSUME pc[q] = "commit"
            PROVE  Holders(q)' = {}
        <5>1. job[q].token # t /\ job[q].token \in Token /\ Holders(q) = {}
          BY <1>0, <2>1, <3>1, <4>1 DEF Fits, OnlyMover, JobFits, Mover
        <5>2. ASSUME NEW v \in User, fcm'[v] = job[q].token PROVE v \in Locks(q)
          <6>1. v \notin Locks(r)
            BY <2>3, <5>1, <5>2
          <6>2. fcm[v] = job[q].token
            BY <2>3, <5>2, <6>1
          <6> QED BY <5>1, <6>2 DEF Holders
        <5> QED BY <3>1, <5>2 DEF Holders
      <4>2. \A p \in Others(q) : pc'[p] = "commit" => pc[p] = "commit" /\ job'[p] = job[p]
        BY <1>0, <2>1, <2>4 DEF Elsewhere, Finish, Types
      <4> QED BY <3>1, <4>1, <4>2 DEF Fits, OnlyMover
    <3> QED BY <3>3, <3>4, <3>5 DEF Fits
  <2> QED BY <2>4, <2>5, <2>6 DEF Coherent
<1>6. CASE ClearToken(r)
  BY <1>0, <1>6, FinishedForgetting DEF ClearToken, Fits, JobFits
<1>7. CASE ReadToken(r)
  <2> DEFINE j == [job[r] EXCEPT !.token = fcm[u]]
  <2>1. /\ u \in User /\ fcm[u] \in Token /\ j \in Job /\ j.user = u /\ j.token = fcm[u]
        /\ Locks(r) = {} /\ writes[r] \in [{} -> Token \cup {None}]
    BY <1>0, <1>7 DEF ReadToken, Types, Job, Fits, LocksFit, JobFits
  <2>2. /\ pc' = [pc EXCEPT ![r] = "send"] /\ job' = [job EXCEPT ![r] = j]
        /\ DOMAIN writes' = Req /\ writes'[r] = writes[r] /\ UNCHANGED <<fcm, dead>>
        /\ \A q \in Others(r) : writes'[q] = writes[q]
    BY <1>0, <1>7 DEF ReadToken, Types
  <2>3. pc'[r] = "send" /\ job'[r] = j /\ writes'[r] = writes[r]
    BY <1>0, <2>2 DEF Types
  <2> HIDE DEF j
  <2>4. LocksFit(r)' /\ JobFits(r)'
    BY <2>1, <2>3 DEF LocksFit, JobFits, Mover
  <2> QED BY <2>1, <2>2, <2>4, Continued DEF PCs
<1>8. CASE SendRejected(r)
  <2>1. /\ pc' = [pc EXCEPT ![r] = "forget"] /\ job' = [job EXCEPT ![r] = job[r]]
        /\ DOMAIN writes' = Req /\ writes'[r] = writes[r] /\ UNCHANGED <<fcm, dead>>
        /\ \A q \in Others(r) : writes'[q] = writes[q]
        /\ pc'[r] = "forget" /\ job'[r] = job[r] /\ writes'[r] = writes[r]
        /\ job[r] \in Job /\ u \in User /\ t \in dead
        /\ Locks(r) = {} /\ writes[r] \in [{} -> Token \cup {None}]
    BY <1>0, <1>8 DEF SendRejected, Types, Fits, LocksFit, JobFits
  <2>2. LocksFit(r)' /\ JobFits(r)'
    BY <2>1 DEF LocksFit, JobFits, Mover
  <2> QED BY <2>1, <2>2, Continued DEF PCs
<1>9. CASE ForgetToken(r)
  <2>1. u \in User /\ Finish(r) /\ UNCHANGED dead
    BY <1>0, <1>9 DEF ForgetToken, Fits, JobFits
  <2>2. CASE fcm[u] = t
    BY <1>9, <2>1, <2>2, FinishedForgetting DEF ForgetToken
  <2>3. CASE fcm[u] # t
    BY <1>9, <2>1, <2>3, FinishedOnly DEF ForgetToken
  <2> QED BY <2>2, <2>3
<1>10. CASE Duplicate(r) \/ NoToken(r) \/ SendDone(r) \/ AbortDeadlock(r)
  BY <1>10, FinishedOnly DEF Duplicate, NoToken, SendDone, AbortDeadlock
<1> QED
  BY <1>1, <1>2, <1>3, <1>4, <1>5, <1>6, <1>7, <1>8, <1>9, <1>10 DEF Step

\* A request arrives.
LEMMA StartCoherent ==
    ASSUME NEW r \in Req, Coherent, NEW u \in User, NEW t \in Token \cup {None},
           NEW p \in {"find", "clear", "read"}, p = "find" => t \in Token, Start(r, u, t, p)
    PROVE  Coherent'
<1> USE PushTokensAssumption
<1> DEFINE j == [user |-> u, token |-> t, found |-> {}]
<1>1. Types /\ Fits(r)
  BY DEF Coherent
<1>2. /\ pc' = [pc EXCEPT ![r] = p] /\ job' = [job EXCEPT ![r] = j]
      /\ DOMAIN writes' = Req /\ writes'[r] = writes[r] /\ UNCHANGED <<fcm, dead>>
        /\ \A q \in Others(r) : writes'[q] = writes[q]
      /\ pc'[r] = p /\ job'[r] = j /\ writes'[r] = writes[r]
      /\ Locks(r) = {} /\ writes[r] \in [{} -> Token \cup {None}] /\ j \in Job
  BY <1>1 DEF Start, Types, Fits, LocksFit, Job
<1>3. LocksFit(r)' /\ JobFits(r)'
  BY <1>2 DEF LocksFit, JobFits, Mover
<1> HIDE DEF j
<1> QED BY <1>2, <1>3, Continued DEF PCs

LEMMA CoherentNext == Coherent /\ [Next]_vars => Coherent'
<1> SUFFICES ASSUME Coherent, [Next]_vars PROVE Coherent'
  OBVIOUS
<1>1. ASSUME NEW r \in Req, Step(r) PROVE Coherent'
  BY <1>1, StepCoherent
<1>2. ASSUME NEW r \in Req, PatchFcmToken(r) \/ DeleteFcmToken(r) \/ SendToUser(r)
      PROVE  Coherent'
  BY <1>2, StartCoherent DEF PatchFcmToken, DeleteFcmToken, SendToUser
<1>3. ASSUME NEW r \in Req, Fail(r) PROVE Coherent'
  BY <1>3, FinishedOnly DEF Fail
<1>4. ASSUME NEW t \in Token, Dies(t) PROVE Coherent'
  <2>1. \A r \in Req : Fits(r)'
    BY <1>4 DEF Coherent, Dies, Fits, LocksFit, JobFits, OnlyMover, Mover, TookFrom, Holders
  <2> QED BY <1>4, <2>1 DEF Coherent, Dies, Types, LocksDisjoint, OneHolder
<1>5. CASE UNCHANGED vars
  <2>1. \A r \in Req : Fits(r)'
    BY <1>5 DEF Coherent, vars, Fits, LocksFit, JobFits, OnlyMover, Mover, TookFrom, Holders
  <2> QED BY <1>5, <2>1 DEF Coherent, vars, Types, LocksDisjoint, OneHolder
<1> QED BY <1>1, <1>2, <1>3, <1>4, <1>5 DEF Next

THEOREM AlwaysCoherent == Spec => []Coherent
  BY CoherentInit, CoherentNext, PTL DEF Spec

\* Every variable has its type, for any number of employees, tokens and requests.
THEOREM TokensTypeCorrect == Spec => []TypeOK
<1>1. Coherent => TypeOK
  BY DEF Coherent, TypeOK, Fits, JobFits
<1> QED BY <1>1, AlwaysCoherent, PTL

\* updateFcmToken stores a token for one employee at most, whatever moves, logouts and pushes
\* overlap with it.
THEOREM TokenHasOneHolder == Spec => []OneHolder
<1>1. Coherent => OneHolder
  BY DEF Coherent
<1> QED BY <1>1, AlwaysCoherent, PTL

\* No step takes an employee's token unless its device died, moved on or logged out:
\* sendToUser never clears a token that replaced the one it had read.
LEMMA StepKeepsLiveTokens ==
    ASSUME Coherent, [Next]_vars, NEW u \in User PROVE LiveTokenKept(u)
<1> USE PushTokensAssumption
<1> SUFFICES ASSUME fcm[u] # None, fcm'[u] = None
             PROVE  \/ fcm[u] \in dead
                    \/ \E v \in User : fcm'[v] = fcm[u]
                    \/ \E r \in Req : pc[r] = "clear" /\ job[r].user = u /\ pc'[r] = "idle"
  BY DEF LiveTokenKept
<1>1. fcm \in [User -> Token \cup {None}] /\ pc \in [Req -> PCs]
  BY DEF Coherent, Types
<1>2. PICK r \in Req : CommitMove(r) \/ ClearToken(r) \/ ForgetToken(r)
  BY <1>1 DEF Next, vars, Step, PatchFcmToken, DeleteFcmToken, SendToUser, Start, Fail, Dies,
     FindHolders, TakeToken, OwnToken, EnterIndex, Duplicate, ReadToken, NoToken, SendRejected,
     SendDone, AbortDeadlock
<1>3. Fits(r) /\ Locks(r) \subseteq User
  BY DEF Coherent, Types
<1>4. CASE CommitMove(r)
  <2>1. /\ job[r].user \in User /\ job[r].token \in Token
        /\ job[r].user \in Locks(r) /\ writes[r][job[r].user] = job[r].token
        /\ \A v \in Locks(r) \ {job[r].user} : TookFrom(r, v)
    BY <1>3, <1>4 DEF CommitMove, Fits, LocksFit, JobFits, Mover
  <2>2. fcm' = [v \in User |-> IF v \in Locks(r) THEN writes[r][v] ELSE fcm[v]]
    BY <1>4 DEF CommitMove
  <2>3. fcm'[job[r].user] = job[r].token
    BY <2>1, <2>2
  <2>4. u \in Locks(r) \ {job[r].user}
    BY <2>1, <2>2
  <2> QED BY <2>1, <2>3, <2>4 DEF TookFrom
<1>5. CASE ClearToken(r)
  BY <1>1, <1>3, <1>5 DEF ClearToken, Finish, Fits, JobFits
<1>6. CASE ForgetToken(r)
  BY <1>1, <1>3, <1>6 DEF ForgetToken, Fits, JobFits
<1> QED BY <1>2, <1>4, <1>5, <1>6

THEOREM LiveTokensStay == Spec => LiveTokensKept
<1>1. Coherent /\ [Next]_vars => [\A u \in User : LiveTokenKept(u)]_vars
  BY StepKeepsLiveTokens
<1> QED BY <1>1, AlwaysCoherent, PTL DEF Spec, LiveTokensKept
-----------------------------------------------------------------------------
(* The refinement of Devices. *)

\* Where a token is stored for one employee at most, Owner is that employee or nobody.
LEMMA OwnerOf ==
    ASSUME NEW f \in [User -> Token \cup {None}],
           \A u, v \in User : f[u] # None /\ f[u] = f[v] => u = v,
           NEW t \in Token
    PROVE  /\ \A u \in User : f[u] = t <=> OwnerIn(f)[t] = u
           /\ (\A u \in User : f[u] # t) => OwnerIn(f)[t] = None
<1>1. CASE \E u \in User : f[u] = t
  <2>1. OwnerIn(f)[t] = CHOOSE u \in User : f[u] = t
    BY <1>1 DEF OwnerIn
  <2>2. OwnerIn(f)[t] \in User /\ f[OwnerIn(f)[t]] = t
    BY <1>1, <2>1
  <2> QED BY <1>1, <2>2, PushTokensAssumption
<1>2. CASE \A u \in User : f[u] # t
  <2>1. OwnerIn(f)[t] = None
    BY <1>2 DEF OwnerIn
  <2> QED BY <1>2, <2>1, PushTokensAssumption
<1> QED BY <1>1, <1>2

LEMMA OwnerNow ==
    ASSUME Coherent, NEW t \in Token
    PROVE  /\ \A u \in User : fcm[u] = t <=> Owner[t] = u
           /\ (\A u \in User : fcm[u] # t) => Owner[t] = None
<1>1. /\ fcm \in [User -> Token \cup {None}]
      /\ \A u, v \in User : fcm[u] # None /\ fcm[u] = fcm[v] => u = v
  BY DEF Coherent, Types, OneHolder
<1> QED BY <1>1, OwnerOf DEF Owner

LEMMA OwnerNext ==
    ASSUME Coherent', NEW t \in Token
    PROVE  /\ \A u \in User : fcm'[u] = t <=> Owner'[t] = u
           /\ (\A u \in User : fcm'[u] # t) => Owner'[t] = None
<1>1. /\ fcm' \in [User -> Token \cup {None}]
      /\ \A u, v \in User : fcm'[u] # None /\ fcm'[u] = fcm'[v] => u = v
  BY DEF Coherent, Types, OneHolder
<1> QED BY <1>1, OwnerOf DEF Owner

\* A row whose token is cleared gives its token up, and no other.
LEMMA OwnerCleared ==
    ASSUME Coherent, Coherent', NEW u \in User, fcm' = [fcm EXCEPT ![u] = None]
    PROVE  Owner' = [s \in Token |-> IF Owner[s] = u THEN None ELSE Owner[s]]
<1>1. fcm \in [User -> Token \cup {None}]
  BY DEF Coherent, Types
<1>2. ASSUME NEW s \in Token
      PROVE  Owner'[s] = IF Owner[s] = u THEN None ELSE Owner[s]
  <2>1. CASE fcm[u] = s
    <3>1. Owner[s] = u
      BY <2>1, OwnerNow
    <3>2. \A v \in User : fcm'[v] # s
      BY <1>1, <2>1, PushTokensAssumption DEF Coherent, OneHolder
    <3> QED BY <3>1, <3>2, OwnerNext
  <2>2. CASE fcm[u] # s
    <3>1. \A v \in User : fcm'[v] = s <=> fcm[v] = s
      BY <1>1, <2>2, PushTokensAssumption
    <3>2. Owner[s] # u
      BY <2>2, OwnerNow
    <3>3. CASE \E v \in User : fcm[v] = s
      BY <3>1, <3>2, <3>3, OwnerNow, OwnerNext
    <3>4. CASE \A v \in User : fcm[v] # s
      BY <3>1, <3>2, <3>4, OwnerNow, OwnerNext
    <3> QED BY <3>3, <3>4
  <2> QED BY <2>1, <2>2
<1>3. Owner' = [s \in Token |-> Owner'[s]]
  BY DEF Owner, OwnerIn
<1> QED BY <1>2, <1>3

\* The commit of a move is a sign-in.
LEMMA OwnerMoved ==
    ASSUME Coherent, Coherent', NEW r \in Req, CommitMove(r)
    PROVE  /\ job[r].user \in User /\ job[r].token \in Token
           /\ Registry!SignIn(job[r].user, job[r].token)
<1> DEFINE u == job[r].user
           t == job[r].token
<1>1. /\ u \in User /\ t \in Token /\ u \in Locks(r) /\ writes[r][u] = t
      /\ \A v \in Locks(r) \ {u} : TookFrom(r, v)
      /\ Locks(r) \subseteq User
      /\ fcm \in [User -> Token \cup {None}]
      /\ Holders(r) = {}
      /\ fcm' = [v \in User |-> IF v \in Locks(r) THEN writes[r][v] ELSE fcm[v]]
      /\ UNCHANGED dead
  BY DEF CommitMove, Coherent, Types, Fits, LocksFit, JobFits, OnlyMover, Mover
<1>2. /\ fcm'[u] = t
      /\ \A v \in Locks(r) \ {u} : fcm'[v] = None /\ fcm[v] = t
      /\ \A v \in User \ Locks(r) : fcm'[v] = fcm[v]
  BY <1>1 DEF TookFrom
<1> HIDE DEF u, t
<1>3. ASSUME NEW s \in Token
      PROVE  Owner'[s] = IF s = t THEN u ELSE IF Owner[s] = u THEN None ELSE Owner[s]
  <2>1. CASE s = t
    BY <1>1, <1>2, <2>1, OwnerNext
  <2>2. CASE s # t /\ fcm[u] = s
    <3>1. Owner[s] = u
      BY <1>1, <2>2, OwnerNow
    <3>2. \A v \in User : fcm'[v] # s
      BY <1>1, <1>2, <2>2, PushTokensAssumption DEF Coherent, OneHolder
    <3> QED BY <2>2, <3>1, <3>2, OwnerNext
  <2>3. CASE s # t /\ fcm[u] # s
    <3>1. \A v \in User : fcm'[v] = s <=> fcm[v] = s
      BY <1>1, <1>2, <2>3, PushTokensAssumption
    <3>2. Owner[s] # u
      BY <1>1, <2>3, OwnerNow
    <3>3. CASE \E v \in User : fcm[v] = s
      BY <2>3, <3>1, <3>2, <3>3, OwnerNow, OwnerNext
    <3>4. CASE \A v \in User : fcm[v] # s
      BY <2>3, <3>1, <3>2, <3>4, OwnerNow, OwnerNext
    <3> QED BY <3>3, <3>4
  <2> QED BY <2>1, <2>2, <2>3
<1>4. Owner' = [s \in Token |-> Owner'[s]]
  BY DEF Owner, OwnerIn
<1>5. Registry!SignIn(u, t)
  BY <1>1, <1>3, <1>4 DEF Registry!SignIn
<1> QED BY <1>1, <1>5 DEF u, t

LEMMA StepRefines ==
    ASSUME Coherent, Coherent', [Next]_vars PROVE [Registry!Next]_(Registry!vars)
<1>1. ASSUME UNCHANGED <<fcm, dead>> PROVE UNCHANGED Registry!vars
  BY <1>1 DEF Registry!vars, Owner
<1>2. ASSUME NEW r \in Req, CommitMove(r) PROVE Registry!Next
  BY <1>2, OwnerMoved DEF Registry!Next
<1>3. ASSUME NEW r \in Req, ClearToken(r) PROVE Registry!Next
  <2>1. job[r].user \in User /\ fcm' = [fcm EXCEPT ![job[r].user] = None] /\ UNCHANGED dead
    BY <1>3 DEF ClearToken, Coherent, Fits, JobFits
  <2>2. Registry!SignOut(job[r].user)
    BY <2>1, OwnerCleared DEF Registry!SignOut
  <2> QED BY <2>1, <2>2 DEF Registry!Next
<1>4. ASSUME NEW r \in Req, ForgetToken(r) PROVE [Registry!Next]_(Registry!vars)
  <2>1. job[r].user \in User /\ UNCHANGED dead
    BY <1>4 DEF ForgetToken, Coherent, Fits, JobFits
  <2>2. CASE fcm[job[r].user] = job[r].token
    <3>1. Registry!SignOut(job[r].user)
      BY <1>4, <2>1, <2>2, OwnerCleared DEF ForgetToken, Registry!SignOut
    <3> QED BY <2>1, <3>1 DEF Registry!Next
  <2>3. CASE fcm[job[r].user] # job[r].token
    BY <1>1, <1>4, <2>1, <2>3 DEF ForgetToken
  <2> QED BY <2>2, <2>3
<1>5. ASSUME NEW t \in Token, Dies(t) PROVE Registry!Next
  <2>1. Owner' = Owner /\ dead' = dead \cup {t}
    BY <1>5 DEF Dies, Owner
  <2> QED BY <2>1 DEF Registry!Next, Registry!Dies
<1>6. ASSUME NEW r \in Req,
             \/ FindHolders(r) \/ TakeToken(r) \/ OwnToken(r) \/ EnterIndex(r)
             \/ Duplicate(r) \/ ReadToken(r) \/ NoToken(r) \/ SendRejected(r)
             \/ SendDone(r) \/ AbortDeadlock(r) \/ PatchFcmToken(r) \/ DeleteFcmToken(r)
             \/ SendToUser(r) \/ Fail(r)
      PROVE  UNCHANGED <<fcm, dead>>
  BY <1>6 DEF FindHolders, TakeToken, OwnToken, EnterIndex, Duplicate, ReadToken, NoToken,
     SendRejected, SendDone, AbortDeadlock, PatchFcmToken, DeleteFcmToken, SendToUser, Start, Fail
<1>7. CASE UNCHANGED vars
  BY <1>1, <1>7 DEF vars
<1> QED BY <1>1, <1>2, <1>3, <1>4, <1>5, <1>6, <1>7 DEF Next, Step

\* updateFcmToken, clearFcmToken and sendToUser implement a registry of devices in which every
\* change happens in one instant, for any number of employees, tokens and requests.
THEOREM TokensImplementDevices == Spec => RefinesDevices
<1>1. Init => Registry!Init
  BY PushTokensAssumption DEF Init, Registry!Init, Owner, OwnerIn
<1>2. Coherent /\ Coherent' /\ [Next]_vars => [Registry!Next]_(Registry!vars)
  BY StepRefines
<1> QED BY <1>1, <1>2, AlwaysCoherent, PTL DEF Spec, RefinesDevices, Registry!Spec
-----------------------------------------------------------------------------
Kind(l) == l.row[1]

\* The order in which a transaction takes its locks: one on an order or for a change of an
\* employee's row comes last, one on an item is the only one on an item, no employee's row
\* is locked FOR UPDATE, and what marks entries read locks nothing else.
Last(l) == Kind(l) = "order" \/ (Kind(l) = "user" /\ l.mode # "share")
Ordered(p, h) ==
    /\ \A i \in 1..Len(p) :
          /\ p[i].mode = "update" => Kind(p[i]) # "user"
          /\ Last(p[i]) => i = Len(p)
          /\ Kind(p[i]) = "item" =>
                (\A l \in h : Kind(l) # "item") /\ \A j \in 1..(i - 1) : Kind(p[j]) # "item"
          /\ \A l \in h : IsEntry(p[i]) <=> IsEntry(l)
          /\ \A j \in 1..Len(p) : IsEntry(p[i]) <=> IsEntry(p[j])
    /\ p # <<>> => \A l \in h : ~Last(l)

RowsInv ==
    /\ plan \in [Req -> Seq(Lock)] /\ held \in [Req -> SUBSET Lock]
    /\ \A r \in Req : Ordered(plan[r], held[r])
    /\ \A r \in Req : Working(r) => pc[r] = "idle"

-----------------------------------------------------------------------------
(* The composition implements PushTokens. *)

LEMMA RowsStepIsTokenStep == [RowsNext]_allVars => [Next]_vars
<1>1. ASSUME NEW r \in Req, BeginWork(r) \/ RowsStep(r) \/ FailWork(r) \/ FailToken(r) \/ StartToken(r)
      PROVE  [Next]_vars
  BY <1>1 DEF BeginWork, RowsStep, TakeLock, PassOver, CommitWork, TokenStep, BreakCircle, FailWork,
     FailToken, StartToken, EndWork, Next
<1>2. ASSUME NEW t \in Token, Dies(t) PROVE [Next]_vars
  BY <1>2 DEF Next
<1> QED BY <1>1, <1>2 DEF RowsNext, allVars

THEOREM RowsImplementTokens == RowsSpec => Spec
<1>1. RowsInit => Init
  BY DEF RowsInit
<1> QED BY <1>1, RowsStepIsTokenStep, PTL DEF RowsSpec, Spec

\* Among all other transactions, too, a token is stored for one employee at most.
THEOREM TokenHasOneHolderAmongRows == RowsSpec => []OneHolder
  BY RowsImplementTokens, TokenHasOneHolder, PTL

\* Nothing another transaction does takes a live token.
THEOREM LiveTokensStayAmongRows == RowsSpec => LiveTokensKept
  BY RowsImplementTokens, LiveTokensStay, PTL

\* The registry of devices is implemented among all other transactions.
THEOREM RowsImplementDevices == RowsSpec => RefinesDevices
  BY RowsImplementTokens, TokensImplementDevices, PTL
-----------------------------------------------------------------------------
(* The order of locks. *)

LEMMA RowKinds ==
    /\ \A u \in User : UserRow(u) \in Row /\ UserRow(u)[1] = "user"
    /\ \A i \in Item : ItemRow(i) \in Row /\ ItemRow(i)[1] = "item"
    /\ \A o \in Order : OrderRow(o) \in Row /\ OrderRow(o)[1] = "order"
    /\ \A e \in Entry : EntryRow(e) \in Row /\ EntryRow(e)[1] = "entry"
  BY DEF UserRow, ItemRow, OrderRow, EntryRow, Row

LEMMA ModeKinds ==
    \A row \in Row :
        /\ Update(row) \in Lock /\ Update(row).row = row /\ Update(row).mode = "update"
        /\ Write(row) \in Lock /\ Write(row).row = row /\ Write(row).mode = "write"
        /\ Share(row) \in Lock /\ Share(row).row = row /\ Share(row).mode = "share"
  BY DEF Update, Write, Share, Lock

LEMMA LockKinds ==
    /\ \A row \in Row : /\ Update(row) \in Lock /\ Update(row).mode = "update"
                        /\ Write(row) \in Lock /\ Write(row).mode = "write"
                        /\ Share(row) \in Lock /\ Share(row).mode = "share"
    /\ \A u \in User : /\ UserRow(u) \in Row /\ Kind(Write(UserRow(u))) = "user"
                       /\ Kind(Share(UserRow(u))) = "user"
    /\ \A i \in Item : /\ ItemRow(i) \in Row /\ Kind(Update(ItemRow(i))) = "item"
                       /\ Kind(Share(ItemRow(i))) = "item"
    /\ \A o \in Order : /\ OrderRow(o) \in Row /\ Kind(Update(OrderRow(o))) = "order"
                        /\ Kind(Write(OrderRow(o))) = "order"
                        /\ Kind(Share(OrderRow(o))) = "order"
    /\ \A e \in Entry : EntryRow(e) \in Row /\ Kind(Write(EntryRow(e))) = "entry"
  BY RowKinds, ModeKinds DEF Kind

\* Every service takes its locks in this order.
LEMMA PlansOrdered ==
    ASSUME NEW p \in Plans PROVE p \in Seq(Lock) /\ Ordered(p, {})
<1> USE UserRowsAssumption, LockKinds
<1>0. /\ "user" # "item" /\ "user" # "order" /\ "item" # "order"
      /\ "entry" # "user" /\ "entry" # "item" /\ "entry" # "order"
      /\ \A l : IsEntry(l) <=> Kind(l) = "entry"
  BY DEF IsEntry, Kind
<1> USE <1>0
<1>1. ASSUME NEW a \in Lock, Kind(a) = "user" => a.mode # "update"
      PROVE  <<a>> \in Seq(Lock) /\ Ordered(<<a>>, {})
  <2> DEFINE s == <<a>>
  <2>1. s \in Seq(Lock) /\ Len(s) = 1 /\ s[1] = a
    OBVIOUS
  <2> HIDE DEF s
  <2>2. Ordered(s, {})
    BY <1>1, <2>1 DEF Ordered
  <2> QED BY <2>1, <2>2 DEF s
<1>2. ASSUME NEW a \in Lock, NEW b \in Lock, Kind(a) = "item", Kind(b) = "order"
      PROVE  <<a, b>> \in Seq(Lock) /\ Ordered(<<a, b>>, {})
  <2> DEFINE s == <<a, b>>
  <2>1. s \in Seq(Lock) /\ Len(s) = 2 /\ s[1] = a /\ s[2] = b
    OBVIOUS
  <2> HIDE DEF s
  <2>2. Ordered(s, {})
    BY <1>2, <2>1 DEF Ordered, Last
  <2> QED BY <2>1, <2>2 DEF s
<1>3. ASSUME NEW a \in Lock, NEW b \in Lock, NEW c \in Lock,
             Kind(a) = "item", Kind(b) = "user", Kind(c) = "user",
             b.mode = "share", c.mode = "share"
      PROVE  <<a, b, c>> \in Seq(Lock) /\ Ordered(<<a, b, c>>, {})
  <2> DEFINE s == <<a, b, c>>
  <2>1. s \in Seq(Lock) /\ Len(s) = 3 /\ s[1] = a /\ s[2] = b /\ s[3] = c
    OBVIOUS
  <2> HIDE DEF s
  <2>2. Ordered(s, {})
    BY <1>3, <2>1 DEF Ordered, Last
  <2> QED BY <2>1, <2>2 DEF s
<1>4. ASSUME NEW a \in Lock, NEW b \in Lock, NEW c \in Lock,
             Kind(a) = "user", Kind(b) = "item", Kind(c) = "order", a.mode = "share"
      PROVE  <<a, b, c>> \in Seq(Lock) /\ Ordered(<<a, b, c>>, {})
  <2> DEFINE s == <<a, b, c>>
  <2>1. s \in Seq(Lock) /\ Len(s) = 3 /\ s[1] = a /\ s[2] = b /\ s[3] = c
    OBVIOUS
  <2> HIDE DEF s
  <2>2. Ordered(s, {})
    BY <1>4, <2>1 DEF Ordered, Last
  <2> QED BY <2>1, <2>2 DEF s
<1>5. CASE p \in CreateOrder
  <2>1. PICK i \in Item, b \in User, s \in User :
                p = <<Update(ItemRow(i)), Share(UserRow(b)), Share(UserRow(s))>>
    BY <1>5 DEF CreateOrder
  <2> QED BY <2>1, <1>3
<1>6. CASE p \in CloseOrder
  <2>1. PICK o \in Order : p = <<Update(ItemRow(ItemOf[o])), Update(OrderRow(o))>>
    BY <1>6 DEF CloseOrder
  <2> QED BY <2>1, <1>2
<1>7. CASE p \in SetItemStatus
  BY <1>1, <1>7 DEF SetItemStatus
<1>8. CASE p \in AttachSlip
  BY <1>1, <1>8 DEF AttachSlip
<1>9. CASE p \in ListItem
  BY <1>1, <1>9 DEF ListItem
<1>10. CASE p \in SaveProfile
  BY <1>1, <1>10 DEF SaveProfile
<1>11. CASE p \in StoreNote
  <2>1. PICK u \in User, o \in Order :
                p = <<Share(UserRow(u)), Share(ItemRow(ItemOf[o])), Share(OrderRow(o))>>
    BY <1>11 DEF StoreNote
  <2> QED BY <2>1, <1>4
<1>12. CASE p \in StoreMessage
  <2>1. PICK i \in Item, u \in User, v \in User :
                p = <<Share(ItemRow(i)), Share(UserRow(u)), Share(UserRow(v))>>
    BY <1>12 DEF StoreMessage
  <2> QED BY <2>1, <1>3
<1>13. CASE p \in MarkEntries
  <2>1. PICK b \in Inbox : \E s \in Arrangements(b) : p = [i \in DOMAIN s |-> Write(EntryRow(s[i]))]
    BY <1>13 DEF MarkEntries
  <2> PICK s \in Arrangements(b) : p = [i \in DOMAIN s |-> Write(EntryRow(s[i]))]
    BY <2>1
  <2>2. PICK n \in 1..Cardinality(b) : s \in [1..n -> b]
    BY DEF Arrangements
  <2>3. n \in Nat /\ b \subseteq Entry
    BY <2>1
  <2>4. \A i \in 1..n : Write(EntryRow(s[i])) \in Lock /\ Kind(Write(EntryRow(s[i]))) = "entry"
                         /\ Write(EntryRow(s[i])).mode = "write"
    BY <2>2, <2>3
  <2>5. p \in Seq(Lock) /\ Len(p) = n /\ \A i \in 1..n : p[i] = Write(EntryRow(s[i]))
    <3> DEFINE w == [i \in 1..n |-> Write(EntryRow(s[i]))]
    <3>1. w \in [1..n -> Lock]
      BY <2>4
    <3>2. p = w
      BY <2>2
    <3> QED BY <2>3, <3>1, <3>2
  <2>6. \A i \in 1..Len(p) : Kind(p[i]) = "entry" /\ p[i].mode = "write"
    BY <2>4, <2>5
  <2>7. Ordered(p, {})
    BY <2>6 DEF Ordered, Last
  <2> QED BY <2>5, <2>7
<1> QED BY <1>5, <1>6, <1>7, <1>8, <1>9, <1>10, <1>11, <1>12, <1>13 DEF Plans

\* Taking the next lock keeps the order.
LEMMA TailOrdered ==
    ASSUME NEW p \in Seq(Lock), p # <<>>, NEW h, h \subseteq Lock, Ordered(p, h)
    PROVE  Tail(p) \in Seq(Lock) /\ Ordered(Tail(p), h \cup {Head(p)})
<1>1. /\ Tail(p) \in Seq(Lock) /\ Len(Tail(p)) = Len(p) - 1 /\ Len(p) \in Nat /\ Len(p) > 0
      /\ Head(p) = p[1] /\ \A i \in 1..Len(Tail(p)) : Tail(p)[i] = p[i + 1]
  OBVIOUS
<1> DEFINE q == Tail(p)
<1> HIDE DEF q
<1>2. ASSUME NEW i \in 1..Len(q)
      PROVE  /\ q[i].mode = "update" => Kind(q[i]) # "user"
             /\ Last(q[i]) => i = Len(q)
             /\ Kind(q[i]) = "item" =>
                   /\ \A l \in h \cup {p[1]} : Kind(l) # "item"
                   /\ \A j \in 1..(i - 1) : Kind(q[j]) # "item"
             /\ \A l \in h \cup {p[1]} : IsEntry(q[i]) <=> IsEntry(l)
             /\ \A j \in 1..Len(q) : IsEntry(q[i]) <=> IsEntry(q[j])
  <2>1. q[i] = p[i + 1] /\ i + 1 \in 1..Len(p) /\ 1 \in 1..(i + 1 - 1)
    BY <1>1 DEF q
  <2>2. \A j \in 1..(i - 1) : q[j] = p[j + 1] /\ j + 1 \in 1..(i + 1 - 1)
    BY <1>1 DEF q
  <2>3. /\ p[i + 1].mode = "update" => Kind(p[i + 1]) # "user"
        /\ Last(p[i + 1]) => i + 1 = Len(p)
        /\ Kind(p[i + 1]) = "item" =>
              /\ \A l \in h : Kind(l) # "item"
              /\ \A j \in 1..(i + 1 - 1) : Kind(p[j]) # "item"
    BY <2>1 DEF Ordered
  <2>4. i + 1 = Len(p) => i = Len(q)
    <3>1. Len(q) = Len(p) - 1 /\ Len(p) \in Nat
      BY <1>1 DEF q
    <3> QED BY <3>1
  <2>5. ASSUME Kind(p[i + 1]) = "item" PROVE Kind(p[1]) # "item"
    BY <2>1, <2>3, <2>5
  <2>6. ASSUME Kind(p[i + 1]) = "item", NEW j \in 1..(i - 1) PROVE Kind(q[j]) # "item"
    <3>1. q[j] = p[j + 1] /\ j + 1 \in 1..(i + 1 - 1)
      BY <2>2
    <3> QED BY <2>3, <2>6, <3>1
  <2>7. q[i] = p[i + 1]
    BY <2>1
  <2>8. \A l \in h \cup {p[1]} : IsEntry(q[i]) <=> IsEntry(l)
    <3>1. 1 \in 1..Len(p) /\ i + 1 \in 1..Len(p)
      BY <1>1, <2>1
    <3> QED BY <2>7, <3>1 DEF Ordered
  <2>9. ASSUME NEW j \in 1..Len(q) PROVE IsEntry(q[i]) <=> IsEntry(q[j])
    <3>1. j + 1 \in 1..Len(p) /\ i + 1 \in 1..Len(p) /\ q[j] = p[j + 1]
      BY <1>1, <2>1 DEF q
    <3> QED BY <2>7, <3>1 DEF Ordered
  <2> QED BY <2>3, <2>4, <2>5, <2>6, <2>7, <2>8, <2>9
<1>3. q # <<>> => ~Last(p[1])
  <2>1. ASSUME q # <<>> PROVE 1 # Len(p) /\ 1 \in 1..Len(p)
    BY <1>1, <2>1 DEF q
  <2> QED BY <2>1 DEF Ordered
<1>4. p # <<>> => \A l \in h : ~Last(l)
  BY DEF Ordered
<1>5. Ordered(q, h \cup {p[1]})
  <2>1. \A i \in 1..Len(q) :
           /\ q[i].mode = "update" => Kind(q[i]) # "user"
           /\ Last(q[i]) => i = Len(q)
           /\ Kind(q[i]) = "item" =>
                 /\ \A l \in h \cup {p[1]} : Kind(l) # "item"
                 /\ \A j \in 1..(i - 1) : Kind(q[j]) # "item"
           /\ \A l \in h \cup {p[1]} : IsEntry(q[i]) <=> IsEntry(l)
           /\ \A j \in 1..Len(q) : IsEntry(q[i]) <=> IsEntry(q[j])
    BY <1>2
  <2>2. q # <<>> => \A l \in h \cup {p[1]} : ~Last(l)
    BY <1>3, <1>4
  <2> QED BY <2>1, <2>2 DEF Ordered
<1> QED BY <1>1, <1>5 DEF q

LEMMA RowsInvInit == RowsInit => RowsInv
  BY DEF RowsInit, Init, RowsInv, Ordered, Working

\* A request that has no plan and holds nothing fits.
LEMMA IdleOrdered == Ordered(<<>>, {}) /\ <<>> \in Seq(Lock)
  BY DEF Ordered

LEMMA StepIsNotIdle == \A r \in Req : Step(r) \/ Fail(r) => pc[r] # "idle"
  BY DEF Step, Fail, FindHolders, TakeToken, OwnToken, EnterIndex, Duplicate, CommitMove,
     ClearToken, ReadToken, NoToken, SendRejected, SendDone, ForgetToken, AbortDeadlock,
     Deadlocked, WaitsFor

\* A step about a token is r's alone.
LEMMA StepElsewhere ==
    ASSUME Types, NEW r \in Req,
           \/ Step(r) \/ Fail(r) \/ PatchFcmToken(r) \/ DeleteFcmToken(r) \/ SendToUser(r)
    PROVE  \A q \in Req \ {r} : pc'[q] = pc[q]
<1>1. pc \in [Req -> PCs]
  BY DEF Types
<1>2. \E p \in PCs : pc' = [pc EXCEPT ![r] = p]
  BY DEF Step, Fail, Finish, FindHolders, TakeToken, OwnToken, EnterIndex, Duplicate,
     CommitMove, ClearToken, ReadToken, NoToken, SendRejected, SendDone, ForgetToken,
     AbortDeadlock, PatchFcmToken, DeleteFcmToken, SendToUser, Start, PCs
<1> QED BY <1>1, <1>2

LEMMA RowsInvNext == RowsInv /\ Coherent /\ [RowsNext]_allVars => RowsInv'
<1> SUFFICES ASSUME RowsInv, Coherent, [RowsNext]_allVars PROVE RowsInv'
  OBVIOUS
<1>0. Types
  BY DEF Coherent
<1>1. ASSUME NEW r \in Req, NEW p \in Seq(Lock), NEW h \in SUBSET Lock, Ordered(p, h),
             plan' = [plan EXCEPT ![r] = p], held' = [held EXCEPT ![r] = h],
             UNCHANGED vars, pc[r] = "idle"
      PROVE  RowsInv'
  BY <1>1 DEF RowsInv, Working, vars
<1>2. ASSUME NEW r \in Req, BeginWork(r) PROVE RowsInv'
  <2>1. PICK p \in Plans : plan' = [plan EXCEPT ![r] = p]
    BY <1>2 DEF BeginWork
  <2>2. pc[r] = "idle" /\ held[r] = {} /\ held' = [held EXCEPT ![r] = {}] /\ UNCHANGED vars
    BY <1>2 DEF BeginWork, Busy, Working, RowsInv
  <2> QED BY <1>1, <2>1, <2>2, PlansOrdered
<1>3. ASSUME NEW r \in Req, TakeLock(r) PROVE RowsInv'
  <2>1. /\ plan[r] \in Seq(Lock) /\ plan[r] # <<>> /\ held[r] \in SUBSET Lock
        /\ Ordered(plan[r], held[r]) /\ pc[r] = "idle" /\ UNCHANGED vars
        /\ plan' = [plan EXCEPT ![r] = Tail(plan[r])]
        /\ held' = [held EXCEPT ![r] = held[r] \cup {Head(plan[r])}]
    BY <1>3 DEF TakeLock, RowsInv, Working
  <2>2. Tail(plan[r]) \in Seq(Lock) /\ Ordered(Tail(plan[r]), held[r] \cup {Head(plan[r])})
    BY <2>1, TailOrdered
  <2>3. held[r] \cup {Head(plan[r])} \in SUBSET Lock
    BY <2>1
  <2> QED BY <1>1, <2>1, <2>2, <2>3
<1>11. ASSUME NEW r \in Req, PassOver(r) PROVE RowsInv'
  <2>1. /\ plan[r] \in Seq(Lock) /\ plan[r] # <<>> /\ held[r] \in SUBSET Lock
        /\ Ordered(plan[r], held[r]) /\ pc[r] = "idle" /\ UNCHANGED vars
        /\ plan' = [plan EXCEPT ![r] = Tail(plan[r])]
        /\ held' = [held EXCEPT ![r] = held[r]]
    BY <1>11 DEF PassOver, RowsInv, Working
  <2>2. Tail(plan[r]) \in Seq(Lock) /\ Ordered(Tail(plan[r]), held[r] \cup {Head(plan[r])})
    BY <2>1, TailOrdered
  <2>3. Ordered(Tail(plan[r]), held[r])
    BY <2>2 DEF Ordered
  <2> QED BY <1>1, <2>1, <2>2, <2>3
<1>4. ASSUME NEW r \in Req, Working(r), EndWork(r) PROVE RowsInv'
  BY <1>1, <1>4, IdleOrdered DEF EndWork, RowsInv
<1>5. ASSUME UNCHANGED rowVars, NEW r \in Req, ~Working(r),
             \A q \in Req \ {r} : pc'[q] = pc[q]
      PROVE  RowsInv'
  BY <1>5 DEF RowsInv, rowVars, Working
<1>6. ASSUME NEW r \in Req, Step(r) \/ Fail(r), UNCHANGED rowVars PROVE RowsInv'
  <2>1. ~Working(r)
    BY <1>6, StepIsNotIdle DEF RowsInv
  <2> QED BY <1>0, <1>5, <1>6, <2>1, StepElsewhere
<1>7. ASSUME NEW r \in Req, StartToken(r) PROVE RowsInv'
  BY <1>0, <1>5, <1>7, StepElsewhere DEF StartToken
<1>8. ASSUME NEW t \in Token, Dies(t), UNCHANGED rowVars PROVE RowsInv'
  BY <1>8 DEF Dies, RowsInv, rowVars, Working
<1>9. CASE UNCHANGED allVars
  BY <1>9 DEF allVars, vars, RowsInv, Working
<1>10. ASSUME NEW r \in Req, RowsStep(r) \/ FailWork(r) \/ FailToken(r) PROVE RowsInv'
  <2>1. CASE TakeLock(r)
    BY <1>3, <2>1
  <2>2. CASE CommitWork(r) \/ FailWork(r)
    BY <1>4, <2>2 DEF CommitWork, FailWork, Working
  <2>3. CASE TokenStep(r) \/ FailToken(r)
    BY <1>6, <2>3 DEF TokenStep, FailToken
  <2>4. CASE BreakCircle(r)
    BY <1>4, <1>6, <2>4 DEF BreakCircle, FailToken, FailWork
  <2>5. CASE PassOver(r)
    BY <1>11, <2>5
  <2> QED BY <1>10, <2>1, <2>2, <2>3, <2>4, <2>5 DEF RowsStep
<1> QED BY <1>2, <1>7, <1>8, <1>9, <1>10 DEF RowsNext

THEOREM AlwaysOrdered == RowsSpec => []RowsInv
<1>1. RowsSpec => []Coherent
  BY RowsImplementTokens, AlwaysCoherent, PTL
<1> QED BY <1>1, RowsInvInit, RowsInvNext, PTL DEF RowsSpec

\* Every variable has its type, for any number of employees, items, orders and requests.
THEOREM RowsTypeCorrect == RowsSpec => []RowsTypeOK
<1>1. RowsInv /\ TypeOK => RowsTypeOK
  BY DEF RowsInv, RowsTypeOK
<1>2. RowsSpec => []TypeOK
  BY RowsImplementTokens, TokensTypeCorrect, PTL
<1> QED BY <1>1, <1>2, AlwaysOrdered, PTL
-----------------------------------------------------------------------------
(* No circle without a move or two UPDATEs that mark entries. *)

\* A request that waits and is waited for, and is no move that is half done, is a transaction
\* of another service.
LEMMA WaiterWorks ==
    ASSUME RowsInv, Coherent, NEW p \in Req, NEW q \in Req, NEW z \in Req,
           BlockedBy(p, z), BlockedBy(q, p), ~HalfMoved(p), ~HalfMoved(q)
    PROVE  plan[p] # <<>> /\ Holds(p) = held[p] /\ Wants(p) = {Head(plan[p])} /\ held[p] # {}
<1>1. Fits(p) /\ Fits(q)
  BY DEF Coherent
<1>2. pc[p] # "index" /\ pc[q] # "index"
  BY <1>1 DEF Fits, LocksFit, HalfMoved
<1>3. \E m \in Holds(p) : TRUE
  BY <1>2 DEF BlockedBy
<1>4. CASE Working(p)
  <2>1. pc[p] = "idle"
    BY <1>4 DEF RowsInv
  <2>2. Locks(p) = {}
    BY <1>1, <2>1 DEF Fits, LocksFit
  <2>3. Rewrites(p) = {}
    BY <2>1 DEF Rewrites
  <2>4. Holds(p) = held[p]
    BY <2>2 DEF Holds
  <2>5. \E l \in Wants(p) : TRUE
    BY <2>1 DEF BlockedBy
  <2>6. plan[p] # <<>>
    BY <2>3, <2>5 DEF Wants
  <2> QED BY <1>3, <2>4, <2>6 DEF Wants
<1>5. CASE ~Working(p)
  <2>1. held[p] = {} /\ plan[p] = <<>>
    BY <1>5 DEF Working
  <2>2. \E v \in Locks(p) : TRUE
    BY <1>3, <2>1 DEF Holds
  <2>3. pc[p] = "commit"
    BY <1>1, <1>2, <2>2 DEF Fits, LocksFit, HalfMoved
  <2>4. Rewrites(p) = {}
    BY <2>3 DEF Rewrites
  <2>5. Wants(p) = {}
    BY <2>1, <2>4 DEF Wants
  <2> QED BY <2>3, <2>5 DEF BlockedBy
<1> QED BY <1>4, <1>5

\* A circle without a move is of UPDATEs that mark entries: nobody in it waits for an item,
\* since whoever has one does not need another.
LEMMA WorkCirclesMark ==
    ASSUME RowsInv, Coherent, NEW S \in SUBSET Req, S # {}, Circle(S),
           \A r \in S : ~HalfMoved(r)
    PROVE  \A p \in S : HalfMarked(p)
<1>1. ASSUME NEW p \in S
      PROVE  plan[p] # <<>> /\ Holds(p) = held[p] /\ Wants(p) = {Head(plan[p])} /\ held[p] # {}
  <2>1. PICK z \in S : BlockedBy(p, z)
    BY <1>1 DEF Circle
  <2>2. PICK q \in S : BlockedBy(q, p)
    BY <1>1 DEF Circle
  <2> QED BY <2>1, <2>2, WaiterWorks
<1>2. ASSUME NEW p \in S
      PROVE  /\ Head(plan[p]) \in Lock
             /\ Kind(Head(plan[p])) = "user" => Head(plan[p]).mode # "update"
             /\ Kind(Head(plan[p])) = "item" => \A l \in held[p] : Kind(l) # "item"
             /\ \A l \in held[p] : l \in Lock /\ ~Last(l)
             /\ \A l \in held[p] : IsEntry(Head(plan[p])) <=> IsEntry(l)
  <2>1. plan[p] \in Seq(Lock) /\ plan[p] # <<>> /\ held[p] \subseteq Lock
        /\ Ordered(plan[p], held[p])
    BY <1>1 DEF RowsInv
  <2>2. Head(plan[p]) = plan[p][1] /\ 1 \in 1..Len(plan[p]) /\ plan[p][1] \in Lock
    BY <2>1
  <2> QED BY <2>1, <2>2 DEF Ordered
<1>3. ASSUME NEW p \in S, NEW q \in S, BlockedBy(p, q)
      PROVE  \/ Kind(Head(plan[p])) = "item" /\ \E l \in held[q] : Kind(l) = "item"
             \/ IsEntry(Head(plan[p])) /\ \E l \in held[q] : IsEntry(l)
  <2>1. pc[p] # "index"
    BY DEF HalfMoved, Coherent, Fits, LocksFit
  <2>2. PICK m \in held[q] : Conflict(Head(plan[p]), m)
    BY <1>1, <1>3, <2>1 DEF BlockedBy
  <2> DEFINE k == Head(plan[p])
  <2>3. k.row = m.row
    BY <2>2 DEF Conflict
  <2>4. Kind(m) = Kind(k) /\ (IsEntry(m) <=> IsEntry(k))
    BY <2>3 DEF Kind, IsEntry
  <2>5. m \in Lock /\ ~Last(m)
    BY <1>2
  <2>6. Kind(m) # "user"
    BY <1>2, <2>2, <2>4, <2>5 DEF Conflict, Last
  <2>7. Kind(m) = "item" \/ IsEntry(m)
    BY <2>5, <2>6
       DEF Last, Lock, Row, Kind, IsEntry, UserRow, ItemRow, OrderRow, EntryRow
  <2> QED BY <2>4, <2>7
<1>4. ASSUME NEW p \in S PROVE Kind(Head(plan[p])) # "item" \/ \A l \in held[p] : Kind(l) # "item"
  BY <1>2
<1>5. \A l : IsEntry(l) => Kind(l) # "item"
  BY DEF IsEntry, Kind
<1>6. ASSUME NEW p \in S PROVE HalfMarked(p)
  <2>1. PICK z \in S, q \in S : BlockedBy(p, z) /\ BlockedBy(q, p)
    BY DEF Circle
  <2>2. CASE IsEntry(Head(plan[p]))
    BY <1>1, <1>2, <2>2 DEF HalfMarked
  <2>3. CASE ~IsEntry(Head(plan[p]))
    <3>1. Kind(Head(plan[p])) = "item"
      BY <1>3, <2>1, <2>3
    <3>2. PICK l \in held[p] : Kind(l) = "item" \/ IsEntry(l)
      BY <1>3, <2>1
    <3>3. ~IsEntry(l)
      BY <1>2, <2>3
    <3> QED BY <1>4, <3>1, <3>2, <3>3
  <2> QED BY <2>2, <2>3
<1> QED BY <1>6

\* The item-first order of locks works, for any number of requests and rows: transactions wait
\* in a circle only if a move of a token is half done in it, or if all of them mark messages or
\* notifications read, each with a row marked and another to mark.
THEOREM OtherWorkNeverCircles == RowsSpec => []CirclesAreKnown
<1>1. RowsInv /\ Coherent => CirclesAreKnown
  BY WorkCirclesMark DEF CirclesAreKnown
<1>2. RowsSpec => []Coherent
  BY RowsImplementTokens, AlwaysCoherent, PTL
<1> QED BY <1>1, <1>2, AlwaysOrdered, PTL
=============================================================================

------------------------ MODULE NotificationsProofs -------------------------
(***************************************************************************)
(* What the badge may lack, for any number of notifications and devices.   *)
(***************************************************************************)
EXTENDS Notifications, FiniteSetTheorems, TLAPS

\* A count that was taken some time ago covers what is still unread and was there then; the
\* badge covers what is not missed.
CountsCover ==
    /\ Cardinality(Unread \ missed) <= badge
    /\ \A r \in Req : pc[r] = "emit" => Cardinality(Unread \ since[r]) <= job[r].count

\* A handler that marks or announces a notification knows which.
NotesKnown == \A r \in Req : pc[r] \in {"find", "mark", "announce"} => job[r].note \in Note

\* The inductive invariant.
Coherent == TypeOK /\ NotesKnown /\ CountsCover

\* Fewer notifications have a smaller count.
LEMMA FewerAre ==
    ASSUME NEW S, NEW T, T \subseteq Note, S \subseteq T
    PROVE  /\ Cardinality(S) \in Nat /\ Cardinality(T) \in Nat
           /\ Cardinality(S) <= Cardinality(T)
<1>1. IsFiniteSet(T)
  BY NotificationsAssumption, FS_Subset
<1> QED BY <1>1, FS_Subset, FS_CardinalityType

\* One notification adds at most one to a count.
LEMMA OneMore ==
    ASSUME NEW S, S \subseteq Note, NEW T, T \subseteq Note, NEW n, S \subseteq T \cup {n}
    PROVE  Cardinality(S) <= Cardinality(T) + 1
<1>1. Cardinality(S) \in Nat /\ Cardinality(T) \in Nat /\ Cardinality(S \ {n}) \in Nat
      /\ Cardinality(S \ {n}) <= Cardinality(T)
  BY FewerAre
<1>2. CASE n \in S
  <2>1. IsFiniteSet(S)
    BY NotificationsAssumption, FS_Subset
  <2>2. Cardinality(S \ {n}) = Cardinality(S) - 1
    BY <1>2, <2>1, FS_RemoveElement
  <2> QED BY <1>1, <2>2
<1>3. CASE n \notin S
  <2>1. S \ {n} = S
    BY <1>3
  <2> QED BY <1>1, <2>1
<1> QED BY <1>2, <1>3

LEMMA UnreadAre == Unread \subseteq Note
  BY DEF Unread

LEMMA CoherentInit == Init => Coherent
<1> SUFFICES ASSUME Init PROVE Coherent
  OBVIOUS
<1>1. Cardinality(Stored) \in Nat
  BY NotificationsAssumption, FewerAre
<1>2. Unread = Stored /\ Unread \ missed = Stored
  BY NotificationsAssumption DEF Init, Unread
<1>3. TypeOK
  BY <1>1 DEF Init, TypeOK, PCs
<1>4. NotesKnown /\ CountsCover
  BY <1>1, <1>2 DEF Init, NotesKnown, CountsCover
<1> QED BY <1>3, <1>4 DEF Coherent

\* Steps of one handler that mark nothing, store nothing and leave the badge alone.
LEMMA Quiet ==
    ASSUME Coherent, UNCHANGED <<row, badge, missed>>, NEW r \in Req, NEW p \in PCs,
           NEW j \in [note : Note \cup {None}, count : Nat],
           pc' = [pc EXCEPT ![r] = p], job' = [job EXCEPT ![r] = j],
           since' \in [Req -> SUBSET Note], \A q \in Req \ {r} : since'[q] = since[q],
           p \in {"find", "mark", "announce"} => j.note \in Note,
           p = "emit" => Cardinality(Unread \ since'[r]) <= j.count
    PROVE  Coherent'
<1>1. TypeOK /\ Unread' = Unread
  BY DEF Coherent, Unread
<1>2. TypeOK'
  BY <1>1 DEF TypeOK
<1>3. /\ \A q \in Req \ {r} : pc'[q] = pc[q] /\ job'[q] = job[q]
      /\ pc'[r] = p /\ job'[r] = j
  BY <1>1 DEF TypeOK
<1>4. NotesKnown'
  BY <1>3 DEF Coherent, NotesKnown
<1>5. CountsCover'
  BY <1>1, <1>3 DEF Coherent, CountsCover
<1> QED BY <1>2, <1>4, <1>5 DEF Coherent

\* Steps that leave less unread, but for what the ghosts know of, and the badge as it is.
LEMMA Fewer ==
    ASSUME Coherent, UNCHANGED badge, TypeOK', NotesKnown',
           Unread' \ missed' \subseteq Unread \ missed,
           \A q \in Req : pc'[q] = "emit" =>
               /\ pc[q] = "emit" /\ job'[q].count = job[q].count
               /\ Unread' \ since'[q] \subseteq Unread \ since[q]
    PROVE  Coherent'
<1>1. TypeOK
  BY DEF Coherent
<1>2. badge \in Nat /\ \A q \in Req : job[q].count \in Nat
  BY <1>1 DEF TypeOK
<1>3. Cardinality(Unread' \ missed') <= badge'
  <2>1. /\ Cardinality(Unread' \ missed') \in Nat /\ Cardinality(Unread \ missed) \in Nat
        /\ Cardinality(Unread' \ missed') <= Cardinality(Unread \ missed)
    <3> DEFINE S == Unread' \ missed'
               T == Unread \ missed
    <3>1. T \subseteq Note /\ S \subseteq T
      BY UnreadAre
    <3> HIDE DEF S, T
    <3>2. /\ Cardinality(S) \in Nat /\ Cardinality(T) \in Nat
          /\ Cardinality(S) <= Cardinality(T)
      BY <3>1, FewerAre
    <3> QED BY <3>2 DEF S, T
  <2> QED BY <1>2, <2>1 DEF Coherent, CountsCover
<1>4. ASSUME NEW q \in Req, pc'[q] = "emit"
      PROVE  Cardinality(Unread' \ since'[q]) <= job'[q].count
  <2>1. /\ Cardinality(Unread' \ since'[q]) \in Nat /\ Cardinality(Unread \ since[q]) \in Nat
        /\ Cardinality(Unread' \ since'[q]) <= Cardinality(Unread \ since[q])
    <3> DEFINE S == Unread' \ since'[q]
               T == Unread \ since[q]
    <3>1. T \subseteq Note /\ S \subseteq T
      BY <1>4, UnreadAre
    <3> HIDE DEF S, T
    <3>2. /\ Cardinality(S) \in Nat /\ Cardinality(T) \in Nat
          /\ Cardinality(S) <= Cardinality(T)
      BY <3>1, FewerAre
    <3> QED BY <3>2 DEF S, T
  <2>2. Cardinality(Unread \ since[q]) <= job[q].count /\ job'[q].count = job[q].count
    BY <1>4 DEF Coherent, CountsCover
  <2> QED BY <1>2, <2>1, <2>2
<1>5. CountsCover'
  BY <1>3, <1>4 DEF CountsCover
<1> QED BY <1>5 DEF Coherent

\* Steps that mark notifications read and go on to count.
LEMMA Marked ==
    ASSUME Coherent, NEW r \in Req, pc' = [pc EXCEPT ![r] = "count"],
           UNCHANGED <<badge, job, ghosts>>,
           row' \in [Note -> {"absent", "unread", "read"}],
           \A n \in Note : row'[n] = row[n] \/ (row'[n] = "read")
    PROVE  Coherent'
<1>1. TypeOK
  BY DEF Coherent
<1>2. TypeOK'
  BY <1>1 DEF TypeOK, PCs, ghosts
<1>3. Unread' \subseteq Unread
  BY DEF Unread
<1>4. \A q \in Req : pc'[q] = pc[q] \/ pc'[q] = "count"
  BY <1>1 DEF TypeOK
<1>5. NotesKnown'
  BY <1>4 DEF Coherent, NotesKnown
<1> QED BY <1>2, <1>3, <1>4, <1>5, Fewer DEF ghosts

LEMMA CoherentNext == Coherent /\ [Next]_vars => Coherent'
<1> SUFFICES ASSUME Coherent, [Next]_vars PROVE Coherent'
  OBVIOUS
<1> DEFINE Done == [note |-> None, count |-> 0]
<1>0. TypeOK
  BY DEF Coherent
<1>1. CASE UNCHANGED vars
  <2>1. Unread' = Unread
    BY <1>1 DEF vars, Unread
  <2> QED BY <1>1, <2>1 DEF vars, Coherent, TypeOK, NotesKnown, CountsCover
<1>2. ASSUME NEW r \in Req, NEW n \in Note \cup {None}, NEW p \in {"insert", "find", "all"},
             p = "find" => n \in Note, Start(r, n, p)
      PROVE  Coherent'
  BY <1>0, <1>2, Quiet DEF Start, PCs, TypeOK, ghosts
<1>3. ASSUME NEW r \in Req, Finish(r), UNCHANGED <<row, badge, missed>>,
             since' \in [Req -> SUBSET Note], \A q \in Req \ {r} : since'[q] = since[q]
      PROVE  Coherent'
  <2>1. Done \in [note : Note \cup {None}, count : Nat] /\ "idle" \in PCs
    BY DEF PCs
  <2> QED BY <1>3, <2>1, Quiet DEF Finish
<1>4. ASSUME NEW r \in Req, Insert(r) PROVE Coherent'
  <2>1. PICK n \in Note :
           /\ row[n] = "absent" /\ row' = [row EXCEPT ![n] = "unread"]
           /\ job' = [job EXCEPT ![r].note = n]
           /\ since' = [q \in Req |-> IF pc[q] = "emit" THEN since[q] \cup {n} ELSE since[q]]
           /\ missed' = missed \cup {n}
    BY <1>4 DEF Insert
  <2>2. pc' = [pc EXCEPT ![r] = "announce"] /\ UNCHANGED badge
    BY <1>4 DEF Insert
  <2>3. TypeOK'
    BY <1>0, <2>1, <2>2 DEF TypeOK, PCs
  <2>4. /\ \A q \in Req \ {r} : pc'[q] = pc[q] /\ job'[q] = job[q]
        /\ pc'[r] = "announce" /\ job'[r].note = n
    BY <1>0, <2>1, <2>2 DEF TypeOK
  <2>5. NotesKnown'
    BY <2>4 DEF Coherent, NotesKnown
  <2>6. Unread' \subseteq Unread \cup {n}
    BY <1>0, <2>1 DEF Unread, TypeOK
  <2>7. ASSUME NEW q \in Req, pc'[q] = "emit"
        PROVE  /\ pc[q] = "emit" /\ job'[q].count = job[q].count
               /\ Unread' \ since'[q] \subseteq Unread \ since[q]
    BY <2>1, <2>4, <2>6, <2>7
  <2> QED BY <2>1, <2>2, <2>3, <2>5, <2>6, <2>7, Fewer
<1>5. ASSUME NEW r \in Req, Announce(r) PROVE Coherent'
  <2>1. /\ badge \in Nat /\ badge' = badge + 1 /\ UNCHANGED <<row, since>> /\ Finish(r)
        /\ Unread' = Unread /\ missed' = missed \ {job[r].note}
    BY <1>0, <1>5 DEF Announce, TypeOK, Unread
  <2>2. TypeOK'
    BY <1>0, <2>1 DEF Finish, TypeOK, PCs
  <2>3. \A q \in Req : pc'[q] # "idle" => q # r /\ pc'[q] = pc[q] /\ job'[q] = job[q]
    BY <1>0, <2>1 DEF Finish, TypeOK
  <2>4. NotesKnown'
    BY <2>3 DEF Coherent, NotesKnown
  <2>5. Cardinality(Unread' \ missed') <= badge'
    <3> DEFINE n == job[r].note
               S == Unread \ (missed \ {n})
               T == Unread \ missed
    <3>1. S \subseteq Note /\ T \subseteq Note /\ S \subseteq T \cup {n}
      BY UnreadAre
    <3>2. Cardinality(T) <= badge
      BY DEF Coherent, CountsCover
    <3>3. Unread' \ missed' = S
      BY <2>1
    <3> HIDE DEF S, T, n
    <3>4. Cardinality(S) <= Cardinality(T) + 1
      BY <3>1, OneMore
    <3>5. Cardinality(S) \in Nat /\ Cardinality(T) \in Nat
      BY <3>1, FewerAre
    <3> QED BY <2>1, <3>2, <3>3, <3>4, <3>5
  <2>6. CountsCover'
    BY <2>1, <2>3, <2>5 DEF Coherent, CountsCover
  <2> QED BY <2>2, <2>4, <2>6 DEF Coherent
<1>6. ASSUME NEW r \in Req, FindUnread(r) PROVE Coherent'
  <2>1. /\ job[r] \in [note : Note \cup {None}, count : Nat] /\ job[r].note \in Note
        /\ pc' = [pc EXCEPT ![r] = "mark"] /\ job' = [job EXCEPT ![r] = job[r]]
        /\ UNCHANGED <<row, badge, ghosts>>
    BY <1>0, <1>6 DEF FindUnread, TypeOK, Coherent, NotesKnown
  <2> QED BY <1>0, <2>1, Quiet DEF PCs, TypeOK, ghosts
<1>7. ASSUME NEW r \in Req, Mark(r) PROVE Coherent'
  <2>1. job[r].note \in Note /\ row' = [row EXCEPT ![job[r].note] = "read"]
    BY <1>7 DEF Mark, Coherent, NotesKnown
  <2> QED BY <1>0, <1>7, <2>1, Marked DEF Mark, TypeOK
<1>8. ASSUME NEW r \in Req, MarkAll(r) PROVE Coherent'
  BY <1>0, <1>8, Marked DEF MarkAll, TypeOK
<1>9. ASSUME NEW r \in Req, CountUnread(r) PROVE Coherent'
  <2> DEFINE j == [job[r] EXCEPT !.count = Cardinality(Unread)]
  <2>0. /\ Cardinality(Unread) \in Nat /\ Cardinality(Unread \ since[r]) \in Nat
        /\ Cardinality(Unread \ since[r]) <= Cardinality(Unread)
    <3>1. Unread \ since[r] \subseteq Unread
      OBVIOUS
    <3> QED BY <3>1, UnreadAre, FewerAre
  <2>1. /\ j \in [note : Note \cup {None}, count : Nat] /\ j.count = Cardinality(Unread)
        /\ pc' = [pc EXCEPT ![r] = "emit"] /\ job' = [job EXCEPT ![r] = j]
        /\ UNCHANGED <<row, badge, ghosts>>
    BY <1>0, <1>9, <2>0 DEF CountUnread, TypeOK
  <2> HIDE DEF j
  <2>2. Cardinality(Unread \ since'[r]) <= j.count
    BY <2>0, <2>1 DEF ghosts
  <2>3. "emit" \in PCs
    BY DEF PCs
  <2> QED BY <1>0, <2>1, <2>2, <2>3, Quiet DEF TypeOK, ghosts
<1>10. ASSUME NEW r \in Req, Emit(r) PROVE Coherent'
  <2>1. /\ badge' = job[r].count /\ job[r].count \in Nat /\ UNCHANGED row /\ Finish(r)
        /\ pc[r] = "emit" /\ Unread' = Unread
        /\ missed' = since[r] /\ since' = [since EXCEPT ![r] = {}]
    BY <1>0, <1>10 DEF Emit, TypeOK, Unread
  <2>2. TypeOK'
    BY <1>0, <2>1 DEF Finish, TypeOK, PCs
  <2>3. \A q \in Req : pc'[q] # "idle" =>
           q # r /\ pc'[q] = pc[q] /\ job'[q] = job[q] /\ since'[q] = since[q]
    BY <1>0, <2>1 DEF Finish, TypeOK
  <2>4. NotesKnown'
    BY <2>3 DEF Coherent, NotesKnown
  <2>5. CountsCover'
    BY <2>1, <2>3 DEF Coherent, CountsCover
  <2> QED BY <2>2, <2>4, <2>5 DEF Coherent
<1>11. ASSUME NEW r \in Req, Notify(r) \/ MarkRead(r) \/ MarkAllRead(r) PROVE Coherent'
  BY <1>2, <1>11 DEF Notify, MarkRead, MarkAllRead
<1>12. ASSUME NEW r \in Req, NoIdLeft(r) \/ FindRead(r) \/ NoneToMark(r) \/ Fail(r)
       PROVE  Coherent'
  <2>1. CASE NoIdLeft(r) \/ FindRead(r) \/ NoneToMark(r)
    BY <1>0, <1>3, <2>1 DEF NoIdLeft, FindRead, NoneToMark, ghosts, TypeOK
  <2>2. CASE Fail(r)
    BY <1>0, <1>3, <2>2 DEF Fail, TypeOK
  <2> QED BY <1>12, <2>1, <2>2
<1> QED
  BY <1>1, <1>4, <1>5, <1>6, <1>7, <1>8, <1>9, <1>10, <1>11, <1>12 DEF Next

THEOREM AlwaysCoherent == Spec => []Coherent
  BY CoherentInit, CoherentNext, PTL DEF Spec

\* Every variable has its type, for any number of notifications and handlers.
THEOREM NotificationsTypeCorrect == Spec => []TypeOK
<1>1. Coherent => TypeOK
  BY DEF Coherent
<1> QED BY <1>1, AlwaysCoherent, PTL

\* However the handlers of notify, markRead and markAllRead overlap or fail, the badge lacks
\* unread notifications only if they were stored after the count it shows was taken and were not
\* announced after that count was emitted.
THEOREM OnlyMissedLack == Spec => []BadgeLacksOnlyMissed
<1>1. Coherent => BadgeLacksOnlyMissed
  BY DEF Coherent, CountsCover, BadgeLacksOnlyMissed
<1> QED BY <1>1, AlwaysCoherent, PTL
=============================================================================

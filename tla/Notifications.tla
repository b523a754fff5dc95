--------------------------- MODULE Notifications ---------------------------
(***************************************************************************)
(* The notifications of one employee and the badge the employee's devices  *)
(* show (notifications.service.ts).  A stored notification is emitted to   *)
(* the employee's room; marking notifications read on one device counts    *)
(* the unread ones and emits the count, so that the others follow.  The    *)
(* employees' notifications do not touch each other.                       *)
(*                                                                         *)
(* The devices are not part of the code: they add one to the badge on      *)
(* `notification` and show the count they get on `notificationsRead`.      *)
(***************************************************************************)
EXTENDS Naturals, FiniteSets

CONSTANTS
    Note,      \* ids the sequence may hand out to the employee's notifications
    Stored,    \* notifications stored, announced and unread at the beginning
    Req,       \* handlers that may be running at a time
    None       \* no notification in particular

ASSUME NotificationsAssumption ==
    /\ Stored \subseteq Note
    /\ IsFiniteSet(Note)
    /\ None \notin Note

VARIABLES
    row,       \* what is stored under each id: nothing, or a notification and its is_read
    badge,     \* what the devices show
    pc,        \* where each handler is
    job,       \* the notification a handler is about (None: all) and the count it took
    since,     \* ghost: notifications stored since a handler took its count
    missed     \* ghost: those stored after the count that the badges show was taken, and not
               \* announced after it was emitted

ghosts == <<since, missed>>
vars == <<row, badge, pc, job, since, missed>>

Unread == {n \in Note : row[n] = "unread"}

Init ==
    /\ row = [n \in Note |-> IF n \in Stored THEN "unread" ELSE "absent"]
    /\ badge = Cardinality(Stored)
    /\ pc = [r \in Req |-> "idle"]
    /\ job = [r \in Req |-> [note |-> None, count |-> 0]]
    /\ since = [r \in Req |-> {}]
    /\ missed = {}

Start(r, n, p) ==
    /\ pc[r] = "idle"
    /\ job' = [job EXCEPT ![r] = [note |-> n, count |-> 0]]
    /\ pc' = [pc EXCEPT ![r] = p]
    /\ UNCHANGED <<row, badge, ghosts>>

Finish(r) ==
    /\ pc' = [pc EXCEPT ![r] = "idle"]
    /\ job' = [job EXCEPT ![r] = [note |-> None, count |-> 0]]

\* Another part of the service reports something, or the employee reads on some device.
Notify(r) == Start(r, None, "insert")
MarkRead(r) == \E n \in Note : row[n] # "absent" /\ Start(r, n, "find")
MarkAllRead(r) == Start(r, None, "all")
-----------------------------------------------------------------------------
(* notify *)

Insert(r) ==
    /\ pc[r] = "insert"
    /\ \E n \in Note :
          /\ row[n] = "absent"
          /\ row' = [row EXCEPT ![n] = "unread"]
          /\ job' = [job EXCEPT ![r].note = n]
          /\ since' = [q \in Req |-> IF pc[q] = "emit" THEN since[q] \cup {n} ELSE since[q]]
          /\ missed' = missed \cup {n}
    /\ pc' = [pc EXCEPT ![r] = "announce"]
    /\ UNCHANGED badge

\* Bound of the model: there are no ids left.
NoIdLeft(r) ==
    /\ pc[r] = "insert"
    /\ \A n \in Note : row[n] # "absent"
    /\ Finish(r)
    /\ UNCHANGED <<row, badge, ghosts>>

Announce(r) ==
    /\ pc[r] = "announce"
    /\ badge' = badge + 1
    /\ missed' = missed \ {job[r].note}
    /\ Finish(r)
    /\ UNCHANGED <<row, since>>
-----------------------------------------------------------------------------
(* markRead and markAllRead *)

FindUnread(r) ==
    /\ pc[r] = "find"
    /\ row[job[r].note] = "unread"
    /\ pc' = [pc EXCEPT ![r] = "mark"]
    /\ UNCHANGED <<row, badge, job, ghosts>>

\* Nothing to do, and nobody to tell.
FindRead(r) ==
    /\ pc[r] = "find"
    /\ row[job[r].note] = "read"
    /\ Finish(r)
    /\ UNCHANGED <<row, badge, ghosts>>

\* Faulty variant: one less than before, instead of counting afterwards.
MarkCountingDown(r) ==
    /\ pc[r] = "mark"
    /\ row' = [row EXCEPT ![job[r].note] = "read"]
    /\ job' = [job EXCEPT ![r].count = Cardinality(Unread) - 1]
    /\ pc' = [pc EXCEPT ![r] = "emit"]
    /\ UNCHANGED <<badge, ghosts>>

Mark(r) ==
    /\ pc[r] = "mark"
    /\ row' = [row EXCEPT ![job[r].note] = "read"]
    /\ pc' = [pc EXCEPT ![r] = "count"]
    /\ UNCHANGED <<badge, job, ghosts>>

MarkAll(r) ==
    /\ pc[r] = "all"
    /\ Unread # {}
    /\ row' = [n \in Note |-> IF n \in Unread THEN "read" ELSE row[n]]
    /\ pc' = [pc EXCEPT ![r] = "count"]
    /\ UNCHANGED <<badge, job, ghosts>>

NoneToMark(r) ==
    /\ pc[r] = "all"
    /\ Unread = {}
    /\ Finish(r)
    /\ UNCHANGED <<row, badge, ghosts>>

\* emitRead: first the count ...
CountUnread(r) ==
    /\ pc[r] = "count"
    /\ job' = [job EXCEPT ![r].count = Cardinality(Unread)]
    /\ pc' = [pc EXCEPT ![r] = "emit"]
    /\ UNCHANGED <<row, badge, ghosts>>

\* ... then the event, when the answer of the database has come back.
Emit(r) ==
    /\ pc[r] = "emit"
    /\ badge' = job[r].count
    /\ missed' = since[r]
    /\ since' = [since EXCEPT ![r] = {}]
    /\ Finish(r)
    /\ UNCHANGED row
-----------------------------------------------------------------------------
\* A statement fails or the process dies; notify only logs that.
Fail(r) ==
    /\ pc[r] # "idle"
    /\ Finish(r)
    /\ since' = [since EXCEPT ![r] = {}]
    /\ UNCHANGED <<row, badge, missed>>

Next ==
    \E r \in Req :
        \/ Notify(r) \/ MarkRead(r) \/ MarkAllRead(r)
        \/ Insert(r) \/ NoIdLeft(r) \/ Announce(r)
        \/ FindUnread(r) \/ FindRead(r) \/ Mark(r) \/ MarkAll(r) \/ NoneToMark(r)
        \/ CountUnread(r) \/ Emit(r) \/ Fail(r)

Spec == Init /\ [][Next]_vars
-----------------------------------------------------------------------------
PCs == {"idle", "insert", "announce", "find", "mark", "all", "count", "emit"}

\* Every variable holds values of its type; a count never falls below zero.
TypeOK ==
    /\ row \in [Note -> {"absent", "unread", "read"}]
    /\ badge \in Nat
    /\ pc \in [Req -> PCs]
    /\ job \in [Req -> [note : Note \cup {None}, count : Nat]]
    /\ since \in [Req -> SUBSET Note]
    /\ missed \subseteq Note

\* However handlers overlap, fail and overtake each other, the badge lacks unread notifications
\* only of one kind: stored after the count it shows was taken, and not announced after that
\* count was emitted.  "Keeps badges in sync across the user's other devices/tabs" is true only
\* so far: a late count can swallow what was announced while it was on its way, but never makes
\* the badge lower than what was unread when it was taken and still is.
BadgeLacksOnlyMissed == Cardinality(Unread \ missed) <= badge
=============================================================================

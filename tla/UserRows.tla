------------------------------ MODULE UserRows ------------------------------
(***************************************************************************)
(* Push tokens beside everything else that locks an employee's row.        *)
(*                                                                         *)
(* Rows of items, orders, messages and notifications refer to users, items *)
(* and orders, and PostgreSQL locks what an inserted row refers to (FOR    *)
(* KEY SHARE) until the transaction ends.  A change of fcm_token, a column *)
(* of a unique index, locks its row so that even these locks conflict.     *)
(* So moving a token and placing an order wait for each other, although    *)
(* orders.service.ts and users.service.ts know nothing of one another.     *)
(*                                                                         *)
(* Marking messages or notifications read is one UPDATE of several rows,   *)
(* which locks them one after another in no order it states.               *)
(***************************************************************************)
EXTENDS PushTokens, Sequences, FiniteSets

CONSTANTS
    Item,      \* listings
    Order,     \* orders
    ItemOf,    \* the item an order is for
    Entry,     \* unread messages and notifications
    Inbox      \* those that are marked read together: a conversation's, or an employee's

ASSUME UserRowsAssumption ==
    /\ ItemOf \in [Order -> Item]
    /\ Inbox \subseteq SUBSET Entry

VARIABLES
    plan,      \* locks the transaction of a request has yet to take, in order
    held       \* locks it holds

rowVars == <<plan, held>>
allVars == <<vars, plan, held>>

UserRow(u) == <<"user", u>>
ItemRow(i) == <<"item", i>>
OrderRow(o) == <<"order", o>>
EntryRow(e) == <<"entry", e>>
Row == {UserRow(u) : u \in User} \cup {ItemRow(i) : i \in Item} \cup {OrderRow(o) : o \in Order}
            \cup {EntryRow(e) : e \in Entry}

\* FOR UPDATE; an UPDATE that leaves the columns of unique indexes alone; FOR KEY SHARE.
Update(row) == [row |-> row, mode |-> "update"]
Write(row) == [row |-> row, mode |-> "write"]
Share(row) == [row |-> row, mode |-> "share"]
Lock == [row : Row, mode : {"update", "write", "share"}]
Conflict(l, m) ==
    /\ l.row = m.row
    /\ l.mode = "update" \/ m.mode = "update" \/ (l.mode = "write" /\ m.mode = "write")
-----------------------------------------------------------------------------
(* The transactions of the other services, by the locks they take. *)

\* The item is locked first; the inserted order refers to its two parties.
CreateOrder == {<<Update(ItemRow(i)), Share(UserRow(b)), Share(UserRow(s))>> :
                    i \in Item, b \in User, s \in User}

\* Faulty variant: the order is locked before its item.
CloseOrderFirst == {<<Update(OrderRow(o)), Update(ItemRow(ItemOf[o]))>> : o \in Order}

\* "Locks are taken item-first, the same order as create(), to avoid deadlocks."
CloseOrder == {<<Update(ItemRow(ItemOf[o])), Update(OrderRow(o))>> : o \in Order}

SetItemStatus == {<<Update(ItemRow(i))>> : i \in Item}
AttachSlip == {<<Write(OrderRow(o))>> : o \in Order}
ListItem == {<<Share(UserRow(s))>> : s \in User}
SaveProfile == {<<Write(UserRow(u))>> : u \in User}

\* A notification refers to its recipient, the item and the order, a message to the item,
\* its sender and its receiver.
StoreNote == {<<Share(UserRow(u)), Share(ItemRow(ItemOf[o])), Share(OrderRow(o))>> :
                    u \in User, o \in Order}
StoreMessage == {<<Share(ItemRow(i)), Share(UserRow(u)), Share(UserRow(v))>> :
                    i \in Item, u \in User, v \in User}

\* The rows of an inbox that one UPDATE finds unread, in the order in which it meets them.
Arrangements(inbox) ==
    {s \in UNION {[1..n -> inbox] : n \in 1..Cardinality(inbox)} :
        \A i, j \in DOMAIN s : s[i] = s[j] => i = j}
MarkEntries ==
    {[i \in DOMAIN s |-> Write(EntryRow(s[i]))] : s \in UNION {Arrangements(b) : b \in Inbox}}

Plans == CreateOrder \cup CloseOrder \cup SetItemStatus \cup AttachSlip \cup ListItem
            \cup SaveProfile \cup StoreNote \cup StoreMessage \cup MarkEntries
-----------------------------------------------------------------------------
(* Who waits for whom. *)

\* The lock an UPDATE of fcm_token to t takes on u's row.
TokenLock(u, t) == IF fcm[u] = t THEN Write(UserRow(u)) ELSE Update(UserRow(u))

Holds(r) == held[r] \cup {TokenLock(v, writes[r][v]) : v \in Locks(r)}

\* The rows whose token the next statement of r changes, and what it changes them to.
Rewrites(r) ==
    CASE pc[r] = "take" -> job[r].found
      [] pc[r] \in {"own", "clear"} -> {job[r].user}
      [] pc[r] = "forget" -> {v \in {job[r].user} : fcm[v] = job[r].token}
      [] OTHER -> {}
Value(r) == IF pc[r] = "own" THEN job[r].token ELSE None

\* The locks the next statement of r needs.
Wants(r) ==
    IF plan[r] # <<>> THEN {Head(plan[r])} ELSE {TokenLock(v, Value(r)) : v \in Rewrites(r)}

BlockedBy(r, q) ==
    /\ q # r
    /\ \/ \E l \in Wants(r), m \in Holds(q) : Conflict(l, m)
       \/ pc[r] = "index" /\ q \in Rivals(r)

Free(r) == \A q \in Req : ~BlockedBy(r, q)

Circle(S) ==
    \A p \in S : (\E q \in S : BlockedBy(p, q)) /\ (\E q \in S : BlockedBy(q, p))
-----------------------------------------------------------------------------
RowsInit ==
    /\ Init
    /\ plan = [r \in Req |-> <<>>]
    /\ held = [r \in Req |-> {}]

Working(r) == plan[r] # <<>> \/ held[r] # {}
Busy(r) == pc[r] # "idle" \/ Working(r)

BeginWork(r) ==
    /\ ~Busy(r)
    /\ \E p \in Plans : plan' = [plan EXCEPT ![r] = p]
    /\ UNCHANGED <<vars, held>>

TakeLock(r) ==
    /\ plan[r] # <<>>
    /\ Free(r)
    /\ held' = [held EXCEPT ![r] = @ \cup {Head(plan[r])}]
    /\ plan' = [plan EXCEPT ![r] = Tail(@)]
    /\ UNCHANGED vars

IsEntry(l) == l.row[1] = "entry"

\* A message or notification that somebody else marked meanwhile is left alone.
PassOver(r) ==
    /\ plan[r] # <<>>
    /\ IsEntry(Head(plan[r]))
    /\ Free(r)
    /\ plan' = [plan EXCEPT ![r] = Tail(@)]
    /\ UNCHANGED <<vars, held>>

\* The transaction ends and its locks are free.
EndWork(r) ==
    /\ plan' = [plan EXCEPT ![r] = <<>>]
    /\ held' = [held EXCEPT ![r] = {}]
    /\ UNCHANGED vars

CommitWork(r) == plan[r] = <<>> /\ held[r] # {} /\ EndWork(r)

\* A refusal, the lock timeout of orders and items, a lost connection or the end of the process.
FailWork(r) == Working(r) /\ EndWork(r)

StartToken(r) ==
    /\ ~Working(r)
    /\ PatchFcmToken(r) \/ DeleteFcmToken(r) \/ SendToUser(r)
    /\ UNCHANGED rowVars

TokenStep(r) == Free(r) /\ Step(r) /\ UNCHANGED rowVars
FailToken(r) == Fail(r) /\ UNCHANGED rowVars

\* The database aborts one of the transactions that wait in a circle (40P01, answered 409).
BreakCircle(r) ==
    /\ \E S \in SUBSET Req : r \in S /\ Circle(S)
    /\ FailToken(r) \/ FailWork(r)

RowsStep(r) == TakeLock(r) \/ PassOver(r) \/ CommitWork(r) \/ TokenStep(r) \/ BreakCircle(r)

RowsNext ==
    \/ \E r \in Req : BeginWork(r) \/ StartToken(r) \/ RowsStep(r) \/ FailWork(r) \/ FailToken(r)
    \/ \E t \in Token : Dies(t) /\ UNCHANGED rowVars

RowsSpec == RowsInit /\ [][RowsNext]_allVars

\* Row locks are granted in order of arrival and FCM calls time out.
FairSpec == RowsSpec /\ \A r \in Req : SF_allVars(RowsStep(r))
-----------------------------------------------------------------------------
\* Every variable has its type, and a request is about a token or about other rows.
RowsTypeOK ==
    /\ TypeOK
    /\ plan \in [Req -> Seq(Lock)]
    /\ held \in [Req -> SUBSET Lock]
    /\ \A r \in Req : Working(r) => pc[r] = "idle"

\* A move that has changed a row: taken the token from another employee, or written it into the
\* row of its own and waits for the index.
HalfMoved(r) == pc[r] \in {"own", "index"} /\ Locks(r) # {}

\* An UPDATE that has marked a message or notification read and has another to mark.
HalfMarked(r) ==
    /\ \E l \in held[r] : IsEntry(l)
    /\ plan[r] # <<>> /\ IsEntry(Head(plan[r]))

\* "Locks are taken item-first, the same order as create(), to avoid deadlocks": whatever
\* orders, item changes, profiles and stored messages and notifications overlap, they never
\* wait in a circle by themselves.  A circle has a move of a token in it that is half done, or
\* consists of UPDATEs that mark several rows read and meet them in different orders.
CirclesAreKnown ==
    \A S \in SUBSET Req : S # {} /\ Circle(S) =>
        \/ \E r \in S : HalfMoved(r)
        \/ \A r \in S : HalfMarked(r)

\* Every request is answered: circles are the database's to resolve, and nothing else keeps a
\* request waiting.
RequestsFinish == \A r \in Req : Busy(r) ~> ~Busy(r)
=============================================================================

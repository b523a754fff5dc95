------------------------------- MODULE Pages --------------------------------
(***************************************************************************)
(* Paging through a list while it changes.  Three ways of paging:          *)
(*                                                                         *)
(*   "history"  a conversation's messages, from a cursor (chats.service)   *)
(*   "list"     items, orders and notifications, by page number            *)
(*   "inbox"    a user's conversations, by page number (chats.service)     *)
(*                                                                         *)
(* A row gets its created_at when its transaction starts, its id from the  *)
(* sequence when it is inserted, and is visible when the transaction       *)
(* commits.  Lists are ordered by created_at and then id, newest first.    *)
(* A row leaves a list that has a filter when it no longer matches, and    *)
(* may come back: an item is sold, an order closed, a notification read.   *)
(* A conversation moves to the top of the inbox with every message.        *)
(***************************************************************************)
EXTENDS Naturals, FiniteSets

CONSTANTS
    Writer,    \* handlers that may be storing a row at a time
    MaxRow,    \* bound of the model: rows that are stored
    MaxMove,   \* bound of the model: times rows leave or move up
    Size,      \* rows of a page
    Kinds      \* the ways of paging that are looked at

ASSUME PagesAssumption ==
    /\ MaxRow \in Nat \ {0}
    /\ MaxMove \in Nat
    /\ Size \in Nat \ {0}
    /\ Kinds \subseteq {"history", "list", "inbox"}

VARIABLES
    kind,      \* how the reader pages
    now,       \* the clock of the database
    lastId,    \* the last id the sequence handed out
    stamp,     \* created_at of the row each writer is storing, 0 if it has none
    newId,     \* the id of that row, 0 before it is inserted
    rows,      \* committed rows
    hidden,    \* ids of those the filter leaves out
    moves,     \* how often rows left or moved up
    walk       \* what the reader has been told since the first page

storing == <<now, lastId, stamp, newId>>
vars == <<kind, storing, rows, hidden, moves, walk>>

Id == 1..MaxRow
Ids(R) == {m.id : m \in R}
Listed == {m \in rows : m.id \notin hidden}

\* Page and cursor to ask for next; ghosts: the rows there were at first, those that were
\* shown, those shown repeatedly and how often in all, how many left and came since, and those
\* whose place the query left open or moved.
NewWalk ==
    [page |-> 1, before |-> 0, counting |-> FALSE, done |-> FALSE, expected |-> {}, shown |-> {},
     repeated |-> {}, again |-> 0, left |-> 0, came |-> 0, loose |-> {}]

\* The reader has a page and asks for more; a row comes meanwhile.
Underway == ~walk.done /\ (walk.counting \/ walk.page > 1)
Came == IF kind = "list" /\ Underway THEN [walk EXCEPT !.came = @ + 1] ELSE walk

Init ==
    /\ kind \in Kinds
    /\ now = 1
    /\ lastId = 0
    /\ stamp = [w \in Writer |-> 0]
    /\ newId = [w \in Writer |-> 0]
    /\ rows = {}
    /\ hidden = {}
    /\ moves = 0
    /\ walk = NewWalk
-----------------------------------------------------------------------------
(* Rows are stored: repository.save runs START TRANSACTION, INSERT, COMMIT. *)

\* The clock need not have moved since the last transaction started.
Begin(w) ==
    /\ stamp[w] = 0
    /\ now <= MaxRow
    /\ \E t \in {now, now + 1} :
          /\ now' = t
          /\ stamp' = [stamp EXCEPT ![w] = t]
    /\ UNCHANGED <<kind, lastId, newId, rows, hidden, moves, walk>>

Insert(w) ==
    /\ stamp[w] # 0
    /\ newId[w] = 0
    /\ lastId < MaxRow
    /\ lastId' = lastId + 1
    /\ newId' = [newId EXCEPT ![w] = lastId + 1]
    /\ UNCHANGED <<kind, now, stamp, rows, hidden, moves, walk>>

Commit(w) ==
    /\ newId[w] # 0
    /\ rows' = rows \cup {[id |-> newId[w], at |-> stamp[w]]}
    /\ walk' = Came
    /\ stamp' = [stamp EXCEPT ![w] = 0]
    /\ newId' = [newId EXCEPT ![w] = 0]
    /\ UNCHANGED <<kind, now, lastId, hidden, moves>>

\* The statement fails; an id it had drawn is never used.
Rollback(w) ==
    /\ stamp[w] # 0
    /\ stamp' = [stamp EXCEPT ![w] = 0]
    /\ newId' = [newId EXCEPT ![w] = 0]
    /\ UNCHANGED <<kind, now, lastId, rows, hidden, moves, walk>>

(* Rows leave, return and move. *)

Move == moves < MaxMove /\ moves' = moves + 1

Hide(i) ==
    /\ kind = "list" /\ Move
    /\ i \in Ids(Listed)
    /\ hidden' = hidden \cup {i}
    /\ walk' = IF Underway THEN [walk EXCEPT !.left = @ + 1] ELSE walk
    /\ UNCHANGED <<kind, storing, rows>>

Return(i) ==
    /\ kind = "list"
    /\ i \in hidden
    /\ hidden' = hidden \ {i}
    /\ walk' = Came
    /\ UNCHANGED <<kind, storing, rows, moves>>

\* A message is stored in a conversation.
MoveUp(m) ==
    /\ kind = "inbox" /\ Move
    /\ m \in rows
    /\ rows' = (rows \ {m}) \cup {[m EXCEPT !.at = now]}
    /\ walk' = IF Underway THEN [walk EXCEPT !.loose = @ \cup {m.id}] ELSE walk
    /\ UNCHANGED <<kind, storing, hidden>>
-----------------------------------------------------------------------------
(* Queries *)

\* created_at DESC, id DESC; the inbox is ordered by the latest message's created_at alone.
Precedes(m, n) == m.at > n.at \/ (kind # "inbox" /\ m.at = n.at /\ m.id > n.id)

\* A is the beginning of R in an order the query may answer in.
Leads(A, R) == \A a \in A, m \in R : Precedes(m, a) => m \in A

\* What OFFSET off LIMIT k of R may be.
Slices(R, off, k) ==
    {P \in SUBSET R :
        /\ Cardinality(P) = IF Cardinality(R) <= off THEN 0
                            ELSE IF Cardinality(R) - off < k THEN Cardinality(R) - off ELSE k
        /\ P = {} \/ \E A \in SUBSET (R \ P) :
                        Cardinality(A) = off /\ Leads(A, R) /\ Leads(A \cup P, R)}

\* The reader is shown a page; the first one starts the walk.
Show(P) ==
    LET first == walk.page = 1 /\ walk.before = 0
        ties == {m.id : m \in {x \in Listed : \E n \in Listed \ {x} : n.at = x.at}}
        again == Ids(P) \cap walk.shown
    IN  [walk EXCEPT
            !.expected = IF first THEN Ids(Listed) ELSE @,
            !.shown = @ \cup Ids(P),
            !.repeated = @ \cup again,
            !.again = @ + Cardinality(again),
            !.loose = IF kind = "inbox" THEN @ \cup ties ELSE @]
-----------------------------------------------------------------------------
(* getHistory: a cursor *)

\* Faulty variant: the message at the cursor is part of the next page too.
MatchingFromCursor == {m \in rows : walk.before = 0 \/ m.id <= walk.before}

Matching == {m \in rows : walk.before = 0 \/ m.id < walk.before}

\* One row more than the page is fetched, to learn whether there are more.
Fetched == Size + 1

Oldest(P) == CHOOSE m \in P : \A n \in P \ {m} : Precedes(n, m)

\* Faulty variant: the cursor is taken before the extra row is dropped.
CursorOfExtraRow(page, fetched) == Oldest(fetched).id

NextCursor(page, fetched) == Oldest(page).id

NextHistoryPage ==
    /\ kind = "history" /\ ~walk.done
    /\ \E fetched \in Slices(Matching, 0, Fetched) :
       \E page \in Slices(fetched, 0, Size) :
          LET hasMore == Cardinality(fetched) > Size IN
          walk' = [Show(page) EXCEPT
                     !.done = ~hasMore,
                     !.before = IF hasMore THEN NextCursor(page, fetched) ELSE @]
    /\ UNCHANGED <<kind, storing, rows, hidden, moves>>
-----------------------------------------------------------------------------
(* findAll, findMine and getConversations: page numbers *)

\* Faulty variant: pages are counted from 0.
OffsetFromZero == walk.page * Size

Offset == (walk.page - 1) * Size

\* Faulty variant: the last page counts only when it is full.
LastFullPage(total) == walk.page >= total \div Size

\* page is the last of totalPages = ceil(total / size).
LastPage(total) == walk.page * Size >= total

\* The rows and then, in a statement of its own, their number.
NextListPage ==
    /\ kind = "list" /\ ~walk.done /\ ~walk.counting
    /\ \E page \in Slices(Listed, Offset, Size) :
          walk' = [Show(page) EXCEPT !.counting = TRUE]
    /\ UNCHANGED <<kind, storing, rows, hidden, moves>>

CountList ==
    /\ walk.counting
    /\ walk' = [walk EXCEPT !.counting = FALSE, !.page = @ + 1,
                            !.done = LastPage(Cardinality(Listed))]
    /\ UNCHANGED <<kind, storing, rows, hidden, moves>>

\* COUNT(*) OVER() comes with the rows, and is taken for 0 when there are none.
NextInboxPage ==
    /\ kind = "inbox" /\ ~walk.done
    /\ \E page \in Slices(Listed, Offset, Size) :
          walk' = [Show(page) EXCEPT
                     !.page = @ + 1,
                     !.done = LastPage(IF page = {} THEN 0 ELSE Cardinality(Listed))]
    /\ UNCHANGED <<kind, storing, rows, hidden, moves>>

\* The list is opened again.
Reopen ==
    /\ walk.done
    /\ walk' = NewWalk
    /\ UNCHANGED <<kind, storing, rows, hidden, moves>>

Next ==
    \/ \E w \in Writer : Begin(w) \/ Insert(w) \/ Commit(w) \/ Rollback(w)
    \/ \E i \in Id : Hide(i) \/ Return(i)
    \/ \E m \in rows : MoveUp(m)
    \/ NextHistoryPage \/ NextListPage \/ CountList \/ NextInboxPage
    \/ Reopen

Spec == Init /\ [][Next]_vars
-----------------------------------------------------------------------------
Missed == IF walk.done THEN (walk.expected \cap Ids(Listed)) \ walk.shown ELSE {}

\* Every variable has its type; the cursor is a message the reader was shown.
TypeOK ==
    /\ kind \in Kinds
    /\ now \in 1..MaxRow + 1
    /\ lastId \in 0..MaxRow
    /\ stamp \in [Writer -> 0..MaxRow + 1]
    /\ newId \in [Writer -> 0..MaxRow]
    /\ rows \subseteq [id : Id, at : 1..MaxRow + 1]
    /\ hidden \subseteq Ids(rows)
    /\ moves \in 0..MaxMove
    /\ walk \in [page : Nat, before : walk.shown \cup {0}, counting : BOOLEAN, done : BOOLEAN,
                 expected : SUBSET Id, shown : SUBSET Id, repeated : SUBSET Id, again : Nat,
                 left : Nat, came : Nat, loose : SUBSET Id]

\* "Cursor: return messages older than this messageId": who pages back until there is no
\* more has been shown every message there was at the beginning.
WalkIsComplete == kind = "history" => Missed = {}

\* The message's id and created_at are in opposite order to another's, since both were being
\* stored at once.
Reversed(i) ==
    \E m, n \in rows : m.id = i /\ \/ n.id < i /\ n.at > m.at
                                   \/ n.id > i /\ n.at < m.at

\* A message is missed or shown twice only if it was stored at the same time as another, and
\* the database gave the two their ids and their times in opposite orders.
OnlyReversedAffected == kind = "history" => \A i \in Missed \cup walk.repeated : Reversed(i)

\* A list that changes shifts under its page numbers, but no more than it changed: the reader
\* misses at most one row for each that left and is shown at most one again for each that came.
OffsetWalkShifts ==
    kind = "list" =>
        /\ Cardinality(Missed) <= walk.left
        /\ walk.again <= walk.came

\* The inbox loses a conversation between pages only if a message moved it up, or if its
\* latest message is as old as another's: the query does not say which of them comes first.
InboxMissesOnlyMoved == kind = "inbox" => Missed \subseteq walk.loose
=============================================================================

------------------------------- MODULE Orders -------------------------------
(***************************************************************************)
(* The order workflow as the service runs it: POST /orders, PATCH          *)
(* /orders/:id/status, PATCH /orders/:id/payment-slip and PATCH            *)
(* /items/:id/status (orders.service.ts, items.service.ts), together with  *)
(* the notification each of them stores after its transaction committed    *)
(* (notifications.service.ts).                                             *)
(*                                                                         *)
(* A request is a process whose steps are the stretches between two awaits *)
(* of its handler: check a connection out of the pool, lock a row, decide, *)
(* commit, read again, notify.  Between any two of them other requests run *)
(* and the request may fail (lock or statement timeout, lost connection,   *)
(* crash), which rolls its transaction back.                               *)
(*                                                                         *)
(* Writes of an open transaction are invisible to the others, so a         *)
(* transaction's writes are one step, its commit.  An id that is not in    *)
(* the tables is answered 404 and changes nothing; requests name rows that *)
(* exist.                                                                  *)
(***************************************************************************)
EXTENDS MarketRows, FiniteSets

CONSTANTS
    Req,       \* request handlers that may be running at a time
    PoolMax    \* connections of the pool (DB_POOL_MAX)

ASSUME OrdersAssumption == PoolMax \in Nat \ {0} /\ IsFiniteSet(Req)

VARIABLES
    items,     \* committed rows of the table items
    orders,    \* committed rows of the table orders
    notes,     \* notifications stored about orders
    pc,        \* where each request is
    call,      \* what each request was asked for
    seen,      \* the rows each request read last
    held       \* the connection and the row locks each request holds

vars == <<items, orders, notes, pc, call, seen, held>>

ClosingOps == {"complete", "cancel"}
Ops == {"create", "attach", "setStatus"} \cup ClosingOps

\* What a request is asked for; None, 0 and "none" where the endpoint has no such input.
Ask(op, user, item, order, qty, status) ==
    [op |-> op, user |-> user, item |-> item, order |-> order, qty |-> qty, status |-> status]

NoCall == Ask("none", None, None, None, 0, "none")
NoRows == [item |-> NoItem, order |-> NoOrder]

Listed(i) == items[i].status # "ABSENT"
Placed(o) == orders[o].status # "ABSENT"
Pending(o) == orders[o].status = "PENDING"
PendingOn(i) == \E o \in OrderId : Pending(o) /\ orders[o].item = i

\* "conn" is a connection of the pool, "item" a FOR UPDATE lock on the row
\* call.item, "order" one on the row call.order, and "share" the KEY SHARE lock on
\* the row call.item that the foreign key check of an inserted notification takes.
Locks == {"conn", "item", "order", "share"}

ConnFree == Cardinality({r \in Req : "conn" \in held[r]}) < PoolMax

Others(r) == Req \ {r}

\* No other request holds a lock of one of the kinds on r's item, on r's order.
ItemFree(r, kinds) ==
    \A q \in Others(r) : call[q].item = call[r].item => held[q] \cap kinds = {}
OrderFree(r) ==
    \A q \in Others(r) : call[q].order = call[r].order => "order" \notin held[q]

\* Faulty variant: the order's row is locked before the item's.
NextLockOrderFirst(r) ==
    IF call[r].op \in ClosingOps /\ "order" \notin held[r] THEN "order"
    ELSE IF "item" \notin held[r] THEN "item"
    ELSE "none"

\* The row lock r's transaction takes next: "Locks are taken item-first".
NextLock(r) ==
    IF "item" \notin held[r] THEN "item"
    ELSE IF call[r].op \in ClosingOps /\ "order" \notin held[r] THEN "order"
    ELSE "none"
-----------------------------------------------------------------------------
Init ==
    /\ items = [i \in ItemId |-> NoItem]
    /\ orders = [o \in OrderId |-> NoOrder]
    /\ notes = {}
    /\ pc = [r \in Req |-> "idle"]
    /\ call = [r \in Req |-> NoCall]
    /\ seen = [r \in Req |-> NoRows]
    /\ held = [r \in Req |-> {}]

\* The handler returns or throws: its transaction, if it is still open, is rolled
\* back and everything it held is free again.
Finish(r) ==
    /\ pc' = [pc EXCEPT ![r] = "idle"]
    /\ call' = [call EXCEPT ![r] = NoCall]
    /\ seen' = [seen EXCEPT ![r] = NoRows]
    /\ held' = [held EXCEPT ![r] = {}]

\* A request arrives; nothing has been read yet.
Submit(r, c, p) ==
    /\ pc[r] = "idle"
    /\ call' = [call EXCEPT ![r] = c]
    /\ pc' = [pc EXCEPT ![r] = p]
    /\ UNCHANGED <<items, orders, notes, seen, held>>

\* Bound of the model: no more creations in flight than order ids are left.
CreateBound ==
    Cardinality({r \in Req : call[r].op = "create" /\ call[r].order = None})
        < Cardinality({o \in OrderId : ~Placed(o)})

PostOrder(r) ==
    /\ CreateBound
    /\ \E u \in User, i \in ItemId, q \in 1..MaxQty :
          /\ Listed(i)
          /\ Submit(r, Ask("create", u, i, None, q, "none"), "begin")

PatchOrderStatus(r) ==
    \E op \in ClosingOps, u \in User, o \in OrderId :
        /\ Placed(o)
        /\ Submit(r, Ask(op, u, None, o, 0, "none"), "begin")

PatchItemStatus(r) ==
    \E u \in User, i \in ItemId, s \in ItemStatus :
        /\ Listed(i)
        /\ Submit(r, Ask("setStatus", u, i, None, 0, s), "begin")

PatchPaymentSlip(r) ==
    \E u \in User, o \in OrderId :
        /\ Placed(o)
        /\ Submit(r, Ask("attach", u, None, o, 0, "none"), "check")

\* POST /items: one INSERT.
ListItem(u, i, q) ==
    /\ ~Listed(i)
    /\ items' = [items EXCEPT ![i] = [seller |-> u, status |-> "AVAILABLE", qty |-> q]]
    /\ UNCHANGED <<orders, notes, pc, call, seen, held>>
-----------------------------------------------------------------------------
(* The transactions of create, updateStatus and items.updateStatus. *)

\* dataSource.transaction checks a connection out and keeps it until the end.
Begin(r) ==
    /\ pc[r] = "begin"
    /\ ConnFree
    /\ held' = [held EXCEPT ![r] = {"conn"}]
    /\ pc' = [pc EXCEPT ![r] = IF call[r].op \in ClosingOps THEN "ref" ELSE "locks"]
    /\ UNCHANGED <<items, orders, notes, call, seen>>

\* updateStatus looks up, without a lock, which item the order is for.
FindRef(r) ==
    /\ pc[r] = "ref"
    /\ call' = [call EXCEPT ![r].item = orders[call[r].order].item]
    /\ pc' = [pc EXCEPT ![r] = "locks"]
    /\ UNCHANGED <<items, orders, notes, seen, held>>

\* Faulty variant: the item is read without waiting for the lock.
LockItemNoWait(r) ==
    /\ pc[r] = "locks"
    /\ NextLock(r) = "item"
    /\ held' = [held EXCEPT ![r] = @ \cup {"item"}]
    /\ seen' = [seen EXCEPT ![r].item = items[call[r].item]]
    /\ UNCHANGED <<items, orders, notes, pc, call>>

\* SELECT ... FOR UPDATE of the item: waits for whoever locks the row in whatever
\* mode and returns the row as it is committed once the lock is granted.
LockItem(r) ==
    /\ pc[r] = "locks"
    /\ NextLock(r) = "item"
    /\ ItemFree(r, {"item", "share"})
    /\ held' = [held EXCEPT ![r] = @ \cup {"item"}]
    /\ seen' = [seen EXCEPT ![r].item = items[call[r].item]]
    /\ UNCHANGED <<items, orders, notes, pc, call>>

LockOrder(r) ==
    /\ pc[r] = "locks"
    /\ NextLock(r) = "order"
    /\ OrderFree(r)
    /\ held' = [held EXCEPT ![r] = @ \cup {"order"}]
    /\ seen' = [seen EXCEPT ![r].order = orders[call[r].order]]
    /\ UNCHANGED <<items, orders, notes, pc, call>>

\* Faulty variant: an order may be closed again.
AllowedAgain(r) ==
    LET c == call[r]
        item == seen[r].item
        order == seen[r].order
    IN  \/ c.op = "create" /\ item.seller # c.user /\ item.status = "AVAILABLE"
           /\ c.qty <= item.qty /\ ~PendingOn(c.item)
        \/ c.op \in ClosingOps /\ c.user \in {order.seller, order.buyer}
           /\ (c.op = "complete" => c.user = order.seller)
        \/ c.op = "setStatus" /\ item.seller = c.user /\ item.status # c.status
           /\ ~PendingOn(c.item)

\* Faulty variant: the status of an item with an open order may be changed.
AllowedWhilePending(r) ==
    LET c == call[r]
        item == seen[r].item
        order == seen[r].order
    IN  \/ c.op = "create" /\ item.seller # c.user /\ item.status = "AVAILABLE"
           /\ c.qty <= item.qty /\ ~PendingOn(c.item)
        \/ c.op \in ClosingOps /\ c.user \in {order.seller, order.buyer}
           /\ order.status = "PENDING" /\ (c.op = "complete" => c.user = order.seller)
        \/ c.op = "setStatus" /\ item.seller = c.user /\ item.status # c.status

\* What the handler checks on the rows it locked.  The INSERT of create also meets
\* the unique index on open orders, and items.updateStatus looks for an open order.
Allowed(r) ==
    LET c == call[r]
        item == seen[r].item
        order == seen[r].order
    IN  \/ /\ c.op = "create"
           /\ item.seller # c.user
           /\ item.status = "AVAILABLE"
           /\ c.qty <= item.qty
           /\ ~PendingOn(c.item)
        \/ /\ c.op \in ClosingOps
           /\ c.user \in {order.seller, order.buyer}
           /\ order.status = "PENDING"
           /\ c.op = "complete" => c.user = order.seller
        \/ /\ c.op = "setStatus"
           /\ item.seller = c.user
           /\ item.status # c.status
           /\ ~PendingOn(c.item)

Locked(r) == pc[r] = "locks" /\ NextLock(r) = "none"

Decide(r) ==
    /\ Locked(r)
    /\ Allowed(r)
    /\ pc' = [pc EXCEPT ![r] = "commit"]
    /\ UNCHANGED <<items, orders, notes, call, seen, held>>

\* An exception rolls back; the same item status again returns at once.
Refuse(r) ==
    /\ Locked(r)
    /\ ~Allowed(r)
    /\ Finish(r)
    /\ UNCHANGED <<items, orders, notes>>

\* Faulty variant: the connection is not given back.
CommittedKeepsConn(r) ==
    /\ pc' = [pc EXCEPT ![r] = "reread"]
    /\ held' = [held EXCEPT ![r] = {"conn"}]
    /\ seen' = [seen EXCEPT ![r] = NoRows]
    /\ UNCHANGED notes

\* The transaction is over; the handler goes on to read the order again.
Committed(r) ==
    /\ pc' = [pc EXCEPT ![r] = "reread"]
    /\ held' = [held EXCEPT ![r] = {}]
    /\ seen' = [seen EXCEPT ![r] = NoRows]
    /\ UNCHANGED notes

CommitCreate(r, o) ==
    LET c == call[r] IN
    /\ pc[r] = "commit"
    /\ c.op = "create"
    /\ ~Placed(o)
    /\ orders' = [orders EXCEPT ![o] =
                    [item |-> c.item, buyer |-> c.user, seller |-> seen[r].item.seller,
                     qty |-> c.qty, status |-> "PENDING", slip |-> "none"]]
    /\ items' = [items EXCEPT ![c.item].status = "RESERVED"]
    /\ call' = [call EXCEPT ![r].order = o]
    /\ Committed(r)

\* Faulty variant: no clamp at zero.
RemainingUnclamped(stock, qty) == stock - qty

\* Faulty variant: the stock is not reduced.
RemainingUnsold(stock, qty) == stock

\* Math.max(item.quantity - order.quantity, 0)
Remaining(stock, qty) == IF qty <= stock THEN stock - qty ELSE 0

CommitComplete(r) ==
    LET c == call[r]
        left == Remaining(seen[r].item.qty, seen[r].order.qty)
    IN  /\ pc[r] = "commit"
        /\ c.op = "complete"
        /\ orders' = [orders EXCEPT ![c.order].status = "COMPLETED"]
        /\ items' = [items EXCEPT ![c.item].qty = left, ![c.item].status = StatusForStock(left)]
        /\ Committed(r)
        /\ UNCHANGED call

CommitCancel(r) ==
    LET c == call[r] IN
    /\ pc[r] = "commit"
    /\ c.op = "cancel"
    /\ orders' = [orders EXCEPT ![c.order].status = "CANCELLED"]
    /\ items' = IF seen[r].item.status = "RESERVED"
                THEN [items EXCEPT ![c.item].status = "AVAILABLE"]
                ELSE items
    /\ Committed(r)
    /\ UNCHANGED call

\* No notification: what is left of the handler only reads.
CommitSetStatus(r) ==
    /\ pc[r] = "commit"
    /\ call[r].op = "setStatus"
    /\ items' = [items EXCEPT ![call[r].item].status = call[r].status]
    /\ Finish(r)
    /\ UNCHANGED <<orders, notes>>
-----------------------------------------------------------------------------
(* attachPaymentSlip: an unlocked read, its checks, then an unconditional UPDATE. *)

MayAttach(r) ==
    LET c == call[r] IN c.user = orders[c.order].buyer /\ Pending(c.order)

AttachCheck(r) ==
    /\ pc[r] = "check"
    /\ ConnFree
    /\ MayAttach(r)
    /\ pc' = [pc EXCEPT ![r] = "write"]
    /\ UNCHANGED <<items, orders, notes, call, seen, held>>

AttachRefuse(r) ==
    /\ pc[r] = "check"
    /\ ConnFree
    /\ ~MayAttach(r)
    /\ Finish(r)
    /\ UNCHANGED <<items, orders, notes>>

\* The statements outside a transaction that may have to wait for a row lock check
\* a connection out first; those that only read give theirs back in the same step.
Checkout(r) ==
    /\ pc[r] \in {"write", "tell"}
    /\ "conn" \notin held[r]
    /\ ConnFree
    /\ held' = [held EXCEPT ![r] = {"conn"}]
    /\ UNCHANGED <<items, orders, notes, pc, call, seen>>

AttachWrite(r) ==
    /\ pc[r] = "write"
    /\ "conn" \in held[r]
    /\ OrderFree(r)
    /\ orders' = [orders EXCEPT ![call[r].order].slip = "attached"]
    /\ pc' = [pc EXCEPT ![r] = "reread"]
    /\ held' = [held EXCEPT ![r] = {}]
    /\ UNCHANGED <<items, notes, call, seen>>
-----------------------------------------------------------------------------
(* findOneForUser and the notification, after the commit. *)

\* Faulty variant: the handler goes on with what it has instead of reading again.
RereadSkipped(r) ==
    /\ pc[r] = "reread"
    /\ ConnFree
    /\ call' = [call EXCEPT ![r].item = orders[call[r].order].item]
    /\ pc' = [pc EXCEPT ![r] = "tell"]
    /\ UNCHANGED <<items, orders, notes, seen, held>>

Reread(r) ==
    LET o == call[r].order IN
    /\ pc[r] = "reread"
    /\ ConnFree
    /\ seen' = [seen EXCEPT ![r].order = orders[o]]
    /\ call' = [call EXCEPT ![r].item = orders[o].item]
    /\ pc' = [pc EXCEPT ![r] = "tell"]
    /\ UNCHANGED <<items, orders, notes, held>>

Note(o, t, u) == [order |-> o, type |-> t, to |-> u]

\* The notification the handler stores: news of a new order and of a slip go to the
\* seller, a closed order is reported by the status just read to the other party.
NotesOf(r) ==
    LET c == call[r]
        order == seen[r].order
    IN  IF c.op = "create" THEN {Note(c.order, "ORDER_PLACED", order.seller)}
        ELSE IF c.op = "attach" THEN {Note(c.order, "PAYMENT_SLIP_ATTACHED", order.seller)}
        ELSE IF order.status = "COMPLETED" THEN {Note(c.order, "ORDER_COMPLETED", order.buyer)}
        ELSE IF order.status = "CANCELLED"
             THEN {Note(c.order, "ORDER_CANCELLED",
                        IF c.user = order.seller THEN order.buyer ELSE order.seller)}
        ELSE {}

\* The INSERT's foreign key checks lock the item's row, then the order's.
ShareItem(r) ==
    /\ pc[r] = "tell"
    /\ held[r] = {"conn"}
    /\ ItemFree(r, {"item"})
    /\ held' = [held EXCEPT ![r] = {"conn", "share"}]
    /\ UNCHANGED <<items, orders, notes, pc, call, seen>>

InsertNote(r) ==
    /\ pc[r] = "tell"
    /\ "share" \in held[r]
    /\ OrderFree(r)
    /\ notes' = notes \cup NotesOf(r)
    /\ Finish(r)
    /\ UNCHANGED <<items, orders>>
-----------------------------------------------------------------------------
\* Any statement may fail: the lock times out after 5 s, a statement after 15 s, a
\* connection is not to be had within 10 s or is lost.  What was committed stays.
Fail(r) ==
    /\ pc[r] # "idle"
    /\ Finish(r)
    /\ UNCHANGED <<items, orders, notes>>

\* The process dies with all its requests and is restarted by the container runtime.
Crash ==
    /\ \E r \in Req : pc[r] # "idle"
    /\ pc' = [r \in Req |-> "idle"]
    /\ call' = [r \in Req |-> NoCall]
    /\ seen' = [r \in Req |-> NoRows]
    /\ held' = [r \in Req |-> {}]
    /\ UNCHANGED <<items, orders, notes>>

Submits(r) ==
    PostOrder(r) \/ PatchOrderStatus(r) \/ PatchItemStatus(r) \/ PatchPaymentSlip(r)

Step(r) ==
    \/ Begin(r) \/ FindRef(r) \/ LockItem(r) \/ LockOrder(r)
    \/ Decide(r) \/ Refuse(r)
    \/ \E o \in OrderId : CommitCreate(r, o)
    \/ CommitComplete(r) \/ CommitCancel(r) \/ CommitSetStatus(r)
    \/ AttachCheck(r) \/ AttachRefuse(r) \/ Checkout(r) \/ AttachWrite(r)
    \/ Reread(r) \/ ShareItem(r) \/ InsertNote(r)

Next ==
    \/ \E u \in User, i \in ItemId, q \in 1..MaxQty : ListItem(u, i, q)
    \/ \E r \in Req : Submits(r) \/ Step(r) \/ Fail(r)
    \/ Crash

Spec == Init /\ [][Next]_vars

\* Postgres queues the waiters for a row lock and the pool those for a connection in
\* order of arrival, so a request whose next step keeps becoming possible takes it.
\* Nothing obliges clients to send requests or requests to fail.
FairSpec == Spec /\ \A r \in Req : SF_vars(Step(r))
-----------------------------------------------------------------------------
PCs == {"idle", "begin", "ref", "locks", "commit", "check", "write", "reread", "tell"}

Call == [op : Ops \cup {"none"}, user : User \cup {None}, item : ItemId \cup {None},
         order : OrderId \cup {None}, qty : 0..MaxQty, status : ItemStatus \cup {"none"}]

NoteType == {"ORDER_PLACED", "ORDER_COMPLETED", "ORDER_CANCELLED", "PAYMENT_SLIP_ATTACHED"}

\* Every variable holds values of its type; in particular a stock never leaves 0..MaxQty.
TypeOK ==
    /\ items \in [ItemId -> ItemRow \cup {NoItem}]
    /\ orders \in [OrderId -> OrderRow \cup {NoOrder}]
    /\ notes \subseteq [order : OrderId, type : NoteType, to : User]
    /\ pc \in [Req -> PCs]
    /\ call \in [Req -> Call]
    /\ seen \in [Req -> [item : ItemRow \cup {NoItem}, order : OrderRow \cup {NoOrder}]]
    /\ held \in [Req -> SUBSET Locks]

\* What a transaction read under its locks is what is committed for as long as it
\* holds them, so the decision it took still stands when it commits.
LockedRowsAreCurrent ==
    \A r \in Req :
        /\ "item" \in held[r] => seen[r].item = items[call[r].item]
        /\ "order" \in held[r] =>
              /\ seen[r].order.status = orders[call[r].order].status
              /\ seen[r].order.qty = orders[call[r].order].qty

\* r cannot go on before q releases a row lock.
WaitsForItem(r, q) ==
    /\ call[q].item = call[r].item
    /\ \/ pc[r] = "locks" /\ NextLock(r) = "item" /\ held[q] \cap {"item", "share"} # {}
       \/ pc[r] = "tell" /\ "share" \notin held[r] /\ "item" \in held[q]
WaitsForOrder(r, q) ==
    /\ call[q].order = call[r].order
    /\ "order" \in held[q]
    /\ \/ pc[r] = "locks" /\ NextLock(r) = "order"
       \/ pc[r] = "write"
       \/ pc[r] = "tell" /\ "share" \in held[r]

\* "item-first ... to avoid deadlocks": a request that holds a row lock waits neither
\* for another request's row lock nor for a connection, so no cycle of waiting
\* requests can form, among transactions and foreign key checks alike.
LockHoldersNeverWait ==
    \A r \in Req : held[r] \cap {"item", "order", "share"} # {} =>
        /\ "conn" \in held[r]
        /\ \A q \in Others(r) : ~WaitsForItem(r, q) /\ ~WaitsForOrder(r, q)

\* "Defence in depth": a create that finds its item AVAILABLE never meets the
\* unique index, there is no open order left on the item.
IndexNeverFires ==
    \A r \in Req :
        Locked(r) /\ call[r].op = "create" /\ seen[r].item.status = "AVAILABLE"
            => ~PendingOn(call[r].item)

\* r committed the closing of order o and has not stored the notification yet.
Telling(r, o) ==
    call[r].op \in ClosingOps /\ call[r].order = o /\ pc[r] \in {"reread", "tell"}
ClosingNotes(o) ==
    {n \in notes : n.order = o /\ n.type \in {"ORDER_COMPLETED", "ORDER_CANCELLED"}}

\* However many completions and cancellations of an order race, be they retries of a
\* request whose answer was lost, the closing is told at most once, to one of the
\* parties, and the story told is the order's final status.
ClosingToldOnce ==
    \A o \in OrderId :
        /\ Cardinality(ClosingNotes(o)) + Cardinality({r \in Req : Telling(r, o)}) <= 1
        /\ \A n \in ClosingNotes(o) :
              /\ n.type = "ORDER_COMPLETED" => orders[o].status = "COMPLETED" /\ n.to = orders[o].buyer
              /\ n.type = "ORDER_CANCELLED" => orders[o].status = "CANCELLED"
              /\ n.to \in {orders[o].buyer, orders[o].seller}
        /\ \A r \in Req : Telling(r, o) => ~Pending(o)

\* The service implements the marketplace: every step of every request is one of its
\* operations or changes no row, whatever fails in between.
Market == INSTANCE Marketplace WITH items <- items, orders <- orders
RefinesMarketplace == Market!Spec

\* "Cannot attach a payment slip to a ... order": a slip is attached to open orders only.
SlipOnlyWhilePending ==
    [][\A o \in OrderId : orders'[o].slip # orders[o].slip => Pending(o)]_orders

\* Every request is answered, however requests queue for rows and connections.
RequestsFinish == \A r \in Req : pc[r] # "idle" ~> pc[r] = "idle"
=============================================================================

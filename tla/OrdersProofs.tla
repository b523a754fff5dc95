---------------------------- MODULE OrdersProofs ----------------------------
(***************************************************************************)
(* That the order workflow implements the marketplace, for any number of   *)
(* requests, employees, items, orders and connections, and that no request *)
(* that holds a row lock ever waits.                                       *)
(***************************************************************************)
EXTENDS OrdersLegacy, FiniteSetTheorems, TLAPS

Proved == INSTANCE MarketplaceProofs

\* FOR UPDATE on an item excludes every other lock on that item.
LocksExclude ==
    \A r, q \in Req :
        r # q /\ "item" \in held[r] /\ call[q].item = call[r].item
            => held[q] \cap {"item", "share"} = {}

\* Which locks a request holds follows from where it is: the item's before the order's.
HeldFits(r) ==
    /\ pc[r] \in {"idle", "begin", "check", "reread"} => held[r] = {}
    /\ pc[r] = "ref" => held[r] = {"conn"}
    /\ pc[r] = "locks" =>
          \/ held[r] \in {{"conn"}, {"conn", "item"}}
          \/ call[r].op \in ClosingOps /\ held[r] = {"conn", "item", "order"}
    /\ pc[r] = "commit" =>
          held[r] = IF call[r].op \in ClosingOps THEN {"conn", "item", "order"}
                    ELSE {"conn", "item"}
    /\ pc[r] = "write" => held[r] \in {{}, {"conn"}}
    /\ pc[r] = "tell" => held[r] \in {{}, {"conn"}, {"conn", "share"}}

\* What a request works on exists and belongs together.
CallFits(r) ==
    LET c == call[r] IN
    /\ pc[r] # "idle" => c.user \in User
    /\ pc[r] = "begin" =>
          \/ c.op \in {"create", "setStatus"} /\ c.item \in ItemId /\ Listed(c.item)
          \/ c.op \in ClosingOps /\ c.order \in OrderId /\ Placed(c.order)
    /\ pc[r] = "ref" => c.op \in ClosingOps /\ c.order \in OrderId /\ Placed(c.order)
    /\ pc[r] \in {"locks", "commit"} =>
          /\ c.item \in ItemId /\ Listed(c.item)
          /\ \/ c.op \in {"create", "setStatus"}
             \/ /\ c.op \in ClosingOps /\ c.order \in OrderId /\ Placed(c.order)
                /\ orders[c.order].item = c.item
    /\ c.op = "create" => c.qty \in 1..MaxQty
    /\ c.op = "setStatus" => c.status \in ItemStatus
    /\ pc[r] \in {"check", "write", "reread", "tell"} =>
          c.op \in {"create", "attach"} \cup ClosingOps /\ c.order \in OrderId /\ Placed(c.order)
    /\ pc[r] \in {"check", "write"} => c.op = "attach"
    /\ pc[r] = "write" => c.user = orders[c.order].buyer
    /\ pc[r] = "tell" => seen[r].order \in OrderRow /\ c.item = orders[c.order].item

\* What was read under a lock is still so, and with it the decision taken on it.
ReadsFit(r) ==
    /\ "item" \in held[r] => seen[r].item = items[call[r].item]
    /\ "order" \in held[r] =>
          LET a == seen[r].order
              b == orders[call[r].order]
          IN  /\ a.item = b.item /\ a.buyer = b.buyer /\ a.seller = b.seller
              /\ a.qty = b.qty /\ a.status = b.status
    /\ pc[r] = "commit" => Allowed(r)

Fits(r) == HeldFits(r) /\ CallFits(r) /\ ReadsFit(r)

\* The inductive invariant: the requests are coherent and the tables agree with each other,
\* which the commits of the requests rely on.
Coherent ==
    /\ TypeOK
    /\ LocksExclude
    /\ \A r \in Req : Fits(r)
    /\ Proved!Agreement

USE DEF ItemRow, OrderRow, NoItem, NoOrder, ItemStatus, OrderStatus, ClosingOps, Ops, Locks,
        Listed, Placed, Pending, Others, NoCall, Ask, NoRows, Call, PCs, NoteType, Note

\* Nothing changes but, at most, what belongs to r.
Elsewhere(r) ==
    \A q \in Others(r) :
        pc'[q] = pc[q] /\ call'[q] = call[q] /\ seen'[q] = seen[q] /\ held'[q] = held[q]

\* A step that leaves the tables alone disturbs no other request.
LEMMA OthersFit ==
    ASSUME NEW r \in Req, \A q \in Req : Fits(q), Elsewhere(r), UNCHANGED <<items, orders>>
    PROVE  \A q \in Others(r) : Fits(q)'
<1> SUFFICES ASSUME NEW q \in Req, q # r PROVE Fits(q)'
  OBVIOUS
<1>1. Fits(q) /\ pc'[q] = pc[q] /\ call'[q] = call[q] /\ seen'[q] = seen[q] /\ held'[q] = held[q]
  BY DEF Elsewhere
<1>2. HeldFits(q)'
  BY <1>1 DEF Fits, HeldFits
<1>3. CallFits(q)'
  BY <1>1 DEF Fits, CallFits
<1>4. ReadsFit(q)'
  BY <1>1 DEF Fits, ReadsFit, Allowed, PendingOn
<1> QED BY <1>2, <1>3, <1>4 DEF Fits

\* A request that gives its locks up, or holds none on items, excludes nobody.
LEMMA LocksReleased ==
    ASSUME NEW r \in Req, LocksExclude, Elsewhere(r), held'[r] \cap {"item", "share"} = {}
    PROVE  LocksExclude'
  BY DEF LocksExclude, Elsewhere

LEMMA LocksKept ==
    ASSUME NEW r \in Req, LocksExclude, Elsewhere(r), call'[r].item = call[r].item,
           held'[r] \cap {"item", "share"} = held[r] \cap {"item", "share"}
    PROVE  LocksExclude'
  BY DEF LocksExclude, Elsewhere

\* Updating r's entry of a table of requests.
LEMMA EntryUpdated ==
    ASSUME NEW S, NEW f \in [Req -> S], NEW r \in Req, NEW v \in S
    PROVE  /\ [f EXCEPT ![r] = v] \in [Req -> S]
           /\ [f EXCEPT ![r] = v][r] = v
           /\ \A q \in Others(r) : [f EXCEPT ![r] = v][q] = f[q]
  OBVIOUS

\* The end of a request, however it ends, leaves the rest as it was.
LEMMA Finishes ==
    ASSUME NEW r \in Req, TypeOK, LocksExclude, \A q \in Req : Fits(q), Finish(r)
    PROVE  /\ pc' \in [Req -> PCs] /\ call' \in [Req -> Call]
           /\ seen' \in [Req -> [item : ItemRow \cup {NoItem}, order : OrderRow \cup {NoOrder}]]
           /\ held' \in [Req -> SUBSET Locks]
           /\ Elsewhere(r)
           /\ pc'[r] = "idle" /\ held'[r] = {} /\ call'[r] = NoCall
           /\ LocksExclude'
           /\ Fits(r)'
<1> USE MarketAssumption
<1>1. /\ pc' \in [Req -> PCs] /\ call' \in [Req -> Call]
      /\ seen' \in [Req -> [item : ItemRow \cup {NoItem}, order : OrderRow \cup {NoOrder}]]
      /\ held' \in [Req -> SUBSET Locks]
  BY DEF Finish, TypeOK
<1>2. Elsewhere(r) /\ pc'[r] = "idle" /\ held'[r] = {} /\ call'[r] = NoCall
  BY DEF Finish, TypeOK, Elsewhere
<1>3. LocksExclude'
  BY <1>2, LocksReleased
<1>4. Fits(r)'
  BY <1>2 DEF Fits, HeldFits, CallFits, ReadsFit
<1> QED BY <1>1, <1>2, <1>3, <1>4

\* The part of the invariant that is about requests.
Running == TypeOK /\ LocksExclude /\ \A r \in Req : Fits(r)

LEMMA SubmitsRun ==
    ASSUME Running, NEW r \in Req, Submits(r)
    PROVE  Running'
<1> USE MarketAssumption
<1>1. ASSUME NEW c \in Call, NEW p \in {"begin", "check"}, Submit(r, c, p),
             c.user \in User,
             \/ /\ p = "begin"
                /\ \/ c.op \in {"create", "setStatus"} /\ c.item \in ItemId /\ Listed(c.item)
                   \/ c.op \in ClosingOps /\ c.order \in OrderId /\ Placed(c.order)
             \/ p = "check" /\ c.op = "attach" /\ c.order \in OrderId /\ Placed(c.order),
             c.op = "create" => c.qty \in 1..MaxQty,
             c.op = "setStatus" => c.status \in ItemStatus
      PROVE  Running'
  <2>1. TypeOK'
    BY <1>1 DEF Running, TypeOK, Submit
  <2>2. Elsewhere(r) /\ pc'[r] = p /\ call'[r] = c /\ held'[r] = {}
    BY <1>1 DEF Running, TypeOK, Submit, Elsewhere, Fits, HeldFits
  <2>3. LocksExclude'
    BY <2>2, LocksReleased DEF Running
  <2>4. Fits(r)'
    BY <1>1, <2>2 DEF Fits, HeldFits, CallFits, ReadsFit, Submit
  <2>5. \A q \in Others(r) : Fits(q)'
    BY <1>1, <2>2, OthersFit DEF Running, Submit
  <2> QED BY <2>1, <2>3, <2>4, <2>5 DEF Running
<1>2. CASE PostOrder(r)
  BY <1>1, <1>2 DEF PostOrder, Ask
<1>3. CASE PatchOrderStatus(r)
  BY <1>1, <1>3 DEF PatchOrderStatus, Ask
<1>4. CASE PatchItemStatus(r)
  BY <1>1, <1>4 DEF PatchItemStatus, Ask
<1>5. CASE PatchPaymentSlip(r)
  BY <1>1, <1>5 DEF PatchPaymentSlip, Ask
<1> QED BY <1>2, <1>3, <1>4, <1>5 DEF Submits

\* An order is for a listed item.
LEMMA OrderedItem ==
    ASSUME Coherent, NEW o \in OrderId, Placed(o)
    PROVE  /\ orders[o] \in OrderRow
           /\ orders[o].item \in ItemId
           /\ items[orders[o].item] \in ItemRow
           /\ Listed(orders[o].item)
<1>1. Proved!TypeOK /\ Proved!PartiesMatch /\ Proved!Placed(o)
  BY DEF Coherent, Proved!Agreement, Proved!Placed
<1>2. /\ orders[o] \in Proved!OrderRow /\ orders[o].item \in ItemId
      /\ items[orders[o].item] \in Proved!ItemRow
  BY <1>1, Proved!PendingRows, MarketAssumption
<1> QED BY <1>2 DEF Proved!OrderRow, Proved!ItemRow, Proved!ItemStatus, Proved!OrderStatus

\* The steps of a transaction before it commits.
LEMMA TransactionsRun ==
    ASSUME Coherent, NEW r \in Req,
           Begin(r) \/ FindRef(r) \/ LockItem(r) \/ LockOrder(r) \/ Decide(r)
    PROVE  Running'
<1> USE MarketAssumption
<1>0. TypeOK /\ LocksExclude /\ Fits(r)
  BY DEF Coherent
<1>1. SUFFICES TypeOK' /\ Elsewhere(r) /\ LocksExclude' /\ Fits(r)'
  <2>1. UNCHANGED <<items, orders>>
    BY DEF Begin, FindRef, LockItem, LockOrder, Decide
  <2> QED BY <2>1, OthersFit DEF Coherent, Running
<1>2. CASE Begin(r)
  <2>1. TypeOK' /\ Elsewhere(r) /\ held'[r] = {"conn"} /\ call'[r] = call[r]
    BY <1>0, <1>2 DEF TypeOK, Begin, Elsewhere
  <2>2. LocksExclude'
    BY <1>0, <2>1, LocksReleased
  <2>3. Fits(r)'
    BY <1>0, <1>2, <2>1 DEF TypeOK, Begin, Fits, HeldFits, CallFits, ReadsFit
  <2> QED BY <2>1, <2>2, <2>3
<1>3. CASE FindRef(r)
  <2> DEFINE i == orders[call[r].order].item
  <2>0. /\ call[r].order \in OrderId /\ Placed(call[r].order) /\ call[r].op \in ClosingOps
        /\ held[r] = {"conn"}
    BY <1>0, <1>3 DEF TypeOK, Fits, HeldFits, CallFits, FindRef
  <2>1. i \in ItemId /\ Listed(i)
    BY <2>0, OrderedItem
  <2>2. TypeOK'
    <3>1. [call[r] EXCEPT !.item = i] \in Call
      BY <1>0, <2>1 DEF TypeOK
    <3>2. call' = [call EXCEPT ![r] = [call[r] EXCEPT !.item = i]]
      BY <1>0, <1>3 DEF TypeOK, FindRef
    <3>3. call' \in [Req -> Call]
      BY <1>0, <3>1, <3>2 DEF TypeOK
    <3> QED BY <1>0, <1>3, <3>3 DEF TypeOK, FindRef
  <2>3. /\ Elsewhere(r) /\ held'[r] = {"conn"} /\ pc'[r] = "locks"
        /\ call'[r] = [call[r] EXCEPT !.item = i]
    BY <1>0, <1>3, <2>0 DEF TypeOK, FindRef, Elsewhere
  <2>4. LocksExclude'
    BY <1>0, <2>3, LocksReleased
  <2>5. Fits(r)'
    BY <1>0, <1>3, <2>0, <2>1, <2>3 DEF TypeOK, FindRef, Fits, HeldFits, CallFits, ReadsFit
  <2> QED BY <2>2, <2>3, <2>4, <2>5
<1>4. CASE LockItem(r)
  <2>0. /\ held[r] = {"conn"} /\ call[r].item \in ItemId
        /\ items[call[r].item] \in ItemRow \cup {NoItem}
    BY <1>0, <1>4 DEF TypeOK, Fits, HeldFits, CallFits, LockItem, NextLock
  <2>1. TypeOK'
    BY <1>0, <1>4, <2>0 DEF TypeOK, LockItem
  <2>2. /\ Elsewhere(r) /\ held'[r] = {"conn", "item"} /\ call'[r] = call[r]
        /\ seen'[r].item = items[call[r].item]
    BY <1>0, <1>4, <2>0 DEF TypeOK, LockItem, Elsewhere
  <2>3. LocksExclude'
    BY <1>0, <1>4, <2>2 DEF LocksExclude, LockItem, ItemFree, Elsewhere
  <2>4. Fits(r)'
    BY <1>0, <1>4, <2>2 DEF LockItem, Fits, HeldFits, CallFits, ReadsFit
  <2> QED BY <2>1, <2>2, <2>3, <2>4
<1>5. CASE LockOrder(r)
  <2>0. /\ held[r] = {"conn", "item"} /\ call[r].order \in OrderId /\ call[r].op \in ClosingOps
        /\ orders[call[r].order] \in OrderRow \cup {NoOrder}
    BY <1>0, <1>5 DEF TypeOK, Fits, HeldFits, CallFits, LockOrder, NextLock
  <2>1. TypeOK'
    BY <1>0, <1>5, <2>0 DEF TypeOK, LockOrder
  <2>2. /\ Elsewhere(r) /\ held'[r] = {"conn", "item", "order"} /\ call'[r] = call[r]
        /\ seen'[r].item = seen[r].item /\ seen'[r].order = orders[call[r].order]
    BY <1>0, <1>5, <2>0 DEF TypeOK, LockOrder, Elsewhere
  <2>3. LocksExclude'
    BY <1>0, <2>0, <2>2, LocksKept
  <2>4. Fits(r)'
    BY <1>0, <1>5, <2>0, <2>2 DEF LockOrder, Fits, HeldFits, CallFits, ReadsFit
  <2> QED BY <2>1, <2>2, <2>3, <2>4
<1>6. CASE Decide(r)
  <2>1. /\ TypeOK' /\ Elsewhere(r) /\ held'[r] = held[r] /\ call'[r] = call[r]
        /\ seen'[r] = seen[r] /\ pc'[r] = "commit"
    BY <1>0, <1>6 DEF TypeOK, Decide, Elsewhere
  <2>2. LocksExclude'
    BY <1>0, <2>1, LocksKept
  <2>3. HeldFits(r)'
    BY <1>0, <1>6, <2>1 DEF Decide, Locked, NextLock, Fits, HeldFits
  <2>4. CallFits(r)'
    BY <1>0, <1>6, <2>1 DEF Decide, Locked, Fits, CallFits
  <2>5. ReadsFit(r)'
    BY <1>0, <1>6, <2>1 DEF Decide, Fits, ReadsFit, Allowed, PendingOn
  <2> QED BY <2>1, <2>2, <2>3, <2>4, <2>5 DEF Fits
<1> QED BY <1>2, <1>3, <1>4, <1>5, <1>6

\* The steps outside a transaction that change no order: the unlocked reads, the checkout
\* of a connection and the lock of the foreign key check.
LEMMA PlainStepsRun ==
    ASSUME Coherent, NEW r \in Req,
           AttachCheck(r) \/ Checkout(r) \/ Reread(r) \/ ShareItem(r)
    PROVE  Running'
<1> USE MarketAssumption
<1>0. TypeOK /\ LocksExclude /\ Fits(r)
  BY DEF Coherent
<1>1. SUFFICES TypeOK' /\ Elsewhere(r) /\ LocksExclude' /\ Fits(r)'
  <2>1. UNCHANGED <<items, orders>>
    BY DEF AttachCheck, Checkout, Reread, ShareItem
  <2> QED BY <2>1, OthersFit DEF Coherent, Running
<1>2. CASE AttachCheck(r)
  <2>1. /\ TypeOK' /\ Elsewhere(r) /\ held'[r] = {} /\ call'[r] = call[r] /\ pc'[r] = "write"
    BY <1>0, <1>2 DEF TypeOK, AttachCheck, Elsewhere, Fits, HeldFits
  <2>2. LocksExclude'
    BY <1>0, <2>1, LocksReleased
  <2>3. Fits(r)'
    BY <1>0, <1>2, <2>1 DEF AttachCheck, MayAttach, Fits, HeldFits, CallFits, ReadsFit
  <2> QED BY <2>1, <2>2, <2>3
<1>3. CASE Checkout(r)
  <2>1. /\ TypeOK' /\ Elsewhere(r) /\ held'[r] = {"conn"} /\ call'[r] = call[r]
        /\ pc'[r] = pc[r] /\ seen'[r] = seen[r]
    BY <1>0, <1>3 DEF TypeOK, Checkout, Elsewhere
  <2>2. LocksExclude'
    BY <1>0, <2>1, LocksReleased
  <2>3. Fits(r)'
    BY <1>0, <1>3, <2>1 DEF Checkout, Fits, HeldFits, CallFits, ReadsFit
  <2> QED BY <2>1, <2>2, <2>3
<1>4. CASE Reread(r)
  <2> DEFINE o == call[r].order
             i == orders[o].item
  <2>0. o \in OrderId /\ Placed(o) /\ held[r] = {}
    BY <1>0, <1>4 DEF Fits, HeldFits, CallFits, Reread
  <2>1. i \in ItemId /\ orders[o] \in OrderRow
    BY <2>0, OrderedItem
  <2>2. TypeOK'
    <3>1. [call[r] EXCEPT !.item = i] \in Call
      BY <1>0, <2>1 DEF TypeOK
    <3>2. call' = [call EXCEPT ![r] = [call[r] EXCEPT !.item = i]]
      BY <1>0, <1>4 DEF TypeOK, Reread
    <3>3. call' \in [Req -> Call]
      BY <1>0, <3>1, <3>2 DEF TypeOK
    <3> QED BY <1>0, <1>4, <2>1, <3>3 DEF TypeOK, Reread
  <2>3. /\ Elsewhere(r) /\ held'[r] = {} /\ pc'[r] = "tell"
        /\ call'[r] = [call[r] EXCEPT !.item = i] /\ seen'[r].order = orders[o]
    BY <1>0, <1>4, <2>0 DEF TypeOK, Reread, Elsewhere
  <2>4. LocksExclude'
    BY <1>0, <2>3, LocksReleased
  <2>5. Fits(r)'
    BY <1>0, <1>4, <2>0, <2>1, <2>3 DEF TypeOK, Reread, Fits, HeldFits, CallFits, ReadsFit
  <2> QED BY <2>2, <2>3, <2>4, <2>5
<1>5. CASE ShareItem(r)
  <2>1. /\ TypeOK' /\ Elsewhere(r) /\ held'[r] = {"conn", "share"} /\ call'[r] = call[r]
        /\ pc'[r] = "tell" /\ seen'[r] = seen[r]
    BY <1>0, <1>5 DEF TypeOK, ShareItem, Elsewhere
  <2>2. LocksExclude'
    BY <1>0, <1>5, <2>1 DEF LocksExclude, ShareItem, ItemFree, Elsewhere
  <2>3. Fits(r)'
    BY <1>0, <1>5, <2>1 DEF ShareItem, Fits, HeldFits, CallFits, ReadsFit
  <2> QED BY <2>1, <2>2, <2>3
<1> QED BY <1>2, <1>3, <1>4, <1>5

\* A request ends: refused, failed, or with its notification stored.
LEMMA EndsRun ==
    ASSUME Coherent, NEW r \in Req,
           Refuse(r) \/ AttachRefuse(r) \/ InsertNote(r) \/ Fail(r)
    PROVE  Running'
<1> USE MarketAssumption
<1>1. Finish(r) /\ UNCHANGED <<items, orders>>
  BY DEF Refuse, AttachRefuse, InsertNote, Fail
<1>2. notes' \subseteq [order : OrderId, type : NoteType, to : User]
  <2>1. CASE InsertNote(r)
    <3>1. seen[r].order \in OrderRow /\ call[r].order \in OrderId
      BY <2>1 DEF Coherent, Fits, CallFits, InsertNote
    <3>2. NotesOf(r) \subseteq [order : OrderId, type : NoteType, to : User]
      BY <3>1 DEF NotesOf
    <3> QED BY <2>1, <3>2 DEF Coherent, TypeOK, InsertNote
  <2> QED BY <2>1 DEF Coherent, TypeOK, Refuse, AttachRefuse, Fail
<1>3. TypeOK' /\ Elsewhere(r) /\ LocksExclude' /\ Fits(r)'
  BY <1>1, <1>2, Finishes DEF Coherent, TypeOK
<1> QED BY <1>1, <1>3, OthersFit DEF Coherent, Running

LEMMA CrashRuns ==
    ASSUME Coherent, Crash
    PROVE  Running'
<1>1. TypeOK'
  BY MarketAssumption DEF Coherent, TypeOK, Crash
<1>2. LocksExclude' /\ \A r \in Req : Fits(r)'
  BY DEF Crash, LocksExclude, Fits, HeldFits, CallFits, ReadsFit
<1> QED BY <1>1, <1>2 DEF Running

\* A step that changes rows disturbs no other request if rows stay in the tables with
\* their identity and what is locked by another request is left alone.
LEMMA OthersFitRows ==
    ASSUME NEW r \in Req, TypeOK, \A q \in Req : Fits(q), Elsewhere(r),
           \A i \in ItemId : Listed(i) => Listed(i)',
           \A o \in OrderId : Placed(o) =>
               /\ Placed(o)'
               /\ orders'[o].item = orders[o].item /\ orders'[o].buyer = orders[o].buyer
               /\ orders'[o].seller = orders[o].seller /\ orders'[o].qty = orders[o].qty,
           \A q \in Others(r) : "item" \in held[q] =>
               /\ items'[call[q].item] = items[call[q].item]
               /\ ~PendingOn(call[q].item) => ~PendingOn(call[q].item)',
           \A q \in Others(r) : "order" \in held[q] =>
               orders'[call[q].order].status = orders[call[q].order].status
    PROVE  \A q \in Others(r) : Fits(q)'
<1> SUFFICES ASSUME NEW q \in Req, q # r PROVE Fits(q)'
  OBVIOUS
<1>1. Fits(q) /\ pc'[q] = pc[q] /\ call'[q] = call[q] /\ seen'[q] = seen[q] /\ held'[q] = held[q]
  BY DEF Elsewhere
<1>2. HeldFits(q)'
  BY <1>1 DEF Fits, HeldFits
<1>3. CallFits(q)'
  BY <1>1 DEF Fits, CallFits
<1>4. "order" \in held[q] => call[q].order \in OrderId /\ Placed(call[q].order)
  BY <1>1 DEF TypeOK, Fits, HeldFits, CallFits
<1>5. pc[q] = "commit" => "item" \in held[q]
  BY <1>1 DEF Fits, HeldFits
<1>6. pc[q] = "commit" => Allowed(q)'
  <2> SUFFICES ASSUME pc[q] = "commit" PROVE Allowed(q)'
    OBVIOUS
  <2>1. Allowed(q) /\ (~PendingOn(call[q].item) => ~PendingOn(call[q].item)')
    BY <1>1, <1>5 DEF Fits, ReadsFit
  <2> HIDE DEF PendingOn
  <2> QED BY <1>1, <2>1 DEF Allowed
<1>7. ReadsFit(q)'
  BY <1>1, <1>4, <1>6 DEF Fits, ReadsFit
<1> QED BY <1>2, <1>3, <1>7 DEF Fits

\* What a request at its commit knows.
LEMMA AtCommit ==
    ASSUME Coherent, NEW r \in Req, pc[r] = "commit"
    PROVE  /\ Allowed(r)
           /\ "item" \in held[r]
           /\ call[r].user \in User
           /\ call[r].item \in ItemId /\ Listed(call[r].item)
           /\ items[call[r].item] \in ItemRow
           /\ seen[r].item = items[call[r].item]
           /\ call[r].op = "create" => call[r].qty \in 1..MaxQty
           /\ call[r].op = "setStatus" => call[r].status \in ItemStatus
           /\ call[r].op \in ClosingOps =>
                 /\ call[r].order \in OrderId /\ Pending(call[r].order)
                 /\ orders[call[r].order] \in OrderRow
                 /\ orders[call[r].order].item = call[r].item
                 /\ seen[r].order.seller = orders[call[r].order].seller
                 /\ seen[r].order.buyer = orders[call[r].order].buyer
                 /\ seen[r].order.qty = orders[call[r].order].qty
                 /\ seen[r].item.status = "RESERVED"
<1>1. TypeOK /\ Fits(r)
  BY DEF Coherent
<1>2. /\ Allowed(r) /\ "item" \in held[r] /\ call[r].user \in User
      /\ call[r].item \in ItemId /\ Listed(call[r].item) /\ seen[r].item = items[call[r].item]
      /\ call[r].op = "create" => call[r].qty \in 1..MaxQty
      /\ call[r].op = "setStatus" => call[r].status \in ItemStatus
  BY <1>1 DEF Fits, HeldFits, CallFits, ReadsFit
<1>3. items[call[r].item] \in ItemRow
  BY <1>1, <1>2 DEF TypeOK
<1>4. ASSUME call[r].op \in ClosingOps
      PROVE  /\ call[r].order \in OrderId /\ Pending(call[r].order)
             /\ orders[call[r].order] \in OrderRow
             /\ orders[call[r].order].item = call[r].item
             /\ seen[r].order.seller = orders[call[r].order].seller
             /\ seen[r].order.buyer = orders[call[r].order].buyer
             /\ seen[r].order.qty = orders[call[r].order].qty
             /\ seen[r].item.status = "RESERVED"
  <2>1. /\ call[r].order \in OrderId /\ Placed(call[r].order)
        /\ orders[call[r].order].item = call[r].item
    BY <1>1, <1>4 DEF Fits, CallFits
  <2>2. "order" \in held[r]
    BY <1>1, <1>4 DEF Fits, HeldFits
  <2>3. /\ seen[r].order.seller = orders[call[r].order].seller
        /\ seen[r].order.buyer = orders[call[r].order].buyer
        /\ seen[r].order.qty = orders[call[r].order].qty
        /\ Pending(call[r].order)
    BY <1>1, <1>2, <1>4, <2>2 DEF Fits, ReadsFit, Allowed
  <2>4. items[call[r].item].status = "RESERVED"
    BY <2>1, <2>3 DEF Coherent, Proved!Agreement, Proved!PendingMeansReserved, Proved!Pending
  <2> QED BY <1>2, <2>1, <2>3, <2>4, OrderedItem
<1> QED BY <1>2, <1>3, <1>4

\* The item a committing request locks is not the item of any other lock holder.
LEMMA LockedApart ==
    ASSUME Coherent, NEW r \in Req, "item" \in held[r], NEW q \in Others(r)
    PROVE  /\ "item" \in held[q] => call[q].item \in ItemId /\ call[q].item # call[r].item
           /\ "order" \in held[q] =>
                 /\ call[q].order \in OrderId /\ Placed(call[q].order)
                 /\ orders[call[q].order].item # call[r].item
<1>0. Fits(q) /\ pc[q] \in PCs
  BY DEF Coherent, TypeOK
<1>1. "item" \in held[q] => call[q].item \in ItemId /\ call[q].item # call[r].item
  BY <1>0 DEF Coherent, LocksExclude, Fits, HeldFits, CallFits
<1>2. "order" \in held[q] =>
         /\ "item" \in held[q] /\ call[q].order \in OrderId /\ Placed(call[q].order)
         /\ orders[call[q].order].item = call[q].item
  BY <1>0 DEF Fits, HeldFits, CallFits
<1> QED BY <1>1, <1>2

LEMMA CommitsRun ==
    ASSUME Coherent, NEW r \in Req,
           \/ \E o \in OrderId : CommitCreate(r, o)
           \/ CommitComplete(r)
           \/ CommitCancel(r)
           \/ CommitSetStatus(r)
    PROVE  Running'
<1> USE MarketAssumption
<1> DEFINE c == call[r]
           i == c.item
<1>0. TypeOK /\ LocksExclude /\ Fits(r) /\ pc[r] = "commit"
  BY DEF Coherent, CommitCreate, CommitComplete, CommitCancel, CommitSetStatus
<1>a. /\ Allowed(r) /\ "item" \in held[r] /\ c.user \in User /\ i \in ItemId /\ Listed(i)
      /\ items[i] \in ItemRow /\ seen[r].item = items[i]
  BY <1>0, AtCommit
<1>b. \A q \in Others(r) :
         /\ "item" \in held[q] => call[q].item \in ItemId /\ call[q].item # i
         /\ "order" \in held[q] =>
               /\ call[q].order \in OrderId /\ Placed(call[q].order)
               /\ orders[call[q].order].item # i
  BY <1>a, LockedApart
<1>1. ASSUME NEW o \in OrderId, CommitCreate(r, o)
      PROVE  Running'
  <2>0. c.op = "create" /\ c.qty \in 1..MaxQty /\ seen[r].item.seller \in User
    BY <1>0, <1>1, <1>a, AtCommit DEF CommitCreate
  <2>1. TypeOK'
    <3>1. items' \in [ItemId -> ItemRow \cup {NoItem}]
      BY <1>0, <1>1, <1>a DEF TypeOK, CommitCreate
    <3>2. orders' \in [OrderId -> OrderRow \cup {NoOrder}]
      BY <1>0, <1>1, <1>a, <2>0 DEF TypeOK, CommitCreate
    <3>3. [call[r] EXCEPT !.order = o] \in Call
      <4>1. call[r] \in Call
        BY <1>0 DEF TypeOK
      <4> QED BY <4>1
    <3>4. call' \in [Req -> Call]
      BY <1>0, <1>1, <3>3 DEF TypeOK, CommitCreate
    <3> QED BY <1>0, <1>1, <3>1, <3>2, <3>4 DEF TypeOK, CommitCreate, Committed
  <2>2. /\ Elsewhere(r) /\ held'[r] = {} /\ pc'[r] = "reread"
        /\ call'[r] = [call[r] EXCEPT !.order = o]
    BY <1>0, <1>1 DEF TypeOK, CommitCreate, Committed, Elsewhere
  <2>3. /\ \A j \in ItemId \ {i} : items'[j] = items[j]
        /\ items'[i].status # "ABSENT"
        /\ \A p \in OrderId \ {o} : orders'[p] = orders[p]
        /\ ~Placed(o) /\ Placed(o)' /\ orders'[o].item = i
    BY <1>0, <1>1, <1>a DEF TypeOK, CommitCreate
  <2>5. \A q \in Others(r) : Fits(q)'
    <3>1. \A q \in Others(r) : "item" \in held[q] =>
             /\ items'[call[q].item] = items[call[q].item]
             /\ ~PendingOn(call[q].item) => ~PendingOn(call[q].item)'
      BY <1>b, <2>2, <2>3 DEF PendingOn, Elsewhere
    <3>2. \A q \in Others(r) : "order" \in held[q] =>
             orders'[call[q].order].status = orders[call[q].order].status
      BY <1>b, <2>3
    <3> QED BY <2>2, <2>3, <3>1, <3>2, OthersFitRows DEF Coherent
  <2>6. LocksExclude'
    BY <1>0, <2>2, LocksReleased
  <2>7. Fits(r)'
    BY <1>0, <1>1, <1>a, <2>0, <2>2, <2>3 DEF TypeOK, Fits, HeldFits, CallFits, ReadsFit
  <2> QED BY <2>1, <2>5, <2>6, <2>7 DEF Running
<1>2. CASE CommitComplete(r) \/ CommitCancel(r)
  <2> DEFINE o == c.order
             left == Remaining(seen[r].item.qty, seen[r].order.qty)
  <2>0. /\ c.op \in ClosingOps /\ o \in OrderId /\ Placed(o) /\ orders[o] \in OrderRow
        /\ orders[o].item = i /\ seen[r].order.qty = orders[o].qty
    BY <1>0, <1>2, AtCommit DEF CommitComplete, CommitCancel
  <2>1. left \in 0..MaxQty /\ StatusForStock(left) \in ItemStatus
    BY <1>a, <2>0 DEF Remaining, StatusForStock
  <2>2. TypeOK'
    <3>1. CASE CommitComplete(r)
      BY <1>0, <1>a, <2>0, <2>1, <3>1 DEF TypeOK, CommitComplete, Committed
    <3>2. CASE CommitCancel(r)
      BY <1>0, <1>a, <2>0, <3>2 DEF TypeOK, CommitCancel, Committed
    <3> QED BY <1>2, <3>1, <3>2
  <2>3. /\ Elsewhere(r) /\ held'[r] = {} /\ pc'[r] = "reread" /\ call'[r] = call[r]
    BY <1>0, <1>2 DEF TypeOK, CommitComplete, CommitCancel, Committed, Elsewhere
  <2>4. /\ \A j \in ItemId \ {i} : items'[j] = items[j]
        /\ items'[i].status # "ABSENT"
    <3>1. CASE CommitComplete(r)
      BY <1>0, <1>a, <2>1, <3>1 DEF TypeOK, CommitComplete
    <3>2. CASE CommitCancel(r)
      BY <1>0, <1>a, <3>2 DEF TypeOK, CommitCancel
    <3> QED BY <1>2, <3>1, <3>2
  <2>5. /\ \A p \in OrderId \ {o} : orders'[p] = orders[p]
        /\ Placed(o)' /\ ~Pending(o)'
        /\ orders'[o].item = orders[o].item /\ orders'[o].buyer = orders[o].buyer
        /\ orders'[o].seller = orders[o].seller /\ orders'[o].qty = orders[o].qty
    BY <1>0, <1>2, <2>0 DEF TypeOK, CommitComplete, CommitCancel
  <2>7. \A q \in Others(r) : Fits(q)'
    <3>1. \A q \in Others(r) : "item" \in held[q] =>
             /\ items'[call[q].item] = items[call[q].item]
             /\ ~PendingOn(call[q].item) => ~PendingOn(call[q].item)'
      BY <1>b, <2>0, <2>3, <2>4, <2>5 DEF PendingOn, Elsewhere
    <3>2. \A q \in Others(r) : "order" \in held[q] =>
             orders'[call[q].order].status = orders[call[q].order].status
      BY <1>b, <2>0, <2>5
    <3>3. \A j \in ItemId : Listed(j) => Listed(j)'
      BY <2>4
    <3> QED BY <2>3, <2>5, <3>1, <3>2, <3>3, OthersFitRows DEF Coherent
  <2>8. LocksExclude'
    BY <1>0, <2>3, LocksReleased
  <2>9. Fits(r)'
    BY <1>0, <1>a, <2>0, <2>3, <2>5 DEF Fits, HeldFits, CallFits, ReadsFit
  <2> QED BY <2>2, <2>7, <2>8, <2>9 DEF Running
<1>3. CASE CommitSetStatus(r)
  <2>0. c.status \in ItemStatus
    BY <1>0, <1>3, AtCommit DEF CommitSetStatus
  <2>1. Finish(r) /\ UNCHANGED <<orders, notes>>
    BY <1>3 DEF CommitSetStatus
  <2>2. /\ TypeOK' /\ Elsewhere(r) /\ LocksExclude' /\ Fits(r)'
    <3>1. items' \in [ItemId -> ItemRow \cup {NoItem}]
      BY <1>0, <1>3, <1>a, <2>0 DEF TypeOK, CommitSetStatus
    <3> QED BY <1>0, <2>1, <3>1, Finishes DEF Coherent, TypeOK
  <2>3. /\ \A j \in ItemId \ {i} : items'[j] = items[j]
        /\ items'[i].status # "ABSENT"
    BY <1>0, <1>3, <1>a, <2>0 DEF TypeOK, CommitSetStatus
  <2>5. \A q \in Others(r) : Fits(q)'
    <3>1. \A q \in Others(r) : "item" \in held[q] =>
             /\ items'[call[q].item] = items[call[q].item]
             /\ ~PendingOn(call[q].item) => ~PendingOn(call[q].item)'
      BY <1>b, <2>1, <2>2, <2>3 DEF PendingOn, Elsewhere
    <3>2. \A j \in ItemId : Listed(j) => Listed(j)'
      BY <2>3
    <3> QED BY <2>1, <2>2, <3>1, <3>2, OthersFitRows DEF Coherent
  <2> QED BY <2>2, <2>5 DEF Running
<1> QED BY <1>1, <1>2, <1>3

LEMMA AttachRuns ==
    ASSUME Coherent, NEW r \in Req, AttachWrite(r)
    PROVE  Running'
<1> DEFINE o == call[r].order
<1>0. TypeOK /\ LocksExclude /\ Fits(r)
  BY DEF Coherent
<1>1. /\ o \in OrderId /\ Placed(o) /\ orders[o] \in OrderRow
      /\ call[r].op \in {"create", "attach"} \cup ClosingOps
      /\ call[r].user \in User
  BY <1>0, OrderedItem DEF Fits, CallFits, AttachWrite
<1>2. TypeOK'
  BY <1>0, <1>1 DEF TypeOK, AttachWrite
<1>3. /\ Elsewhere(r) /\ held'[r] = {} /\ pc'[r] = "reread" /\ call'[r] = call[r]
      /\ items' = items
  BY <1>0 DEF TypeOK, AttachWrite, Elsewhere
<1>4. \A p \in OrderId :
         /\ orders'[p].item = orders[p].item /\ orders'[p].buyer = orders[p].buyer
         /\ orders'[p].seller = orders[p].seller /\ orders'[p].qty = orders[p].qty
         /\ orders'[p].status = orders[p].status
  BY <1>0, <1>1 DEF TypeOK, AttachWrite
<1>5. LocksExclude'
  BY <1>0, <1>3, LocksReleased
<1>6. \A q \in Others(r) : "order" \in held[q] => call[q].order \in OrderId
  BY DEF Coherent, TypeOK, Fits, HeldFits, CallFits
<1>7. \A q \in Others(r) : Fits(q)'
  <2>1. \A q \in Others(r) : "item" \in held[q] =>
           /\ items'[call[q].item] = items[call[q].item]
           /\ ~PendingOn(call[q].item) => ~PendingOn(call[q].item)'
    BY <1>3, <1>4 DEF PendingOn, Elsewhere
  <2> QED BY <1>3, <1>4, <1>6, <2>1, OthersFitRows DEF Coherent
<1>8. Fits(r)'
  BY <1>0, <1>1, <1>3, <1>4 DEF Fits, HeldFits, CallFits, ReadsFit
<1> QED BY <1>2, <1>5, <1>7, <1>8 DEF Running

LEMMA ListRuns ==
    ASSUME Coherent, NEW u \in User, NEW i \in ItemId, NEW q \in 1..MaxQty, ListItem(u, i, q)
    PROVE  Running'
<1> USE MarketAssumption
<1>1. TypeOK'
  BY DEF Coherent, TypeOK, ListItem
<1>2. /\ \A j \in ItemId \ {i} : items'[j] = items[j]
      /\ ~Listed(i) /\ Listed(i)'
      /\ UNCHANGED <<orders, pc, call, seen, held>>
  BY DEF Coherent, TypeOK, ListItem
<1>3. LocksExclude'
  BY <1>2 DEF Coherent, LocksExclude
<1>4. ASSUME NEW r \in Req PROVE Fits(r)'
  <2>1. Fits(r) /\ pc[r] \in PCs
    BY DEF Coherent, TypeOK
  <2>2. HeldFits(r)'
    BY <1>2, <2>1 DEF Fits, HeldFits
  <2>3. CallFits(r)'
    BY <1>2, <2>1 DEF Fits, CallFits
  <2>4. "item" \in held[r] => call[r].item \in ItemId \ {i}
    BY <1>2, <2>1 DEF Fits, HeldFits, CallFits
  <2>5. ReadsFit(r)'
    BY <1>2, <2>1, <2>4 DEF Fits, ReadsFit, Allowed, PendingOn
  <2> QED BY <2>2, <2>3, <2>5 DEF Fits
<1> QED BY <1>1, <1>3, <1>4 DEF Running

\* Every step of the service is a step of the marketplace or changes no row.
LEMMA StepsRefine ==
    ASSUME Coherent, [Next]_vars
    PROVE  [Market!Next]_(Market!vars)
<1> USE MarketAssumption DEF Market!Listed, Market!Placed, Market!Pending
<1>1. ASSUME NEW u \in User, NEW i \in ItemId, NEW q \in 1..MaxQty, ListItem(u, i, q)
      PROVE  Market!Next
  <2>1. Market!List(u, i, q)
    BY <1>1 DEF ListItem, Market!List
  <2> QED BY <2>1 DEF Market!Next
<1>2. ASSUME NEW r \in Req, NEW o \in OrderId, CommitCreate(r, o)
      PROVE  Market!Next
  <2>1. pc[r] = "commit" /\ call[r].op = "create"
    BY <1>2 DEF CommitCreate
  <2>2. /\ call[r].user \in User /\ call[r].item \in ItemId /\ call[r].qty \in 1..MaxQty
        /\ seen[r].item = items[call[r].item] /\ Allowed(r)
    BY <2>1, AtCommit
  <2>3. /\ items[call[r].item].seller # call[r].user
        /\ items[call[r].item].status = "AVAILABLE"
        /\ call[r].qty <= items[call[r].item].qty
    BY <2>1, <2>2 DEF Allowed
  <2>4. Market!Place(call[r].user, call[r].item, o, call[r].qty)
    BY <1>2, <2>2, <2>3 DEF CommitCreate, Market!Place
  <2> QED BY <2>2, <2>4 DEF Market!Next
<1>3. ASSUME NEW r \in Req, CommitComplete(r) \/ CommitCancel(r)
      PROVE  Market!Next
  <2> DEFINE o == call[r].order
             i == call[r].item
  <2>1. pc[r] = "commit" /\ call[r].op \in ClosingOps
    BY <1>3 DEF CommitComplete, CommitCancel
  <2>2. /\ call[r].user \in User /\ i \in ItemId /\ items[i] \in ItemRow
        /\ seen[r].item = items[i] /\ Allowed(r)
        /\ o \in OrderId /\ Pending(o) /\ orders[o] \in OrderRow /\ orders[o].item = i
        /\ seen[r].order.seller = orders[o].seller /\ seen[r].order.buyer = orders[o].buyer
        /\ seen[r].order.qty = orders[o].qty
        /\ items[i].status = "RESERVED"
    BY <2>1, AtCommit
  <2>3. /\ call[r].user \in {orders[o].seller, orders[o].buyer}
        /\ call[r].op = "complete" => call[r].user = orders[o].seller
    BY <2>1, <2>2 DEF Allowed
  <2>4. CASE CommitComplete(r)
    <3>1. Remaining(seen[r].item.qty, seen[r].order.qty) = Market!UnitsLeft(o)
      BY <2>2 DEF Remaining, Market!UnitsLeft
    <3>2. Market!Complete(call[r].user, o)
      BY <2>2, <2>3, <2>4, <3>1
         DEF CommitComplete, StatusForStock, Market!Complete, Market!StatusForStock
    <3> QED BY <2>2, <3>2 DEF Market!Next
  <2>5. CASE CommitCancel(r)
    <3>1. Market!Cancel(call[r].user, o)
      BY <2>2, <2>3, <2>5 DEF CommitCancel, Market!Cancel
    <3> QED BY <2>2, <3>1 DEF Market!Next
  <2> QED BY <1>3, <2>4, <2>5
<1>4. ASSUME NEW r \in Req, CommitSetStatus(r)
      PROVE  Market!Next
  <2>1. pc[r] = "commit" /\ call[r].op = "setStatus"
    BY <1>4 DEF CommitSetStatus
  <2>2. /\ call[r].user \in User /\ call[r].item \in ItemId /\ Listed(call[r].item)
        /\ call[r].status \in ItemStatus
        /\ seen[r].item = items[call[r].item] /\ Allowed(r)
    BY <2>1, AtCommit
  <2>3. Market!SetStatus(call[r].user, call[r].item, call[r].status)
    BY <1>4, <2>1, <2>2
       DEF CommitSetStatus, Allowed, PendingOn, Market!SetStatus, Market!PendingOn
  <2> QED BY <2>2, <2>3 DEF Market!Next, Market!ItemStatus
<1>5. ASSUME NEW r \in Req, AttachWrite(r)
      PROVE  Market!Next
  <2>1. /\ call[r].order \in OrderId /\ Placed(call[r].order) /\ call[r].user \in User
        /\ call[r].user = orders[call[r].order].buyer
    BY <1>5 DEF Coherent, Fits, CallFits, AttachWrite
  <2>2. Market!AttachSlip(call[r].user, call[r].order)
    BY <1>5, <2>1 DEF AttachWrite, Market!AttachSlip
  <2> QED BY <2>1, <2>2 DEF Market!Next
<1>6. ASSUME NEW r \in Req,
             \/ Submits(r) \/ Fail(r) \/ Begin(r) \/ FindRef(r) \/ LockItem(r) \/ LockOrder(r)
             \/ Decide(r) \/ Refuse(r) \/ AttachCheck(r) \/ AttachRefuse(r) \/ Checkout(r)
             \/ Reread(r) \/ ShareItem(r) \/ InsertNote(r)
      PROVE  UNCHANGED <<items, orders>>
  <2>1. Submits(r) => UNCHANGED <<items, orders>>
    BY DEF Submits, PostOrder, PatchOrderStatus, PatchItemStatus, PatchPaymentSlip, Submit
  <2> QED BY <1>6, <2>1 DEF Fail, Begin, FindRef, LockItem, LockOrder, Decide, Refuse,
       AttachCheck, AttachRefuse, Checkout, Reread, ShareItem, InsertNote
<1>7. CASE Crash \/ UNCHANGED vars
  BY <1>7 DEF Crash, vars, Market!vars
<1> QED BY <1>1, <1>2, <1>3, <1>4, <1>5, <1>6, <1>7 DEF Next, Step, Market!vars

LEMMA RunningNext ==
    ASSUME Coherent, [Next]_vars
    PROVE  Running'
<1>1. CASE UNCHANGED vars
  <2>1. TypeOK' /\ LocksExclude'
    BY <1>1 DEF vars, Coherent, TypeOK, LocksExclude
  <2>2. ASSUME NEW r \in Req PROVE Fits(r)'
    <3>1. Fits(r)
      BY DEF Coherent
    <3>2. HeldFits(r)' /\ CallFits(r)'
      BY <1>1, <3>1 DEF vars, Fits, HeldFits, CallFits
    <3>3. ReadsFit(r)'
      BY <1>1, <3>1 DEF vars, Fits, ReadsFit, Allowed, PendingOn
    <3> QED BY <3>2, <3>3 DEF Fits
  <2> QED BY <2>1, <2>2 DEF Running
<1>2. CASE \E r \in Req : Submits(r)
  BY <1>2, SubmitsRun DEF Coherent, Running
<1> QED BY <1>1, <1>2, TransactionsRun, PlainStepsRun, EndsRun, CommitsRun, AttachRuns, ListRuns,
     CrashRuns DEF Next, Step

LEMMA CoherentInit == Init => Coherent
<1> SUFFICES ASSUME Init PROVE Coherent
  OBVIOUS
<1>1. TypeOK /\ LocksExclude /\ \A r \in Req : Fits(r)
  BY MarketAssumption DEF Init, TypeOK, LocksExclude, Fits, HeldFits, CallFits, ReadsFit
<1>2. Proved!Agreement
  BY Proved!PromisesInit, MarketAssumption
     DEF Init, Proved!Init, Proved!NoItem, Proved!NoOrder, Proved!Promises
<1> QED BY <1>1, <1>2 DEF Coherent

LEMMA StepsKeepRows ==
    ASSUME Coherent, [Next]_vars
    PROVE  [Proved!Next]_(Proved!vars)
<1>1. [Market!Next]_(Market!vars)
  BY StepsRefine
<1>2. Market!Next <=> Proved!Next
  BY DEF Market!Next, Market!List, Market!Place, Market!Complete, Market!Cancel,
     Market!AttachSlip, Market!SetStatus, Market!PendingOn, Market!Pending, Market!Placed,
     Market!Listed, Market!StatusForStock, Market!ItemStatus, Market!UnitsLeft,
     Proved!Next, Proved!List, Proved!Place, Proved!Complete, Proved!Cancel,
     Proved!AttachSlip, Proved!SetStatus, Proved!PendingOn, Proved!Pending, Proved!Placed,
     Proved!Listed, Proved!StatusForStock, Proved!ItemStatus, Proved!UnitsLeft
<1> QED BY <1>1, <1>2 DEF Market!vars, Proved!vars

LEMMA CoherentNext == Coherent /\ [Next]_vars => Coherent'
<1> SUFFICES ASSUME Coherent, [Next]_vars PROVE Coherent'
  OBVIOUS
<1>1. Running'
  BY RunningNext
<1>2. Proved!Agreement'
  BY StepsKeepRows, Proved!AgreementNext, MarketAssumption DEF Coherent
<1> QED BY <1>1, <1>2 DEF Running, Coherent

\* The requests stay coherent with each other and with the tables.
THEOREM AlwaysCoherent == Spec => []Coherent
  BY CoherentInit, CoherentNext, PTL DEF Spec

\* The tables keep the promises of the marketplace: in particular an open order is always
\* covered by its item's stock.
THEOREM TablesKeepPromises == Spec => []Proved!Promises
<1>1. Init => Proved!Promises
  BY Proved!PromisesInit, MarketAssumption DEF Init, Proved!Init, Proved!NoItem, Proved!NoOrder
<1>2. Coherent /\ Proved!Promises /\ [Next]_vars => Proved!Promises'
  BY StepsKeepRows, Proved!PromisesNext, MarketAssumption
<1> QED BY <1>1, <1>2, AlwaysCoherent, PTL DEF Spec

\* Every variable keeps its type; a stock stays in its range whatever requests race.
THEOREM OrdersTypeCorrect == Spec => []TypeOK
<1>1. Coherent => TypeOK
  BY DEF Coherent
<1> QED BY <1>1, AlwaysCoherent, PTL

LEMMA CoherentIsCurrent == Coherent => LockedRowsAreCurrent
  BY DEF Coherent, Fits, ReadsFit, LockedRowsAreCurrent

LEMMA CoherentNeverWaits == Coherent => LockHoldersNeverWait
<1> SUFFICES ASSUME Coherent, NEW r \in Req, held[r] \cap {"item", "order", "share"} # {}
             PROVE  /\ "conn" \in held[r]
                    /\ \A q \in Others(r) : ~WaitsForItem(r, q) /\ ~WaitsForOrder(r, q)
  BY DEF LockHoldersNeverWait
<1>1. Fits(r) /\ pc[r] \in PCs
  BY DEF Coherent, TypeOK
<1>2. \/ pc[r] \in {"locks", "commit"} /\ "item" \in held[r]
      \/ pc[r] = "tell" /\ held[r] = {"conn", "share"}
  BY <1>1 DEF Fits, HeldFits
<1>3. "conn" \in held[r]
  BY <1>1, <1>2 DEF Fits, HeldFits
<1>4. ASSUME NEW q \in Others(r) PROVE ~WaitsForItem(r, q)
  BY <1>2, <1>4 DEF WaitsForItem, NextLock
<1>5. ASSUME NEW q \in Others(r), WaitsForOrder(r, q) PROVE FALSE
  <2>1. /\ "item" \in held[q] /\ call[q].order \in OrderId /\ Placed(call[q].order)
        /\ orders[call[q].order].item = call[q].item
    <3>1. Fits(q) /\ pc[q] \in PCs /\ "order" \in held[q]
      BY <1>5 DEF Coherent, TypeOK, WaitsForOrder
    <3> QED BY <3>1 DEF Fits, HeldFits, CallFits
  <2>2. call[q].order = call[r].order
    BY <1>5 DEF WaitsForOrder
  <2>3. CASE pc[r] = "locks" /\ NextLock(r) = "order"
    <3>1. call[r].item = orders[call[r].order].item
      BY <1>1, <2>3 DEF Fits, CallFits, NextLock
    <3>2. "item" \in held[r]
      BY <2>3 DEF NextLock
    <3> QED BY <2>1, <2>2, <3>1, <3>2 DEF Coherent, LocksExclude
  <2>4. CASE pc[r] = "tell"
    <3>1. call[r].item = orders[call[r].order].item
      BY <1>1, <2>4 DEF Fits, CallFits
    <3> QED BY <1>2, <2>1, <2>2, <2>4, <3>1 DEF Coherent, LocksExclude
  <2> QED BY <1>2, <1>5, <2>3, <2>4 DEF WaitsForOrder
<1> QED BY <1>3, <1>4, <1>5

LEMMA CoherentAvoidsIndex == Coherent => IndexNeverFires
<1> SUFFICES ASSUME Coherent, NEW r \in Req, Locked(r), call[r].op = "create",
                    seen[r].item.status = "AVAILABLE", PendingOn(call[r].item)
             PROVE  FALSE
  BY DEF IndexNeverFires
<1>1. items[call[r].item].status = "AVAILABLE"
  BY DEF Coherent, Fits, ReadsFit, Locked, NextLock
<1> QED BY <1>1 DEF PendingOn, Coherent, Proved!Agreement, Proved!PendingMeansReserved,
     Proved!Pending

\* A decision taken on locked rows still stands when it is committed.
THEOREM LockedRowsStayCurrent == Spec => []LockedRowsAreCurrent
  BY CoherentIsCurrent, AlwaysCoherent, PTL

\* No request waits while it holds a row lock: the service and the foreign keys of the
\* notifications cannot deadlock on rows or on the pool.
THEOREM NoDeadlock == Spec => []LockHoldersNeverWait
  BY CoherentNeverWaits, AlwaysCoherent, PTL

\* The unique index on open orders is never met by a create that found the item available.
THEOREM IndexIsNeverMet == Spec => []IndexNeverFires
  BY CoherentAvoidsIndex, AlwaysCoherent, PTL

-----------------------------------------------------------------------------
(* The news of a closed order. *)

\* A request that still has to tell that o was closed is the only one, and nothing has been
\* told; what it read again is how o was closed.  What was told is true and was told once.
ToldOf(o) ==
    /\ \A r \in Req : Telling(r, o) =>
          /\ Placed(o) /\ ~Pending(o)
          /\ ClosingNotes(o) = {}
          /\ \A q \in Others(r) : ~Telling(q, o)
          /\ pc[r] = "tell" =>
                /\ seen[r].order.status = orders[o].status
                /\ seen[r].order.buyer = orders[o].buyer
                /\ seen[r].order.seller = orders[o].seller
    /\ \A n \in ClosingNotes(o) :
          /\ Placed(o) /\ ~Pending(o)
          /\ n.type = "ORDER_COMPLETED" => orders[o].status = "COMPLETED" /\ n.to = orders[o].buyer
          /\ n.type = "ORDER_CANCELLED" => orders[o].status = "CANCELLED"
          /\ n.to \in {orders[o].buyer, orders[o].seller}
          /\ \A m \in ClosingNotes(o) : m = n
Told == \A o \in OrderId : ToldOf(o)

\* A closed order stays as it is.
LEMMA ClosedStay ==
    ASSUME Coherent, [Next]_vars, NEW o \in OrderId, Placed(o), ~Pending(o)
    PROVE  /\ Placed(o)' /\ ~Pending(o)'
           /\ orders'[o].status = orders[o].status
           /\ orders'[o].buyer = orders[o].buyer /\ orders'[o].seller = orders[o].seller
<1>1. Proved!TypeOK /\ ([Proved!Next]_(Proved!vars))
  BY StepsKeepRows DEF Coherent, Proved!Agreement
<1>2. Proved!OrdersKeep \/ UNCHANGED Proved!vars
  BY <1>1, Proved!OrdersKeepNext, MarketAssumption
<1> QED BY <1>2 DEF Proved!OrdersKeep, Proved!vars, Proved!Placed, Proved!Pending

\* A step that neither closes o nor tells of it.
LEMMA ToldStays ==
    ASSUME Coherent, [Next]_vars, NEW o \in OrderId, ToldOf(o),
           ClosingNotes(o)' = ClosingNotes(o),
           \A q \in Req : Telling(q, o)' =>
               /\ Telling(q, o)
               /\ pc'[q] = "tell" => \/ pc[q] = "tell" /\ seen'[q].order = seen[q].order
                                     \/ seen'[q].order = orders[o]
    PROVE  ToldOf(o)'
<1>1. ASSUME NEW r \in Req, Telling(r, o)'
      PROVE  /\ Placed(o)' /\ ~Pending(o)'
             /\ ClosingNotes(o)' = {}
             /\ \A q \in Others(r) : ~Telling(q, o)'
             /\ pc'[r] = "tell" =>
                   /\ seen'[r].order.status = orders'[o].status
                   /\ seen'[r].order.buyer = orders'[o].buyer
                   /\ seen'[r].order.seller = orders'[o].seller
  <2>1. Telling(r, o)
    BY <1>1
  <2>2. Placed(o) /\ ~Pending(o) /\ ClosingNotes(o) = {} /\ \A q \in Others(r) : ~Telling(q, o)
    BY <2>1 DEF ToldOf
  <2>3. /\ Placed(o)' /\ ~Pending(o)' /\ orders'[o].status = orders[o].status
        /\ orders'[o].buyer = orders[o].buyer /\ orders'[o].seller = orders[o].seller
    BY <2>2, ClosedStay
  <2>4. \A q \in Others(r) : ~Telling(q, o)'
    BY <2>2
  <2>5. pc[r] = "tell" => /\ seen[r].order.status = orders[o].status
                          /\ seen[r].order.buyer = orders[o].buyer
                          /\ seen[r].order.seller = orders[o].seller
    BY <2>1 DEF ToldOf
  <2>6. pc'[r] = "tell" => \/ pc[r] = "tell" /\ seen'[r].order = seen[r].order
                           \/ seen'[r].order = orders[o]
    BY <1>1
  <2> QED BY <2>2, <2>3, <2>4, <2>5, <2>6
<1>2. ASSUME NEW n \in ClosingNotes(o)
      PROVE  /\ Placed(o)' /\ ~Pending(o)'
             /\ n.type = "ORDER_COMPLETED" =>
                   orders'[o].status = "COMPLETED" /\ n.to = orders'[o].buyer
             /\ n.type = "ORDER_CANCELLED" => orders'[o].status = "CANCELLED"
             /\ n.to \in {orders'[o].buyer, orders'[o].seller}
             /\ \A m \in ClosingNotes(o) : m = n
  <2>1. /\ Placed(o) /\ ~Pending(o)
        /\ n.type = "ORDER_COMPLETED" => orders[o].status = "COMPLETED" /\ n.to = orders[o].buyer
        /\ n.type = "ORDER_CANCELLED" => orders[o].status = "CANCELLED"
        /\ n.to \in {orders[o].buyer, orders[o].seller}
        /\ \A m \in ClosingNotes(o) : m = n
    BY DEF ToldOf
  <2> QED BY <2>1, ClosedStay
<1> QED BY <1>1, <1>2 DEF ToldOf

\* The commit of a closing: nobody told or has to tell anything of an open order.
LEMMA CloseTold ==
    ASSUME Coherent, Told, NEW r \in Req, [Next]_vars, CommitComplete(r) \/ CommitCancel(r)
    PROVE  Told'
<1>0. pc[r] = "commit" /\ call[r].op \in ClosingOps
  BY DEF CommitComplete, CommitCancel
<1>1. PICK o \in OrderId : o = call[r].order /\ Pending(o)
  BY <1>0, AtCommit
<1>2. ClosingNotes(o) = {} /\ \A q \in Req : ~Telling(q, o)
  BY <1>1 DEF Told, ToldOf
<1>3. Placed(o)' /\ ~Pending(o)'
  BY <1>0, <1>1 DEF Coherent, TypeOK, CommitComplete, CommitCancel
<1>4. /\ notes' = notes /\ call' = call /\ pc'[r] = "reread"
      /\ \A q \in Others(r) : pc'[q] = pc[q] /\ seen'[q] = seen[q]
  BY DEF Coherent, TypeOK, CommitComplete, CommitCancel, Committed
<1>5. /\ \A p \in OrderId : ClosingNotes(p)' = ClosingNotes(p)
      /\ \A q \in Others(r), p \in OrderId : Telling(q, p)' <=> Telling(q, p)
      /\ \A p \in OrderId \ {o} : ~Telling(r, p)'
  BY <1>1, <1>4 DEF ClosingNotes, Telling
<1>6. ToldOf(o)'
  BY <1>1, <1>2, <1>3, <1>4, <1>5 DEF ToldOf
<1>7. ASSUME NEW p \in OrderId \ {o} PROVE ToldOf(p)'
  BY <1>4, <1>5, ToldStays DEF Told
<1> QED BY <1>6, <1>7 DEF Told

\* The notification: it is the first, and it says what was read again.
LEMMA NoteTold ==
    ASSUME Coherent, Told, NEW r \in Req, [Next]_vars, InsertNote(r)
    PROVE  Told'
<1>1. PICK o \in OrderId :
         o = call[r].order /\ pc[r] = "tell" /\ call[r].op \in {"create", "attach"} \cup ClosingOps
  BY DEF Coherent, Fits, CallFits, InsertNote
<1>2. /\ orders' = orders /\ pc'[r] = "idle" /\ notes' = notes \cup NotesOf(r)
      /\ \A q \in Others(r) : pc'[q] = pc[q] /\ seen'[q] = seen[q] /\ call'[q] = call[q]
  BY DEF Coherent, TypeOK, InsertNote, Finish
<1>3. /\ \A q \in Others(r), p \in OrderId : Telling(q, p)' <=> Telling(q, p)
      /\ \A p \in OrderId : ~Telling(r, p)'
  BY <1>2 DEF Telling
<1>4. CASE call[r].op \notin ClosingOps
  <2>1. \A p \in OrderId : ClosingNotes(p)' = ClosingNotes(p)
    BY <1>1, <1>2, <1>4 DEF ClosingNotes, NotesOf
  <2> QED BY <1>2, <1>3, <2>1, ToldStays DEF Told
<1>5. CASE call[r].op \in ClosingOps
  <2>1. Telling(r, o)
    BY <1>1, <1>5 DEF Telling
  <2>2. /\ Placed(o) /\ ~Pending(o) /\ ClosingNotes(o) = {}
        /\ \A q \in Others(r) : ~Telling(q, o)
        /\ seen[r].order.status = orders[o].status /\ seen[r].order.buyer = orders[o].buyer
        /\ seen[r].order.seller = orders[o].seller
    BY <1>1, <2>1 DEF Told, ToldOf
  <2>3. \A p \in OrderId \ {o} : ClosingNotes(p)' = ClosingNotes(p)
    BY <1>1, <1>2, <1>5 DEF ClosingNotes, NotesOf
  <2>4. ClosingNotes(o)' \subseteq NotesOf(r)
    <3>1. \A n \in notes : n \notin ClosingNotes(o)
      BY <2>2
    <3> QED BY <1>2, <3>1 DEF ClosingNotes
  <2>5. \A n, m \in NotesOf(r) : n = m
    BY <1>5 DEF NotesOf
  <2>6. \A n \in NotesOf(r) :
           /\ n.type = "ORDER_COMPLETED" => orders[o].status = "COMPLETED" /\ n.to = orders[o].buyer
           /\ n.type = "ORDER_CANCELLED" => orders[o].status = "CANCELLED"
           /\ n.to \in {orders[o].buyer, orders[o].seller}
    BY <1>5, <2>2 DEF NotesOf
  <2>7. ToldOf(o)'
    <3>1. \A q \in Req : ~Telling(q, o)'
      BY <1>1, <1>3, <2>2
    <3> QED BY <1>2, <2>2, <2>4, <2>5, <2>6, <3>1 DEF ToldOf
  <2>8. ASSUME NEW p \in OrderId \ {o} PROVE ToldOf(p)'
    BY <1>2, <1>3, <2>3, ToldStays DEF Told
  <2> QED BY <2>7, <2>8 DEF Told
<1> QED BY <1>4, <1>5

\* Every other step of a request leaves the news where they are.
LEMMA QuietStep ==
    ASSUME Coherent, NEW r \in Req,
           \/ Submits(r) \/ Fail(r) \/ Begin(r) \/ FindRef(r) \/ LockItem(r) \/ LockOrder(r)
           \/ Decide(r) \/ Refuse(r) \/ AttachCheck(r) \/ AttachRefuse(r) \/ Checkout(r)
           \/ AttachWrite(r) \/ Reread(r) \/ ShareItem(r) \/ CommitSetStatus(r)
           \/ \E o \in OrderId : CommitCreate(r, o),
           NEW q \in Req, NEW o \in OrderId, Telling(q, o)'
    PROVE  /\ Telling(q, o)
           /\ pc'[q] = "tell" => \/ pc[q] = "tell" /\ seen'[q].order = seen[q].order
                                 \/ seen'[q].order = orders[o]
<1>1. CASE q # r
  <2>1. pc'[q] = pc[q] /\ call'[q] = call[q] /\ seen'[q] = seen[q]
    <3>1. CASE Submits(r)
      BY <1>1, <3>1 DEF Coherent, TypeOK, Submits, PostOrder, PatchOrderStatus, PatchItemStatus,
         PatchPaymentSlip, Submit
    <3>2. CASE Fail(r) \/ Refuse(r) \/ AttachRefuse(r) \/ CommitSetStatus(r)
      BY <1>1, <3>2 DEF Coherent, TypeOK, Fail, Refuse, AttachRefuse, CommitSetStatus, Finish
    <3>3. CASE Begin(r) \/ FindRef(r) \/ LockItem(r) \/ LockOrder(r) \/ Decide(r)
      BY <1>1, <3>3 DEF Coherent, TypeOK, Begin, FindRef, LockItem, LockOrder, Decide
    <3>4. CASE AttachCheck(r) \/ Checkout(r) \/ AttachWrite(r) \/ Reread(r) \/ ShareItem(r)
      BY <1>1, <3>4 DEF Coherent, TypeOK, AttachCheck, Checkout, AttachWrite, Reread, ShareItem
    <3>5. CASE \E p \in OrderId : CommitCreate(r, p)
      BY <1>1, <3>5 DEF Coherent, TypeOK, CommitCreate, Committed
    <3> QED BY <3>1, <3>2, <3>3, <3>4, <3>5
  <2> QED BY <2>1 DEF Telling
<1>2. CASE q = r
  <2>1. CASE Submits(r)
    BY <1>2, <2>1 DEF Coherent, TypeOK, Submits, PostOrder, PatchOrderStatus, PatchItemStatus,
       PatchPaymentSlip, Submit, Telling
  <2>2. CASE Fail(r) \/ Refuse(r) \/ AttachRefuse(r) \/ CommitSetStatus(r)
    BY <1>2, <2>2 DEF Coherent, TypeOK, Fail, Refuse, AttachRefuse, CommitSetStatus, Finish, Telling
  <2>3. CASE Begin(r) \/ FindRef(r) \/ LockItem(r) \/ LockOrder(r) \/ Decide(r) \/ AttachCheck(r)
    BY <1>2, <2>3 DEF Coherent, TypeOK, Begin, FindRef, LockItem, LockOrder, Decide, AttachCheck,
       Locked, Telling
  <2>4. CASE AttachWrite(r)
    <3>1. call[r].op \notin ClosingOps
      BY <2>4 DEF Coherent, Fits, CallFits, HeldFits, AttachWrite
    <3> QED BY <1>2, <2>4, <3>1 DEF Coherent, TypeOK, AttachWrite, Telling
  <2>5. CASE Checkout(r) \/ ShareItem(r)
    BY <1>2, <2>5 DEF Coherent, TypeOK, Checkout, ShareItem, Telling
  <2>6. CASE Reread(r)
    BY <1>2, <2>6 DEF Coherent, TypeOK, Reread, Telling
  <2>7. CASE \E p \in OrderId : CommitCreate(r, p)
    BY <1>2, <2>7 DEF Coherent, TypeOK, CommitCreate, Committed, Telling
  <2> QED BY <2>1, <2>2, <2>3, <2>4, <2>5, <2>6, <2>7
<1> QED BY <1>1, <1>2

LEMMA ToldNext == Coherent /\ Told /\ [Next]_vars => Told'
<1> SUFFICES ASSUME Coherent, Told, [Next]_vars PROVE Told'
  OBVIOUS
<1>1. ASSUME notes' = notes,
             \A q \in Req, o \in OrderId : Telling(q, o)' =>
                 /\ Telling(q, o)
                 /\ pc'[q] = "tell" => \/ pc[q] = "tell" /\ seen'[q].order = seen[q].order
                                       \/ seen'[q].order = orders[o]
      PROVE  Told'
  BY <1>1, ToldStays DEF Told, ClosingNotes
<1>2. ASSUME NEW r \in Req,
             \/ Submits(r) \/ Fail(r) \/ Begin(r) \/ FindRef(r) \/ LockItem(r) \/ LockOrder(r)
             \/ Decide(r) \/ Refuse(r) \/ AttachCheck(r) \/ AttachRefuse(r) \/ Checkout(r)
             \/ AttachWrite(r) \/ Reread(r) \/ ShareItem(r) \/ CommitSetStatus(r)
             \/ \E o \in OrderId : CommitCreate(r, o)
      PROVE  Told'
  <2>1. notes' = notes
    BY <1>2 DEF Submits, PostOrder, PatchOrderStatus, PatchItemStatus, PatchPaymentSlip, Submit,
       Fail, Begin, FindRef, LockItem, LockOrder, Decide, Refuse, AttachCheck, AttachRefuse,
       Checkout, AttachWrite, Reread, ShareItem, CommitSetStatus, CommitCreate, Committed
  <2> QED BY <1>1, <1>2, <2>1, QuietStep
<1>3. ASSUME NEW u \in User, NEW i \in ItemId, NEW q \in 1..MaxQty, ListItem(u, i, q)
      PROVE  Told'
  BY <1>1, <1>3 DEF ListItem, Telling
<1>4. CASE Crash
  BY <1>1, <1>4 DEF Crash, Telling
<1>5. CASE UNCHANGED vars
  BY <1>1, <1>5 DEF vars, Telling
<1> QED BY <1>2, <1>3, <1>4, <1>5, CloseTold, NoteTold DEF Next, Step

\* A set without two different members has at most one.
LEMMA AtMostOne ==
    ASSUME NEW S, \A x, y \in S : x = y
    PROVE  /\ Cardinality(S) \in {0, 1}
           /\ Cardinality(S) = 1 => S # {}
<1>1. CASE S = {}
  BY <1>1, FS_EmptySet
<1>2. CASE S # {}
  <2>1. PICK x : S = {x}
    BY <1>2
  <2> QED BY <2>1, FS_Singleton
<1> QED BY <1>1, <1>2

\* However many completions and cancellations of an order race, fail or are repeated, its
\* closing is told once at most, and what is told is how it ended.
THEOREM ClosingsToldOnce == Spec => []ClosingToldOnce
<1>1. Init => Told
  BY DEF Init, Told, ToldOf, ClosingNotes, Telling
<1>2. Told => ClosingToldOnce
  <2> SUFFICES ASSUME Told, NEW o \in OrderId
               PROVE  /\ Cardinality(ClosingNotes(o)) + Cardinality({r \in Req : Telling(r, o)}) <= 1
                      /\ \A n \in ClosingNotes(o) :
                            /\ n.type = "ORDER_COMPLETED" =>
                                  orders[o].status = "COMPLETED" /\ n.to = orders[o].buyer
                            /\ n.type = "ORDER_CANCELLED" => orders[o].status = "CANCELLED"
                            /\ n.to \in {orders[o].buyer, orders[o].seller}
                      /\ \A r \in Req : Telling(r, o) => ~Pending(o)
    BY DEF ClosingToldOnce
  <2>1. \A n, m \in ClosingNotes(o) : n = m
    BY DEF Told, ToldOf
  <2>2. \A r, q \in {r \in Req : Telling(r, o)} : r = q
    BY DEF Told, ToldOf
  <2>3. {r \in Req : Telling(r, o)} = {} \/ ClosingNotes(o) = {}
    BY DEF Told, ToldOf
  <2>4. Cardinality(ClosingNotes(o)) + Cardinality({r \in Req : Telling(r, o)}) <= 1
    BY <2>1, <2>2, <2>3, AtMostOne
  <2> QED BY <2>4 DEF Told, ToldOf
<1> QED BY <1>1, <1>2, ToldNext, AlwaysCoherent, PTL DEF Spec

\* The service implements the marketplace, whatever requests race, fail or crash.
THEOREM OrdersImplementMarketplace == Spec => RefinesMarketplace
<1>1. Init => Market!Init
  BY DEF Init, Market!Init, Market!NoItem, Market!NoOrder
<1>2. Coherent /\ [Next]_vars => [Market!Next]_(Market!vars)
  BY StepsRefine
<1> QED BY <1>1, <1>2, AlwaysCoherent, PTL DEF Spec, RefinesMarketplace, Market!Spec
-----------------------------------------------------------------------------
(* The same requests on a migrated database. *)

LEMMA LegacyInitCoherent == LegacyInit => Coherent /\ Proved!CoveredExcept({OldOrder})
<1> SUFFICES ASSUME LegacyInit PROVE Coherent /\ Proved!CoveredExcept({OldOrder})
  OBVIOUS
<1> USE MarketAssumption, LegacyAssumption
<1>1. PICK u \in User, v \in User, q \in 1..MaxQty :
         /\ u # v
         /\ items = [i \in ItemId |-> IF i = OldItem
                       THEN [seller |-> u, status |-> "RESERVED", qty |-> 1] ELSE NoItem]
         /\ orders = [o \in OrderId |-> IF o = OldOrder
                        THEN [item |-> OldItem, buyer |-> v, seller |-> u, qty |-> q,
                              status |-> "PENDING", slip |-> "none"] ELSE NoOrder]
  BY DEF LegacyInit
<1>2. TypeOK
  BY <1>1 DEF LegacyInit, TypeOK
<1>3. LocksExclude /\ \A r \in Req : Fits(r)
  BY DEF LegacyInit, LocksExclude, Fits, HeldFits, CallFits, ReadsFit
<1>4. Proved!Agreement
  BY <1>1, <1>2 DEF TypeOK, Proved!Agreement, Proved!TypeOK, Proved!OnePending,
     Proved!PendingMeansReserved, Proved!PartiesMatch, Proved!Pending, Proved!Placed,
     Proved!ItemRow, Proved!OrderRow, Proved!NoItem, Proved!NoOrder, Proved!ItemStatus,
     Proved!OrderStatus
<1>5. Proved!CoveredExcept({OldOrder})
  BY <1>1 DEF Proved!CoveredExcept, Proved!Pending
<1> QED BY <1>2, <1>3, <1>4, <1>5 DEF Coherent

\* The requests are as coherent on a migrated database as on a new one.
THEOREM LegacyCoherent == LegacySpec => []Coherent
  BY LegacyInitCoherent, CoherentNext, PTL DEF LegacySpec

\* Whatever the old order asks for, decisions taken on locked rows stand, no request that
\* holds a row lock waits, and the unique index is not met.
THEOREM LegacyRequestsAreSafe ==
    LegacySpec => [](LockedRowsAreCurrent /\ LockHoldersNeverWait /\ IndexNeverFires)
  BY LegacyCoherent, CoherentIsCurrent, CoherentNeverWaits, CoherentAvoidsIndex, PTL

\* After the migration no open order but the old one exceeds its item's stock, and every
\* open order keeps its item reserved.
THEOREM OnlyTheOldOrderExceeds == LegacySpec => []OnlyOldOrderExceeds
<1>1. Coherent /\ Proved!CoveredExcept({OldOrder}) /\ [Next]_vars
         => Proved!CoveredExcept({OldOrder})'
  BY StepsKeepRows, Proved!CoverNext, MarketAssumption DEF Coherent
<1>2. Coherent /\ Proved!CoveredExcept({OldOrder}) => OnlyOldOrderExceeds
  BY DEF Coherent, Proved!Agreement, Proved!PendingMeansReserved, Proved!CoveredExcept,
     Proved!Pending, OnlyOldOrderExceeds
<1> QED BY <1>1, <1>2, LegacyInitCoherent, LegacyCoherent, PTL DEF LegacySpec

\* What a completed order leaves of its item's stock.
SellsOut(o) ==
    LET i == orders[o].item
        left == items[i].qty - orders[o].qty
    IN  IF left > 0 THEN items'[i].qty = left /\ items'[i].status = "AVAILABLE"
        ELSE items'[i].qty = 0 /\ items'[i].status = "SOLD"

\* An order larger than the stock sells the item out instead of driving the stock below zero.
THEOREM OversizedOrdersSellOut == LegacySpec => OversizedOrderSellsOut
<1>1. ASSUME Coherent, [Next]_vars, NEW o \in OrderId,
             Pending(o), orders'[o].status = "COMPLETED"
      PROVE  SellsOut(o)
  <2>1. [Market!Next]_(Market!vars)
    BY <1>1, StepsRefine
  <2>2. /\ orders[o] \in OrderRow /\ orders[o].item \in ItemId
        /\ items[orders[o].item] \in ItemRow
    BY <1>1, OrderedItem
  <2>3. TypeOK
    BY <1>1 DEF Coherent
  <2>4. PICK u \in User : Market!Complete(u, o)
    <3>1. orders # orders'
      BY <1>1
    <3>2. PICK u \in User :
             \/ \E i \in ItemId, q \in 1..MaxQty : Market!List(u, i, q)
             \/ \E i \in ItemId, p \in OrderId, q \in 1..MaxQty : Market!Place(u, i, p, q)
             \/ \E p \in OrderId : \/ Market!Complete(u, p) \/ Market!Cancel(u, p)
                                  \/ Market!AttachSlip(u, p)
             \/ \E i \in ItemId, s \in ItemStatus : Market!SetStatus(u, i, s)
      BY <2>1, <3>1 DEF Market!Next, Market!vars, Market!ItemStatus
    <3>3. ~ \E i \in ItemId, q \in 1..MaxQty : Market!List(u, i, q)
      BY <3>1 DEF Market!List
    <3>4. ~ \E i \in ItemId, s \in ItemStatus : Market!SetStatus(u, i, s)
      BY <3>1 DEF Market!SetStatus
    <3>5. ~ \E i \in ItemId, p \in OrderId, q \in 1..MaxQty : Market!Place(u, i, p, q)
      BY <1>1, <2>3 DEF TypeOK, Market!Place, Market!Placed
    <3>6. ASSUME NEW p \in OrderId PROVE ~Market!Cancel(u, p) /\ ~Market!AttachSlip(u, p)
      <4>1. orders \in [OrderId -> OrderRow \cup {NoOrder}]
        BY <2>3 DEF TypeOK
      <4>2. ~Market!Cancel(u, p)
        BY <1>1, <4>1 DEF Market!Cancel
      <4>3. ~Market!AttachSlip(u, p)
        BY <1>1, <4>1 DEF Market!AttachSlip
      <4> QED BY <4>2, <4>3
    <3>7. PICK p \in OrderId : Market!Complete(u, p)
      BY <3>2, <3>3, <3>4, <3>5, <3>6
    <3>8. p = o
      BY <1>1, <2>3, <3>7 DEF TypeOK, Market!Complete
    <3> QED BY <3>7, <3>8
  <2>5. LET i == orders[o].item
            left == Market!UnitsLeft(o)
        IN  items'[i].qty = left /\ items'[i].status = Market!StatusForStock(left)
    BY <2>2, <2>3, <2>4 DEF TypeOK, Market!Complete
  <2> QED BY <2>2, <2>5, MarketAssumption DEF SellsOut, Market!UnitsLeft, Market!StatusForStock
<1>2. Coherent /\ [Next]_vars =>
         [\A o \in OrderId :
            Pending(o) /\ orders'[o].status = "COMPLETED" => SellsOut(o)]_<<items, orders>>
  BY <1>1
<1> QED BY <1>2, LegacyCoherent, PTL DEF LegacySpec, OversizedOrderSellsOut, SellsOut
=============================================================================

----------------------------- MODULE ChatProofs -----------------------------
(***************************************************************************)
(* Proofs about conversations.                                             *)
(*                                                                         *)
(* Whoever a request is about, one of the two sells the item (Talks), so   *)
(* that no message and no room is anybody else's; a room's sockets belong  *)
(* to its two parties, so that an event for the room is one for them; and  *)
(* every read message is with exactly one receipt (Receipts).              *)
(***************************************************************************)
EXTENDS Chat, FiniteSetTheorems, TLAPS

(* Whom a request is about *)

LEMMA Resolves == ASSUME NEW n \in Name PROVE resolve(n) \in Person
<1>1. CASE \E p \in Person : n = encode(p)
  BY <1>1 DEF resolve
<1>2. CASE ~ \E p \in Person : n = encode(p)
  BY <1>2 DEF resolve, Name
<1> QED BY <1>1, <1>2

\* One party of a conversation is the seller.
LEMMA OneSells ==
    ASSUME NEW u \in Employee, NEW p, NEW q \in resolveConversation(u, p)
    PROVE  q # u /\ Seller \in {u, q} /\ (p \in Person \cup {None} => q \in Person)
<1>1. Seller \in Person
  BY DEF Person, Employee
<1>2. CASE u = Seller
  BY <1>2 DEF resolveConversation
<1>3. CASE u # Seller
  BY <1>1, <1>3 DEF resolveConversation
<1> QED BY <1>2, <1>3

LEMMA PeersAre ==
    ASSUME NEW u \in Employee, NEW q \in Peers[u]
    PROVE  q \in Person /\ q # u /\ Seller \in {u, q}
<1>1. PICK p \in UNION {peerOf(v, w) : v, w \in Name \cup {None}} : q \in resolveConversation(u, p)
  BY DEF Peers
<1>2. PICK v \in Name \cup {None}, w \in Name \cup {None} : p \in peerOf(v, w)
  BY <1>1
<1> DEFINE given == {resolve(n) : n \in {v, w} \ {None}}
<1>3. given \subseteq Person
  BY <1>2, Resolves
<1>4. peerOf(v, w) \in {{None}, given, {}}
  <2> HIDE DEF given
  <2>1. peerOf(v, w) = CASE given = {} -> {None}
                          [] Cardinality(given) = 1 -> given
                          [] OTHER -> {}
    BY DEF peerOf, given
  <2> QED BY <2>1
<1>5. p \in Person \cup {None}
  BY <1>2, <1>3, <1>4
<1> QED BY <1>1, <1>5, OneSells

LEMMA ReceiversAre ==
    ASSUME NEW u \in Employee, NEW q \in Receivers[u]
    PROVE  q \in Employee /\ q # u /\ Seller \in {u, q}
<1> DEFINE Named == {n \in Name : resolve(n) # u}
<1>1. Receivers[u] = Employee \cap UNION {resolveConversation(u, resolve(n)) : n \in Named}
  BY DEF Receivers
<1>2. PICK n \in Named : q \in resolveConversation(u, resolve(n))
  BY <1>1
<1> QED BY <1>1, <1>2, OneSells
-----------------------------------------------------------------------------
(* The invariant *)

\* What a handler is about: the seller and another, on behalf of the socket's owner.
Talks ==
    \A r \in Req : pc[r] # "idle" =>
        /\ job[r].me \in Employee /\ job[r].peer \in Person
        /\ job[r].me # job[r].peer
        /\ Seller \in {job[r].me, job[r].peer}
        /\ pc[r] = "store" => job[r].peer \in Employee
        /\ job[r].socket # None => owner[job[r].socket] = job[r].me

Reporting(r, m) == pc[r] = "report" /\ m \in job[r].about

\* A read message is in one handler's receipt or counted already, an unread one in none.
Receipts ==
    \A m \in Msg :
        /\ reported[m] \in {0, 1}
        /\ reported[m] = 1 \/ (\E r \in Req : Reporting(r, m)) =>
              messages[m] # None /\ messages[m].read
        /\ \A r \in Req : Reporting(r, m) =>
              reported[m] = 0 /\ \A q \in Req \ {r} : ~Reporting(q, m)

ChatInv == TypeOK /\ ConversationsHaveSeller /\ Talks /\ Receipts /\ ReadIsReported

LEMMA StateIs ==
    ASSUME TypeOK
    PROVE  /\ owner = [s \in Socket |-> owner[s]]
           /\ rooms = [s \in Socket |-> rooms[s]]
           /\ pc = [r \in Req |-> pc[r]]
           /\ messages = [m \in Msg |-> messages[m]]
           /\ job = [r \in Req |-> job[r]]
           /\ \A r \in Req : job[r] \in Job
           /\ \A r \in Req : job[r] = [socket |-> job[r].socket, me |-> job[r].me,
                 peer |-> job[r].peer, joining |-> job[r].joining, about |-> job[r].about]
<1>1. /\ owner = [s \in Socket |-> owner[s]]
      /\ rooms = [s \in Socket |-> rooms[s]]
      /\ pc = [r \in Req |-> pc[r]]
  BY DEF TypeOK
<1>2. messages = [m \in Msg |-> messages[m]]
  BY DEF TypeOK
<1>3. job = [r \in Req |-> job[r]] /\ \A r \in Req : job[r] \in Job
  BY DEF TypeOK
<1>4. \A r \in Req : job[r] = [socket |-> job[r].socket, me |-> job[r].me,
                 peer |-> job[r].peer, joining |-> job[r].joining, about |-> job[r].about]
  BY <1>3 DEF Job
<1> QED BY <1>1, <1>2, <1>3, <1>4

LEMMA NoJobIs == NoJob \in Job
  BY DEF NoJob, Job

LEMMA ChatStarts == Init => ChatInv
  BY NoJobIs DEF Init, ChatInv, TypeOK, ConversationsHaveSeller, Talks, Receipts, Reporting,
                 ReadIsReported

\* A socket that comes or goes is in no room, and no handler knows it afterwards.
LEMMA SocketKeeps ==
    ASSUME ChatInv, NEW s \in Socket,
           Disconnect(s) \/ \E u \in Employee : Connect(s, u)
    PROVE  ChatInv'
<1> USE StateIs DEF ChatInv
<1>1. CASE Disconnect(s)
  <2>1. /\ owner' = [x \in Socket |-> IF x = s THEN None ELSE owner[x]]
        /\ rooms' = [x \in Socket |-> IF x = s THEN {} ELSE rooms[x]]
        /\ UNCHANGED <<messages, pc, reported, lost>> /\ event' = None
        /\ job' = [r \in Req |-> IF job[r].socket = s THEN [job[r] EXCEPT !.socket = None]
                                                     ELSE job[r]]
    BY <1>1 DEF Disconnect, ghosts
  <2>2. \A r \in Req : /\ job'[r] \in Job
                       /\ job'[r].me = job[r].me /\ job'[r].peer = job[r].peer
                       /\ job'[r].about = job[r].about
                       /\ job'[r].socket \in {job[r].socket, None} \ {s}
    BY <2>1, ChatAssumption DEF Job
  <2>3. \A x \in Socket : \A R \in rooms'[x] : R \in rooms[x] /\ x # s
    BY <2>1
  <2>4. TypeOK'
    BY <2>1, <2>2, <2>3 DEF TypeOK
  <2>5. ConversationsHaveSeller'
    BY <2>1, <2>3 DEF ConversationsHaveSeller
  <2>6. Talks'
    BY <2>1, <2>2, ChatAssumption DEF Talks, Job
  <2>7. Receipts' /\ ReadIsReported'
    BY <2>1, <2>2 DEF Receipts, Reporting, ReadIsReported
  <2> QED BY <2>4, <2>5, <2>6, <2>7
<1>2. ASSUME NEW u \in Employee, Connect(s, u)
      PROVE  ChatInv'
  <2>1. /\ owner' = [x \in Socket |-> IF x = s THEN u ELSE owner[x]]
        /\ UNCHANGED <<rooms, messages, pc, job, reported, lost>> /\ event' = None
        /\ owner[s] = None
    BY <1>2 DEF Connect, ghosts
  <2>2. rooms[s] = {}
    BY <2>1, ChatAssumption DEF TypeOK
  <2>3. TypeOK'
    BY <2>1, <2>2 DEF TypeOK
  <2>4. ConversationsHaveSeller'
    BY <2>1 DEF ConversationsHaveSeller
  <2>5. Talks'
    BY <2>1, ChatAssumption DEF Talks, Job, Person
  <2>6. Receipts' /\ ReadIsReported'
    BY <2>1 DEF Receipts, Reporting, ReadIsReported
  <2> QED BY <2>3, <2>4, <2>5, <2>6
<1> QED BY <1>1, <1>2

\* A request that begins is about the seller and another.
LEMMA StartKeeps ==
    ASSUME ChatInv, NEW r \in Req, NEW s \in Socket \cup {None}, NEW u \in Employee,
           NEW p \in Person, NEW where \in {"store", "join", "leave", "mark"},
           NEW joining \in BOOLEAN,
           p # u, Seller \in {u, p}, where = "store" => p \in Employee, s # None => owner[s] = u,
           Start(r, s, u, p, where, joining)
    PROVE  ChatInv'
<1> USE StateIs DEF ChatInv
<1> DEFINE j == [socket |-> s, me |-> u, peer |-> p, joining |-> joining, about |-> {}]
<1>1. /\ UNCHANGED <<owner, rooms, messages, reported, lost>> /\ event' = None
      /\ pc[r] = "idle"
      /\ pc' = [q \in Req |-> IF q = r THEN where ELSE pc[q]]
      /\ job' = [q \in Req |-> IF q = r THEN j ELSE job[q]]
  BY DEF Start, ghosts
<1>2. j \in Job /\ j.socket = s /\ j.me = u /\ j.peer = p /\ j.about = {}
  BY DEF Job
<1> HIDE DEF j
<1>3. TypeOK'
  BY <1>1, <1>2 DEF TypeOK
<1>4. ConversationsHaveSeller'
  BY <1>1 DEF ConversationsHaveSeller
<1>5. Talks'
  BY <1>1, <1>2 DEF Talks
<1>6. Receipts'
  BY <1>1, <1>2 DEF Receipts, Reporting
<1>7. ReadIsReported'
  BY <1>1, <1>2 DEF ReadIsReported
<1> QED BY <1>3, <1>4, <1>5, <1>6, <1>7

LEMMA RequestKeeps ==
    ASSUME ChatInv, NEW r \in Req,
           SendMessage(r) \/ JoinChat(r) \/ LeaveChat(r) \/ MarkRead(r)
    PROVE  ChatInv'
<1>1. \A s \in Socket : owner[s] # None => owner[s] \in Employee
  BY DEF ChatInv, TypeOK
<1>2. CASE SendMessage(r)
  <2>1. PICK s \in Socket :
           owner[s] # None /\ \E p \in Receivers[owner[s]] : Start(r, s, owner[s], p, "store", FALSE)
    BY <1>2 DEF SendMessage, BySocket
  <2>2. PICK p \in Receivers[owner[s]] : Start(r, s, owner[s], p, "store", FALSE)
    BY <2>1
  <2>3. p \in Employee /\ p # owner[s] /\ Seller \in {owner[s], p}
    BY <1>1, <2>1, <2>2, ReceiversAre
  <2> QED BY <1>1, <2>1, <2>2, <2>3, StartKeeps DEF Person
<1>3. CASE JoinChat(r)
  <2>1. PICK s \in Socket :
           owner[s] # None /\ \E p \in Peers[owner[s]] : Start(r, s, owner[s], p, "join", TRUE)
    BY <1>3 DEF JoinChat, BySocket
  <2>2. PICK p \in Peers[owner[s]] : Start(r, s, owner[s], p, "join", TRUE)
    BY <2>1
  <2>3. p \in Person /\ p # owner[s] /\ Seller \in {owner[s], p}
    BY <1>1, <2>1, <2>2, PeersAre
  <2> QED BY <1>1, <2>1, <2>2, <2>3, StartKeeps
<1>4. CASE LeaveChat(r)
  <2>1. PICK s \in Socket :
           owner[s] # None /\ \E p \in Peers[owner[s]] : Start(r, s, owner[s], p, "leave", FALSE)
    BY <1>4 DEF LeaveChat, BySocket
  <2>2. PICK p \in Peers[owner[s]] : Start(r, s, owner[s], p, "leave", FALSE)
    BY <2>1
  <2>3. p \in Person /\ p # owner[s] /\ Seller \in {owner[s], p}
    BY <1>1, <2>1, <2>2, PeersAre
  <2> QED BY <1>1, <2>1, <2>2, <2>3, StartKeeps
<1>5. CASE MarkRead(r)
  <2>1. PICK u \in Employee : \E p \in Peers[u] : Start(r, None, u, p, "mark", FALSE)
    BY <1>5 DEF MarkRead
  <2>2. PICK p \in Peers[u] : Start(r, None, u, p, "mark", FALSE)
    BY <2>1
  <2>3. p \in Person /\ p # u /\ Seller \in {u, p}
    BY <2>2, PeersAre
  <2> QED BY <2>2, <2>3, StartKeeps
<1> QED BY <1>2, <1>3, <1>4, <1>5

LEMMA FinishIs ==
    ASSUME TypeOK, NEW r \in Req, Finish(r)
    PROVE  /\ pc' = [q \in Req |-> IF q = r THEN "idle" ELSE pc[q]]
           /\ job' = [q \in Req |-> IF q = r THEN NoJob ELSE job[q]]
  BY StateIs DEF Finish

LEMMA GotoIs ==
    ASSUME TypeOK, NEW r \in Req, NEW where, NEW about \in SUBSET Msg, Goto(r, where, about)
    PROVE  /\ pc' = [q \in Req |-> IF q = r THEN where ELSE pc[q]]
           /\ job' = [q \in Req |-> IF q = r THEN [job[r] EXCEPT !.about = about] ELSE job[q]]
           /\ job'[r] \in Job
           /\ job'[r].me = job[r].me /\ job'[r].peer = job[r].peer
           /\ job'[r].socket = job[r].socket /\ job'[r].about = about
<1>1. /\ pc' = [q \in Req |-> IF q = r THEN where ELSE pc[q]]
      /\ job' = [q \in Req |-> IF q = r THEN [job[r] EXCEPT !.about = about] ELSE job[q]]
  BY StateIs DEF Goto
<1>2. job[r] \in Job
  BY StateIs
<1> QED BY <1>1, <1>2 DEF Job

\* A new message is unread and its two parties are the handler's.
LEMMA StoreKeeps ==
    ASSUME ChatInv, NEW r \in Req, Store(r) \/ StoreBound(r)
    PROVE  ChatInv'
<1> USE DEF ChatInv
<1>1. ASSUME NEW m \in Msg, messages[m] = None, pc[r] = "store", event' = None,
             messages' = [messages EXCEPT ![m] =
                            [from |-> job[r].me, to |-> job[r].peer, read |-> FALSE]],
             Goto(r, "announce", {m}), UNCHANGED <<owner, rooms, ghosts>>
      PROVE  ChatInv'
  <2> DEFINE new == [from |-> job[r].me, to |-> job[r].peer, read |-> FALSE]
  <2>1. messages' = [n \in Msg |-> IF n = m THEN new ELSE messages[n]]
    BY <1>1, StateIs
  <2>2. /\ job[r].me \in Employee /\ job[r].peer \in Employee
        /\ Seller \in {job[r].me, job[r].peer}
    BY <1>1 DEF Talks
  <2>3. /\ new \in Message
        /\ ~new.read /\ Seller \in {new.from, new.to}
    BY <2>2 DEF Message
  <2> HIDE DEF new
  <2>4. /\ pc' = [q \in Req |-> IF q = r THEN "announce" ELSE pc[q]]
        /\ job' = [q \in Req |-> IF q = r THEN [job[r] EXCEPT !.about = {m}] ELSE job[q]]
        /\ job'[r] \in Job
        /\ job'[r].me = job[r].me /\ job'[r].peer = job[r].peer
        /\ job'[r].socket = job[r].socket /\ job'[r].about = {m}
    BY <1>1, GotoIs
  <2>5. UNCHANGED <<owner, rooms, reported, lost>>
    BY <1>1 DEF ghosts
  <2>6. TypeOK'
    <3>1. \A q \in Req : job'[q] \in Job
      BY <2>4, StateIs
    <3>2. messages' \in [Msg -> Message \cup {None}]
      BY <2>1, <2>3 DEF TypeOK
    <3>3. job' \in [Req -> Job]
      BY <2>4, <3>1
    <3>4. pc' \in [Req -> {"idle", "store", "announce", "join", "leave", "mark", "report"}]
      BY <2>4 DEF TypeOK
    <3> QED BY <1>1, <2>5, <3>2, <3>3, <3>4 DEF TypeOK
  <2>7. ConversationsHaveSeller'
    BY <2>1, <2>3, <2>5 DEF ConversationsHaveSeller
  <2>8. Talks'
    BY <1>1, <2>4, <2>5 DEF Talks
  <2>9. Receipts'
    BY <1>1, <2>1, <2>3, <2>4, <2>5 DEF Receipts, Reporting
  <2>10. ReadIsReported'
    BY <1>1, <2>1, <2>3, <2>4, <2>5 DEF ReadIsReported
  <2> QED BY <2>6, <2>7, <2>8, <2>9, <2>10
<1>2. CASE StoreBound(r)
  <2>1. /\ UNCHANGED <<owner, rooms, messages, reported, lost>> /\ event' = None
        /\ pc[r] = "store"
        /\ pc' = [q \in Req |-> IF q = r THEN "idle" ELSE pc[q]]
        /\ job' = [q \in Req |-> IF q = r THEN NoJob ELSE job[q]]
    BY <1>2, FinishIs DEF StoreBound, ghosts
  <2>2. TypeOK'
    BY <2>1, NoJobIs DEF TypeOK
  <2>3. ConversationsHaveSeller' /\ Talks' /\ Receipts' /\ ReadIsReported'
    BY <2>1 DEF ConversationsHaveSeller, Talks, Receipts, Reporting, ReadIsReported
  <2> QED BY <2>2, <2>3
<1> QED BY <1>1, <1>2 DEF Store

LEMMA AnnounceKeeps ==
    ASSUME ChatInv, NEW r \in Req, Announce(r)
    PROVE  ChatInv'
<1> USE DEF ChatInv
<1>1. /\ UNCHANGED <<owner, rooms, messages, reported, lost>>
      /\ pc[r] = "announce"
      /\ pc' = [q \in Req |-> IF q = r THEN "idle" ELSE pc[q]]
      /\ job' = [q \in Req |-> IF q = r THEN NoJob ELSE job[q]]
      /\ event' = [type |-> "newMessage", by |-> job[r], to |-> Audience(job[r])]
  BY FinishIs DEF Announce, ghosts
<1>2. Audience(job[r]) \subseteq Socket /\ job[r] \in Job
  BY StateIs DEF Audience, Room, UserRoom
<1>3. TypeOK'
  BY <1>1, <1>2, NoJobIs DEF TypeOK
<1>4. ConversationsHaveSeller' /\ Talks' /\ Receipts' /\ ReadIsReported'
  BY <1>1 DEF ConversationsHaveSeller, Talks, Receipts, Reporting, ReadIsReported
<1> QED BY <1>3, <1>4

LEMMA RoomOfTwo ==
    ASSUME NEW a, NEW b, a # b
    PROVE  Cardinality(conversationRoom(a, b)) = 2
<1>1. {a} \cup {b} = {a, b} /\ b \notin {a}
  OBVIOUS
<1>2. IsFiniteSet({a}) /\ Cardinality({a}) = 1
  BY FS_Singleton
<1> QED BY <1>1, <1>2, FS_AddElement DEF conversationRoom

\* A socket joins a room that its owner is in.
LEMMA MoveKeeps ==
    ASSUME ChatInv, NEW r \in Req, Join(r) \/ Leave(r)
    PROVE  ChatInv'
<1> USE DEF ChatInv
<1> DEFINE R == conversationRoom(job[r].me, job[r].peer)
<1>1. /\ job[r].me \in Employee /\ job[r].peer \in Person /\ job[r].me # job[r].peer
      /\ Seller \in {job[r].me, job[r].peer}
      /\ job[r].socket # None => owner[job[r].socket] = job[r].me
  BY DEF Join, Leave, Talks
<1>2. Cardinality(R) = 2 /\ Seller \in R /\ job[r].me \in R /\ R \subseteq Person
  BY <1>1, RoomOfTwo DEF conversationRoom, Person
<1> HIDE DEF R
<1>3. /\ UNCHANGED <<owner, messages, reported, lost>> /\ event' = None
      /\ rooms' = [s \in Socket |->
                     IF s = job[r].socket
                     THEN IF pc[r] = "join" THEN rooms[s] \cup {R} ELSE rooms[s] \ {R}
                     ELSE rooms[s]]
  BY DEF Join, Leave, MoveSocket, ghosts, R
<1>4. /\ pc[r] \in {"join", "leave"}
      /\ pc' = [q \in Req |-> IF q = r THEN IF pc[r] = "join" THEN "mark" ELSE "idle" ELSE pc[q]]
      /\ \A q \in Req \ {r} : job'[q] = job[q]
      /\ job' = [q \in Req |-> job'[q]]
      /\ job'[r] \in Job
      /\ pc[r] = "join" => job'[r].me = job[r].me /\ job'[r].peer = job[r].peer
                           /\ job'[r].socket = job[r].socket
  <2>1. CASE Join(r)
    BY <2>1, GotoIs DEF Join
  <2>2. CASE Leave(r)
    BY <2>2, FinishIs, NoJobIs DEF Leave
  <2> QED BY <2>1, <2>2
<1>5. TypeOK'
  <2>1. rooms' \in [Socket -> SUBSET SUBSET Person]
    BY <1>2, <1>3 DEF TypeOK
  <2>2. \A s \in Socket : \A Q \in rooms'[s] : Cardinality(Q) = 2 /\ owner'[s] \in Q
    BY <1>1, <1>2, <1>3, ChatAssumption DEF TypeOK
  <2>3. \A q \in Req : job'[q] \in Job
    BY <1>4, StateIs
  <2>4. job' \in [Req -> Job]
    BY <1>4, <2>3
  <2>5. pc' \in [Req -> {"idle", "store", "announce", "join", "leave", "mark", "report"}]
    BY <1>4 DEF TypeOK
  <2> QED BY <1>3, <2>1, <2>2, <2>4, <2>5 DEF TypeOK
<1>6. ConversationsHaveSeller'
  BY <1>2, <1>3 DEF ConversationsHaveSeller
<1>7. Talks'
  BY <1>1, <1>3, <1>4 DEF Talks
<1>8. Receipts' /\ ReadIsReported'
  BY <1>3, <1>4 DEF Receipts, Reporting, ReadIsReported
<1> QED BY <1>5, <1>6, <1>7, <1>8

\* What is not worth reporting is nothing.
LEMMA NothingUnread ==
    ASSUME NEW M \in SUBSET Msg, ~WorthReporting(M)
    PROVE  M = {}
<1>1. IsFiniteSet(M)
  BY FS_Subset, ChatAssumption
<1>2. Cardinality(M) \in Nat /\ (Cardinality(M) = 0 <=> M = {})
  BY <1>1, FS_CardinalityType, FS_EmptySet
<1> QED BY <1>2 DEF WorthReporting

\* Only unread messages are marked, and nobody has reported these.
LEMMA MarkKeeps ==
    ASSUME ChatInv, NEW r \in Req, Mark(r)
    PROVE  ChatInv'
<1> USE DEF ChatInv
<1> DEFINE M == Unread(job[r])
<1>1. /\ M \subseteq Msg
      /\ \A m \in M : messages[m] # None /\ ~messages[m].read
  BY DEF Unread
<1>2. /\ pc[r] = "mark" /\ event' = None
      /\ UNCHANGED <<owner, rooms, reported, lost>>
      /\ messages' = [m \in Msg |-> IF m \in M THEN [messages[m] EXCEPT !.read = TRUE]
                                    ELSE messages[m]]
      /\ IF WorthReporting(M) THEN Goto(r, "report", M) ELSE Finish(r)
  BY DEF Mark, ghosts
<1> HIDE DEF M
<1>3. /\ pc' = [q \in Req |-> IF q = r THEN pc'[r] ELSE pc[q]]
      /\ \A q \in Req \ {r} : job'[q] = job[q]
      /\ job' \in [Req -> Job]
      /\ \/ /\ pc'[r] = "report" /\ job'[r].about = M
            /\ job'[r].me = job[r].me /\ job'[r].peer = job[r].peer
            /\ job'[r].socket = job[r].socket
         \/ pc'[r] = "idle" /\ M = {}
  <2>1. CASE WorthReporting(M)
    <3>1. /\ pc' = [q \in Req |-> IF q = r THEN "report" ELSE pc[q]]
          /\ job' = [q \in Req |-> IF q = r THEN [job[r] EXCEPT !.about = M] ELSE job[q]]
          /\ job'[r] \in Job
          /\ job'[r].me = job[r].me /\ job'[r].peer = job[r].peer
          /\ job'[r].socket = job[r].socket /\ job'[r].about = M
      BY <1>1, <1>2, <2>1, GotoIs
    <3>2. \A q \in Req : job'[q] \in Job
      BY <3>1, StateIs
    <3> QED BY <3>1, <3>2
  <2>2. CASE ~WorthReporting(M)
    <3>1. /\ pc' = [q \in Req |-> IF q = r THEN "idle" ELSE pc[q]]
          /\ job' = [q \in Req |-> IF q = r THEN NoJob ELSE job[q]]
      BY <1>2, <2>2, FinishIs
    <3>2. \A q \in Req : job'[q] \in Job
      BY <3>1, StateIs, NoJobIs
    <3> QED BY <1>1, <2>2, <3>1, <3>2, NothingUnread
  <2> QED BY <2>1, <2>2
<1>4. \A m \in Msg :
         /\ m \notin M => messages'[m] = messages[m]
         /\ m \in M => /\ messages'[m] \in Message
                       /\ messages'[m].from = messages[m].from /\ messages'[m].to = messages[m].to
                       /\ messages'[m].read /\ messages'[m] # None
  <2> SUFFICES ASSUME NEW m \in Msg, m \in M
               PROVE  /\ messages'[m] \in Message
                      /\ messages'[m].from = messages[m].from /\ messages'[m].to = messages[m].to
                      /\ messages'[m].read /\ messages'[m] # None
    BY <1>2
  <2>1. messages[m] \in Message
    BY <1>1 DEF TypeOK
  <2>2. messages'[m] = [messages[m] EXCEPT !.read = TRUE]
    BY <1>2
  <2> QED BY <2>1, <2>2, ChatAssumption DEF Message
<1>5. TypeOK'
  <2>1. messages' \in [Msg -> Message \cup {None}]
    BY <1>2, <1>4 DEF TypeOK
  <2>2. pc' \in [Req -> {"idle", "store", "announce", "join", "leave", "mark", "report"}]
    BY <1>3 DEF TypeOK
  <2> QED BY <1>2, <1>3, <2>1, <2>2 DEF TypeOK
<1>6. ConversationsHaveSeller'
  BY <1>1, <1>2, <1>4 DEF ConversationsHaveSeller
<1>7. Talks'
  BY <1>2, <1>3 DEF Talks
<1>8. Receipts'
  <2> SUFFICES ASSUME NEW m \in Msg
               PROVE  /\ reported[m] \in {0, 1}
                      /\ reported[m] = 1 \/ (\E q \in Req : Reporting(q, m)') =>
                            messages'[m] # None /\ messages'[m].read
                      /\ \A q \in Req : Reporting(q, m)' =>
                            reported[m] = 0 /\ \A p \in Req \ {q} : ~Reporting(p, m)'
    BY <1>2 DEF Receipts
  <2>1. \A q \in Req \ {r} : Reporting(q, m)' <=> Reporting(q, m)
    BY <1>3 DEF Reporting
  <2>2. Reporting(r, m)' <=> m \in M
    BY <1>3 DEF Reporting
  <2>3. ~Reporting(r, m)
    BY <1>2 DEF Reporting
  <2>4. m \in M => reported[m] = 0 /\ \A q \in Req : ~Reporting(q, m)
    BY <1>1 DEF Receipts
  <2> QED BY <1>4, <2>1, <2>2, <2>3, <2>4 DEF Receipts
<1>9. ReadIsReported'
  <2> SUFFICES ASSUME NEW m \in Msg, messages'[m] # None, messages'[m].read
               PROVE  \/ reported[m] > 0 \/ m \in lost
                      \/ \E q \in Req : pc'[q] = "report" /\ m \in job'[q].about
    BY <1>2 DEF ReadIsReported
  <2>1. CASE m \in M
    BY <1>3, <2>1
  <2>2. CASE m \notin M
    <3>1. messages[m] # None /\ messages[m].read
      BY <1>4, <2>2
    <3> QED BY <1>2, <1>3, <3>1 DEF ReadIsReported
  <2> QED BY <2>1, <2>2
<1> QED BY <1>5, <1>6, <1>7, <1>8, <1>9

LEMMA ReportKeeps ==
    ASSUME ChatInv, NEW r \in Req, Report(r)
    PROVE  ChatInv'
<1> USE DEF ChatInv
<1>1. /\ UNCHANGED <<owner, rooms, messages, lost>>
      /\ pc[r] = "report"
      /\ pc' = [q \in Req |-> IF q = r THEN "idle" ELSE pc[q]]
      /\ job' = [q \in Req |-> IF q = r THEN NoJob ELSE job[q]]
      /\ reported' = [m \in Msg |-> IF m \in job[r].about THEN reported[m] + 1 ELSE reported[m]]
      /\ event' = [type |-> "messagesRead", by |-> job[r], to |-> ReceiptAudience(job[r])]
  BY FinishIs DEF Report
<1>2. ReceiptAudience(job[r]) \subseteq Socket /\ job[r] \in Job
  BY StateIs DEF ReceiptAudience, Room, UserRoom
<1>3. \A m \in Msg : reported'[m] = IF Reporting(r, m) THEN 1 ELSE reported[m]
  BY <1>1 DEF Receipts, Reporting
<1>4. TypeOK'
  <2>1. reported' \in [Msg -> Nat]
    BY <1>1 DEF TypeOK
  <2>2. event' \in [type : {"newMessage", "messagesRead"}, by : Job, to : SUBSET Socket]
    BY <1>1, <1>2
  <2> QED BY <1>1, <2>1, <2>2, NoJobIs DEF TypeOK
<1>5. ConversationsHaveSeller' /\ Talks'
  BY <1>1 DEF ConversationsHaveSeller, Talks
<1>6. \A m \in Msg : /\ ~Reporting(r, m)'
                     /\ \A q \in Req \ {r} : Reporting(q, m)' <=> Reporting(q, m)
  BY <1>1 DEF Reporting
<1>7. Receipts'
  BY <1>1, <1>3, <1>6 DEF Receipts
<1>8. ReadIsReported'
  BY <1>1, <1>3 DEF ReadIsReported, Reporting
<1> QED BY <1>4, <1>5, <1>7, <1>8

LEMMA FailKeeps ==
    ASSUME ChatInv, NEW r \in Req, Fail(r)
    PROVE  ChatInv'
<1> USE DEF ChatInv
<1>1. /\ UNCHANGED <<owner, rooms, messages, reported>> /\ event' = None
      /\ pc' = [q \in Req |-> IF q = r THEN "idle" ELSE pc[q]]
      /\ job' = [q \in Req |-> IF q = r THEN NoJob ELSE job[q]]
      /\ lost' = IF pc[r] = "report" THEN lost \cup job[r].about ELSE lost
  BY FinishIs DEF Fail
<1>2. TypeOK'
  <2>1. job[r].about \subseteq Msg
    BY StateIs DEF Job
  <2> QED BY <1>1, <2>1, NoJobIs DEF TypeOK
<1>3. ConversationsHaveSeller' /\ Talks' /\ Receipts' /\ ReadIsReported'
  BY <1>1 DEF ConversationsHaveSeller, Talks, Receipts, Reporting, ReadIsReported
<1> QED BY <1>2, <1>3

LEMMA CrashKeeps == ASSUME ChatInv, Crash PROVE ChatInv'
<1> USE DEF ChatInv
<1>1. TypeOK'
  <2>1. \A r \in Req : job[r].about \subseteq Msg
    BY StateIs DEF Job
  <2> QED BY <2>1, NoJobIs DEF Crash, TypeOK
<1>2. ConversationsHaveSeller' /\ Talks' /\ Receipts'
  BY DEF Crash, ConversationsHaveSeller, Talks, Receipts, Reporting
<1>3. ReadIsReported'
  BY DEF Crash, ReadIsReported
<1> QED BY <1>1, <1>2, <1>3

LEMMA ChatKept == ChatInv /\ [Next]_vars => ChatInv'
<1> SUFFICES ASSUME ChatInv, [Next]_vars PROVE ChatInv'
  OBVIOUS
<1>1. CASE \E s \in Socket : Disconnect(s) \/ \E u \in Employee : Connect(s, u)
  BY <1>1, SocketKeeps
<1>2. ASSUME NEW r \in Req,
             \/ SendMessage(r) \/ JoinChat(r) \/ LeaveChat(r) \/ MarkRead(r)
             \/ Store(r) \/ StoreBound(r) \/ Announce(r) \/ Join(r) \/ Leave(r)
             \/ Mark(r) \/ Report(r) \/ Fail(r)
      PROVE  ChatInv'
  BY <1>2, RequestKeeps, StoreKeeps, AnnounceKeeps, MoveKeeps, MarkKeeps, ReportKeeps, FailKeeps
<1>3. CASE Crash
  BY <1>3, CrashKeeps
<1>4. CASE UNCHANGED vars
  BY <1>4 DEF vars, ghosts, ChatInv, TypeOK, ConversationsHaveSeller, Talks, Receipts, Reporting,
              ReadIsReported
<1> QED BY <1>1, <1>2, <1>3, <1>4 DEF Next

THEOREM ChatInvariant == Spec => []ChatInv
  BY ChatStarts, ChatKept, PTL DEF Spec
-----------------------------------------------------------------------------
(* What follows *)

\* Every variable of the conversations has its type; rooms are of two and hold their owners.
THEOREM ChatTypeCorrect == Spec => []TypeOK
<1>1. ChatInv => TypeOK
  BY DEF ChatInv
<1> QED BY <1>1, ChatInvariant, PTL

\* Nobody gets into a conversation that the seller is not part of.
THEOREM EveryConversationHasSeller == Spec => []ConversationsHaveSeller
<1>1. ChatInv => ConversationsHaveSeller
  BY DEF ChatInv
<1> QED BY <1>1, ChatInvariant, PTL

\* No message is counted by two receipts.
THEOREM ReceiptsCountOnce == Spec => []CountedOnce
<1>1. ChatInv => CountedOnce
  BY DEF ChatInv, Receipts, CountedOnce
<1> QED BY <1>1, ChatInvariant, PTL

\* No read message goes without a receipt, unless its handler died.
THEOREM ReadsAreReported == Spec => []ReadIsReported
<1>1. ChatInv => ReadIsReported
  BY DEF ChatInv
<1> QED BY <1>1, ChatInvariant, PTL

LEMMA RoomHoldsParties ==
    ASSUME TypeOK, NEW a, NEW b
    PROVE  Room(a, b) \subseteq SocketsOf({a, b})
  BY DEF TypeOK, Room, SocketsOf, conversationRoom

\* The only steps that emit.
LEMMA Emitters ==
    ASSUME Next
    PROVE  \/ event' = None
           \/ \E r \in Req : Announce(r) \/ Report(r)
  BY DEF Next, Disconnect, Connect, SendMessage, JoinChat, LeaveChat, MarkRead, BySocket, Start,
         Store, StoreBound, Join, Leave, MoveSocket, Mark, Fail, Crash

\* A message reaches its parties' sockets but the one it came from, and nobody else's.
THEOREM MessagesReachParties == Spec => MessageReachesParties
<1>1. TypeOK /\ [Next]_vars =>
        [Emits("newMessage")' =>
           event'.to = SocketsOf({event'.by.me, event'.by.peer}) \ {event'.by.socket}]_vars
  <2> SUFFICES ASSUME TypeOK, Next, Emits("newMessage")'
               PROVE  event'.to = SocketsOf({event'.by.me, event'.by.peer}) \ {event'.by.socket}
    OBVIOUS
  <2>1. PICK r \in Req : Announce(r)
    BY Emitters DEF Emits, Report
  <2> QED BY <2>1, RoomHoldsParties DEF Announce, Audience, UserRoom, SocketsOf
<1> QED BY <1>1, ChatTypeCorrect, PTL DEF Spec, MessageReachesParties

\* A receipt reaches the sender's sockets, and nobody's who is not a party.
THEOREM ReceiptsReachSenders == Spec => ReceiptReachesSender
<1>1. TypeOK /\ [Next]_vars =>
        [Emits("messagesRead")' =>
           /\ SocketsOf({event'.by.peer}) \subseteq event'.to
           /\ event'.to \subseteq SocketsOf({event'.by.me, event'.by.peer})]_vars
  <2> SUFFICES ASSUME TypeOK, Next, Emits("messagesRead")'
               PROVE  /\ SocketsOf({event'.by.peer}) \subseteq event'.to
                      /\ event'.to \subseteq SocketsOf({event'.by.me, event'.by.peer})
    OBVIOUS
  <2>1. PICK r \in Req : Report(r)
    BY Emitters DEF Emits, Announce
  <2> QED BY <2>1, RoomHoldsParties DEF Report, ReceiptAudience, UserRoom, SocketsOf
<1> QED BY <1>1, ChatTypeCorrect, PTL DEF Spec, ReceiptReachesSender
=============================================================================

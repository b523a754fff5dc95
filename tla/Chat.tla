-------------------------------- MODULE Chat --------------------------------
(***************************************************************************)
(* The conversations about one item (chats.gateway.ts, chats.service.ts):  *)
(* sockets and the rooms they are in, messages and their is_read, and the  *)
(* events sent to the sockets.  A handler stores or marks messages first   *)
(* and emits when the database has answered; sockets come and go and other *)
(* handlers run meanwhile.                                                 *)
(*                                                                         *)
(* A request names its peer by employee id or by the encrypted peer token  *)
(* that stands for it (peer-token.service.ts), in one field or in two.     *)
(* Requests that are refused change nothing and are left out.              *)
(***************************************************************************)
EXTENDS Naturals, FiniteSets

CONSTANTS
    Seller,    \* who sells the item
    Buyer,     \* the other employees
    Stranger,  \* ids no employee has
    Socket,    \* connections that may be open at a time
    Msg,       \* ids the sequence may hand out
    Req,       \* handlers that may be running at a time
    None       \* nobody, nothing

Employee == Buyer \cup {Seller}
Person == Employee \cup Stranger
Message == [from : Employee, to : Employee, read : BOOLEAN]

ASSUME ChatAssumption ==
    /\ Seller \notin Buyer
    /\ Stranger \cap Employee = {}
    /\ None \notin Person \cup Socket \cup Message
    /\ IsFiniteSet(Employee)
    /\ IsFiniteSet(Msg)

VARIABLES
    owner,     \* who every socket belongs to, None when it is closed
    rooms,     \* the conversations every socket has joined
    messages,  \* the stored messages, None for an id that is free
    pc,        \* where each handler is
    job,       \* what each handler is about
    event,     \* what this step emits and to which sockets, None if nothing
    reported,  \* ghost: how many receipts counted each message
    lost       \* ghost: messages whose receipt died with its handler

ghosts == <<reported, lost>>
vars == <<owner, rooms, messages, pc, job, event, ghosts>>

NoJob == [socket |-> None, me |-> None, peer |-> None, joining |-> FALSE, about |-> {}]

\* Faulty variant: a room for everybody who talks about the item.
RoomPerItem(a, b) == Person

\* The room's name has both parties, sorted.
conversationRoom(a, b) == {a, b}

UserRoom(u) == {s \in Socket : owner[s] = u}
Room(a, b) == {s \in Socket : conversationRoom(a, b) \in rooms[s]}

Init ==
    /\ owner = [s \in Socket |-> None]
    /\ rooms = [s \in Socket |-> {}]
    /\ messages = [m \in Msg |-> None]
    /\ pc = [r \in Req |-> "idle"]
    /\ job = [r \in Req |-> NoJob]
    /\ event = None
    /\ reported = [m \in Msg |-> 0]
    /\ lost = {}
-----------------------------------------------------------------------------
(* Whom a request is about.  What is refused yields no one. *)

\* PeerTokenService: a token for every id, from which only the service gets the id back.
encode(p) == <<"token", p>>
Name == Person \cup {encode(p) : p \in Person}
resolve(name) ==
    IF \E p \in Person : name = encode(p) THEN CHOOSE p \in Person : name = encode(p) ELSE name

\* withUserId and its alias peerId: one of them, or both if they mean the same.
peerOf(withUserId, peerId) ==
    LET given == {resolve(n) : n \in {withUserId, peerId} \ {None}} IN
    CASE given = {}             -> {None}
      [] Cardinality(given) = 1 -> given
      [] OTHER                  -> {}

\* Faulty variant: buyers may name anybody.
conversationWithAnyone(me, peer) ==
    IF me = Seller THEN {peer} \ {None, Seller}
    ELSE {IF peer = None THEN Seller ELSE peer} \ {me}

\* The seller must name somebody else; a buyer talks to the seller, named or not.
resolveConversation(me, peer) ==
    IF me = Seller THEN {peer} \ {None, Seller}
    ELSE IF peer \in {None, Seller} THEN {Seller} ELSE {}

\* Whom u can join, leave and read, and whom u can send a message to.
Peers == [u \in Employee |->
    UNION {resolveConversation(u, p) :
             p \in UNION {peerOf(w, q) : w, q \in Name \cup {None}}}]
Receivers == [u \in Employee |->
    Employee \cap UNION {resolveConversation(u, resolve(n)) : n \in {m \in Name : resolve(m) # u}}]
-----------------------------------------------------------------------------
(* Sockets *)

\* The handshake has authenticated the socket; it joins its user's room.
Connect(s, u) ==
    /\ owner[s] = None
    /\ owner' = [owner EXCEPT ![s] = u]
    /\ event' = None
    /\ UNCHANGED <<rooms, messages, pc, job, ghosts>>

\* Its handlers run on, but can neither put the socket into a room nor spare it an event.
Disconnect(s) ==
    /\ owner[s] # None
    /\ owner' = [owner EXCEPT ![s] = None]
    /\ rooms' = [rooms EXCEPT ![s] = {}]
    /\ job' = [r \in Req |-> IF job[r].socket = s THEN [job[r] EXCEPT !.socket = None] ELSE job[r]]
    /\ event' = None
    /\ UNCHANGED <<messages, pc, ghosts>>
-----------------------------------------------------------------------------
(* Requests *)

Start(r, s, u, p, where, joining) ==
    /\ pc[r] = "idle"
    /\ pc' = [pc EXCEPT ![r] = where]
    /\ job' = [job EXCEPT ![r] =
                [socket |-> s, me |-> u, peer |-> p, joining |-> joining, about |-> {}]]
    /\ event' = None
    /\ UNCHANGED <<owner, rooms, messages, ghosts>>

\* What a socket sends is on behalf of the employee it belongs to.
BySocket(r, peers, where, joining) ==
    \E s \in {x \in Socket : owner[x] # None} : \E p \in peers[owner[s]] :
        Start(r, s, owner[s], p, where, joining)

SendMessage(r) == BySocket(r, Receivers, "store", FALSE)
JoinChat(r) == BySocket(r, Peers, "join", TRUE)
LeaveChat(r) == BySocket(r, Peers, "leave", FALSE)

\* By the socket event or by PATCH /chats/read.
MarkRead(r) == \E u \in Employee : \E p \in Peers[u] : Start(r, None, u, p, "mark", FALSE)

\* The handler moves on.
Goto(r, where, about) ==
    /\ pc' = [pc EXCEPT ![r] = where]
    /\ job' = [job EXCEPT ![r].about = about]

Finish(r) ==
    /\ pc' = [pc EXCEPT ![r] = "idle"]
    /\ job' = [job EXCEPT ![r] = NoJob]
-----------------------------------------------------------------------------
(* sendMessage *)

Store(r) ==
    LET j == job[r] IN
    /\ pc[r] = "store"
    /\ \E m \in Msg :
          /\ messages[m] = None
          /\ messages' = [messages EXCEPT ![m] = [from |-> j.me, to |-> j.peer, read |-> FALSE]]
          /\ Goto(r, "announce", {m})
    /\ event' = None
    /\ UNCHANGED <<owner, rooms, ghosts>>

\* Bound of the model: the ids are used up.
StoreBound(r) ==
    /\ pc[r] = "store"
    /\ \A m \in Msg : messages[m] # None
    /\ Finish(r)
    /\ event' = None
    /\ UNCHANGED <<owner, rooms, messages, ghosts>>

\* Faulty variant: who has not joined the conversation is left out.
AudienceInRoom(j) == Room(j.me, j.peer) \ {j.socket}

\* The conversation and both parties' sockets, once each; the sender has the answer.
Audience(j) ==
    (Room(j.me, j.peer) \cup UserRoom(j.peer) \cup UserRoom(j.me)) \ {j.socket}

Announce(r) ==
    /\ pc[r] = "announce"
    /\ event' = [type |-> "newMessage", by |-> job[r], to |-> Audience(job[r])]
    /\ Finish(r)
    /\ UNCHANGED <<owner, rooms, messages, ghosts>>
-----------------------------------------------------------------------------
(* joinChat, leaveChat and markRead *)

MoveSocket(r, joined) ==
    /\ rooms' = [s \in Socket |-> IF s = job[r].socket THEN joined[s] ELSE rooms[s]]
    /\ event' = None
    /\ UNCHANGED <<owner, messages, ghosts>>

Join(r) ==
    /\ pc[r] = "join"
    /\ MoveSocket(r, [s \in Socket |-> rooms[s] \cup {conversationRoom(job[r].me, job[r].peer)}])
    /\ Goto(r, "mark", {})

Leave(r) ==
    /\ pc[r] = "leave"
    /\ MoveSocket(r, [s \in Socket |-> rooms[s] \ {conversationRoom(job[r].me, job[r].peer)}])
    /\ Finish(r)

\* Faulty variant: messages that were read before are marked again.
UnreadOrNot(j) ==
    {m \in Msg : messages[m] # None /\ messages[m].from = j.peer /\ messages[m].to = j.me}

Unread(j) ==
    {m \in Msg : /\ messages[m] # None
                 /\ messages[m].from = j.peer /\ messages[m].to = j.me
                 /\ ~messages[m].read}

\* Faulty variant: one message is not worth a receipt.
WorthManyReporting(M) == Cardinality(M) > 1

\* count > 0
WorthReporting(M) == Cardinality(M) > 0

\* The UPDATE marks what is unread when its turn comes and says how many these were.
Mark(r) ==
    LET M == Unread(job[r]) IN
    /\ pc[r] = "mark"
    /\ messages' = [m \in Msg |-> IF m \in M THEN [messages[m] EXCEPT !.read = TRUE]
                                  ELSE messages[m]]
    /\ IF WorthReporting(M) THEN Goto(r, "report", M) ELSE Finish(r)
    /\ event' = None
    /\ UNCHANGED <<owner, rooms, ghosts>>

\* Faulty variant: the reader's sockets instead of the sender's.
ReceiptToReader(j) == Room(j.me, j.peer) \cup UserRoom(j.me)

\* joinChat tells the conversation and the sender, markRead the reader's other sockets too.
ReceiptAudience(j) ==
    Room(j.me, j.peer) \cup UserRoom(j.peer) \cup (IF j.joining THEN {} ELSE UserRoom(j.me))

Report(r) ==
    /\ pc[r] = "report"
    /\ event' = [type |-> "messagesRead", by |-> job[r], to |-> ReceiptAudience(job[r])]
    /\ reported' = [m \in Msg |-> IF m \in job[r].about THEN reported[m] + 1 ELSE reported[m]]
    /\ Finish(r)
    /\ UNCHANGED <<owner, rooms, messages, lost>>
-----------------------------------------------------------------------------
\* A statement fails; or, with Crash, the process dies and all connections with it.
Fail(r) ==
    /\ pc[r] # "idle"
    /\ Finish(r)
    /\ lost' = IF pc[r] = "report" THEN lost \cup job[r].about ELSE lost
    /\ event' = None
    /\ UNCHANGED <<owner, rooms, messages, reported>>

Crash ==
    /\ owner' = [s \in Socket |-> None]
    /\ rooms' = [s \in Socket |-> {}]
    /\ pc' = [r \in Req |-> "idle"]
    /\ job' = [r \in Req |-> NoJob]
    /\ lost' = lost \cup UNION {job[r].about : r \in {q \in Req : pc[q] = "report"}}
    /\ event' = None
    /\ UNCHANGED <<messages, reported>>

Next ==
    \/ \E s \in Socket : Disconnect(s) \/ \E u \in Employee : Connect(s, u)
    \/ \E r \in Req :
          \/ SendMessage(r) \/ JoinChat(r) \/ LeaveChat(r) \/ MarkRead(r)
          \/ Store(r) \/ StoreBound(r) \/ Announce(r) \/ Join(r) \/ Leave(r)
          \/ Mark(r) \/ Report(r) \/ Fail(r)
    \/ Crash

Spec == Init /\ [][Next]_vars
-----------------------------------------------------------------------------
Job == [socket : Socket \cup {None}, me : Employee \cup {None}, peer : Person \cup {None},
        joining : BOOLEAN, about : SUBSET Msg]

\* Every variable has its type.  A socket is only in rooms of two, one of whom it belongs to.
TypeOK ==
    /\ owner \in [Socket -> Employee \cup {None}]
    /\ rooms \in [Socket -> SUBSET SUBSET Person]
    /\ \A s \in Socket : \A R \in rooms[s] : Cardinality(R) = 2 /\ owner[s] \in R
    /\ messages \in [Msg -> Message \cup {None}]
    /\ pc \in [Req -> {"idle", "store", "announce", "join", "leave", "mark", "report"}]
    /\ job \in [Req -> Job]
    /\ event \in [type : {"newMessage", "messagesRead"}, by : Job, to : SUBSET Socket]
                    \cup {None}
    /\ reported \in [Msg -> Nat]
    /\ lost \subseteq Msg

\* "Every conversation is between the item's seller and one other employee", however the peer
\* is named: nobody gets into a room, and no message is stored, of two who are not selling.
ConversationsHaveSeller ==
    /\ \A m \in Msg : messages[m] # None => Seller \in {messages[m].from, messages[m].to}
    /\ \A s \in Socket : \A R \in rooms[s] : Seller \in R

Emits(type) == event # None /\ event.type = type
SocketsOf(U) == {s \in Socket : owner[s] \in U}

\* A message reaches every socket its parties have open when it is announced, joined or not,
\* except the one it came from, and nobody else's: whoever connects, joins, leaves or
\* reconnects as somebody else while it is being stored.
MessageReachesParties ==
    [][Emits("newMessage")' =>
        event'.to = SocketsOf({event'.by.me, event'.by.peer}) \ {event'.by.socket}]_vars

\* A receipt reaches every socket of the one whose messages were read, and no third party.
ReceiptReachesSender ==
    [][Emits("messagesRead")' =>
        /\ SocketsOf({event'.by.peer}) \subseteq event'.to
        /\ event'.to \subseteq SocketsOf({event'.by.me, event'.by.peer})]_vars

\* Read on several devices and over both transports at once, every message is counted by
\* one receipt at most, and only if it is read ...
CountedOnce ==
    \A m \in Msg :
        reported[m] > 0 => reported[m] = 1 /\ messages[m] # None /\ messages[m].read

\* ... and no read message goes unreported unless the handler that marked it dies.
ReadIsReported ==
    \A m \in Msg :
        messages[m] # None /\ messages[m].read =>
            \/ reported[m] > 0
            \/ m \in lost
            \/ \E r \in Req : pc[r] = "report" /\ m \in job[r].about
=============================================================================

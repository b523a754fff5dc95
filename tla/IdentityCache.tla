--------------------------- MODULE IdentityCache ---------------------------
(***************************************************************************)
(* The cache of employees behind verified tokens (users.service.ts).       *)
(* Every request asks it who its token belongs to; an entry is trusted for *)
(* a while, a missing or expired one is read again from the database, and  *)
(* other requests run between the query and its answer.                    *)
(*                                                                         *)
(* Time passes in ticks.  Entries and answers under way have an age, so    *)
(* that no clock is needed.                                                *)
(***************************************************************************)
EXTENDS Naturals, Sequences, SequencesExt

CONSTANTS
    User,        \* employees, by the id in their tokens
    Identity,    \* names and departments
    None,        \* no such account
    Req,         \* requests that may be resolving a token at a time
    MaxEntries,  \* IDENTITY_CACHE_MAX_ENTRIES
    TTL,         \* IDENTITY_CACHE_TTL_MS, in ticks
    QueryMax     \* ticks between the moment a query reads a row and its answer, at most

ASSUME IdentityCacheAssumption ==
    /\ None \notin Identity
    /\ MaxEntries \in Nat \ {0}
    /\ TTL \in Nat \ {0}
    /\ QueryMax \in Nat

\* How old an answer may be.
Horizon == TTL + QueryMax

VARIABLES
    table,     \* the identity stored for every employee, None without an account
    age,       \* ticks since each employee had each identity last, beyond Horizon all alike
    cache,     \* the Map: its entries in the order of insertion
    pc,        \* where each request is
    job        \* whom it asks about, what it was told and how long ago that was read

vars == <<table, age, cache, pc, job>>

NoJob == [user |-> None, identity |-> None, held |-> 0]

Init ==
    /\ table \in [User -> Identity \cup {None}]
    /\ age = [u \in User |-> [x \in Identity \cup {None} |->
                IF table[u] = x THEN 0 ELSE Horizon + 1]]
    /\ cache = <<>>
    /\ pc = [r \in Req |-> "idle"]
    /\ job = [r \in Req |-> NoJob]
-----------------------------------------------------------------------------
(* resolveTokenSubject *)

\* Faulty variant: an expired entry is as good as any.
FreshForever(e) == TRUE

Fresh(e) == e.left > 0

Trusted(u) == {e \in ToSet(cache) : e.user = u /\ Fresh(e)}

Hit(r, u) ==
    /\ pc[r] = "idle"
    /\ \E e \in Trusted(u) :
          job' = [job EXCEPT ![r] = [user |-> u, identity |-> e.identity, held |-> 0]]
    /\ pc' = [pc EXCEPT ![r] = "answered"]
    /\ UNCHANGED <<table, age, cache>>

Miss(r, u) ==
    /\ pc[r] = "idle"
    /\ Trusted(u) = {}
    /\ job' = [job EXCEPT ![r] = [user |-> u, identity |-> None, held |-> 0]]
    /\ pc' = [pc EXCEPT ![r] = "query"]
    /\ UNCHANGED <<table, age, cache>>

\* The database reads the row.
ReadRow(r) ==
    /\ pc[r] = "query"
    /\ job' = [job EXCEPT ![r].identity = table[job[r].user]]
    /\ pc' = [pc EXCEPT ![r] = "resume"]
    /\ UNCHANGED <<table, age, cache>>

Delete(entries, u) ==
    IF \E i \in DOMAIN entries : entries[i].user = u
    THEN RemoveAt(entries, CHOOSE i \in DOMAIN entries : entries[i].user = u)
    ELSE entries

\* The answer arrives.  An account that is gone is forgotten.
Forget(r) ==
    /\ pc[r] = "resume"
    /\ job[r].identity = None
    /\ cache' = Delete(cache, job[r].user)
    /\ pc' = [pc EXCEPT ![r] = "answered"]
    /\ UNCHANGED <<table, age, job>>

\* Faulty variant: one entry too many.
RoomForOneMore == IF Len(cache) > MaxEntries THEN Tail(cache) ELSE cache

\* When the cache is full its oldest entry makes room, even for an entry that is there.
Room == IF Len(cache) >= MaxEntries THEN Tail(cache) ELSE cache

\* Setting a key that is there keeps its place.
Put(entries, e) ==
    IF \E i \in DOMAIN entries : entries[i].user = e.user
    THEN [i \in DOMAIN entries |-> IF entries[i].user = e.user THEN e ELSE entries[i]]
    ELSE Append(entries, e)

\* Faulty variant: an account that is gone is remembered too.
RememberAll(r) ==
    LET j == job[r] IN
    /\ pc[r] = "resume"
    /\ cache' = Put(Room, [user |-> j.user, identity |-> j.identity, left |-> TTL])
    /\ pc' = [pc EXCEPT ![r] = "answered"]
    /\ UNCHANGED <<table, age, job>>

Remember(r) ==
    LET j == job[r] IN
    /\ pc[r] = "resume"
    /\ j.identity # None
    /\ cache' = Put(Room, [user |-> j.user, identity |-> j.identity, left |-> TTL])
    /\ pc' = [pc EXCEPT ![r] = "answered"]
    /\ UNCHANGED <<table, age, job>>

\* The request goes on, or is refused: the account no longer exists.
Proceed(r) ==
    /\ pc[r] = "answered"
    /\ pc' = [pc EXCEPT ![r] = "idle"]
    /\ job' = [job EXCEPT ![r] = NoJob]
    /\ UNCHANGED <<table, age, cache>>

\* The query fails and with it the request.
Fail(r) ==
    /\ pc[r] \in {"query", "resume"}
    /\ pc' = [pc EXCEPT ![r] = "idle"]
    /\ job' = [job EXCEPT ![r] = NoJob]
    /\ UNCHANGED <<table, age, cache>>
-----------------------------------------------------------------------------
(* Around it *)

\* Employees are hired, moved and removed by other means than this service.
Administer(u, x) ==
    /\ table[u] # x
    /\ table' = [table EXCEPT ![u] = x]
    /\ age' = [age EXCEPT ![u][x] = 0]
    /\ UNCHANGED <<cache, pc, job>>

\* The process starts again with an empty cache.
Restart ==
    /\ cache' = <<>>
    /\ pc' = [r \in Req |-> "idle"]
    /\ job' = [r \in Req |-> NoJob]
    /\ UNCHANGED <<table, age>>

Tick ==
    /\ \A r \in Req : pc[r] = "resume" => job[r].held < QueryMax
    /\ age' = [u \in User |-> [x \in Identity \cup {None} |->
                CASE table[u] = x          -> 0
                  [] age[u][x] > Horizon   -> Horizon + 1
                  [] OTHER                 -> age[u][x] + 1]]
    /\ cache' = [i \in DOMAIN cache |->
                    [cache[i] EXCEPT !.left = IF @ = 0 THEN 0 ELSE @ - 1]]
    /\ job' = [r \in Req |-> IF pc[r] = "resume" THEN [job[r] EXCEPT !.held = @ + 1] ELSE job[r]]
    /\ UNCHANGED <<table, pc>>

Next ==
    \/ \E r \in Req :
          \/ \E u \in User : Hit(r, u) \/ Miss(r, u)
          \/ ReadRow(r) \/ Forget(r) \/ Remember(r) \/ Proceed(r) \/ Fail(r)
    \/ \E u \in User, x \in Identity \cup {None} : Administer(u, x)
    \/ Restart
    \/ Tick

Spec == Init /\ [][Next]_vars
-----------------------------------------------------------------------------
Entry == [user : User, identity : Identity, left : 0..TTL]

\* Every variable has its type: no account is cached that does not exist.
TypeOK ==
    /\ table \in [User -> Identity \cup {None}]
    /\ age \in [User -> [Identity \cup {None} -> 0..Horizon + 1]]
    /\ cache \in Seq(Entry)
    /\ pc \in [Req -> {"idle", "query", "resume", "answered"}]
    /\ job \in [Req -> [user : User \cup {None}, identity : Identity \cup {None},
                        held : 0..QueryMax]]

\* However many requests miss at once, the cache does not outgrow its limit and holds an
\* employee once.
CacheBounded ==
    /\ Len(cache) <= MaxEntries
    /\ \A i, j \in DOMAIN cache : cache[i].user = cache[j].user => i = j

\* "How long a resolved identity is trusted": whoever is told an identity, or that there is
\* no account, is told something that was so a lifetime and a query ago at most.  A late
\* answer may replace a newer one, but an account that was deleted is locked out in the end.
AnswersRecent ==
    [][\A r \in Req :
        pc[r] # "answered" /\ pc'[r] = "answered" =>
            age[job'[r].user][job'[r].identity] <= Horizon]_vars
=============================================================================

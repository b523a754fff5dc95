------------------------ MODULE IdentityCacheProofs ------------------------
(***************************************************************************)
(* Proofs about the identity cache.                                        *)
(*                                                                         *)
(* What is cached or under way was so some time ago, and how long ago is   *)
(* bounded by the life it has left: an entry's identity and its            *)
(* remaining life add up to a lifetime and a query at most.                *)
(***************************************************************************)
EXTENDS IdentityCache, SequenceTheorems, TLAPS

(* The Map *)

Once(s) == \A i, j \in DOMAIN s : s[i].user = s[j].user => i = j

\* Whatever is in s is e or was in t.
From(s, t, e) == \A i \in DOMAIN s : s[i] = e \/ \E j \in DOMAIN t : s[i] = t[j]

LEMMA DeleteIs ==
    ASSUME NEW s \in Seq(Entry), NEW u, Once(s)
    PROVE  /\ Delete(s, u) \in Seq(Entry)
           /\ Len(Delete(s, u)) <= Len(s)
           /\ Once(Delete(s, u))
           /\ \A e : From(Delete(s, u), s, e)
<1>1. CASE \E i \in DOMAIN s : s[i].user = u
  <2> DEFINE k == CHOOSE i \in DOMAIN s : s[i].user = u
             a == SubSeq(s, 1, k - 1)
             b == SubSeq(s, k + 1, Len(s))
  <2>1. k \in 1..Len(s) /\ Delete(s, u) = a \o b
    <3>1. k \in DOMAIN s
      BY <1>1
    <3>2. Delete(s, u) = RemoveAt(s, k)
      BY <1>1 DEF Delete
    <3> HIDE DEF k
    <3>3. RemoveAt(s, k) = a \o b
      BY DEF RemoveAt
    <3> QED BY <3>1, <3>2, <3>3
  <2> HIDE DEF k
  <2>2. /\ a \in Seq(Entry) /\ Len(a) = k - 1
        /\ \A i \in 1..k - 1 : a[i] = s[i]
    <3>1. \A i \in 1..k - 1 : s[i] \in Entry
      BY <2>1
    <3> QED BY <2>1, <3>1, SubSeqProperties
  <2>3. /\ b \in Seq(Entry) /\ Len(b) = Len(s) - k
        /\ \A i \in 1..Len(s) - k : b[i] = s[k + i]
    <3>1. \A i \in k + 1..Len(s) : s[i] \in Entry
      BY <2>1
    <3>2. /\ b \in Seq(Entry)
          /\ Len(b) = IF k + 1 <= Len(s) THEN Len(s) - (k + 1) + 1 ELSE 0
          /\ \A i \in 1..Len(s) - (k + 1) + 1 : b[i] = s[(k + 1) + i - 1]
      BY <2>1, <3>1, SubSeqProperties
    <3> QED BY <2>1, <3>2
  <2> HIDE DEF a, b
  <2> DEFINE d == a \o b
  <2>4. /\ d \in Seq(Entry) /\ Len(d) = Len(s) - 1
        /\ \A i \in 1..Len(d) : d[i] = IF i < k THEN s[i] ELSE s[i + 1]
    <3>1. /\ d \in Seq(Entry) /\ Len(d) = Len(a) + Len(b)
          /\ \A i \in 1..Len(a) + Len(b) : d[i] = IF i <= Len(a) THEN a[i] ELSE b[i - Len(a)]
      BY <2>2, <2>3, ConcatProperties
    <3> HIDE DEF d
    <3>2. Len(d) = Len(s) - 1 /\ Len(s) \in Nat
      BY <2>1, <2>2, <2>3, <3>1
    <3>3. ASSUME NEW i \in 1..Len(d), i < k PROVE d[i] = s[i]
      <4>1. i \in 1..Len(a) + Len(b) /\ i <= Len(a) /\ i \in 1..k - 1
        BY <2>1, <2>2, <2>3, <3>2, <3>3
      <4> QED BY <2>2, <3>1, <4>1
    <3>4. ASSUME NEW i \in 1..Len(d), ~(i < k) PROVE d[i] = s[i + 1]
      <4>1. /\ i \in 1..Len(a) + Len(b) /\ ~(i <= Len(a))
            /\ i - Len(a) \in 1..Len(s) - k /\ k + (i - Len(a)) = i + 1
        BY <2>1, <2>2, <2>3, <3>2, <3>4
      <4> QED BY <2>3, <3>1, <4>1
    <3> QED BY <3>1, <3>2, <3>3, <3>4
  <2> HIDE DEF d
  <2>5. \A i \in DOMAIN d : i \in DOMAIN s /\ i + 1 \in DOMAIN s
    BY <2>1, <2>4
  <2>6. Once(d)
    <3> DEFINE place(i) == IF i < k THEN i ELSE i + 1
    <3> SUFFICES ASSUME NEW i \in DOMAIN d, NEW j \in DOMAIN d, d[i].user = d[j].user
                 PROVE  i = j
      BY DEF Once
    <3>1. d[i] = s[place(i)] /\ d[j] = s[place(j)]
      BY <2>4
    <3>2. place(i) \in DOMAIN s /\ place(j) \in DOMAIN s
      BY <2>5
    <3>3. place(i) = place(j)
      BY <3>1, <3>2 DEF Once
    <3> QED BY <2>1, <2>4, <3>3
  <2>7. \A e : From(d, s, e)
    BY <2>4, <2>5 DEF From
  <2> QED BY <2>1, <2>4, <2>6, <2>7 DEF d
<1>2. CASE ~ \E i \in DOMAIN s : s[i].user = u
  BY <1>2 DEF Delete, From
<1> QED BY <1>1, <1>2

LEMMA RoomIs ==
    ASSUME cache \in Seq(Entry), Once(cache), Len(cache) <= MaxEntries
    PROVE  /\ Room \in Seq(Entry)
           /\ Len(Room) < MaxEntries
           /\ Once(Room)
           /\ \A e : From(Room, cache, e)
<1>1. CASE Len(cache) >= MaxEntries
  <2>1. cache # <<>>
    BY <1>1, IdentityCacheAssumption
  <2>2. /\ Room = Tail(cache)
        /\ Tail(cache) \in Seq(Entry) /\ Len(Tail(cache)) = Len(cache) - 1
        /\ \A i \in 1..Len(Tail(cache)) : Tail(cache)[i] = cache[i + 1]
    BY <1>1, <2>1, HeadTailProperties DEF Room
  <2>3. Once(Tail(cache)) /\ \A e : From(Tail(cache), cache, e)
    BY <2>2 DEF Once, From
  <2> QED BY <2>2, <2>3, IdentityCacheAssumption
<1>2. CASE ~(Len(cache) >= MaxEntries)
  BY <1>2, IdentityCacheAssumption DEF Room, From
<1> QED BY <1>1, <1>2

LEMMA PutIs ==
    ASSUME NEW s \in Seq(Entry), NEW e \in Entry, Once(s)
    PROVE  /\ Put(s, e) \in Seq(Entry)
           /\ Len(Put(s, e)) <= Len(s) + 1
           /\ Once(Put(s, e))
           /\ From(Put(s, e), s, e)
<1>1. CASE \E i \in DOMAIN s : s[i].user = e.user
  <2> DEFINE p == [i \in 1..Len(s) |-> IF s[i].user = e.user THEN e ELSE s[i]]
  <2>1. Put(s, e) = p
    BY <1>1 DEF Put
  <2>2. p \in Seq(Entry) /\ Len(p) = Len(s)
    <3>1. \A i \in 1..Len(s) : p[i] \in Entry
      OBVIOUS
    <3> QED BY <3>1
  <2>3. \A i \in 1..Len(s) : p[i].user = s[i].user
    OBVIOUS
  <2>4. Once(p) /\ From(p, s, e)
    BY <2>3 DEF Once, From
  <2> QED BY <2>1, <2>2, <2>4
<1>2. CASE ~ \E i \in DOMAIN s : s[i].user = e.user
  <2>1. /\ Put(s, e) = Append(s, e)
        /\ Append(s, e) \in Seq(Entry) /\ Len(Append(s, e)) = Len(s) + 1
        /\ \A i \in 1..Len(s) : Append(s, e)[i] = s[i]
        /\ Append(s, e)[Len(s) + 1] = e
    BY <1>2 DEF Put
  <2>2. Once(Append(s, e)) /\ From(Append(s, e), s, e)
    BY <1>2, <2>1 DEF Once, From
  <2> QED BY <2>1, <2>2
<1> QED BY <1>1, <1>2
-----------------------------------------------------------------------------
(* The invariant *)

\* How long ago it was that an employee had an identity, cached or held by a request.
Present == \A u \in User : age[u][table[u]] = 0

EntriesRecent ==
    \A i \in DOMAIN cache :
        cache[i].left > 0 => age[cache[i].user][cache[i].identity] + cache[i].left <= Horizon

JobsRecent ==
    \A r \in Req :
        /\ pc[r] # "idle" => job[r].user \in User
        /\ pc[r] = "resume" => age[job[r].user][job[r].identity] <= job[r].held

CacheInv == TypeOK /\ CacheBounded /\ Present /\ EntriesRecent /\ JobsRecent

LEMMA HorizonIs ==
    /\ TTL \in Nat /\ TTL > 0 /\ QueryMax \in Nat
    /\ Horizon \in Nat /\ Horizon = TTL + QueryMax
  BY IdentityCacheAssumption DEF Horizon

\* Ages are numbers; who has had an identity is known by it.
LEMMA AgesAre ==
    ASSUME TypeOK
    PROVE  /\ \A u \in User : \A x \in Identity \cup {None} : age[u][x] \in 0..Horizon + 1
           /\ \A u \in User : table[u] \in Identity \cup {None}
           /\ \A i \in DOMAIN cache : cache[i] \in Entry
           /\ \A r \in Req : /\ job[r].user \in User \cup {None}
                             /\ job[r].identity \in Identity \cup {None}
                             /\ job[r].held \in 0..QueryMax
<1>1. \A i \in DOMAIN cache : cache[i] \in Entry
  BY DEF TypeOK
<1> QED BY <1>1 DEF TypeOK

LEMMA CacheStarts == Init => CacheInv
<1> SUFFICES ASSUME Init PROVE CacheInv
  OBVIOUS
<1>1. TypeOK
  BY HorizonIs DEF Init, TypeOK, NoJob
<1>2. CacheBounded
  BY IdentityCacheAssumption DEF Init, CacheBounded
<1>3. Present /\ EntriesRecent /\ JobsRecent
  BY DEF Init, Present, EntriesRecent, JobsRecent
<1> QED BY <1>1, <1>2, <1>3 DEF CacheInv

Job == [user : User \cup {None}, identity : Identity \cup {None}, held : 0..QueryMax]

\* A request gets on: what it holds is of an employee, and no older than it says.
LEMMA JobMoves ==
    ASSUME CacheInv, UNCHANGED <<table, age>>, cache' \in Seq(Entry), NEW r \in Req, NEW j \in Job,
           NEW w \in {"idle", "query", "resume", "answered"},
           pc' = [pc EXCEPT ![r] = w], job' = [job EXCEPT ![r] = j],
           w # "idle" => j.user \in User,
           w = "resume" => age[j.user][j.identity] <= j.held
    PROVE  TypeOK' /\ Present' /\ JobsRecent'
<1>1. pc \in [Req -> {"idle", "query", "resume", "answered"}] /\ job \in [Req -> Job]
  BY DEF CacheInv, TypeOK, Job
<1>2. /\ pc' = [q \in Req |-> IF q = r THEN w ELSE pc[q]]
      /\ job' = [q \in Req |-> IF q = r THEN j ELSE job[q]]
  BY <1>1
<1>3. job' \in [Req -> Job] /\ pc' \in [Req -> {"idle", "query", "resume", "answered"}]
  BY <1>1, <1>2
<1>4. TypeOK'
  BY <1>3 DEF CacheInv, TypeOK, Job
<1>5. JobsRecent'
  BY <1>2 DEF CacheInv, JobsRecent
<1>6. Present'
  BY DEF CacheInv, Present
<1> QED BY <1>4, <1>5, <1>6

\* The steps that leave the cache alone.
LEMMA RequestKeepsCache ==
    ASSUME CacheInv, NEW r \in Req,
           (\E u \in User : Hit(r, u) \/ Miss(r, u)) \/ ReadRow(r) \/ Proceed(r) \/ Fail(r)
    PROVE  CacheInv'
<1>1. TypeOK /\ cache \in Seq(Entry) /\ Present /\ JobsRecent
  BY DEF CacheInv, TypeOK
<1>2. UNCHANGED <<table, age, cache>>
  BY DEF Hit, Miss, ReadRow, Proceed, Fail
<1> SUFFICES TypeOK' /\ Present' /\ JobsRecent'
  BY <1>2 DEF CacheInv, CacheBounded, EntriesRecent
<1>3. ASSUME NEW u \in User, Hit(r, u)
      PROVE  TypeOK' /\ Present' /\ JobsRecent'
  <2>1. PICK e \in Trusted(u) :
           job' = [job EXCEPT ![r] = [user |-> u, identity |-> e.identity, held |-> 0]]
    BY <1>3 DEF Hit
  <2>2. e.identity \in Identity
    BY <1>1, <2>1, AgesAre DEF Trusted, ToSet, Entry
  <2>3. [user |-> u, identity |-> e.identity, held |-> 0] \in Job
    BY <2>2, HorizonIs DEF Job
  <2> QED BY <1>1, <1>2, <1>3, <2>1, <2>3, JobMoves DEF Hit
<1>4. ASSUME NEW u \in User, Miss(r, u)
      PROVE  TypeOK' /\ Present' /\ JobsRecent'
  <2>1. [user |-> u, identity |-> None, held |-> 0] \in Job
    BY HorizonIs DEF Job
  <2> QED BY <1>1, <1>2, <1>4, <2>1, JobMoves DEF Miss
<1>5. CASE ReadRow(r)
  <2> DEFINE j == [user |-> job[r].user, identity |-> table[job[r].user], held |-> job[r].held]
  <2>1. job[r].user \in User
    BY <1>1, <1>5 DEF ReadRow, JobsRecent
  <2>2. j \in Job
    BY <1>1, <2>1, AgesAre DEF Job
  <2>3. job' = [job EXCEPT ![r] = j]
    <3>1. job[r] \in Job
      BY <1>1 DEF TypeOK, Job
    <3>2. [job[r] EXCEPT !.identity = table[job[r].user]] = j
      BY <3>1 DEF Job
    <3> QED BY <1>5, <3>2 DEF ReadRow
  <2>4. age[j.user][j.identity] <= j.held
    BY <1>1, <2>1, AgesAre DEF Present
  <2> HIDE DEF j
  <2>5. j.user = job[r].user
    BY DEF j
  <2> QED BY <1>1, <1>2, <1>5, <2>1, <2>2, <2>3, <2>4, <2>5, JobMoves DEF ReadRow
<1>6. CASE Proceed(r) \/ Fail(r)
  <2>1. NoJob \in Job
    BY HorizonIs DEF NoJob, Job
  <2> QED BY <1>1, <1>2, <1>6, <2>1, JobMoves DEF Proceed, Fail
<1> QED BY <1>3, <1>4, <1>5, <1>6

\* The answer changes the cache: what was there may go, and what comes is as old as the answer.
LEMMA AnswerKeepsCache ==
    ASSUME CacheInv, NEW r \in Req, Forget(r) \/ Remember(r)
    PROVE  CacheInv'
<1>1. /\ TypeOK /\ cache \in Seq(Entry) /\ Once(cache) /\ Len(cache) <= MaxEntries
      /\ Present /\ EntriesRecent /\ JobsRecent
  BY DEF CacheInv, TypeOK, CacheBounded, Once
<1>2. /\ UNCHANGED <<table, age, job>> /\ pc[r] = "resume"
      /\ pc' = [pc EXCEPT ![r] = "answered"]
  BY DEF Forget, Remember
<1>3. job[r].user \in User /\ age[job[r].user][job[r].identity] <= job[r].held
  BY <1>1, <1>2 DEF JobsRecent
<1>4. job[r] \in Job /\ job' = [job EXCEPT ![r] = job[r]]
  BY <1>1, <1>2 DEF TypeOK, Job
<1>5. /\ cache' \in Seq(Entry) /\ Once(cache') /\ Len(cache') <= MaxEntries
      /\ \E e : /\ From(cache', cache, e)
                /\ e.left > 0 => age[e.user][e.identity] + e.left <= Horizon
  <2>1. CASE Forget(r)
    <3> DEFINE gone == [user |-> None, identity |-> None, left |-> 0]
    <3>1. cache' = Delete(cache, job[r].user)
      BY <2>1 DEF Forget
    <3>2. /\ cache' \in Seq(Entry) /\ Len(cache') <= Len(cache)
          /\ Once(cache') /\ From(cache', cache, gone)
      BY <1>1, <3>1, DeleteIs
    <3>3. Len(cache') <= MaxEntries
      BY <1>1, <3>2, IdentityCacheAssumption
    <3> QED BY <3>2, <3>3
  <2>2. CASE Remember(r)
    <3> DEFINE e == [user |-> job[r].user, identity |-> job[r].identity, left |-> TTL]
    <3>1. cache' = Put(Room, e) /\ job[r].identity # None
      BY <2>2 DEF Remember
    <3>2. e \in Entry
      BY <1>3, <1>4, <3>1, HorizonIs DEF Job, Entry
    <3>3. age[e.user][e.identity] + e.left <= Horizon
      BY <1>1, <1>3, <1>4, AgesAre, HorizonIs DEF Job
    <3> HIDE DEF e
    <3>4. /\ Room \in Seq(Entry) /\ Len(Room) < MaxEntries /\ Once(Room)
          /\ From(Room, cache, e)
      BY <1>1, RoomIs
    <3>5. /\ cache' \in Seq(Entry) /\ Len(cache') <= Len(Room) + 1 /\ Once(cache')
          /\ From(cache', Room, e)
      BY <3>1, <3>2, <3>4, PutIs
    <3>6. From(cache', cache, e)
      BY <3>4, <3>5 DEF From
    <3>7. Len(cache') <= MaxEntries
      BY <3>4, <3>5, IdentityCacheAssumption
    <3> QED BY <3>3, <3>5, <3>6, <3>7
  <2> QED BY <2>1, <2>2
<1>6. EntriesRecent'
  <2> SUFFICES ASSUME NEW i \in DOMAIN cache', cache'[i].left > 0
               PROVE  age[cache'[i].user][cache'[i].identity] + cache'[i].left <= Horizon
    BY <1>2 DEF EntriesRecent, Horizon
  <2>1. PICK e : /\ From(cache', cache, e)
                 /\ e.left > 0 => age[e.user][e.identity] + e.left <= Horizon
    BY <1>5
  <2>2. cache'[i] = e \/ \E j \in DOMAIN cache : cache'[i] = cache[j]
    BY <2>1 DEF From
  <2> QED BY <1>1, <2>1, <2>2 DEF EntriesRecent
<1>7. CacheBounded'
  BY <1>5 DEF CacheBounded, Once
<1>8. TypeOK' /\ Present' /\ JobsRecent'
  <2> DEFINE j == job[r]
  <2>1. j \in Job /\ job' = [job EXCEPT ![r] = j] /\ j.user \in User
    BY <1>3, <1>4
  <2> HIDE DEF j
  <2> QED BY <1>2, <1>5, <2>1, JobMoves
<1> QED BY <1>6, <1>7, <1>8 DEF CacheInv

\* An employee has the identity given now; nothing known becomes older by that.
LEMMA AdministerKeepsCache ==
    ASSUME CacheInv, NEW u \in User, NEW x \in Identity \cup {None}, Administer(u, x)
    PROVE  CacheInv'
<1>1. TypeOK /\ CacheBounded /\ Present /\ EntriesRecent /\ JobsRecent
  BY DEF CacheInv
<1>2. /\ UNCHANGED <<cache, pc, job>>
      /\ table' = [v \in User |-> IF v = u THEN x ELSE table[v]]
      /\ age' = [v \in User |-> [y \in Identity \cup {None} |->
                    IF v = u /\ y = x THEN 0 ELSE age[v][y]]]
  <2>1. age \in [User -> [Identity \cup {None} -> 0..Horizon + 1]]
    BY <1>1 DEF TypeOK
  <2>2. age' = [age EXCEPT ![u][x] = 0] /\ table' = [table EXCEPT ![u] = x]
    BY DEF Administer
  <2> QED BY <1>1, <2>1, <2>2 DEF Administer, TypeOK
<1>3. \A v \in User, y \in Identity \cup {None} :
         age'[v][y] \in 0..Horizon + 1 /\ age'[v][y] <= age[v][y]
  BY <1>1, <1>2, AgesAre, HorizonIs
<1>4. TypeOK'
  BY <1>1, <1>2, <1>3 DEF TypeOK, Horizon
<1>5. Present'
  BY <1>1, <1>2, AgesAre DEF Present
<1>6. EntriesRecent'
  <2> SUFFICES ASSUME NEW i \in DOMAIN cache, cache[i].left > 0
               PROVE  age'[cache[i].user][cache[i].identity] + cache[i].left <= Horizon
    BY <1>2 DEF EntriesRecent, Horizon
  <2>1. cache[i].user \in User /\ cache[i].identity \in Identity /\ cache[i].left \in Nat
    BY <1>1, AgesAre, HorizonIs DEF Entry
  <2>2. age[cache[i].user][cache[i].identity] + cache[i].left <= Horizon
    BY <1>1 DEF EntriesRecent
  <2>3. /\ age[cache[i].user][cache[i].identity] \in 0..Horizon + 1
        /\ age'[cache[i].user][cache[i].identity] \in 0..Horizon + 1
        /\ age'[cache[i].user][cache[i].identity] <= age[cache[i].user][cache[i].identity]
    BY <1>1, <1>3, <2>1, AgesAre
  <2> QED BY <2>1, <2>2, <2>3, HorizonIs
<1>7. JobsRecent'
  <2> SUFFICES ASSUME NEW r \in Req
               PROVE  /\ pc[r] # "idle" => job[r].user \in User
                      /\ pc[r] = "resume" => age'[job[r].user][job[r].identity] <= job[r].held
    BY <1>2 DEF JobsRecent
  <2>1. ASSUME pc[r] = "resume"
        PROVE  age'[job[r].user][job[r].identity] <= job[r].held
    <3>1. /\ job[r].user \in User /\ job[r].identity \in Identity \cup {None}
          /\ job[r].held \in 0..QueryMax
          /\ age[job[r].user][job[r].identity] <= job[r].held
      BY <1>1, <2>1, AgesAre DEF JobsRecent
    <3>2. /\ age[job[r].user][job[r].identity] \in 0..Horizon + 1
          /\ age'[job[r].user][job[r].identity] \in 0..Horizon + 1
          /\ age'[job[r].user][job[r].identity] <= age[job[r].user][job[r].identity]
      BY <1>1, <1>3, <3>1, AgesAre
    <3> QED BY <3>1, <3>2, HorizonIs
  <2> QED BY <1>1, <2>1 DEF JobsRecent
<1>8. CacheBounded'
  BY <1>1, <1>2 DEF CacheBounded
<1> QED BY <1>4, <1>5, <1>6, <1>7, <1>8 DEF CacheInv

LEMMA RestartKeepsCache == ASSUME CacheInv, Restart PROVE CacheInv'
<1>1. TypeOK'
  <2>1. NoJob \in Job /\ <<>> \in Seq(Entry)
    BY HorizonIs DEF NoJob, Job
  <2>2. job' \in [Req -> Job] /\ cache' \in Seq(Entry)
    BY <2>1 DEF Restart
  <2>3. /\ table' \in [User -> Identity \cup {None}]
        /\ age' \in [User -> [Identity \cup {None} -> 0..Horizon + 1]]
    BY DEF CacheInv, TypeOK, Restart
  <2>4. pc' \in [Req -> {"idle", "query", "resume", "answered"}]
    BY DEF Restart
  <2> QED BY <2>2, <2>3, <2>4 DEF TypeOK, Job, Horizon
<1>2. CacheBounded'
  BY IdentityCacheAssumption DEF Restart, CacheBounded
<1>3. Present' /\ EntriesRecent' /\ JobsRecent'
  BY DEF CacheInv, Restart, Present, EntriesRecent, JobsRecent
<1> QED BY <1>1, <1>2, <1>3 DEF CacheInv

\* With a tick everything is a tick older, and an entry has a tick less left.
LEMMA TickKeepsCache ==
    ASSUME CacheInv, Tick
    PROVE  CacheInv'
<1>1. TypeOK /\ CacheBounded /\ Present /\ EntriesRecent /\ JobsRecent /\ cache \in Seq(Entry)
  BY DEF CacheInv, TypeOK
<1>2. UNCHANGED <<table, pc>>
  BY DEF Tick
<1>3. \A u \in User, x \in Identity \cup {None} :
         /\ age'[u][x] \in 0..Horizon + 1
         /\ age[u][x] <= Horizon => age'[u][x] <= age[u][x] + 1
         /\ table[u] = x => age'[u][x] = 0
  <2> SUFFICES ASSUME NEW u \in User, NEW x \in Identity \cup {None}
               PROVE  /\ age'[u][x] \in 0..Horizon + 1
                      /\ age[u][x] <= Horizon => age'[u][x] <= age[u][x] + 1
                      /\ table[u] = x => age'[u][x] = 0
    OBVIOUS
  <2>1. age[u][x] \in 0..Horizon + 1
    BY <1>1, AgesAre
  <2>2. age'[u][x] = CASE table[u] = x        -> 0
                       [] age[u][x] > Horizon -> Horizon + 1
                       [] OTHER               -> age[u][x] + 1
    BY DEF Tick
  <2>3. CASE table[u] = x /\ age[u][x] > Horizon
    BY <1>1, <2>1, <2>3, HorizonIs DEF Present
  <2>4. CASE ~(table[u] = x /\ age[u][x] > Horizon)
    BY <2>1, <2>2, <2>4, HorizonIs
  <2> QED BY <2>3, <2>4
<1>4. /\ Len(cache') = Len(cache) /\ cache' \in Seq(Entry)
      /\ \A i \in DOMAIN cache :
            /\ cache'[i].user = cache[i].user /\ cache'[i].identity = cache[i].identity
            /\ cache'[i].left = IF cache[i].left = 0 THEN 0 ELSE cache[i].left - 1
  <2> DEFINE older == [i \in 1..Len(cache) |->
                [cache[i] EXCEPT !.left = IF cache[i].left = 0 THEN 0 ELSE cache[i].left - 1]]
  <2>1. cache' = older
    BY <1>1 DEF Tick
  <2>2. \A i \in 1..Len(cache) :
            /\ older[i] \in Entry
            /\ older[i].user = cache[i].user /\ older[i].identity = cache[i].identity
            /\ older[i].left = IF cache[i].left = 0 THEN 0 ELSE cache[i].left - 1
    <3> SUFFICES ASSUME NEW i \in 1..Len(cache)
                 PROVE  /\ older[i] \in Entry
                        /\ older[i].user = cache[i].user /\ older[i].identity = cache[i].identity
                        /\ older[i].left = IF cache[i].left = 0 THEN 0 ELSE cache[i].left - 1
      OBVIOUS
    <3>1. cache[i] \in Entry
      BY <1>1
    <3>2. (IF cache[i].left = 0 THEN 0 ELSE cache[i].left - 1) \in 0..TTL
      BY <3>1, HorizonIs DEF Entry
    <3> QED BY <3>1, <3>2 DEF Entry
  <2>3. older \in Seq(Entry) /\ Len(older) = Len(cache)
    BY <1>1, <2>2
  <2> QED BY <1>1, <2>1, <2>2, <2>3
<1>5. \A r \in Req : /\ job'[r] = IF pc[r] = "resume" THEN [job[r] EXCEPT !.held = @ + 1]
                                                        ELSE job[r]
                     /\ pc[r] = "resume" => job[r].held < QueryMax
  BY DEF Tick
<1>6. \A r \in Req : /\ job'[r] \in Job
                     /\ job'[r].user = job[r].user /\ job'[r].identity = job[r].identity
                     /\ pc[r] = "resume" => job'[r].held = job[r].held + 1
  <2> SUFFICES ASSUME NEW r \in Req
               PROVE  /\ job'[r] \in Job
                      /\ job'[r].user = job[r].user /\ job'[r].identity = job[r].identity
                      /\ pc[r] = "resume" => job'[r].held = job[r].held + 1
    OBVIOUS
  <2>1. job[r] \in Job
    BY <1>1 DEF TypeOK, Job
  <2>2. CASE pc[r] = "resume"
    <3>1. job'[r] = [job[r] EXCEPT !.held = job[r].held + 1] /\ job[r].held < QueryMax
      BY <1>5, <2>2
    <3>2. job[r].held \in 0..QueryMax /\ job[r].held + 1 \in 0..QueryMax
      BY <2>1, <3>1, HorizonIs DEF Job
    <3> QED BY <2>1, <3>1, <3>2 DEF Job
  <2>3. CASE pc[r] # "resume"
    BY <1>5, <2>1, <2>3
  <2> QED BY <2>2, <2>3
<1>7. TypeOK'
  <2>1. job' \in [Req -> Job]
    BY <1>6 DEF Tick
  <2>2. age' \in [User -> [Identity \cup {None} -> 0..Horizon + 1]]
    BY <1>3 DEF Tick
  <2> QED BY <1>1, <1>2, <1>4, <2>1, <2>2 DEF TypeOK, Job, Horizon
<1>8. CacheBounded'
  BY <1>1, <1>4 DEF CacheBounded
<1>9. Present'
  BY <1>1, <1>2, <1>3, AgesAre DEF Present
<1>10. EntriesRecent'
  <2> SUFFICES ASSUME NEW i \in DOMAIN cache, cache'[i].left > 0
               PROVE  age'[cache'[i].user][cache'[i].identity] + cache'[i].left <= Horizon
    BY <1>1, <1>4 DEF EntriesRecent, Horizon
  <2> DEFINE u == cache[i].user
             x == cache[i].identity
             l == cache[i].left
  <2>1. u \in User /\ x \in Identity /\ l \in 0..TTL
    BY <1>1, AgesAre DEF Entry
  <2>2. cache'[i].user = u /\ cache'[i].identity = x /\ l > 0 /\ cache'[i].left = l - 1
    BY <1>4, <2>1, HorizonIs
  <2>3. age[u][x] + l <= Horizon
    BY <1>1, <2>2 DEF EntriesRecent
  <2>4. age[u][x] \in 0..Horizon + 1
    BY <1>1, <2>1, AgesAre
  <2>5. age'[u][x] \in 0..Horizon + 1 /\ (age[u][x] <= Horizon => age'[u][x] <= age[u][x] + 1)
    BY <1>3, <2>1
  <2> HIDE DEF u, x, l
  <2>6. age'[u][x] + (l - 1) <= Horizon
    BY <2>1, <2>2, <2>3, <2>4, <2>5, HorizonIs
  <2> QED BY <2>2, <2>6
<1>11. JobsRecent'
  <2> SUFFICES ASSUME NEW r \in Req
               PROVE  /\ pc[r] # "idle" => job'[r].user \in User
                      /\ pc[r] = "resume" => age'[job'[r].user][job'[r].identity] <= job'[r].held
    BY <1>2 DEF JobsRecent
  <2>1. ASSUME pc[r] = "resume"
        PROVE  age'[job[r].user][job[r].identity] <= job[r].held + 1
    <3>1. /\ job[r].user \in User /\ job[r].identity \in Identity \cup {None}
          /\ job[r].held \in 0..QueryMax
          /\ age[job[r].user][job[r].identity] <= job[r].held
      BY <1>1, <2>1, AgesAre DEF JobsRecent
    <3>2. /\ age[job[r].user][job[r].identity] \in 0..Horizon + 1
          /\ age'[job[r].user][job[r].identity] \in 0..Horizon + 1
          /\ age[job[r].user][job[r].identity] <= Horizon =>
                age'[job[r].user][job[r].identity] <= age[job[r].user][job[r].identity] + 1
      BY <1>1, <1>3, <3>1, AgesAre
    <3> QED BY <3>1, <3>2, HorizonIs
  <2> QED BY <1>1, <1>6, <2>1 DEF JobsRecent
<1> QED BY <1>7, <1>8, <1>9, <1>10, <1>11 DEF CacheInv

LEMMA CacheKept == CacheInv /\ [Next]_vars => CacheInv'
<1> SUFFICES ASSUME CacheInv, [Next]_vars PROVE CacheInv'
  OBVIOUS
<1>1. ASSUME NEW r \in Req,
             \/ \E u \in User : Hit(r, u) \/ Miss(r, u)
             \/ ReadRow(r) \/ Forget(r) \/ Remember(r) \/ Proceed(r) \/ Fail(r)
      PROVE  CacheInv'
  BY <1>1, RequestKeepsCache, AnswerKeepsCache
<1>2. CASE \E u \in User, x \in Identity \cup {None} : Administer(u, x)
  BY <1>2, AdministerKeepsCache
<1>3. CASE Restart
  BY <1>3, RestartKeepsCache
<1>4. CASE Tick
  BY <1>4, TickKeepsCache
<1>5. CASE UNCHANGED vars
  BY <1>5 DEF vars, CacheInv, TypeOK, CacheBounded, Present, EntriesRecent, JobsRecent, Horizon
<1> QED BY <1>1, <1>2, <1>3, <1>4, <1>5 DEF Next

THEOREM CacheInvariant == Spec => []CacheInv
  BY CacheStarts, CacheKept, PTL DEF Spec
-----------------------------------------------------------------------------
(* What follows *)

\* Every variable of the cache has its type: no account is cached that does not exist.
THEOREM CacheTypeCorrect == Spec => []TypeOK
<1>1. CacheInv => TypeOK
  BY DEF CacheInv
<1> QED BY <1>1, CacheInvariant, PTL

\* The cache stays within its limit and holds an employee once.
THEOREM CacheStaysBounded == Spec => []CacheBounded
<1>1. CacheInv => CacheBounded
  BY DEF CacheInv
<1> QED BY <1>1, CacheInvariant, PTL

\* Nobody is told what was so longer ago than a lifetime and a query.
THEOREM AnswersAreRecent == Spec => AnswersRecent
<1> DEFINE Answers(r) == pc[r] # "answered" /\ pc'[r] = "answered" =>
                            age[job'[r].user][job'[r].identity] <= Horizon
<1>1. CacheInv /\ [Next]_vars => [\A r \in Req : Answers(r)]_vars
  <2> SUFFICES ASSUME CacheInv, Next, NEW r \in Req, pc[r] # "answered", pc'[r] = "answered"
               PROVE  age[job'[r].user][job'[r].identity] <= Horizon
    OBVIOUS
  <2>1. TypeOK /\ EntriesRecent /\ JobsRecent
    BY DEF CacheInv
  <2>2. PICK q \in Req : \/ \E u \in User : Hit(q, u)
                         \/ Forget(q) \/ Remember(q)
                         \/ /\ \/ \E u \in User : Miss(q, u)
                               \/ ReadRow(q) \/ Proceed(q) \/ Fail(q)
                            /\ q = r
    <3>1. ~Restart /\ ~Tick /\ ~ \E u \in User, x \in Identity \cup {None} : Administer(u, x)
      BY DEF Restart, Tick, Administer
    <3> QED BY <2>1, <3>1 DEF Next, Miss, ReadRow, Proceed, Fail, TypeOK
  <2>3. q = r
    BY <2>1, <2>2 DEF Hit, Forget, Remember, TypeOK
  <2>4. ASSUME NEW u \in User, Hit(r, u)
        PROVE  age[job'[r].user][job'[r].identity] <= Horizon
    <3>1. PICK e \in Trusted(u) :
             job' = [job EXCEPT ![r] = [user |-> u, identity |-> e.identity, held |-> 0]]
      BY <2>4 DEF Hit
    <3>2. PICK i \in DOMAIN cache : e = cache[i]
      BY <3>1 DEF Trusted, ToSet
    <3>3. /\ e \in Entry /\ e.user = u /\ e.left > 0
          /\ age[e.user][e.identity] + e.left <= Horizon
      BY <2>1, <3>1, <3>2, AgesAre DEF Trusted, Fresh, EntriesRecent
    <3>4. job'[r].user = u /\ job'[r].identity = e.identity
      BY <2>1, <3>1 DEF TypeOK
    <3>5. age[u][e.identity] \in 0..Horizon + 1 /\ e.left \in 0..TTL
      BY <2>1, <3>3, AgesAre DEF Entry
    <3> QED BY <3>3, <3>4, <3>5, HorizonIs
  <2>5. CASE Forget(r) \/ Remember(r)
    <3>1. job' = job /\ pc[r] = "resume"
      BY <2>5 DEF Forget, Remember
    <3>2. /\ age[job[r].user][job[r].identity] <= job[r].held
          /\ age[job[r].user][job[r].identity] \in 0..Horizon + 1
          /\ job[r].held \in 0..QueryMax
      BY <2>1, <3>1, AgesAre DEF JobsRecent
    <3> QED BY <3>1, <3>2, HorizonIs
  <2>6. ~((\E u \in User : Miss(r, u)) \/ ReadRow(r) \/ Proceed(r) \/ Fail(r))
    BY <2>1 DEF Miss, ReadRow, Proceed, Fail, TypeOK
  <2> QED BY <2>2, <2>3, <2>4, <2>5, <2>6
<1> QED BY <1>1, CacheInvariant, PTL DEF Spec, AnswersRecent
=============================================================================

---------------------------- MODULE PagesProofs -----------------------------
(***************************************************************************)
(* For any number of rows, writers and moves and any page size: what a     *)
(* reader who pages through a list that changes misses, or is shown twice. *)
(*                                                                         *)
(* The argument is about places.  The place of a row is the number of rows *)
(* before it; a page is the rows whose places are OFFSET and the next      *)
(* LIMIT - 1, as far as the order decides it (SliceSkipsNone, SlicePlaces).*)
(***************************************************************************)
EXTENDS Pages, FiniteSetTheorems, TLAPS

Row == [id : Id, at : 1..MaxRow + 1]
Distinct(R) == \A m, n \in R : m.id = n.id => m = n
Above(m, R) == {n \in R : Precedes(n, m)}
Place(m, R) == Cardinality(Above(m, R))

\* The ids on their way are new, and nothing is from the future.
StoringFits ==
    /\ \A w \in Writer :
          /\ stamp[w] <= now
          /\ newId[w] # 0 =>
                /\ stamp[w] # 0 /\ newId[w] <= lastId /\ newId[w] \notin Ids(rows)
                /\ \A v \in Writer \ {w} : newId[v] # newId[w]
    /\ \A m \in rows : m.id <= lastId /\ m.at <= now
    /\ Distinct(rows) /\ IsFiniteSet(rows)

Begun == walk.done \/ walk.counting \/ walk.page # 1 \/ walk.before # 0

WalkFits ==
    /\ walk.page # 0 /\ ~(walk.done /\ walk.counting)
    /\ walk.expected \cup walk.shown \cup walk.repeated \subseteq Ids(rows)
    /\ ~Begun => walk = NewWalk
    /\ kind = "history" => walk.page = 1
    /\ kind # "history" => walk.before = 0
    /\ kind # "list" => ~walk.counting /\ hidden = {}

Sound == TypeOK /\ StoringFits /\ WalkFits
-----------------------------------------------------------------------------
(* Numbers and finite sets *)

\* A set of numbers has a least one.
LEMMA HasLeast ==
    ASSUME NEW T \in SUBSET Nat, T # {}
    PROVE  \E x \in T : \A y \in T : x <= y
<1>1. PICK x \in T : \A y \in T : <<y, x>> \notin OpToRel(<, Nat)
  BY NatLessThanWellFounded, WFMin
<1>2. \A y \in T : ~(y < x)
  BY <1>1, Zenon DEF OpToRel
<1> QED
  BY <1>2

\* A set that gains no two elements gains one at most.
LEMMA OneMore ==
    ASSUME NEW S, NEW T, IsFiniteSet(T), \A a, b \in S \ T : a = b
    PROVE  IsFiniteSet(S) /\ Cardinality(S) <= Cardinality(T) + 1
<1>1. Cardinality(T) \in Nat
  BY FS_CardinalityType
<1>2. CASE S \subseteq T
  BY <1>1, <1>2, FS_Subset, FS_CardinalityType
<1>3. CASE ~(S \subseteq T)
  <2>1. PICK a \in S : a \notin T
    BY <1>3
  <2>2. S \subseteq T \cup {a}
    BY <2>1
  <2>3. IsFiniteSet(T \cup {a}) /\ Cardinality(T \cup {a}) = Cardinality(T) + 1
    BY <2>1, FS_AddElement
  <2>4. IsFiniteSet(S) /\ Cardinality(S) <= Cardinality(T \cup {a})
    BY <2>2, <2>3, FS_Subset
  <2> QED
    BY <2>3, <2>4
<1> QED
  BY <1>2, <1>3

\* Ids count rows.
LEMMA IdsCount ==
    ASSUME NEW R, IsFiniteSet(R)
    PROVE  IsFiniteSet(Ids(R)) /\ Cardinality(Ids(R)) <= Cardinality(R)
<1>1. [m \in R |-> m.id] \in Surjection(R, Ids(R))
  BY DEF Surjection, Ids
<1> QED
  BY <1>1, FS_Surjection

\* Sets that share nothing count together.
LEMMA Apart ==
    ASSUME NEW S, NEW A \in SUBSET S, NEW B \in SUBSET S, IsFiniteSet(S), A \cap B = {}
    PROVE  /\ IsFiniteSet(A) /\ IsFiniteSet(B)
           /\ Cardinality(A \cup B) = Cardinality(A) + Cardinality(B)
           /\ Cardinality(A) + Cardinality(B) <= Cardinality(S)
<1>1. IsFiniteSet(A) /\ IsFiniteSet(B) /\ Cardinality(A) \in Nat /\ Cardinality(B) \in Nat
  BY FS_Subset, FS_CardinalityType
<1>2. Cardinality(A \cup B) = Cardinality(A) + Cardinality(B) - Cardinality(A \cap B)
  BY <1>1, FS_Union
<1>3. Cardinality(A \cap B) = 0
  BY FS_EmptySet
<1>4. Cardinality(A \cup B) <= Cardinality(S)
  BY FS_Subset
<1> QED
  BY <1>1, <1>2, <1>3, <1>4
-----------------------------------------------------------------------------
(* Places *)

LEMMA PrecedesOrder ==
    ASSUME NEW m \in Row, NEW n \in Row, NEW k \in Row
    PROVE  /\ ~Precedes(m, m)
           /\ Precedes(m, n) /\ Precedes(n, k) => Precedes(m, k)
           /\ kind # "inbox" /\ m.id # n.id => Precedes(m, n) \/ Precedes(n, m)
           /\ m.at # n.at => Precedes(m, n) \/ Precedes(n, m)
  BY DEF Precedes, Row, Id

LEMMA AboveFinite ==
    ASSUME NEW R \in SUBSET Row, IsFiniteSet(R), NEW m \in R
    PROVE  /\ IsFiniteSet(Above(m, R)) /\ Place(m, R) \in Nat
           /\ Place(m, R) < Cardinality(R) /\ Cardinality(R) \in Nat
<1>1. m \notin Above(m, R)
  BY PrecedesOrder DEF Above
<1>2. IsFiniteSet(R \ {m}) /\ Cardinality(R \ {m}) = Cardinality(R) - 1
  BY FS_RemoveElement
<1>3. Above(m, R) \subseteq R \ {m}
  BY <1>1 DEF Above
<1>4. IsFiniteSet(Above(m, R)) /\ Cardinality(Above(m, R)) <= Cardinality(R \ {m})
  BY <1>2, <1>3, FS_Subset
<1> QED
  BY <1>2, <1>4, FS_CardinalityType DEF Place

\* Who precedes another is in a lower place.
LEMMA PlaceIsMonotone ==
    ASSUME NEW R \in SUBSET Row, IsFiniteSet(R), NEW m \in R, NEW n \in R, Precedes(m, n)
    PROVE  Place(m, R) < Place(n, R)
<1>1. Above(m, R) \subseteq Above(n, R) \ {m}
  BY PrecedesOrder DEF Above
<1>2. m \in Above(n, R)
  BY DEF Above
<1>3. IsFiniteSet(Above(n, R)) /\ Place(n, R) \in Nat /\ Place(m, R) \in Nat
  BY AboveFinite
<1>4. /\ IsFiniteSet(Above(n, R) \ {m})
      /\ Cardinality(Above(n, R) \ {m}) = Cardinality(Above(n, R)) - 1
  BY <1>2, <1>3, FS_RemoveElement
<1>5. Cardinality(Above(m, R)) <= Cardinality(Above(n, R) \ {m})
  BY <1>1, <1>4, FS_Subset
<1> QED
  BY <1>3, <1>4, <1>5 DEF Place

\* A row more moves the others by one place at most, and only those it precedes.
LEMMA PlaceWithout ==
    ASSUME NEW R \in SUBSET Row, IsFiniteSet(R), NEW m \in R, NEW z \in R, m # z
    PROVE  /\ Place(m, R \ {z}) \in Nat /\ Place(m, R) \in Nat
           /\ Place(m, R \ {z}) <= Place(m, R) /\ Place(m, R) <= Place(m, R \ {z}) + 1
           /\ ~Precedes(z, m) => Place(m, R \ {z}) = Place(m, R)
<1>1. IsFiniteSet(Above(m, R)) /\ Place(m, R) \in Nat
  BY AboveFinite
<1>2. Above(m, R \ {z}) = Above(m, R) \ {z}
  BY DEF Above
<1>3. /\ IsFiniteSet(Above(m, R) \ {z})
      /\ Cardinality(Above(m, R) \ {z}) =
            IF z \in Above(m, R) THEN Cardinality(Above(m, R)) - 1 ELSE Cardinality(Above(m, R))
  BY <1>1, FS_RemoveElement
<1>4. Cardinality(Above(m, R) \ {z}) \in Nat
  BY <1>3, FS_CardinalityType
<1>5. z \in Above(m, R) <=> Precedes(z, m)
  BY DEF Above
<1> QED
  BY <1>1, <1>2, <1>3, <1>4, <1>5 DEF Place

\* With a row z more, one row at most comes to lie beyond place N: z itself or the one that
\* was in the place before N.
LEMMA OneCrosses ==
    ASSUME NEW R \in SUBSET Row, IsFiniteSet(R), Distinct(R), kind # "inbox",
           NEW N \in Nat, NEW z \in R, NEW a \in R, NEW b \in R,
           Place(a, R) >= N, a = z \/ Place(a, R \ {z}) < N,
           Place(b, R) >= N, b = z \/ Place(b, R \ {z}) < N
    PROVE  a = b
<1>1. \A c \in R : c # z /\ Place(c, R) >= N /\ Place(c, R \ {z}) < N =>
                      Precedes(z, c) /\ Place(c, R) = N
  BY PlaceWithout
<1>2. \A c \in R : Place(c, R) \in Nat
  BY AboveFinite
<1>3. CASE a # z /\ b # z
  <2>1. ~Precedes(a, b) /\ ~Precedes(b, a)
    BY <1>1, <1>2, <1>3, PlaceIsMonotone
  <2> QED
    BY <2>1, PrecedesOrder DEF Distinct
<1>4. CASE a # z /\ b = z
  BY <1>1, <1>2, <1>4, PlaceIsMonotone
<1>5. CASE a = z /\ b # z
  BY <1>1, <1>2, <1>5, PlaceIsMonotone
<1> QED
  BY <1>3, <1>4, <1>5
-----------------------------------------------------------------------------
(* Pages *)

\* Of the rows the order decides about, a page leaves out none from OFFSET on until the
\* LIMIT is reached.
LEMMA SliceSkipsNone ==
    ASSUME NEW R \in SUBSET Row, IsFiniteSet(R), NEW off \in Nat, NEW k \in Nat,
           NEW P \in Slices(R, off, k), NEW x \in R \ P, Place(x, R) >= off, k # 0,
           \A y \in R \ {x} : Precedes(x, y) \/ Precedes(y, x)
    PROVE  Place(x, R) >= off + k
<1>1. /\ IsFiniteSet(Above(x, R)) /\ Place(x, R) \in Nat
      /\ Place(x, R) < Cardinality(R) /\ Cardinality(R) \in Nat
  BY AboveFinite
<1>2. /\ P \subseteq R
      /\ Cardinality(P) = IF Cardinality(R) - off < k THEN Cardinality(R) - off ELSE k
  BY <1>1 DEF Slices
<1>3. P # {}
  <2>1. Cardinality(P) # 0
    BY <1>1, <1>2
  <2> QED
    BY <2>1, FS_EmptySet
<1>4. PICK A \in SUBSET (R \ P) : Cardinality(A) = off /\ Leads(A, R) /\ Leads(A \cup P, R)
  BY <1>3 DEF Slices
<1>5. /\ IsFiniteSet(A) /\ IsFiniteSet(A \cup P)
      /\ Cardinality(A \cup P) = Cardinality(A) + Cardinality(P)
  <2>1. A \subseteq R /\ A \cap P = {} /\ A \cup P \subseteq R
    BY <1>2
  <2> QED
    BY <1>2, <2>1, Apart, FS_Subset
<1>6. x \notin A
  <2> SUFFICES ASSUME x \in A PROVE FALSE
    OBVIOUS
  <2>1. Above(x, R) \subseteq A \ {x}
    BY <1>4, PrecedesOrder DEF Above, Leads
  <2>2. IsFiniteSet(A \ {x}) /\ Cardinality(A \ {x}) = off - 1
    BY <1>4, <1>5, FS_RemoveElement
  <2>3. Place(x, R) <= off - 1
    BY <2>1, <2>2, FS_Subset DEF Place
  <2> QED
    BY <1>1, <2>3
<1>7. A \cup P \subseteq Above(x, R)
  BY <1>2, <1>4, <1>6 DEF Above, Leads
<1>8. Cardinality(A \cup P) <= Place(x, R)
  BY <1>1, <1>7, FS_Subset DEF Place
<1> QED
  BY <1>1, <1>2, <1>4, <1>5, <1>8

\* The rows of a page have the places it is for.
LEMMA SlicePlaces ==
    ASSUME NEW R \in SUBSET Row, IsFiniteSet(R), NEW off \in Nat, NEW k \in Nat,
           NEW P \in Slices(R, off, k), NEW x \in P,
           \A y \in R \ {x} : Precedes(x, y) \/ Precedes(y, x)
    PROVE  off <= Place(x, R) /\ Place(x, R) < off + k
<1>1. P \subseteq R /\ Cardinality(P) <= k /\ Cardinality(P) \in Nat /\ IsFiniteSet(P)
  <2>1. P \subseteq R /\ Cardinality(R) \in Nat
    BY FS_CardinalityType DEF Slices
  <2>2. IsFiniteSet(P) /\ Cardinality(P) \in Nat
    BY <2>1, FS_Subset, FS_CardinalityType
  <2> QED
    BY <2>1, <2>2 DEF Slices
<1>2. /\ IsFiniteSet(Above(x, R)) /\ Place(x, R) \in Nat
  BY <1>1, AboveFinite
<1>3. PICK A \in SUBSET (R \ P) : Cardinality(A) = off /\ Leads(A, R) /\ Leads(A \cup P, R)
  BY DEF Slices
<1>4. /\ IsFiniteSet(A) /\ IsFiniteSet(A \cup P)
      /\ Cardinality(A \cup P) = Cardinality(A) + Cardinality(P)
  <2>1. A \subseteq R /\ A \cap P = {} /\ A \cup P \subseteq R
    BY <1>1
  <2> QED
    BY <1>1, <2>1, Apart, FS_Subset
<1>5. A \subseteq Above(x, R)
  BY <1>1, <1>3 DEF Above, Leads
<1>6. Cardinality(A) <= Place(x, R)
  BY <1>2, <1>5, FS_Subset DEF Place
<1>7. Above(x, R) \subseteq (A \cup P) \ {x}
  BY <1>1, <1>3, PrecedesOrder DEF Above, Leads
<1>8. /\ IsFiniteSet((A \cup P) \ {x})
      /\ Cardinality((A \cup P) \ {x}) = Cardinality(A \cup P) - 1
  BY <1>4, FS_RemoveElement
<1>9. Place(x, R) <= Cardinality((A \cup P) \ {x})
  BY <1>7, <1>8, FS_Subset DEF Place
<1> QED
  BY <1>1, <1>2, <1>3, <1>4, <1>6, <1>8, <1>9
-----------------------------------------------------------------------------
(* The page and the walk *)

\* There is an oldest row.
LEMMA OldestExists ==
    ASSUME NEW P \in SUBSET Row, P # {}, Distinct(P), kind # "inbox"
    PROVE  Oldest(P) \in P /\ \A n \in P \ {Oldest(P)} : Precedes(n, Oldest(P))
<1>1. PICK a \in {m.at : m \in P} : \A t \in {m.at : m \in P} : a <= t
  <2>1. {m.at : m \in P} \in SUBSET Nat /\ {m.at : m \in P} # {}
    BY DEF Row
  <2> QED
    BY <2>1, HasLeast
<1>2. PICK i \in {m.id : m \in {n \in P : n.at = a}} :
              \A j \in {m.id : m \in {n \in P : n.at = a}} : i <= j
  <2>1. /\ {m.id : m \in {n \in P : n.at = a}} \in SUBSET Nat
        /\ {m.id : m \in {n \in P : n.at = a}} # {}
    BY <1>1 DEF Row, Id
  <2> QED
    BY <2>1, HasLeast
<1>3. PICK m \in P : m.at = a /\ m.id = i
  BY <1>2
<1>4. ASSUME NEW n \in P \ {m}
      PROVE  Precedes(n, m)
  <2>1. n.id # i /\ n.at >= a /\ n.id \in Nat /\ n.at \in Nat /\ i \in Nat /\ a \in Nat
    BY <1>1, <1>3, <1>4 DEF Distinct, Row, Id
  <2>2. n.at = a => n.id > i
    BY <1>2, <1>4, <2>1
  <2> QED
    BY <1>3, <2>1, <2>2 DEF Precedes
<1> QED
  BY <1>4 DEF Oldest

\* What the reader knows after a page.
LEMMA Shown ==
    ASSUME TypeOK, NEW P, P \subseteq rows, IsFiniteSet(rows)
    PROVE  LET s == Show(P)
               first == walk.page = 1 /\ walk.before = 0
           IN  /\ s.expected = IF first THEN Ids(Listed) ELSE walk.expected
               /\ s.shown = walk.shown \cup Ids(P)
               /\ s.repeated = walk.repeated \cup (Ids(P) \cap walk.shown)
               /\ s.again = walk.again + Cardinality(Ids(P) \cap walk.shown)
               /\ kind # "inbox" => s.loose = walk.loose
               /\ s \in [page : {walk.page}, before : {walk.before},
                         counting : {walk.counting}, done : {walk.done},
                         expected : SUBSET Id, shown : SUBSET Id, repeated : SUBSET Id,
                         again : Nat, left : {walk.left}, came : {walk.came},
                         loose : SUBSET Id]
<1>1. Ids(P) \subseteq Id /\ Ids(Listed) \subseteq Id /\ IsFiniteSet(P)
  BY FS_Subset DEF TypeOK, Ids, Listed
<1>2. Cardinality(Ids(P) \cap walk.shown) \in Nat
  BY <1>1, IdsCount, FS_Intersection, FS_CardinalityType
<1>3. {m.id : m \in {x \in Listed : \E n \in Listed \ {x} : n.at = x.at}} \subseteq Id
  BY DEF TypeOK, Listed
<1> DEFINE first == walk.page = 1 /\ walk.before = 0
           ties == {m.id : m \in {x \in Listed : \E n \in Listed \ {x} : n.at = x.at}}
           again == Ids(P) \cap walk.shown
           all == Ids(Listed)
           some == Ids(P)
<1>4. /\ all \in SUBSET Id /\ some \in SUBSET Id /\ ties \in SUBSET Id
      /\ Cardinality(again) \in Nat
  BY <1>1, <1>2, <1>3
<1>5. Show(P) = [walk EXCEPT !.expected = IF first THEN all ELSE @,
                             !.shown = @ \cup some,
                             !.repeated = @ \cup again,
                             !.again = @ + Cardinality(again),
                             !.loose = IF kind = "inbox" THEN @ \cup ties ELSE @]
  BY DEF Show
<1>6. again \in SUBSET Id
  BY <1>4
<1> HIDE DEF all, some, ties, again, first
<1>7. walk \in [page : Nat, before : walk.shown \cup {0}, counting : BOOLEAN, done : BOOLEAN,
                expected : SUBSET Id, shown : SUBSET Id, repeated : SUBSET Id, again : Nat,
                left : Nat, came : Nat, loose : SUBSET Id]
  BY DEF TypeOK
<1>8. Show(P) = [page |-> walk.page, before |-> walk.before, counting |-> walk.counting,
                 done |-> walk.done, expected |-> IF first THEN all ELSE walk.expected,
                 shown |-> walk.shown \cup some, repeated |-> walk.repeated \cup again,
                 again |-> walk.again + Cardinality(again), left |-> walk.left,
                 came |-> walk.came,
                 loose |-> IF kind = "inbox" THEN walk.loose \cup ties ELSE walk.loose]
  BY <1>5, <1>7
<1>9. /\ walk.expected \in SUBSET Id /\ walk.shown \in SUBSET Id
      /\ walk.repeated \in SUBSET Id /\ walk.loose \in SUBSET Id
      /\ walk.again + Cardinality(again) \in Nat
  BY <1>4, <1>7
<1>10. Show(P) \in [page : {walk.page}, before : {walk.before},
                    counting : {walk.counting}, done : {walk.done},
                    expected : SUBSET Id, shown : SUBSET Id, repeated : SUBSET Id,
                    again : Nat, left : {walk.left}, came : {walk.came},
                    loose : SUBSET Id]
  BY <1>4, <1>6, <1>8, <1>9
<1> QED
  BY <1>8, <1>10 DEF all, some, again, first
-----------------------------------------------------------------------------
(* Types, ids and the walk's shape *)

LEMMA SoundInit == Init => Sound
<1> SUFFICES ASSUME Init PROVE Sound
  OBVIOUS
<1>1. TypeOK
  BY PagesAssumption DEF Init, TypeOK, NewWalk, Ids
<1>2. StoringFits
  BY FS_EmptySet DEF Init, StoringFits, Distinct, Ids
<1>3. WalkFits
  BY DEF Init, WalkFits, NewWalk, Ids
<1> QED
  BY <1>1, <1>2, <1>3 DEF Sound

\* What a page does not change.
PageTurns == UNCHANGED <<kind, storing, rows, hidden, moves>>

\* The walk goes on with a page that was shown.
LEMMA SoundShown ==
    ASSUME Sound, PageTurns, NEW P, P \subseteq rows,
           walk' \in [page : Nat \ {0}, before : Nat, counting : BOOLEAN, done : BOOLEAN,
                      expected : {Show(P).expected}, shown : {Show(P).shown},
                      repeated : {Show(P).repeated}, again : {Show(P).again},
                      left : {walk.left}, came : {walk.came}, loose : {Show(P).loose}],
           walk'.before \in {0} \cup walk.shown \cup Ids(P),
           Begun', ~(walk'.done /\ walk'.counting),
           kind = "history" => walk'.page = 1,
           kind # "history" => walk'.before = 0,
           kind # "list" => ~walk'.counting
    PROVE  Sound'
<1>1. IsFiniteSet(rows) /\ TypeOK
  BY DEF Sound, StoringFits
<1>2. /\ Show(P) \in [page : {walk.page}, before : {walk.before},
                      counting : {walk.counting}, done : {walk.done},
                      expected : SUBSET Id, shown : SUBSET Id, repeated : SUBSET Id,
                      again : Nat, left : {walk.left}, came : {walk.came},
                      loose : SUBSET Id]
      /\ Show(P).shown = walk.shown \cup Ids(P)
      /\ Show(P).repeated = walk.repeated \cup (Ids(P) \cap walk.shown)
      /\ \/ Show(P).expected = Ids(Listed)
         \/ Show(P).expected = walk.expected
  BY <1>1, Shown
<1>3. walk.left \in Nat /\ walk.came \in Nat
  BY <1>1 DEF TypeOK
<1>4. walk' = [page |-> walk'.page, before |-> walk'.before, counting |-> walk'.counting,
               done |-> walk'.done,
               expected |-> Show(P).expected, shown |-> Show(P).shown,
               repeated |-> Show(P).repeated, again |-> Show(P).again,
               left |-> walk.left, came |-> walk.came, loose |-> Show(P).loose]
  OBVIOUS
<1>5. Ids(P) \subseteq Ids(rows) /\ Ids(Listed) \subseteq Ids(rows)
  BY DEF Ids, Listed
<1>6. walk' \in [page : Nat, before : walk'.shown \cup {0}, counting : BOOLEAN,
                 done : BOOLEAN, expected : SUBSET Id, shown : SUBSET Id,
                 repeated : SUBSET Id, again : Nat, left : Nat, came : Nat, loose : SUBSET Id]
  BY <1>2, <1>3, <1>4
<1>7. TypeOK'
  BY <1>1, <1>6 DEF TypeOK, PageTurns, storing, Ids
<1>8. StoringFits'
  BY DEF Sound, StoringFits, PageTurns, storing, Ids, Distinct
<1>9. walk.expected \cup walk.shown \cup walk.repeated \subseteq Ids(rows)
  BY DEF Sound, WalkFits
<1>10. walk'.expected \cup walk'.shown \cup walk'.repeated \subseteq Ids(rows)'
  BY <1>2, <1>4, <1>5, <1>9 DEF PageTurns, Ids
<1>12. kind # "list" => hidden = {}
  BY DEF Sound, WalkFits
<1>13. WalkFits'
  BY <1>4, <1>10, <1>12 DEF WalkFits, PageTurns
<1> QED
  BY <1>7, <1>8, <1>13 DEF Sound

\* A page of messages: the rows after the cursor, and whether there are more.
LEMMA HistoryPage ==
    ASSUME Sound, kind = "history",
           NEW fetched \in Slices(Matching, 0, Fetched), NEW page \in Slices(fetched, 0, Size)
    PROVE  /\ page \subseteq Matching /\ Matching \subseteq rows
           /\ IF Cardinality(fetched) > Size
              THEN /\ NextCursor(page, fetched) \in Ids(page)
                   /\ \A m \in page : m.id # NextCursor(page, fetched) =>
                         Precedes(m, Oldest(page))
                   /\ \A m \in Matching \ page : Precedes(Oldest(page), m)
                   /\ Oldest(page) \in page /\ Oldest(page).id = NextCursor(page, fetched)
              ELSE page = Matching
<1>1. /\ Matching \subseteq rows /\ fetched \subseteq Matching /\ page \subseteq fetched
      /\ rows \subseteq Row /\ IsFiniteSet(rows) /\ Distinct(rows) /\ Size \in Nat \ {0}
  BY PagesAssumption DEF Sound, TypeOK, StoringFits, Row, Matching, Slices
<1>2. /\ IsFiniteSet(Matching) /\ IsFiniteSet(fetched) /\ IsFiniteSet(page)
      /\ Cardinality(Matching) \in Nat /\ Cardinality(fetched) \in Nat
      /\ Cardinality(page) \in Nat
  BY <1>1, FS_Subset, FS_CardinalityType
<1>3. /\ Cardinality(fetched) = IF Cardinality(Matching) <= 0 THEN 0
                                ELSE IF Cardinality(Matching) - 0 < Size + 1
                                     THEN Cardinality(Matching) - 0 ELSE Size + 1
      /\ Cardinality(page) = IF Cardinality(fetched) <= 0 THEN 0
                             ELSE IF Cardinality(fetched) - 0 < Size
                                  THEN Cardinality(fetched) - 0 ELSE Size
  BY DEF Slices, Fetched
<1>4. CASE ~(Cardinality(fetched) > Size)
  <2>1. Cardinality(fetched) = Cardinality(Matching) /\ Cardinality(page) = Cardinality(fetched)
    BY <1>1, <1>2, <1>3, <1>4
  <2>2. fetched = Matching /\ page = fetched
    BY <1>1, <1>2, <2>1, FS_Subset
  <2> QED
    BY <1>1, <1>4, <2>2
<1>5. CASE Cardinality(fetched) > Size
  <2>1. page # {} /\ fetched # {}
    BY <1>1, <1>2, <1>3, <1>5, FS_EmptySet
  <2>2. Leads(fetched, Matching) /\ Leads(page, fetched)
    <3>1. PICK A \in SUBSET (Matching \ fetched) :
             Cardinality(A) = 0 /\ Leads(A \cup fetched, Matching)
      BY <2>1 DEF Slices
    <3>2. PICK B \in SUBSET (fetched \ page) :
             Cardinality(B) = 0 /\ Leads(B \cup page, fetched)
      BY <2>1 DEF Slices
    <3>3. A = {} /\ B = {}
      <4>1. IsFiniteSet(A) /\ IsFiniteSet(B)
        BY <1>1, <1>2, FS_Subset
      <4> QED
        BY <3>1, <3>2, <4>1, FS_EmptySet
    <3>4. A \cup fetched = fetched /\ B \cup page = page
      BY <3>3
    <3> QED
      BY <3>1, <3>2, <3>4
  <2>3. Oldest(page) \in page /\ \A n \in page \ {Oldest(page)} : Precedes(n, Oldest(page))
    <3>1. page \subseteq Row /\ Distinct(page)
      BY <1>1 DEF Distinct
    <3> QED
      BY <2>1, <3>1, OldestExists
  <2>4. ASSUME NEW m \in Matching \ page PROVE Precedes(Oldest(page), m)
    <3>1. ~Precedes(m, Oldest(page))
      BY <1>1, <2>2, <2>3 DEF Leads
    <3>2. Oldest(page) \in Row /\ m \in Row /\ m.id # Oldest(page).id
      BY <1>1, <2>3 DEF Distinct
    <3> QED
      BY <3>1, <3>2, PrecedesOrder
  <2> QED
    BY <1>1, <1>5, <2>3, <2>4 DEF NextCursor, Ids
<1> QED
  BY <1>4, <1>5

\* Only the numbers of rows that left and came change.
Counted == \E l, c \in Nat : walk' = [walk EXCEPT !.left = l, !.came = c] /\ (~Begun => walk' = walk)

LEMMA Counts ==
    ASSUME Sound, walk' = walk \/ walk' = Came
                  \/ walk' = IF Underway THEN [walk EXCEPT !.left = @ + 1] ELSE walk
    PROVE  Counted
<1>1. TypeOK
  BY DEF Sound
<1>2. Underway => Begun
  BY DEF Underway, Begun
<1>3. CASE walk' = walk
  <2>1. walk' = [walk EXCEPT !.left = walk.left, !.came = walk.came]
    BY <1>1, <1>3 DEF TypeOK
  <2> QED
    BY <1>1, <1>3, <2>1 DEF Counted, TypeOK
<1>4. CASE Underway /\ walk' = [walk EXCEPT !.came = @ + 1]
  <2>1. walk' = [walk EXCEPT !.left = walk.left, !.came = walk.came + 1]
    BY <1>1, <1>4 DEF TypeOK
  <2>2. walk.left \in Nat /\ walk.came + 1 \in Nat
    BY <1>1 DEF TypeOK
  <2> QED
    BY <1>2, <1>4, <2>1, <2>2 DEF Counted
<1>5. CASE Underway /\ walk' = [walk EXCEPT !.left = @ + 1]
  <2>1. walk' = [walk EXCEPT !.left = walk.left + 1, !.came = walk.came]
    BY <1>1, <1>5 DEF TypeOK
  <2>2. walk.left + 1 \in Nat /\ walk.came \in Nat
    BY <1>1 DEF TypeOK
  <2> QED
    BY <1>2, <1>5, <2>1, <2>2 DEF Counted
<1> QED
  BY <1>3, <1>4, <1>5 DEF Came

\* A walk that is only counted on keeps its shape while rows come and leave the list.
LEMMA SoundCounted ==
    ASSUME Sound, Counted, kind' = kind, Ids(rows) \subseteq Ids(rows)',
           kind # "list" => hidden' = hidden
    PROVE  /\ WalkFits'
           /\ walk' \in [page : Nat, before : walk'.shown \cup {0}, counting : BOOLEAN,
                         done : BOOLEAN, expected : SUBSET Id, shown : SUBSET Id,
                         repeated : SUBSET Id, again : Nat, left : Nat, came : Nat,
                         loose : SUBSET Id]
<1>1. TypeOK /\ WalkFits
  BY DEF Sound
<1>2. PICK l, c \in Nat : /\ walk' = [walk EXCEPT !.left = l, !.came = c]
                          /\ ~Begun => walk' = walk
  BY DEF Counted
<1>3. walk \in [page : Nat, before : walk.shown \cup {0}, counting : BOOLEAN,
                done : BOOLEAN, expected : SUBSET Id, shown : SUBSET Id,
                repeated : SUBSET Id, again : Nat, left : Nat, came : Nat,
                loose : SUBSET Id]
  BY <1>1 DEF TypeOK
<1>4. walk' = [page |-> walk.page, before |-> walk.before, counting |-> walk.counting,
               done |-> walk.done, expected |-> walk.expected, shown |-> walk.shown,
               repeated |-> walk.repeated, again |-> walk.again, left |-> l, came |-> c,
               loose |-> walk.loose]
  BY <1>2, <1>3
<1>5. Begun' = Begun
  BY <1>4 DEF Begun
<1>6. WalkFits'
  BY <1>1, <1>2, <1>4, <1>5 DEF WalkFits
<1> QED
  BY <1>3, <1>4, <1>6

LEMMA SoundNext == Sound /\ [Next]_vars => Sound'
<1> SUFFICES ASSUME Sound, [Next]_vars PROVE Sound'
  OBVIOUS
<1> USE PagesAssumption
<1>0. TypeOK /\ StoringFits /\ WalkFits
  BY DEF Sound
<1>1. ASSUME NEW w \in Writer, Begin(w)
      PROVE  Sound'
  <2>1. Counted
    BY <1>1, Counts DEF Begin
  <2>2. WalkFits' /\ UNCHANGED walk
    BY <1>1, <2>1, SoundCounted DEF Begin, Ids
  <2>3. TypeOK'
    BY <1>0, <1>1, <2>2 DEF Begin, TypeOK, Ids
  <2>4. StoringFits'
    BY <1>0, <1>1 DEF Begin, TypeOK, StoringFits, Ids, Distinct
  <2> QED
    BY <2>2, <2>3, <2>4 DEF Sound
<1>2. ASSUME NEW w \in Writer, Insert(w)
      PROVE  Sound'
  <2>1. Counted
    BY <1>2, Counts DEF Insert
  <2>2. WalkFits' /\ UNCHANGED walk
    BY <1>2, <2>1, SoundCounted DEF Insert, Ids
  <2>3. TypeOK'
    BY <1>0, <1>2, <2>2 DEF Insert, TypeOK, Ids
  <2>4. lastId + 1 \notin Ids(rows)
    BY <1>0 DEF StoringFits, TypeOK, Ids, Id
  <2>5. StoringFits'
    BY <1>0, <1>2, <2>4 DEF Insert, TypeOK, StoringFits, Ids, Distinct, Id
  <2> QED
    BY <2>2, <2>3, <2>5 DEF Sound
<1>3. ASSUME NEW w \in Writer, Commit(w)
      PROVE  Sound'
  <2> DEFINE z == [id |-> newId[w], at |-> stamp[w]]
  <2>0. z.id = newId[w] /\ z.at = stamp[w] /\ rows' = rows \cup {z}
    BY <1>3 DEF Commit
  <2>1. Counted
    BY <1>3, Counts DEF Commit
  <2>2. Ids(rows)' = Ids(rows) \cup {newId[w]}
    BY <2>0 DEF Ids
  <2>3. /\ WalkFits'
        /\ walk' \in [page : Nat, before : walk'.shown \cup {0}, counting : BOOLEAN,
                      done : BOOLEAN, expected : SUBSET Id, shown : SUBSET Id,
                      repeated : SUBSET Id, again : Nat, left : Nat, came : Nat,
                      loose : SUBSET Id]
    BY <1>3, <2>1, <2>2, SoundCounted DEF Commit
  <2>4. z \in [id : Id, at : 1..MaxRow + 1]
    BY <1>0, <1>3 DEF Commit, TypeOK, StoringFits, Id
  <2> HIDE DEF z
  <2>5. TypeOK'
    <3>1. stamp' \in [Writer -> 0..MaxRow + 1] /\ newId' \in [Writer -> 0..MaxRow]
      BY <1>0, <1>3 DEF Commit, TypeOK
    <3>2. rows' \subseteq [id : Id, at : 1..MaxRow + 1] /\ hidden' \subseteq Ids(rows)'
      BY <1>0, <1>3, <2>0, <2>2, <2>4 DEF Commit, TypeOK
    <3> QED
      BY <1>0, <1>3, <2>3, <3>1, <3>2 DEF Commit, TypeOK
  <2>6. IsFiniteSet(rows')
    BY <1>0, <2>0, FS_AddElement DEF StoringFits
  <2>7. Distinct(rows)'
    BY <1>0, <1>3, <2>0 DEF Commit, StoringFits, Distinct, Ids
  <2>8. StoringFits'
    <3>1. \A m \in rows' : m.id <= lastId /\ m.at <= now
      BY <1>0, <1>3, <2>0 DEF Commit, StoringFits
    <3>2. ASSUME NEW v \in Writer
          PROVE  /\ stamp'[v] <= now
                 /\ newId'[v] # 0 =>
                       /\ stamp'[v] # 0 /\ newId'[v] <= lastId /\ newId'[v] \notin Ids(rows)'
                       /\ \A u \in Writer \ {v} : newId'[u] # newId'[v]
      <4>1. /\ stamp' = [stamp EXCEPT ![w] = 0] /\ newId' = [newId EXCEPT ![w] = 0]
            /\ stamp \in [Writer -> 0..MaxRow + 1] /\ newId \in [Writer -> 0..MaxRow]
            /\ now \in Nat
        BY <1>0, <1>3 DEF Commit, TypeOK
      <4>2. CASE v = w
        BY <4>1, <4>2
      <4>3. CASE v # w
        <5>1. stamp'[v] = stamp[v] /\ newId'[v] = newId[v]
          BY <4>1, <4>3
        <5>2. newId[v] # 0 => newId[v] \notin Ids(rows)'
          BY <1>0, <1>3, <2>2, <4>3 DEF Commit, StoringFits
        <5>3. \A u \in Writer : newId'[u] = newId[u] \/ newId'[u] = 0
          BY <4>1
        <5> QED
          BY <1>0, <5>1, <5>2, <5>3 DEF StoringFits
      <4> QED
        BY <4>2, <4>3
    <3> QED
      BY <1>3, <2>6, <2>7, <3>1, <3>2 DEF Commit, StoringFits
  <2> QED
    BY <2>3, <2>5, <2>8 DEF Sound
<1>4. ASSUME NEW w \in Writer, Rollback(w)
      PROVE  Sound'
  <2>1. Counted
    BY <1>4, Counts DEF Rollback
  <2>2. WalkFits' /\ UNCHANGED walk
    BY <1>4, <2>1, SoundCounted DEF Rollback, Ids
  <2>3. TypeOK'
    BY <1>0, <1>4, <2>2 DEF Rollback, TypeOK, Ids
  <2>4. StoringFits'
    BY <1>0, <1>4 DEF Rollback, TypeOK, StoringFits, Ids, Distinct
  <2> QED
    BY <2>2, <2>3, <2>4 DEF Sound
<1>5. ASSUME NEW i \in Id, Hide(i) \/ Return(i)
      PROVE  Sound'
  <2>1. Counted
    BY <1>5, Counts DEF Hide, Return
  <2>2. kind = "list" /\ UNCHANGED <<kind, storing, rows>>
    BY <1>5 DEF Hide, Return
  <2>3. /\ WalkFits'
        /\ walk' \in [page : Nat, before : walk'.shown \cup {0}, counting : BOOLEAN,
                      done : BOOLEAN, expected : SUBSET Id, shown : SUBSET Id,
                      repeated : SUBSET Id, again : Nat, left : Nat, came : Nat,
                      loose : SUBSET Id]
    BY <2>1, <2>2, SoundCounted DEF Ids
  <2>4. hidden' \subseteq Ids(rows) /\ moves' \in 0..MaxMove
    BY <1>0, <1>5 DEF Hide, Return, Move, TypeOK, Ids, Listed
  <2>5. TypeOK'
    BY <1>0, <2>2, <2>3, <2>4 DEF TypeOK, storing, Ids
  <2>6. StoringFits'
    BY <1>0, <2>2 DEF StoringFits, storing, Ids, Distinct
  <2> QED
    BY <2>3, <2>5, <2>6 DEF Sound
<1>6. ASSUME NEW m \in rows, MoveUp(m)
      PROVE  Sound'
  <2> DEFINE moved == [m EXCEPT !.at = now]
  <2>1. /\ kind = "inbox" /\ moves' \in 0..MaxMove /\ UNCHANGED <<kind, storing, hidden>>
        /\ rows' = (rows \ {m}) \cup {moved}
        /\ walk' = IF Underway THEN [walk EXCEPT !.loose = @ \cup {m.id}] ELSE walk
    BY <1>0, <1>6 DEF MoveUp, Move, TypeOK
  <2>2. moved \in Row /\ m \in Row /\ moved.id = m.id /\ moved.at = now
    BY <1>0 DEF TypeOK, Row
  <2>3. Ids(rows)' = Ids(rows)
    BY <2>1, <2>2 DEF Ids
  <2> HIDE DEF moved
  <2>4. walk \in [page : Nat, before : walk.shown \cup {0}, counting : BOOLEAN,
                  done : BOOLEAN, expected : SUBSET Id, shown : SUBSET Id,
                  repeated : SUBSET Id, again : Nat, left : Nat, came : Nat,
                  loose : SUBSET Id]
    BY <1>0 DEF TypeOK
  <2>5. PICK L \in SUBSET Id : /\ walk' = [walk EXCEPT !.loose = L]
                               /\ ~Underway => walk' = walk
    <3>1. walk.loose \cup {m.id} \in SUBSET Id /\ walk.loose \in SUBSET Id
      BY <2>2, <2>4 DEF Row
    <3>2. CASE Underway
      BY <2>1, <3>1, <3>2
    <3>3. CASE ~Underway
      BY <2>1, <2>4, <3>1, <3>3
    <3> QED
      BY <3>2, <3>3
  <2>6. walk' = [page |-> walk.page, before |-> walk.before, counting |-> walk.counting,
                 done |-> walk.done, expected |-> walk.expected, shown |-> walk.shown,
                 repeated |-> walk.repeated, again |-> walk.again, left |-> walk.left,
                 came |-> walk.came, loose |-> L]
    BY <2>4, <2>5
  <2>7. WalkFits'
    <3>1. Begun' = Begun
      BY <2>6 DEF Begun
    <3>2. ~Begun => ~Underway
      BY <2>4 DEF Begun, Underway
    <3>3. ~Begun => walk' = walk
      BY <2>5, <3>2
    <3> QED
      BY <1>0, <2>1, <2>3, <2>6, <3>1, <3>3 DEF WalkFits
  <2>8. TypeOK'
    <3>1. walk' \in [page : Nat, before : walk'.shown \cup {0}, counting : BOOLEAN,
                     done : BOOLEAN, expected : SUBSET Id, shown : SUBSET Id,
                     repeated : SUBSET Id, again : Nat, left : Nat, came : Nat,
                     loose : SUBSET Id]
      BY <2>4, <2>6
    <3>2. rows' \subseteq Row /\ hidden' \subseteq Ids(rows)'
      BY <1>0, <2>1, <2>2, <2>3 DEF TypeOK, Row
    <3> QED
      BY <1>0, <2>1, <3>1, <3>2 DEF TypeOK, storing, Row
  <2>9. StoringFits'
    <3>1. IsFiniteSet(rows')
      BY <1>0, <2>1, FS_AddElement, FS_RemoveElement DEF StoringFits
    <3>2. Distinct(rows)'
      BY <1>0, <2>1, <2>2 DEF StoringFits, Distinct
    <3>3. \A n \in rows' : n.id <= lastId /\ n.at <= now
      BY <1>0, <2>1, <2>2 DEF StoringFits, TypeOK
    <3> QED
      BY <1>0, <2>1, <2>3, <3>1, <3>2, <3>3 DEF StoringFits, storing
  <2> QED
    BY <2>7, <2>8, <2>9 DEF Sound
<1>7. ASSUME NextHistoryPage
      PROVE  Sound'
  <2>0. PICK fetched \in Slices(Matching, 0, Fetched) : \E page \in Slices(fetched, 0, Size) :
           walk' = [Show(page) EXCEPT
                      !.done = ~(Cardinality(fetched) > Size),
                      !.before = IF Cardinality(fetched) > Size
                                 THEN NextCursor(page, fetched) ELSE @]
    BY <1>7 DEF NextHistoryPage
  <2>1. PICK page \in Slices(fetched, 0, Size) :
           walk' = [Show(page) EXCEPT
                      !.done = ~(Cardinality(fetched) > Size),
                      !.before = IF Cardinality(fetched) > Size
                                 THEN NextCursor(page, fetched) ELSE @]
    BY <2>0
  <2>2. kind = "history" /\ PageTurns /\ ~walk.done
    BY <1>7 DEF NextHistoryPage, PageTurns
  <2>3. /\ page \subseteq rows
        /\ Cardinality(fetched) > Size => NextCursor(page, fetched) \in Ids(page)
    BY <2>2, HistoryPage
  <2>4. /\ Show(page) \in [page : {walk.page}, before : {walk.before},
                           counting : {walk.counting}, done : {walk.done},
                           expected : SUBSET Id, shown : SUBSET Id, repeated : SUBSET Id,
                           again : Nat, left : {walk.left}, came : {walk.came},
                           loose : SUBSET Id]
    BY <1>0, <2>3, Shown DEF StoringFits
  <2>5. walk.page = 1 /\ ~walk.counting /\ walk.before \in walk.shown \cup {0}
        /\ walk.shown \subseteq Id /\ walk.counting = FALSE
    BY <1>0, <2>2 DEF WalkFits, TypeOK
  <2>6. CASE Cardinality(fetched) > Size
    <3> DEFINE b == NextCursor(page, fetched)
    <3>1. b \in Ids(page) /\ Ids(page) \subseteq Id
      BY <1>0, <2>3, <2>6 DEF TypeOK, Ids
    <3> HIDE DEF b
    <3>2. walk' = [Show(page) EXCEPT !.done = FALSE, !.before = b]
      BY <2>1, <2>6 DEF b
    <3>3. /\ walk' \in [page : {1}, before : {b}, counting : BOOLEAN, done : BOOLEAN,
                    expected : {Show(page).expected}, shown : {Show(page).shown},
                    repeated : {Show(page).repeated}, again : {Show(page).again},
                    left : {walk.left}, came : {walk.came}, loose : {Show(page).loose}]
          /\ walk'.counting = FALSE /\ walk'.done = FALSE
      BY <2>4, <2>5, <3>2
    <3>4. b \in Nat \ {0}
      BY <3>1 DEF Id
    <3>7. walk' \in [page : Nat \ {0}, before : Nat, counting : BOOLEAN, done : BOOLEAN,
                       expected : {Show(page).expected}, shown : {Show(page).shown},
                       repeated : {Show(page).repeated}, again : {Show(page).again},
                       left : {walk.left}, came : {walk.came}, loose : {Show(page).loose}]
      BY <2>2, <2>3, <3>1, <3>3, <3>4
    <3>8. walk'.page = 1 /\ walk'.before = b
      BY <2>2, <2>3, <3>1, <3>3, <3>4
    <3>9. Begun' /\ ~(walk'.done /\ walk'.counting)
      BY <2>2, <2>3, <3>1, <3>3, <3>4, <3>8 DEF Begun
    <3> QED
      BY <2>2, <2>3, <3>1, <3>3, <3>4, <3>7, <3>8, <3>9, SoundShown
  <2>7. CASE ~(Cardinality(fetched) > Size)
    <3>1. walk' = [Show(page) EXCEPT !.done = TRUE, !.before = @]
      BY <2>1, <2>7
    <3>2. /\ walk' \in [page : {1}, before : {walk.before}, counting : BOOLEAN, done : BOOLEAN,
                    expected : {Show(page).expected}, shown : {Show(page).shown},
                    repeated : {Show(page).repeated}, again : {Show(page).again},
                    left : {walk.left}, came : {walk.came}, loose : {Show(page).loose}]
          /\ walk'.counting = FALSE /\ walk'.done = TRUE
      BY <2>4, <2>5, <3>1
    <3>4. walk.before \in Nat
      BY <2>5 DEF Id
    <3>7. walk' \in [page : Nat \ {0}, before : Nat, counting : BOOLEAN, done : BOOLEAN,
                       expected : {Show(page).expected}, shown : {Show(page).shown},
                       repeated : {Show(page).repeated}, again : {Show(page).again},
                       left : {walk.left}, came : {walk.came}, loose : {Show(page).loose}]
      BY <2>2, <2>3, <2>5, <3>2, <3>4
    <3>8. walk'.page = 1 /\ walk'.before = walk.before
      BY <2>2, <2>3, <2>5, <3>2, <3>4
    <3>9. Begun' /\ ~(walk'.done /\ walk'.counting)
      BY <2>2, <2>3, <2>5, <3>2, <3>4, <3>8 DEF Begun
    <3> QED
      BY <2>2, <2>3, <2>5, <3>2, <3>4, <3>7, <3>8, <3>9, SoundShown
  <2> QED
    BY <2>6, <2>7
<1>8. ASSUME NextListPage
      PROVE  Sound'
  <2>1. PICK page \in Slices(Listed, Offset, Size) : walk' = [Show(page) EXCEPT !.counting = TRUE]
    BY <1>8 DEF NextListPage
  <2>2. kind = "list" /\ PageTurns /\ ~walk.done /\ page \subseteq rows
    BY <1>8 DEF NextListPage, PageTurns, Slices, Listed
  <2>3. /\ Show(page) \in [page : {walk.page}, before : {walk.before},
                           counting : {walk.counting}, done : {walk.done},
                           expected : SUBSET Id, shown : SUBSET Id, repeated : SUBSET Id,
                           again : Nat, left : {walk.left}, came : {walk.came},
                           loose : SUBSET Id]
    BY <1>0, <2>2, Shown DEF StoringFits
  <2>4. walk.page \in Nat \ {0} /\ walk.before = 0
    BY <1>0, <2>2 DEF WalkFits, TypeOK
  <2>5. /\ walk' \in [page : {walk.page}, before : {0}, counting : BOOLEAN, done : BOOLEAN,
                    expected : {Show(page).expected}, shown : {Show(page).shown},
                    repeated : {Show(page).repeated}, again : {Show(page).again},
                    left : {walk.left}, came : {walk.came}, loose : {Show(page).loose}]
        /\ walk'.counting = TRUE /\ walk'.done = FALSE
    <3>1. walk.done = FALSE
      BY <1>0, <2>2 DEF TypeOK
    <3> QED
      BY <2>1, <2>3, <2>4, <3>1
  <2>7. walk' \in [page : Nat \ {0}, before : Nat, counting : BOOLEAN, done : BOOLEAN,
                     expected : {Show(page).expected}, shown : {Show(page).shown},
                     repeated : {Show(page).repeated}, again : {Show(page).again},
                     left : {walk.left}, came : {walk.came}, loose : {Show(page).loose}]
    BY <2>2, <2>4, <2>5
  <2>8. walk'.page = walk.page /\ walk'.before = 0
    BY <2>2, <2>4, <2>5
  <2>9. Begun' /\ ~(walk'.done /\ walk'.counting)
    BY <2>2, <2>4, <2>5, <2>8 DEF Begun
  <2> QED
    BY <2>2, <2>4, <2>5, <2>7, <2>8, <2>9, SoundShown
<1>9. ASSUME CountList
      PROVE  Sound'
  <2>1. PICK done \in BOOLEAN :
           walk' = [walk EXCEPT !.counting = FALSE, !.page = @ + 1, !.done = done]
    <3>1. LastPage(Cardinality(Listed)) \in BOOLEAN
      BY DEF LastPage
    <3> QED
      BY <1>9, <3>1 DEF CountList
  <2>2. walk.counting /\ UNCHANGED <<kind, storing, rows, hidden, moves>>
    BY <1>9 DEF CountList
  <2>3. walk \in [page : Nat, before : walk.shown \cup {0}, counting : BOOLEAN,
                  done : BOOLEAN, expected : SUBSET Id, shown : SUBSET Id,
                  repeated : SUBSET Id, again : Nat, left : Nat, came : Nat,
                  loose : SUBSET Id]
    BY <1>0 DEF TypeOK
  <2>4. walk' = [page |-> walk.page + 1, before |-> walk.before, counting |-> FALSE,
                 done |-> done, expected |-> walk.expected, shown |-> walk.shown,
                 repeated |-> walk.repeated, again |-> walk.again, left |-> walk.left,
                 came |-> walk.came, loose |-> walk.loose]
    BY <2>1, <2>3
  <2>5. TypeOK'
    <3>1. walk' \in [page : Nat, before : walk'.shown \cup {0}, counting : BOOLEAN,
                     done : BOOLEAN, expected : SUBSET Id, shown : SUBSET Id,
                     repeated : SUBSET Id, again : Nat, left : Nat, came : Nat,
                     loose : SUBSET Id]
      BY <2>3, <2>4
    <3> QED
      BY <1>0, <2>2, <3>1 DEF TypeOK, storing, Ids
  <2>6. StoringFits'
    BY <1>0, <2>2 DEF StoringFits, storing, Ids, Distinct
  <2>7. WalkFits'
    <3>1. walk'.page # 1 /\ walk'.page # 0
      BY <1>0, <2>3, <2>4 DEF WalkFits
    <3> QED
      BY <1>0, <2>2, <2>4, <3>1 DEF WalkFits, Begun, Ids
  <2> QED
    BY <2>5, <2>6, <2>7 DEF Sound
<1>10. ASSUME NextInboxPage
       PROVE  Sound'
  <2>0. PICK page \in Slices(Listed, Offset, Size) :
           walk' = [Show(page) EXCEPT
                      !.page = @ + 1,
                      !.done = LastPage(IF page = {} THEN 0 ELSE Cardinality(Listed))]
    BY <1>10 DEF NextInboxPage
  <2>1. PICK done \in BOOLEAN : walk' = [Show(page) EXCEPT !.page = @ + 1, !.done = done]
    <3>1. LastPage(IF page = {} THEN 0 ELSE Cardinality(Listed)) \in BOOLEAN
      BY DEF LastPage
    <3> QED
      BY <2>0, <3>1
  <2>2. kind = "inbox" /\ PageTurns /\ ~walk.done /\ page \subseteq rows
    BY <1>10 DEF NextInboxPage, PageTurns, Slices, Listed
  <2>3. /\ Show(page) \in [page : {walk.page}, before : {walk.before},
                           counting : {walk.counting}, done : {walk.done},
                           expected : SUBSET Id, shown : SUBSET Id, repeated : SUBSET Id,
                           again : Nat, left : {walk.left}, came : {walk.came},
                           loose : SUBSET Id]
    BY <1>0, <2>2, Shown DEF StoringFits
  <2>4. walk.page \in Nat \ {0} /\ walk.before = 0 /\ ~walk.counting
    BY <1>0, <2>2 DEF WalkFits, TypeOK
  <2> DEFINE next == walk.page + 1
  <2>5. next \in Nat \ {0} /\ next # 1
    BY <2>4
  <2>6. /\ walk' \in [page : {next}, before : {0}, counting : BOOLEAN, done : BOOLEAN,
                    expected : {Show(page).expected}, shown : {Show(page).shown},
                    repeated : {Show(page).repeated}, again : {Show(page).again},
                    left : {walk.left}, came : {walk.came}, loose : {Show(page).loose}]
        /\ walk'.counting = FALSE /\ walk'.done = done
    <3>1. walk.counting = FALSE
      BY <1>0, <2>4 DEF TypeOK
    <3>2. walk' = [Show(page) EXCEPT !.page = next, !.done = done]
      BY <2>1, <2>3
    <3> HIDE DEF next
    <3> QED
      BY <2>3, <2>4, <3>1, <3>2
  <2> HIDE DEF next
  <2>7. walk' \in [page : Nat \ {0}, before : Nat, counting : BOOLEAN, done : BOOLEAN,
                     expected : {Show(page).expected}, shown : {Show(page).shown},
                     repeated : {Show(page).repeated}, again : {Show(page).again},
                     left : {walk.left}, came : {walk.came}, loose : {Show(page).loose}]
    BY <2>2, <2>5, <2>6
  <2>8. walk'.page = next /\ walk'.before = 0
    BY <2>2, <2>5, <2>6
  <2>9. Begun' /\ ~(walk'.done /\ walk'.counting)
    BY <2>2, <2>5, <2>6, <2>8 DEF Begun
  <2> QED
    BY <2>2, <2>5, <2>6, <2>7, <2>8, <2>9, SoundShown
<1>11. ASSUME Reopen
       PROVE  Sound'
  <2>1. walk' = NewWalk /\ UNCHANGED <<kind, storing, rows, hidden, moves>>
    BY <1>11 DEF Reopen
  <2>2. TypeOK'
    BY <1>0, <2>1 DEF TypeOK, storing, Ids, NewWalk
  <2>3. StoringFits'
    BY <1>0, <2>1 DEF StoringFits, storing, Ids, Distinct
  <2>4. WalkFits'
    BY <1>0, <2>1 DEF WalkFits, Begun, NewWalk, Ids
  <2> QED
    BY <2>2, <2>3, <2>4 DEF Sound
<1>12. CASE UNCHANGED vars
  BY <1>0, <1>12 DEF Sound, TypeOK, StoringFits, WalkFits, vars, storing, Ids, Distinct, Begun
<1> QED
  BY <1>1, <1>2, <1>3, <1>4, <1>5, <1>6, <1>7, <1>8, <1>9, <1>10, <1>11, <1>12 DEF Next
-----------------------------------------------------------------------------
(* A walk back through a conversation *)

\* A message is missed only if it is reversed or still to come.  One that was shown comes
\* again only if it is reversed, for the cursor is older than the others.
HistoryFits ==
    kind = "history" /\ Begun =>
       /\ \A m \in rows :
             /\ m.id \in walk.expected \ walk.shown =>
                   Reversed(m.id) \/ (~walk.done /\ m.id < walk.before)
             /\ m.id \in walk.shown => Reversed(m.id) \/ walk.done \/ m.id >= walk.before
       /\ \A i \in walk.repeated : Reversed(i)

\* Messages stay, and so they stay reversed.
LEMMA ReversedStays ==
    ASSUME rows \subseteq rows', NEW i, Reversed(i)
    PROVE  Reversed(i)'
  BY DEF Reversed

\* Rows are only added, each with an id of its own, and the walk stays as it is.
LEMMA HistoryGrows ==
    ASSUME Sound, HistoryFits, kind' = kind, rows \subseteq rows',
           \A m \in rows' \ rows : m.id \notin Ids(rows),
           kind = "history" => walk' = walk
    PROVE  HistoryFits'
<1> SUFFICES ASSUME kind = "history", Begun'
             PROVE  /\ \A m \in rows' :
                          /\ m.id \in walk'.expected \ walk'.shown =>
                                Reversed(m.id)' \/ (~walk'.done /\ m.id < walk'.before)
                          /\ m.id \in walk'.shown =>
                                Reversed(m.id)' \/ walk'.done \/ m.id >= walk'.before
                    /\ \A i \in walk'.repeated : Reversed(i)'
  BY DEF HistoryFits
<1>1. walk' = walk /\ Begun
  BY DEF Begun
<1>2. walk.expected \cup walk.shown \cup walk.repeated \subseteq Ids(rows)
  BY DEF Sound, WalkFits
<1>3. \A m \in rows' : m.id \in walk.expected \cup walk.shown => m \in rows
  BY <1>2
<1>4. \A i : Reversed(i) => Reversed(i)'
  BY ReversedStays
<1> QED
  BY <1>1, <1>3, <1>4 DEF HistoryFits

LEMMA HistoryNextPage ==
    ASSUME Sound, Sound', HistoryFits, NextHistoryPage
    PROVE  HistoryFits'
<1>1. PICK fetched \in Slices(Matching, 0, Fetched) : \E page \in Slices(fetched, 0, Size) :
         walk' = [Show(page) EXCEPT
                    !.done = ~(Cardinality(fetched) > Size),
                    !.before = IF Cardinality(fetched) > Size
                               THEN NextCursor(page, fetched) ELSE @]
  BY DEF NextHistoryPage
<1>2. PICK page \in Slices(fetched, 0, Size) :
         walk' = [Show(page) EXCEPT
                    !.done = ~(Cardinality(fetched) > Size),
                    !.before = IF Cardinality(fetched) > Size
                               THEN NextCursor(page, fetched) ELSE @]
  BY <1>1
<1> DEFINE b == NextCursor(page, fetched)
           more == Cardinality(fetched) > Size
<1>3. kind = "history" /\ UNCHANGED <<kind, rows, hidden>> /\ ~walk.done
  BY DEF NextHistoryPage
<1>4. /\ TypeOK /\ IsFiniteSet(rows) /\ rows \subseteq Row /\ Distinct(rows)
      /\ walk.page = 1 /\ hidden = {} /\ walk.before \in Nat /\ walk'.before \in Nat
      /\ walk.before = 0 => walk.shown = {} /\ walk.repeated = {}
  <2>1. /\ TypeOK /\ IsFiniteSet(rows) /\ rows \subseteq Row /\ Distinct(rows)
        /\ walk.page = 1 /\ hidden = {} /\ ~walk.counting
        /\ ~Begun => walk = NewWalk
    BY <1>3 DEF Sound, TypeOK, StoringFits, WalkFits, Row
  <2>2. walk.before \in Nat /\ walk'.before \in Nat
    BY DEF Sound, TypeOK, Id
  <2>3. walk.before = 0 => ~Begun
    BY <1>3, <2>1 DEF Begun
  <2> QED
    BY <2>1, <2>2, <2>3 DEF NewWalk
<1>5. /\ page \subseteq Matching /\ Matching \subseteq rows
      /\ more => /\ b \in Ids(page)
                 /\ \A m \in page : m.id # b => Precedes(m, Oldest(page))
                 /\ \A m \in Matching \ page : Precedes(Oldest(page), m)
                 /\ Oldest(page) \in page /\ Oldest(page).id = b
      /\ ~more => page = Matching
  BY <1>3, HistoryPage
<1>6. /\ walk'.expected = IF walk.before = 0 THEN Ids(rows) ELSE walk.expected
      /\ walk'.shown = walk.shown \cup Ids(page)
      /\ walk'.repeated = walk.repeated \cup (Ids(page) \cap walk.shown)
      /\ more => walk'.done = FALSE /\ walk'.before = b
      /\ ~more => walk'.done = TRUE
  <2>1. LET s == Show(page)
            first == walk.page = 1 /\ walk.before = 0
        IN  /\ s.expected = IF first THEN Ids(Listed) ELSE walk.expected
            /\ s.shown = walk.shown \cup Ids(page)
            /\ s.repeated = walk.repeated \cup (Ids(page) \cap walk.shown)
            /\ s \in [page : {walk.page}, before : {walk.before},
                      counting : {walk.counting}, done : {walk.done},
                      expected : SUBSET Id, shown : SUBSET Id, repeated : SUBSET Id,
                      again : Nat, left : {walk.left}, came : {walk.came},
                      loose : SUBSET Id]
    BY <1>4, <1>5, Shown
  <2>2. Listed = rows
    BY <1>4 DEF Listed
  <2>3. CASE more
    <3>1. walk' = [Show(page) EXCEPT !.done = FALSE, !.before = b]
      BY <1>2, <2>3
    <3> HIDE DEF b
    <3> QED
      BY <1>4, <2>1, <2>2, <2>3, <3>1
  <2>4. CASE ~more
    <3>1. walk' = [Show(page) EXCEPT !.done = TRUE, !.before = @]
      BY <1>2, <2>4
    <3> QED
      BY <1>4, <2>1, <2>2, <2>4, <3>1
  <2> QED
    BY <2>3, <2>4
<1> HIDE DEF b, more
<1>7. \A i : Reversed(i) => Reversed(i)'
  BY <1>3, ReversedStays
<1>8. ASSUME NEW m \in rows, m.id \in walk'.expected \ walk'.shown
      PROVE  Reversed(m.id)' \/ (~walk'.done /\ m.id < walk'.before)
  <2>1. m \notin page /\ (walk.before # 0 => m.id \in walk.expected \ walk.shown)
    BY <1>6, <1>8 DEF Ids
  <2>2. Reversed(m.id) \/ m \in Matching
    BY <1>3, <1>4, <2>1 DEF HistoryFits, Begun, Matching
  <2>3. CASE m \in Matching
    <3>1. more /\ Precedes(Oldest(page), m) /\ Oldest(page).id = b /\ Oldest(page) \in rows
      BY <1>5, <2>1, <2>3
    <3>2. m.id < b \/ (b < m.id /\ Oldest(page).at > m.at)
      <4>1. m # Oldest(page)
        BY <1>5, <2>1, <3>1
      <4>2. m.id # b /\ m.id \in Nat /\ b \in Nat
        BY <1>4, <3>1, <4>1 DEF Distinct, Row, Id
      <4>3. Oldest(page).at > m.at \/ b > m.id
        BY <3>1 DEF Precedes
      <4> QED
        BY <4>2, <4>3
    <3>3. b < m.id /\ Oldest(page).at > m.at => Reversed(m.id)
      BY <1>4, <3>1 DEF Reversed, Row
    <3> QED
      BY <1>6, <1>7, <3>1, <3>2, <3>3
  <2> QED
    BY <1>7, <2>2, <2>3
<1>9. ASSUME NEW m \in rows, m.id \in walk'.shown
      PROVE  Reversed(m.id)' \/ walk'.done \/ m.id >= walk'.before
  <2>1. CASE ~more
    BY <1>6, <2>1
  <2>2. CASE more /\ m \in page
    <3>1. m.id = b \/ Precedes(m, Oldest(page))
      BY <1>5, <2>2
    <3>2. Oldest(page).id = b /\ Oldest(page) \in rows
      BY <1>5, <2>2
    <3>3. m.id >= b \/ (m.id < b /\ m.at > Oldest(page).at)
      BY <1>3, <1>4, <3>1, <3>2 DEF Precedes, Row, Id
    <3>4. m.id < b /\ m.at > Oldest(page).at => Reversed(m.id)
      BY <1>4, <3>2 DEF Reversed, Row
    <3> QED
      BY <1>6, <1>7, <2>2, <3>3, <3>4
  <2>3. CASE more /\ m \notin page
    <3>1. m.id \in walk.shown
      BY <1>4, <1>5, <1>6, <1>9, <2>3 DEF Ids, Distinct
    <3>2. Reversed(m.id) \/ m.id >= walk.before
      BY <1>3, <1>4, <3>1 DEF HistoryFits, Begun
    <3>3. walk.before # 0 /\ b < walk.before /\ b \in Nat /\ m.id \in Nat
      BY <1>4, <1>5, <2>3, <3>1 DEF Matching, Row, Id
    <3> QED
      BY <1>4, <1>6, <1>7, <2>3, <3>2, <3>3
  <2> QED
    BY <2>1, <2>2, <2>3
<1>10. ASSUME NEW i \in walk'.repeated
       PROVE  Reversed(i)'
  <2>1. CASE i \in walk.repeated
    BY <1>3, <1>4, <1>7, <2>1 DEF HistoryFits, Begun
  <2>2. CASE i \in Ids(page) \cap walk.shown
    <3>1. PICK m \in page : m.id = i
      BY <2>2 DEF Ids
    <3>2. walk.before # 0 /\ m.id < walk.before /\ m \in rows
      BY <1>4, <1>5, <2>2, <3>1 DEF Matching
    <3>3. Reversed(m.id)
      BY <1>3, <1>4, <2>2, <3>1, <3>2 DEF HistoryFits, Begun, Row, Id
    <3> QED
      BY <1>7, <3>1, <3>3
  <2> QED
    BY <1>6, <1>10, <2>1, <2>2
<1> QED
  BY <1>3, <1>8, <1>9, <1>10 DEF HistoryFits

LEMMA HistoryNext == Sound /\ Sound' /\ HistoryFits /\ [Next]_vars => HistoryFits'
<1> SUFFICES ASSUME Sound, Sound', HistoryFits, [Next]_vars PROVE HistoryFits'
  OBVIOUS
<1>1. ASSUME NEW w \in Writer, Begin(w) \/ Insert(w) \/ Commit(w) \/ Rollback(w)
      PROVE  HistoryFits'
  <2>1. kind' = kind /\ (kind # "list" => walk' = walk)
    BY <1>1 DEF Begin, Insert, Commit, Rollback, Came
  <2>2. rows \subseteq rows' /\ \A m \in rows' \ rows : m.id \notin Ids(rows)
    BY <1>1 DEF Begin, Insert, Commit, Rollback, Sound, StoringFits
  <2> QED
    BY <2>1, <2>2, HistoryGrows
<1>2. ASSUME kind # "history", kind' = kind
      PROVE  HistoryFits'
  BY <1>2 DEF HistoryFits
<1>3. CASE NextHistoryPage
  BY <1>3, HistoryNextPage
<1>4. CASE Reopen
  <2>1. ~Begun'
    BY <1>4 DEF Reopen, Begun, NewWalk
  <2> QED
    BY <2>1 DEF HistoryFits
<1>5. CASE UNCHANGED vars
  BY <1>5, HistoryGrows DEF vars
<1>6. CASE \E i \in Id : Hide(i) \/ Return(i)
  BY <1>2, <1>6 DEF Hide, Return
<1>7. CASE \E m \in rows : MoveUp(m)
  BY <1>2, <1>7 DEF MoveUp
<1>8. CASE NextListPage \/ NextInboxPage
  BY <1>2, <1>8 DEF NextListPage, NextInboxPage
<1>9. CASE CountList
  <2>1. kind = "list"
    BY <1>9 DEF CountList, Sound, WalkFits
  <2> QED
    BY <1>2, <1>9, <2>1 DEF CountList
<1> QED
  BY <1>1, <1>3, <1>4, <1>5, <1>6, <1>7, <1>8, <1>9 DEF Next
-----------------------------------------------------------------------------
(* A walk down the inbox *)

\* A conversation that was not shown has a place further down, if it is not among those that
\* moved or that the query left open.
InboxFits ==
    kind = "inbox" /\ Begun =>
       \A m \in rows : m.id \in walk.expected \ walk.shown =>
          \/ m.id \in walk.loose
          \/ ~walk.done /\ Place(m, rows) >= (walk.page - 1) * Size

\* Two sets of rows: a row is no further up in the one than it was in the other.
LEMMA NoFurtherUp ==
    ASSUME NEW R, NEW S, IsFiniteSet(S), NEW m, Above(m, R) \subseteq Above(m, S)
    PROVE  Place(m, R) <= Place(m, S)
<1>1. IsFiniteSet(Above(m, S))
  BY FS_Subset DEF Above
<1> QED
  BY <1>1, FS_Subset DEF Place

\* A conversation that gets a message stands above whatever it stood above.
LEMMA InboxMoves ==
    ASSUME Sound, Sound', kind = "inbox", NEW x \in rows, MoveUp(x),
           NEW m \in rows, m # x
    PROVE  m \in rows' /\ Place(m, rows) <= Place(m, rows')
<1> DEFINE y == [x EXCEPT !.at = now]
<1>1. /\ rows \subseteq Row /\ IsFiniteSet(rows) /\ Distinct(rows) /\ now \in Nat
      /\ x.at <= now
  BY DEF Sound, TypeOK, StoringFits, Row
<1>2. rows' = (rows \ {x}) \cup {y}
  BY DEF MoveUp
<1>3. y \in Row /\ y.id = x.id /\ y.at = now
  BY <1>1, <1>2 DEF Row, Sound, TypeOK
<1> HIDE DEF y
<1>4. IsFiniteSet(rows') /\ rows' \subseteq Row
  BY DEF Sound, StoringFits, TypeOK, Row
<1>5. /\ IsFiniteSet(Above(m, rows)) /\ Place(m, rows) \in Nat
  BY <1>1, AboveFinite
<1>6. CASE x \notin Above(m, rows)
  <2>1. Above(m, rows) \subseteq Above(m, rows')
    BY <1>2, <1>6 DEF Above
  <2> QED
    BY <1>2, <1>4, <2>1, NoFurtherUp
<1>7. CASE x \in Above(m, rows)
  <2> DEFINE rest == Above(m, rows) \ {x}
  <2>1. rest \cup {y} \subseteq Above(m, rows')
    BY <1>1, <1>2, <1>3, <1>7 DEF Above, Precedes, Row
  <2>2. y \notin rest
    BY <1>1, <1>3 DEF Above, Distinct
  <2>3. IsFiniteSet(rest) /\ Cardinality(rest) = Place(m, rows) - 1
    BY <1>5, <1>7, FS_RemoveElement DEF Place
  <2> HIDE DEF rest
  <2>4. Cardinality(rest \cup {y}) = Cardinality(rest) + 1
    BY <2>2, <2>3, FS_AddElement
  <2>5. IsFiniteSet(Above(m, rows'))
    BY <1>4, FS_Subset DEF Above
  <2>6. Cardinality(rest \cup {y}) <= Place(m, rows')
    BY <2>1, <2>5, FS_Subset DEF Place
  <2> QED
    BY <1>2, <1>5, <2>3, <2>4, <2>6
<1> QED
  BY <1>6, <1>7

\* A place is counted in the same order in the next state.
LEMMA PlaceIsPlace ==
    ASSUME kind' = kind
    PROVE  \A m, R : Place(m, R)' = Place(m, R)
  BY DEF Place, Above, Precedes

\* The pages of a list begin where those before them end.
LEMMA PagesMeet ==
    ASSUME NEW page \in Nat \ {0}
    PROVE  /\ (page - 1) * Size \in Nat /\ page * Size \in Nat
           /\ (page - 1) * Size + Size = page * Size
           /\ (page + 1 - 1) * Size = page * Size
<1>1. Size \in Nat
  BY PagesAssumption
<1>2. page - 1 \in Nat
  OBVIOUS
<1>3. \A i, j \in Nat : i * j \in Nat /\ (i + 1) * j = i * j + j
  OBVIOUS
<1>4. (page - 1) + 1 = page /\ (page + 1) - 1 = page
  OBVIOUS
<1> QED
  BY <1>1, <1>2, <1>3, <1>4

LEMMA InboxNextPage ==
    ASSUME Sound, Sound', InboxFits, NextInboxPage
    PROVE  InboxFits'
<1> DEFINE total(P) == IF P = {} THEN 0 ELSE Cardinality(Listed)
           ties == {m.id : m \in {x \in Listed : \E n \in Listed \ {x} : n.at = x.at}}
<1>1. PICK page \in Slices(Listed, Offset, Size) :
         walk' = [Show(page) EXCEPT !.page = @ + 1, !.done = LastPage(total(page))]
  BY DEF NextInboxPage
<1>2. /\ kind = "inbox" /\ UNCHANGED <<kind, rows, hidden>> /\ ~walk.done
      /\ rows \subseteq Row /\ IsFiniteSet(rows) /\ Distinct(rows) /\ TypeOK
      /\ walk.page \in Nat \ {0} /\ walk.before = 0 /\ hidden = {} /\ ~walk.counting
  BY DEF NextInboxPage, Sound, TypeOK, StoringFits, WalkFits, Row
<1>3. Listed = rows /\ page \subseteq rows
  BY <1>2 DEF Listed, Slices
<1>4. /\ walk'.expected = IF walk.page = 1 THEN Ids(rows) ELSE walk.expected
      /\ walk'.shown = walk.shown \cup Ids(page)
      /\ walk'.loose = walk.loose \cup ties
      /\ walk'.page = walk.page + 1 /\ walk'.done = LastPage(total(page))
  <2>1. LET s == Show(page)
            first == walk.page = 1 /\ walk.before = 0
        IN  /\ s.expected = IF first THEN Ids(Listed) ELSE walk.expected
            /\ s.shown = walk.shown \cup Ids(page)
            /\ s \in [page : {walk.page}, before : {walk.before},
                      counting : {walk.counting}, done : {walk.done},
                      expected : SUBSET Id, shown : SUBSET Id, repeated : SUBSET Id,
                      again : Nat, left : {walk.left}, came : {walk.came},
                      loose : SUBSET Id]
    BY <1>2, <1>3, Shown
  <2>2. Show(page).loose = walk.loose \cup ties
    BY <1>2 DEF Show, TypeOK
  <2> HIDE DEF total, ties
  <2> QED
    BY <1>1, <1>2, <1>3, <2>1, <2>2
<1>5. /\ Offset \in Nat /\ Offset + Size = walk.page * Size /\ walk.page * Size \in Nat
      /\ (walk.page + 1 - 1) * Size = walk.page * Size /\ Size \in Nat \ {0}
  BY <1>2, PagesMeet, PagesAssumption DEF Offset
<1>6. SUFFICES ASSUME NEW m \in rows, m.id \in walk'.expected \ walk'.shown,
                      m.id \notin walk'.loose
               PROVE  ~walk'.done /\ Place(m, rows) >= walk.page * Size
  <2>1. \A m \in rows : Place(m, rows)' = Place(m, rows)
    BY <1>2, PlaceIsPlace
  <2> QED
    BY <1>2, <1>4, <1>5, <2>1 DEF InboxFits
<1>7. m \notin page /\ m.id \notin ties /\ m.id \notin walk.loose
      /\ (walk.page # 1 => m.id \in walk.expected \ walk.shown)
  BY <1>4, <1>6 DEF Ids
<1>8. \A n \in rows \ {m} : Precedes(m, n) \/ Precedes(n, m)
  <2>1. \A n \in rows \ {m} : n.at # m.at
    BY <1>3, <1>7
  <2> QED
    BY <1>2, <2>1, PrecedesOrder
<1>9. Place(m, rows) \in Nat /\ Place(m, rows) < Cardinality(rows) /\ Cardinality(rows) \in Nat
  BY <1>2, AboveFinite
<1>10. Place(m, rows) >= Offset
  <2>1. CASE walk.page = 1
    BY <1>2, <1>5, <1>9, <2>1, PagesAssumption DEF Offset
  <2>2. CASE walk.page # 1
    BY <1>2, <1>7, <2>2 DEF InboxFits, Begun, Offset
  <2> QED
    BY <2>1, <2>2
<1>11. Place(m, rows) >= Offset + Size
  BY <1>2, <1>3, <1>5, <1>7, <1>8, <1>10, SliceSkipsNone
<1>12. page # {}
  <2>1. Cardinality(page) # 0
    BY <1>3, <1>5, <1>9, <1>10 DEF Slices
  <2> QED
    BY <2>1, FS_EmptySet
<1>13. ~LastPage(total(page))
  BY <1>3, <1>5, <1>9, <1>11, <1>12 DEF LastPage
<1> QED
  BY <1>4, <1>5, <1>11, <1>13

LEMMA InboxNext == Sound /\ Sound' /\ InboxFits /\ [Next]_vars => InboxFits'
<1> SUFFICES ASSUME Sound, Sound', InboxFits, [Next]_vars PROVE InboxFits'
  OBVIOUS
<1>0. /\ rows \subseteq Row /\ IsFiniteSet(rows) /\ Distinct(rows)
      /\ IsFiniteSet(rows') /\ rows' \subseteq Row /\ Distinct(rows')
      /\ walk.expected \subseteq Ids(rows)
  BY DEF Sound, TypeOK, StoringFits, WalkFits, Row, Distinct
<1>1. ASSUME kind = "inbox", walk' = walk, kind' = kind, rows \subseteq rows',
             \A m \in rows' \ rows : m.id \notin Ids(rows)
      PROVE  InboxFits'
  <2> SUFFICES ASSUME Begun, NEW m \in rows', m.id \in walk.expected \ walk.shown,
                      m.id \notin walk.loose
               PROVE  ~walk.done /\ Place(m, rows') >= (walk.page - 1) * Size
    BY <1>1, PlaceIsPlace DEF InboxFits, Begun
  <2>1. m \in rows
    BY <1>0, <1>1
  <2>2. Above(m, rows) \subseteq Above(m, rows')
    BY <1>1 DEF Above
  <2>3. Place(m, rows) <= Place(m, rows') /\ Place(m, rows) \in Nat /\ Place(m, rows') \in Nat
    BY <1>0, <1>1, <2>1, <2>2, NoFurtherUp, AboveFinite
  <2>4. ~walk.done /\ Place(m, rows) >= (walk.page - 1) * Size
    BY <1>1, <2>1 DEF InboxFits
  <2>5. (walk.page - 1) * Size \in Nat
    BY PagesMeet DEF Sound, TypeOK, WalkFits
  <2> QED
    BY <2>3, <2>4, <2>5
<1>2. ASSUME kind # "inbox", kind' = kind
      PROVE  InboxFits'
  BY <1>2 DEF InboxFits
<1>3. ASSUME NEW w \in Writer, Begin(w) \/ Insert(w) \/ Commit(w) \/ Rollback(w)
      PROVE  InboxFits'
  <2>1. kind' = kind /\ (kind # "list" => walk' = walk)
    BY <1>3 DEF Begin, Insert, Commit, Rollback, Came
  <2>2. rows \subseteq rows' /\ \A m \in rows' \ rows : m.id \notin Ids(rows)
    BY <1>3 DEF Begin, Insert, Commit, Rollback, Sound, StoringFits
  <2> QED
    BY <1>1, <1>2, <2>1, <2>2
<1>4. CASE \E i \in Id : Hide(i) \/ Return(i)
  BY <1>2, <1>4 DEF Hide, Return
<1>5. ASSUME NEW x \in rows, MoveUp(x)
      PROVE  InboxFits'
  <2>1. /\ kind = "inbox" /\ kind' = kind
        /\ walk' = IF Underway THEN [walk EXCEPT !.loose = @ \cup {x.id}] ELSE walk
        /\ rows' = (rows \ {x}) \cup {[x EXCEPT !.at = now]}
    BY <1>5 DEF MoveUp
  <2>2. /\ walk'.expected = walk.expected /\ walk'.shown = walk.shown /\ walk'.page = walk.page
        /\ walk'.done = walk.done /\ walk'.counting = walk.counting
        /\ walk'.before = walk.before
        /\ walk'.loose = IF Underway THEN walk.loose \cup {x.id} ELSE walk.loose
    BY <2>1 DEF Sound, TypeOK
  <2> SUFFICES ASSUME Begun, NEW m \in rows', m.id \in walk.expected \ walk.shown,
                      m.id \notin walk'.loose
               PROVE  ~walk.done /\ Place(m, rows') >= (walk.page - 1) * Size
    BY <2>1, <2>2, PlaceIsPlace DEF InboxFits, Begun
  <2>3. Underway
    <3>1. CASE m \in rows \ {x}
      <4>1. ~walk.done
        BY <2>1, <2>2, <3>1 DEF InboxFits
      <4> QED
        BY <2>1, <4>1 DEF Begun, Underway, Sound, TypeOK, WalkFits
    <3>2. CASE m.id = x.id
      <4>1. ~walk.done
        BY <2>1, <2>2, <3>2 DEF InboxFits
      <4> QED
        BY <2>1, <4>1 DEF Begun, Underway, Sound, TypeOK, WalkFits
    <3>3. m \in rows \ {x} \/ m.id = x.id
      BY <1>0, <2>1 DEF Row
    <3> QED
      BY <3>1, <3>2, <3>3
  <2>4. m.id # x.id /\ m.id \notin walk.loose
    BY <2>2, <2>3
  <2>5. m \in rows /\ m # x
    BY <1>0, <2>1, <2>4 DEF Row
  <2>6. ~walk.done /\ Place(m, rows) >= (walk.page - 1) * Size
    BY <2>1, <2>4, <2>5 DEF InboxFits
  <2>7. Place(m, rows) <= Place(m, rows')
    BY <1>5, <2>1, <2>5, InboxMoves
  <2>8. Place(m, rows) \in Nat /\ Place(m, rows') \in Nat
    BY <1>0, <2>5, AboveFinite
  <2>9. (walk.page - 1) * Size \in Nat
    BY PagesMeet DEF Sound, TypeOK, WalkFits
  <2> QED
    BY <2>6, <2>7, <2>8, <2>9
<1>6. CASE NextInboxPage
  BY <1>6, InboxNextPage
<1>7. CASE Reopen
  <2>1. ~Begun'
    BY <1>7 DEF Reopen, Begun, NewWalk
  <2> QED
    BY <2>1 DEF InboxFits
<1>8. CASE NextListPage \/ NextHistoryPage
  BY <1>2, <1>8 DEF NextListPage, NextHistoryPage
<1>9. CASE CountList
  <2>1. kind = "list"
    BY <1>9 DEF CountList, Sound, WalkFits
  <2> QED
    BY <1>2, <1>9, <2>1 DEF CountList
<1>10. CASE UNCHANGED vars
  BY <1>1, <1>2, <1>10 DEF vars
<1> QED
  BY <1>3, <1>4, <1>5, <1>6, <1>7, <1>8, <1>9, <1>10 DEF Next
-----------------------------------------------------------------------------
(* A walk through a list of numbered pages *)

\* The place up to which the reader has turned the pages.
Turned == IF walk.counting THEN walk.page * Size ELSE (walk.page - 1) * Size

\* Rows of the beginning that were not shown and will not be, and rows that were shown and
\* will be once more, unless the list changes again.
Skipped ==
    {m \in rows : /\ m.id \in walk.expected \ walk.shown
                  /\ walk.done \/ m.id \in hidden \/ Place(m, Listed) < Turned}
Coming == {m \in Listed : m.id \in walk.shown /\ ~walk.done /\ Place(m, Listed) >= Turned}

\* Each row that leaves makes one row more skipped, and each that comes one row more coming.
ListFits ==
    kind = "list" /\ Begun =>
       /\ Cardinality(Skipped) <= walk.left
       /\ walk.again + Cardinality(Coming) <= walk.came

LEMMA ListFacts ==
    ASSUME Sound
    PROVE  /\ rows \subseteq Row /\ IsFiniteSet(rows) /\ Distinct(rows)
           /\ Listed \subseteq Row /\ IsFiniteSet(Listed) /\ Distinct(Listed)
           /\ Listed \subseteq rows /\ \A m \in rows : m \notin Listed <=> m.id \in hidden
           /\ IsFiniteSet(Skipped) /\ Cardinality(Skipped) \in Nat
           /\ IsFiniteSet(Coming) /\ Cardinality(Coming) \in Nat
           /\ Turned \in Nat
           /\ \A m \in Listed : Place(m, Listed) \in Nat
           /\ walk.page \in Nat \ {0} /\ walk.left \in Nat /\ walk.came \in Nat
           /\ walk.again \in Nat /\ walk.expected \subseteq Ids(rows)
           /\ walk.shown \subseteq Ids(rows)
           /\ kind = "list" /\ Begun => Underway \/ walk.done
<1>1. /\ rows \subseteq Row /\ IsFiniteSet(rows) /\ Distinct(rows)
      /\ walk.page \in Nat \ {0} /\ walk.left \in Nat /\ walk.came \in Nat
      /\ walk.again \in Nat /\ walk.expected \subseteq Ids(rows)
      /\ walk.shown \subseteq Ids(rows)
  BY DEF Sound, TypeOK, StoringFits, WalkFits, Row
<1>2. /\ Listed \subseteq rows /\ \A m \in rows : m \notin Listed <=> m.id \in hidden
  BY DEF Listed
<1>3. Listed \subseteq Row /\ IsFiniteSet(Listed) /\ Distinct(Listed)
  BY <1>1, <1>2, FS_Subset DEF Distinct
<1>4. /\ IsFiniteSet(Skipped) /\ Cardinality(Skipped) \in Nat
      /\ IsFiniteSet(Coming) /\ Cardinality(Coming) \in Nat
  <2>1. Skipped \subseteq rows /\ Coming \subseteq Listed
    BY DEF Skipped, Coming
  <2> QED
    BY <1>1, <1>3, <2>1, FS_Subset, FS_CardinalityType
<1>5. Turned \in Nat
  BY <1>1, PagesMeet DEF Turned
<1>6. \A m \in Listed : Place(m, Listed) \in Nat
  BY <1>3, AboveFinite
<1>7. kind = "list" /\ Begun => Underway \/ walk.done
  BY <1>1 DEF Begun, Underway, Sound, WalkFits
<1> QED
  BY <1>1, <1>2, <1>3, <1>4, <1>5, <1>6, <1>7

\* While the walk rests, only the places change.
LEMMA ListRests ==
    ASSUME Sound, Counted, kind' = kind
    PROVE  /\ walk'.expected = walk.expected /\ walk'.shown = walk.shown
           /\ walk'.done = walk.done /\ walk'.again = walk.again
           /\ Turned' = Turned /\ Begun' = Begun
           /\ Skipped' = {m \in rows' : /\ m.id \in walk.expected \ walk.shown
                                        /\ \/ walk.done \/ m.id \in hidden'
                                           \/ Place(m, Listed') < Turned}
           /\ Coming' = {m \in Listed' : /\ m.id \in walk.shown /\ ~walk.done
                                         /\ Place(m, Listed') >= Turned}
<1>1. PICK l, c \in Nat : walk' = [walk EXCEPT !.left = l, !.came = c]
  BY DEF Counted
<1>2. /\ walk'.expected = walk.expected /\ walk'.shown = walk.shown
      /\ walk'.done = walk.done /\ walk'.again = walk.again
      /\ walk'.page = walk.page /\ walk'.counting = walk.counting
      /\ walk'.before = walk.before
  BY <1>1 DEF Sound, TypeOK
<1>3. Turned' = Turned /\ Begun' = Begun
  BY <1>2 DEF Turned, Begun
<1>4. \A m : Place(m, Listed)' = Place(m, Listed')
  BY DEF Place, Above, Precedes
<1> QED
  BY <1>2, <1>3, <1>4 DEF Skipped, Coming

\* A row comes to the list, a new one or one that returns.
LEMMA ListEnters ==
    ASSUME Sound, Sound', ListFits, kind = "list", kind' = kind, walk' = Came,
           NEW z, z \notin Listed, Listed' = Listed \cup {z},
           rows \subseteq rows', hidden' \subseteq hidden,
           \A m \in rows' \ rows : m.id \notin Ids(rows)
    PROVE  ListFits'
<1>1. Counted
  BY Counts
<1>2. /\ walk'.expected = walk.expected /\ walk'.shown = walk.shown
      /\ walk'.done = walk.done /\ walk'.again = walk.again
      /\ Turned' = Turned /\ Begun' = Begun
      /\ Skipped' = {m \in rows' : /\ m.id \in walk.expected \ walk.shown
                                   /\ \/ walk.done \/ m.id \in hidden'
                                      \/ Place(m, Listed') < Turned}
      /\ Coming' = {m \in Listed' : /\ m.id \in walk.shown /\ ~walk.done
                                    /\ Place(m, Listed') >= Turned}
  BY <1>1, ListRests
<1> SUFFICES ASSUME Begun
             PROVE  /\ Cardinality(Skipped') <= walk'.left
                    /\ walk'.again + Cardinality(Coming') <= walk'.came
  BY <1>2 DEF ListFits
<1> DEFINE L == Listed'
<1>3. /\ L \subseteq Row /\ IsFiniteSet(L) /\ Distinct(L) /\ L \ {z} = Listed /\ z \in L
      /\ \A m \in L : Place(m, L) \in Nat
  <2>1. Listed' \subseteq Row /\ IsFiniteSet(Listed') /\ Distinct(Listed')
    <3>1. /\ rows' \subseteq Row /\ IsFiniteSet(rows') /\ Distinct(rows')
      BY DEF Sound, TypeOK, StoringFits, Row, Distinct
    <3>2. Listed' \subseteq rows'
      BY DEF Listed
    <3> QED
      BY <3>1, <3>2, FS_Subset DEF Distinct
  <2> QED
    BY <2>1, AboveFinite
<1> HIDE DEF L
<1>4. /\ Listed \subseteq rows /\ \A m \in rows : m \notin Listed <=> m.id \in hidden
      /\ IsFiniteSet(Skipped) /\ Cardinality(Skipped) \in Nat
      /\ IsFiniteSet(Coming) /\ Cardinality(Coming) \in Nat
      /\ Turned \in Nat
      /\ walk.left \in Nat /\ walk.came \in Nat /\ walk.again \in Nat
      /\ walk.expected \subseteq Ids(rows) /\ (Underway \/ walk.done)
  BY ListFacts
<1>5. Skipped' \subseteq Skipped
  <2> SUFFICES ASSUME NEW m \in Skipped' PROVE m \in Skipped
    OBVIOUS
  <2>1. m \in rows /\ m.id \in walk.expected \ walk.shown
    BY <1>2, <1>4
  <2>2. CASE walk.done \/ m.id \in hidden'
    BY <2>1, <2>2 DEF Skipped
  <2>3. CASE m \notin Listed
    BY <1>4, <2>1, <2>3 DEF Skipped
  <2>4. CASE m \in Listed /\ Place(m, L) < Turned
    <3>1. m \in L /\ m # z
      BY <1>3, <2>4
    <3>2. Place(m, L \ {z}) <= Place(m, L) /\ Place(m, L \ {z}) \in Nat /\ Place(m, L) \in Nat
      BY <1>3, <3>1, PlaceWithout
    <3>3. Place(m, L \ {z}) = Place(m, Listed)
      BY <1>3
    <3>4. Place(m, Listed) < Turned
      BY <1>4, <2>4, <3>2, <3>3
    <3> QED
      BY <2>1, <3>4 DEF Skipped
  <2> QED
    BY <1>2, <2>2, <2>3, <2>4 DEF L
<1>6. IsFiniteSet(Coming') /\ Cardinality(Coming') <= Cardinality(Coming) + 1
  <2>1. ASSUME NEW m \in Coming' \ Coming
        PROVE  m \in L /\ Place(m, L) >= Turned /\ (m = z \/ Place(m, L \ {z}) < Turned)
    <3>1. m \in L /\ Place(m, L) >= Turned /\ m.id \in walk.shown /\ ~walk.done
      BY <1>2, <2>1 DEF L
    <3>2. m # z => Place(m, L \ {z}) \in Nat
      BY <1>3, <3>1, PlaceWithout
    <3>3. Place(m, L \ {z}) = Place(m, Listed) /\ (m # z => m \in Listed)
      BY <1>3, <3>1
    <3>4. m # z => ~(Place(m, Listed) >= Turned)
      BY <2>1, <3>1, <3>3 DEF Coming
    <3> QED
      BY <1>4, <3>1, <3>2, <3>3, <3>4
  <2>2. \A a, b \in Coming' \ Coming : a = b
    <3> SUFFICES ASSUME NEW a \in Coming' \ Coming, NEW b \in Coming' \ Coming PROVE a = b
      OBVIOUS
    <3>1. a \in L /\ Place(a, L) >= Turned /\ (a = z \/ Place(a, L \ {z}) < Turned)
      BY <2>1
    <3>2. b \in L /\ Place(b, L) >= Turned /\ (b = z \/ Place(b, L \ {z}) < Turned)
      BY <2>1
    <3> QED
      BY <1>3, <1>4, <3>1, <3>2, OneCrosses
  <2> QED
    BY <1>4, <2>2, OneMore
<1>7. Cardinality(Skipped') <= Cardinality(Skipped)
  BY <1>4, <1>5, FS_Subset
<1>8. walk'.left = walk.left /\ walk'.came = IF Underway THEN walk.came + 1 ELSE walk.came
  BY DEF Came, Sound, TypeOK
<1>9. /\ Cardinality(Skipped) <= walk.left
      /\ walk.again + Cardinality(Coming) <= walk.came
  BY DEF ListFits
<1>10. Cardinality(Coming') \in Nat /\ Cardinality(Skipped') \in Nat
  BY <1>4, <1>5, <1>6, FS_CardinalityType, FS_Subset
<1>11. walk.done => Coming' = {} /\ Coming = {}
  BY <1>2 DEF Coming
<1>12. walk'.again + Cardinality(Coming') <= walk'.came
  <2>1. CASE Underway
    BY <1>2, <1>4, <1>6, <1>8, <1>9, <1>10, <2>1
  <2>2. CASE ~Underway
    BY <1>2, <1>4, <1>8, <1>9, <1>11, <2>2
  <2> QED
    BY <2>1, <2>2
<1> QED
  BY <1>4, <1>7, <1>8, <1>9, <1>10, <1>12

\* A row leaves the list.
LEMMA ListLeaves ==
    ASSUME Sound, Sound', ListFits, kind = "list", NEW i \in Id, Hide(i)
    PROVE  ListFits'
<1>1. /\ kind' = kind /\ rows' = rows /\ hidden' = hidden \cup {i} /\ i \in Ids(Listed)
      /\ walk' = IF Underway THEN [walk EXCEPT !.left = @ + 1] ELSE walk
  BY DEF Hide
<1>2. Counted
  BY <1>1, Counts
<1>3. /\ walk'.expected = walk.expected /\ walk'.shown = walk.shown
      /\ walk'.done = walk.done /\ walk'.again = walk.again
      /\ Turned' = Turned /\ Begun' = Begun
      /\ Skipped' = {m \in rows' : /\ m.id \in walk.expected \ walk.shown
                                   /\ \/ walk.done \/ m.id \in hidden'
                                      \/ Place(m, Listed') < Turned}
      /\ Coming' = {m \in Listed' : /\ m.id \in walk.shown /\ ~walk.done
                                    /\ Place(m, Listed') >= Turned}
  BY <1>1, <1>2, ListRests
<1> SUFFICES ASSUME Begun
             PROVE  /\ Cardinality(Skipped') <= walk'.left
                    /\ walk'.again + Cardinality(Coming') <= walk'.came
  BY <1>1, <1>3 DEF ListFits
<1>4. /\ Listed \subseteq Row /\ IsFiniteSet(Listed) /\ Distinct(Listed) /\ Distinct(rows)
      /\ Listed \subseteq rows /\ \A m \in rows : m \notin Listed <=> m.id \in hidden
      /\ IsFiniteSet(Skipped) /\ Cardinality(Skipped) \in Nat
      /\ IsFiniteSet(Coming) /\ Cardinality(Coming) \in Nat
      /\ Turned \in Nat /\ \A m \in Listed : Place(m, Listed) \in Nat
      /\ walk.left \in Nat /\ walk.came \in Nat /\ walk.again \in Nat
      /\ (Underway \/ walk.done)
  BY ListFacts
<1>5. PICK z \in Listed : z.id = i
  BY <1>1 DEF Ids
<1>6. Listed' = Listed \ {z}
  BY <1>1, <1>4, <1>5 DEF Listed, Distinct
<1>7. IsFiniteSet(Skipped') /\ Cardinality(Skipped') <= Cardinality(Skipped) + 1
  <2>1. ASSUME NEW m \in Skipped' \ Skipped
        PROVE  /\ m \in Listed /\ Place(m, Listed) >= Turned
               /\ m = z \/ Place(m, Listed \ {z}) < Turned
    <3>1. m \in rows /\ m \in Listed /\ Place(m, Listed) >= Turned /\ ~walk.done
      BY <1>1, <1>3, <1>4, <2>1 DEF Skipped
    <3>2. m.id \in hidden' => m = z
      BY <1>1, <1>4, <1>5, <3>1 DEF Distinct
    <3> QED
      BY <1>3, <1>6, <2>1, <3>1, <3>2
  <2>2. \A a, b \in Skipped' \ Skipped : a = b
    <3> SUFFICES ASSUME NEW a \in Skipped' \ Skipped, NEW b \in Skipped' \ Skipped PROVE a = b
      OBVIOUS
    <3>1. /\ a \in Listed /\ Place(a, Listed) >= Turned
          /\ a = z \/ Place(a, Listed \ {z}) < Turned
      BY <2>1
    <3>2. /\ b \in Listed /\ Place(b, Listed) >= Turned
          /\ b = z \/ Place(b, Listed \ {z}) < Turned
      BY <2>1
    <3> QED
      BY <1>4, <3>1, <3>2, OneCrosses
  <2> QED
    BY <1>4, <2>2, OneMore
<1>8. Coming' \subseteq Coming
  <2> SUFFICES ASSUME NEW m \in Coming' PROVE m \in Coming
    OBVIOUS
  <2>1. /\ m \in Listed /\ m # z /\ m.id \in walk.shown /\ ~walk.done
        /\ Place(m, Listed \ {z}) >= Turned
    BY <1>3, <1>6
  <2>2. /\ Place(m, Listed \ {z}) <= Place(m, Listed)
        /\ Place(m, Listed \ {z}) \in Nat /\ Place(m, Listed) \in Nat
    BY <1>4, <2>1, PlaceWithout
  <2>3. Place(m, Listed) >= Turned
    BY <1>4, <2>1, <2>2
  <2> QED
    BY <2>1, <2>3 DEF Coming
<1>9. Cardinality(Coming') <= Cardinality(Coming) /\ Cardinality(Coming') \in Nat
  BY <1>4, <1>8, FS_Subset, FS_CardinalityType
<1>10. Cardinality(Skipped') \in Nat
  BY <1>7, FS_CardinalityType
<1>11. walk'.came = walk.came /\ walk'.left = IF Underway THEN walk.left + 1 ELSE walk.left
  BY <1>1 DEF Sound, TypeOK
<1>12. /\ Cardinality(Skipped) <= walk.left
       /\ walk.again + Cardinality(Coming) <= walk.came
  BY DEF ListFits
<1>13. walk.done => Skipped' \subseteq Skipped
  BY <1>1, <1>3 DEF Skipped
<1>14. Cardinality(Skipped') <= walk'.left
  <2>1. CASE Underway
    BY <1>4, <1>7, <1>10, <1>11, <1>12, <2>1
  <2>2. CASE ~Underway
    <3>1. Cardinality(Skipped') <= Cardinality(Skipped)
      BY <1>4, <1>13, <2>2, FS_Subset
    <3> QED
      BY <1>4, <1>10, <1>11, <1>12, <2>2, <3>1
  <2> QED
    BY <2>1, <2>2
<1> QED
  BY <1>3, <1>4, <1>9, <1>11, <1>12, <1>14

\* A page is shown: it skips none, and what is shown again was coming.
LEMMA ListNextPage ==
    ASSUME Sound, Sound', ListFits, NextListPage
    PROVE  ListFits'
<1>1. PICK page \in Slices(Listed, Offset, Size) :
         walk' = [Show(page) EXCEPT !.counting = TRUE]
  BY DEF NextListPage
<1>2. /\ kind = "list" /\ ~walk.done /\ ~walk.counting
      /\ UNCHANGED <<kind, rows, hidden>> /\ page \subseteq Listed
      /\ walk.before = 0 /\ (~Begun => walk = NewWalk) /\ (Begun <=> walk.page # 1)
  BY DEF NextListPage, Slices, Sound, WalkFits, Begun
<1>3. /\ Listed \subseteq Row /\ IsFiniteSet(Listed) /\ Distinct(Listed) /\ Distinct(rows)
      /\ Listed \subseteq rows /\ \A m \in rows : m \notin Listed <=> m.id \in hidden
      /\ IsFiniteSet(Skipped) /\ Cardinality(Skipped) \in Nat
      /\ IsFiniteSet(Coming) /\ Cardinality(Coming) \in Nat
      /\ \A m \in Listed : Place(m, Listed) \in Nat
      /\ walk.page \in Nat \ {0} /\ walk.left \in Nat /\ walk.came \in Nat
      /\ walk.again \in Nat /\ IsFiniteSet(rows)
  BY ListFacts
<1>4. /\ Offset \in Nat /\ Turned = Offset /\ Offset + Size = walk.page * Size
      /\ Size \in Nat \ {0} /\ (walk.page = 1 => Offset = 0)
  BY <1>2, <1>3, PagesMeet, PagesAssumption DEF Offset, Turned
<1>5. /\ walk'.expected = IF walk.page = 1 THEN Ids(Listed) ELSE walk.expected
      /\ walk'.shown = walk.shown \cup Ids(page)
      /\ walk'.again = walk.again + Cardinality(Ids(page) \cap walk.shown)
      /\ walk'.left = walk.left /\ walk'.came = walk.came /\ ~walk'.done
      /\ walk'.page = walk.page /\ walk'.counting
  <2>1. LET s == Show(page)
            first == walk.page = 1 /\ walk.before = 0
        IN  /\ s.expected = IF first THEN Ids(Listed) ELSE walk.expected
            /\ s.shown = walk.shown \cup Ids(page)
            /\ s.again = walk.again + Cardinality(Ids(page) \cap walk.shown)
            /\ s \in [page : {walk.page}, before : {walk.before},
                      counting : {walk.counting}, done : {walk.done},
                      expected : SUBSET Id, shown : SUBSET Id, repeated : SUBSET Id,
                      again : Nat, left : {walk.left}, came : {walk.came},
                      loose : SUBSET Id]
    BY <1>2, <1>3, Shown DEF Sound
  <2> QED
    BY <1>1, <1>2, <2>1
<1>6. Turned' = Offset + Size /\ Listed' = Listed
  BY <1>2, <1>4, <1>5 DEF Turned, Listed
<1>7. \A m \in Listed : Place(m, Listed)' = Place(m, Listed)
  BY <1>2 DEF Place, Above, Precedes, Listed
<1>8. \A m, n \in Listed : m # n => Precedes(m, n) \/ Precedes(n, m)
  BY <1>2, <1>3, PrecedesOrder DEF Distinct
<1>9. ASSUME NEW m \in Listed \ page, Place(m, Listed) >= Offset
      PROVE  Place(m, Listed) >= Offset + Size
  BY <1>3, <1>4, <1>8, <1>9, SliceSkipsNone
<1>10. ASSUME NEW m \in page
       PROVE  Offset <= Place(m, Listed) /\ Place(m, Listed) < Offset + Size
  BY <1>2, <1>3, <1>4, <1>8, SlicePlaces
<1>11. Cardinality(Skipped') <= walk.left
  <2>1. CASE walk.page = 1
    <3>1. Skipped' = {}
      <4> SUFFICES ASSUME NEW m \in Skipped' PROVE FALSE
        OBVIOUS
      <4>1. /\ m \in rows /\ m.id \in Ids(Listed) \ Ids(page)
            /\ m.id \in hidden \/ Place(m, Listed)' < Offset + Size
        BY <1>2, <1>5, <1>6, <2>1 DEF Skipped
      <4>2. m \in Listed /\ m \notin page
        BY <1>3, <4>1 DEF Ids, Distinct
      <4>3. Place(m, Listed) < Offset + Size /\ Place(m, Listed) \in Nat
        BY <1>3, <1>7, <4>1, <4>2
      <4>4. Place(m, Listed) >= Offset
        BY <1>4, <2>1, <4>3
      <4> QED
        BY <1>4, <1>9, <4>2, <4>3, <4>4
    <3> QED
      BY <1>3, <3>1, FS_EmptySet
  <2>2. CASE walk.page # 1
    <3>1. Skipped' \subseteq Skipped
      <4> SUFFICES ASSUME NEW m \in Skipped' PROVE m \in Skipped
        OBVIOUS
      <4>1. /\ m \in rows /\ m.id \in walk.expected \ walk.shown /\ m.id \notin Ids(page)
            /\ m.id \in hidden \/ Place(m, Listed)' < Offset + Size
        BY <1>2, <1>5, <1>6, <2>2 DEF Skipped
      <4>2. m \notin page
        BY <4>1 DEF Ids
      <4>3. CASE m \in Listed
        <5>1. Place(m, Listed) < Offset + Size /\ Place(m, Listed) \in Nat
          BY <1>3, <1>7, <4>1, <4>3
        <5>2. ~(Place(m, Listed) >= Offset)
          BY <1>4, <1>9, <4>2, <4>3, <5>1
        <5> QED
          BY <1>4, <4>1, <5>1, <5>2 DEF Skipped
      <4>4. CASE m \notin Listed
        BY <1>3, <4>1, <4>4 DEF Skipped
      <4> QED
        BY <4>3, <4>4
    <3>2. Cardinality(Skipped') <= Cardinality(Skipped) /\ Cardinality(Skipped') \in Nat
      BY <1>3, <3>1, FS_Subset, FS_CardinalityType
    <3>3. Cardinality(Skipped) <= walk.left
      BY <1>2, <2>2 DEF ListFits
    <3> QED
      BY <1>3, <3>2, <3>3
  <2> QED
    BY <2>1, <2>2
<1>12. walk'.again + Cardinality(Coming') <= walk.came
  <2> DEFINE old == {m \in page : m.id \in walk.shown}
  <2>1. old \subseteq Coming
    BY <1>2, <1>4, <1>10 DEF Coming
  <2>2. ASSUME NEW m \in Coming'
        PROVE  m \in Coming /\ m \notin old
    <3>1. /\ m \in Listed /\ m.id \in walk.shown \cup Ids(page)
          /\ Place(m, Listed) >= Offset + Size
      BY <1>5, <1>6, <1>7, <2>2 DEF Coming
    <3>2. m \notin page /\ Place(m, Listed) \in Nat
      BY <1>3, <1>4, <1>10, <3>1
    <3>3. m.id \in walk.shown
      BY <1>2, <1>3, <3>1, <3>2 DEF Ids, Distinct
    <3>4. Place(m, Listed) >= Offset
      BY <1>4, <3>1, <3>2
    <3> QED
      BY <1>2, <1>4, <3>1, <3>2, <3>3, <3>4 DEF Coming
  <2>3. /\ IsFiniteSet(old) /\ IsFiniteSet(Coming')
        /\ Cardinality(old) + Cardinality(Coming') <= Cardinality(Coming)
    <3>1. Coming' \subseteq Coming /\ old \cap Coming' = {}
      BY <2>2
    <3> HIDE DEF old
    <3> QED
      BY <1>3, <2>1, <3>1, Apart
  <2>4. Ids(old) = Ids(page) \cap walk.shown
    BY DEF Ids
  <2>5. /\ IsFiniteSet(Ids(old)) /\ Cardinality(Ids(old)) <= Cardinality(old)
    BY <2>3, IdsCount
  <2>6. walk.again + Cardinality(Coming) <= walk.came
    <3>1. CASE Begun
      BY <1>2, <3>1 DEF ListFits
    <3>2. CASE ~Begun
      <4>1. Coming = {} /\ walk.again = 0 /\ walk.came = 0
        BY <1>2, <3>2 DEF Coming, NewWalk
      <4> QED
        BY <4>1, FS_EmptySet
    <3> QED
      BY <3>1, <3>2
  <2> HIDE DEF old
  <2>7. /\ Cardinality(old) \in Nat /\ Cardinality(Coming') \in Nat
        /\ Cardinality(Ids(old)) \in Nat
    BY <2>3, <2>5, FS_CardinalityType
  <2>8. walk'.again = walk.again + Cardinality(Ids(old))
    BY <1>5, <2>4
  <2> QED
    BY <1>3, <2>3, <2>5, <2>6, <2>7, <2>8
<1> QED
  BY <1>5, <1>11, <1>12 DEF ListFits

\* The walk ends when the list does: what is left in it lies before the end.
LEMMA ListCounted ==
    ASSUME Sound, Sound', ListFits, CountList
    PROVE  ListFits'
<1>1. /\ walk.counting /\ UNCHANGED <<kind, rows, hidden>>
      /\ walk' = [walk EXCEPT !.counting = FALSE, !.page = @ + 1,
                              !.done = LastPage(Cardinality(Listed))]
  BY DEF CountList
<1>2. /\ walk'.expected = walk.expected /\ walk'.shown = walk.shown
      /\ walk'.again = walk.again /\ walk'.left = walk.left /\ walk'.came = walk.came
      /\ walk'.page = walk.page + 1 /\ walk'.counting = FALSE
      /\ walk'.done = LastPage(Cardinality(Listed))
  BY <1>1 DEF Sound, TypeOK
<1>3. kind = "list" /\ Begun /\ ~walk.done
  BY <1>1 DEF Sound, WalkFits, Begun
<1>4. /\ Listed \subseteq Row /\ IsFiniteSet(Listed)
      /\ Listed \subseteq rows /\ \A m \in rows : m \notin Listed <=> m.id \in hidden
      /\ IsFiniteSet(Skipped) /\ Cardinality(Skipped) \in Nat
      /\ IsFiniteSet(Coming) /\ Cardinality(Coming) \in Nat
      /\ walk.page \in Nat \ {0} /\ walk.left \in Nat /\ walk.came \in Nat
      /\ walk.again \in Nat
  BY ListFacts
<1>5. Turned' = Turned /\ Turned = walk.page * Size /\ Turned \in Nat
  <2>1. Turned = walk.page * Size
    BY <1>1 DEF Turned
  <2>2. Turned' = walk.page * Size
    <3>1. ~walk'.counting
      BY <1>2
    <3>2. Turned' = (walk'.page - 1) * Size
      BY <3>1 DEF Turned
    <3>3. walk'.page - 1 = walk.page
      BY <1>2, <1>4
    <3> QED
      BY <3>2, <3>3, Zenon
  <2> QED
    BY <1>4, <2>1, <2>2, PagesMeet
<1>6. \A m : Place(m, Listed)' = Place(m, Listed)
  BY <1>1 DEF Place, Above, Precedes, Listed
<1>7. Listed' = Listed
  BY <1>1 DEF Listed
<1>8. Skipped' \subseteq Skipped
  <2> SUFFICES ASSUME NEW m \in Skipped' PROVE m \in Skipped
    OBVIOUS
  <2>1. /\ m \in rows /\ m.id \in walk.expected \ walk.shown
        /\ walk'.done \/ m.id \in hidden \/ Place(m, Listed) < Turned
    BY <1>1, <1>2, <1>5, <1>6 DEF Skipped
  <2>2. CASE walk'.done /\ m \in Listed
    <3>1. /\ Place(m, Listed) < Cardinality(Listed) /\ Place(m, Listed) \in Nat
          /\ Cardinality(Listed) \in Nat
      BY <1>4, <2>2, AboveFinite
    <3>2. Cardinality(Listed) <= Turned
      BY <1>2, <1>5, <2>2, <3>1 DEF LastPage
    <3> QED
      BY <1>5, <2>1, <3>1, <3>2 DEF Skipped
  <2> QED
    BY <1>4, <2>1, <2>2 DEF Skipped
<1>9. Coming' \subseteq Coming
  <2> SUFFICES ASSUME NEW m \in Coming' PROVE m \in Coming
    OBVIOUS
  <2>1. m \in Listed /\ m.id \in walk.shown /\ Place(m, Listed) >= Turned
    BY <1>2, <1>5, <1>6, <1>7 DEF Coming
  <2> QED
    BY <1>3, <2>1 DEF Coming
<1>10. /\ Cardinality(Skipped') <= Cardinality(Skipped) /\ Cardinality(Skipped') \in Nat
       /\ Cardinality(Coming') <= Cardinality(Coming) /\ Cardinality(Coming') \in Nat
  BY <1>4, <1>8, <1>9, FS_Subset, FS_CardinalityType
<1>11. /\ Cardinality(Skipped) <= walk.left
       /\ walk.again + Cardinality(Coming) <= walk.came
  BY <1>3 DEF ListFits
<1> QED
  BY <1>2, <1>4, <1>10, <1>11 DEF ListFits

LEMMA ListNext == Sound /\ Sound' /\ ListFits /\ [Next]_vars => ListFits'
<1> SUFFICES ASSUME Sound, Sound', ListFits, [Next]_vars PROVE ListFits'
  OBVIOUS
<1>1. ASSUME kind # "list", kind' = kind
      PROVE  ListFits'
  BY <1>1 DEF ListFits
<1>2. ASSUME kind' = kind, walk' = walk, rows' = rows, hidden' = hidden
      PROVE  ListFits'
  <2>1. Counted
    BY <1>2, Counts
  <2>2. Listed' = Listed
    BY <1>2 DEF Listed
  <2>3. Skipped' = Skipped /\ Coming' = Coming /\ Begun' = Begun
    BY <1>2, <2>1, <2>2, ListRests DEF Skipped, Coming
  <2> QED
    BY <1>2, <2>3 DEF ListFits
<1>3. ASSUME NEW w \in Writer, Begin(w) \/ Insert(w) \/ Rollback(w)
      PROVE  ListFits'
  BY <1>2, <1>3 DEF Begin, Insert, Rollback
<1>4. ASSUME NEW w \in Writer, Commit(w)
      PROVE  ListFits'
  <2> DEFINE z == [id |-> newId[w], at |-> stamp[w]]
  <2>1. /\ kind' = kind /\ walk' = Came /\ rows' = rows \cup {z} /\ hidden' = hidden
        /\ newId[w] # 0
    BY <1>4 DEF Commit
  <2>2. z.id \notin Ids(rows)
    BY <2>1 DEF Sound, StoringFits
  <2>3. z.id \notin hidden /\ z \notin rows
    BY <2>2 DEF Sound, TypeOK, Ids
  <2> HIDE DEF z
  <2>4. Listed' = Listed \cup {z} /\ z \notin Listed
    BY <2>1, <2>3 DEF Listed
  <2>5. \A m \in rows' \ rows : m.id \notin Ids(rows)
    BY <2>1, <2>2
  <2> QED
    BY <1>1, <2>1, <2>4, <2>5, ListEnters
<1>5. ASSUME NEW i \in Id, Hide(i)
      PROVE  ListFits'
  BY <1>5, ListLeaves DEF Hide
<1>6. ASSUME NEW i \in Id, Return(i)
      PROVE  ListFits'
  <2>1. /\ kind = "list" /\ kind' = kind /\ walk' = Came /\ rows' = rows
        /\ hidden' = hidden \ {i} /\ i \in hidden
    BY <1>6 DEF Return
  <2>2. PICK z \in rows : z.id = i
    BY <2>1 DEF Sound, TypeOK, Ids
  <2>3. Listed' = Listed \cup {z} /\ z \notin Listed
    BY <2>1, <2>2 DEF Listed, Sound, StoringFits, Distinct
  <2> QED
    BY <2>1, <2>3, ListEnters
<1>7. CASE \E m \in rows : MoveUp(m)
  BY <1>1, <1>7 DEF MoveUp
<1>8. CASE NextHistoryPage \/ NextInboxPage
  BY <1>1, <1>8 DEF NextHistoryPage, NextInboxPage
<1>9. CASE NextListPage
  BY <1>9, ListNextPage
<1>10. CASE CountList
  BY <1>10, ListCounted
<1>11. CASE Reopen
  <2>1. ~Begun'
    BY <1>11 DEF Reopen, Begun, NewWalk
  <2> QED
    BY <2>1 DEF ListFits
<1>12. CASE UNCHANGED vars
  BY <1>2, <1>12 DEF vars
<1> QED
  BY <1>3, <1>4, <1>5, <1>6, <1>7, <1>8, <1>9, <1>10, <1>11, <1>12 DEF Next
-----------------------------------------------------------------------------
(* The theorems *)

\* The inductive invariant.
Coherent == Sound /\ HistoryFits /\ InboxFits /\ ListFits

LEMMA Coherence == Spec => []Coherent
<1>1. Init => Coherent
  <2>1. Init => ~Begun
    BY DEF Init, Begun, NewWalk
  <2> QED
    BY <2>1, SoundInit DEF Coherent, HistoryFits, InboxFits, ListFits
<1>2. Coherent /\ [Next]_vars => Coherent'
  BY SoundNext, HistoryNext, InboxNext, ListNext DEF Coherent
<1> QED
  BY <1>1, <1>2, PTL DEF Spec

\* Every variable has its type, and the cursor of a conversation is a message that was shown.
THEOREM PagesAreTyped == Spec => []TypeOK
<1>1. Coherent => TypeOK
  BY DEF Coherent, Sound
<1> QED
  BY <1>1, Coherence, PTL

\* chats.service.ts getHistory: whoever pages back through a conversation while messages are
\* being stored misses or gets twice only messages whose ids and times are in opposite order.
THEOREM OnlyReversedMissed == Spec => []OnlyReversedAffected
<1>1. Coherent => OnlyReversedAffected
  <2> SUFFICES ASSUME Coherent, kind = "history", NEW i \in Missed \cup walk.repeated
               PROVE  Reversed(i)
    BY DEF OnlyReversedAffected
  <2>1. CASE Begun
    <3>1. CASE i \in walk.repeated
      BY <2>1, <3>1 DEF Coherent, HistoryFits
    <3>2. CASE i \in Missed
      <4>1. walk.done /\ i \in walk.expected \ walk.shown /\ i \in Ids(rows)
        BY <3>2 DEF Missed, Ids, Listed
      <4>2. PICK m \in rows : m.id = i
        BY <4>1 DEF Ids
      <4> QED
        BY <2>1, <4>1, <4>2 DEF Coherent, HistoryFits
    <3> QED
      BY <3>1, <3>2
  <2>2. CASE ~Begun
    BY <2>2 DEF Coherent, Sound, WalkFits, NewWalk, Missed, Begun
  <2> QED
    BY <2>1, <2>2
<1> QED
  BY <1>1, Coherence, PTL

\* pagination.util.ts, items, orders and notifications: a list that changes while it is paged
\* through hides at most one row for each that left it, and repeats at most one for each that came.
THEOREM WalksShiftNoMore == Spec => []OffsetWalkShifts
<1>1. Coherent => OffsetWalkShifts
  <2> SUFFICES ASSUME Coherent, kind = "list"
               PROVE  Cardinality(Missed) <= walk.left /\ walk.again <= walk.came
    BY DEF OffsetWalkShifts
  <2>1. Sound
    BY DEF Coherent
  <2>2. /\ IsFiniteSet(Skipped) /\ Cardinality(Skipped) \in Nat
        /\ Cardinality(Coming) \in Nat /\ walk.left \in Nat /\ walk.came \in Nat
        /\ walk.again \in Nat
    BY <2>1, ListFacts
  <2>3. CASE walk.done
    <3>1. Begun
      BY <2>3 DEF Begun
    <3>2. /\ Cardinality(Skipped) <= walk.left
          /\ walk.again + Cardinality(Coming) <= walk.came
      BY <3>1 DEF Coherent, ListFits
    <3>3. Missed \subseteq Ids(Skipped)
      BY <2>3 DEF Missed, Ids, Listed, Skipped
    <3>4. /\ IsFiniteSet(Ids(Skipped)) /\ Cardinality(Ids(Skipped)) <= Cardinality(Skipped)
          /\ Cardinality(Ids(Skipped)) \in Nat
      BY <2>2, IdsCount, FS_CardinalityType
    <3>5. Cardinality(Missed) <= Cardinality(Ids(Skipped)) /\ Cardinality(Missed) \in Nat
      BY <3>3, <3>4, FS_Subset, FS_CardinalityType
    <3> QED
      BY <2>2, <3>2, <3>4, <3>5
  <2>4. CASE ~walk.done
    <3>1. Cardinality(Missed) = 0
      BY <2>4, FS_EmptySet DEF Missed
    <3>2. CASE Begun
      <4>1. walk.again + Cardinality(Coming) <= walk.came
        BY <3>2 DEF Coherent, ListFits
      <4> QED
        BY <2>2, <3>1, <4>1
    <3>3. CASE ~Begun
      <4>1. walk.again = 0
        BY <2>1, <3>3 DEF Sound, WalkFits, NewWalk
      <4> QED
        BY <2>2, <3>1, <4>1
    <3> QED
      BY <3>2, <3>3
  <2> QED
    BY <2>3, <2>4
<1> QED
  BY <1>1, Coherence, PTL

\* chats.service.ts getConversations: the inbox loses between two pages only conversations that
\* a message moved up, or whose order the query leaves open.
THEOREM InboxLosesOnlyMoved == Spec => []InboxMissesOnlyMoved
<1>1. Coherent => InboxMissesOnlyMoved
  <2> SUFFICES ASSUME Coherent, kind = "inbox", NEW i \in Missed PROVE i \in walk.loose
    BY DEF InboxMissesOnlyMoved
  <2>1. walk.done /\ i \in walk.expected \ walk.shown /\ i \in Ids(rows)
    BY DEF Missed, Ids, Listed
  <2>2. PICK m \in rows : m.id = i
    BY <2>1 DEF Ids
  <2>3. Begun
    BY <2>1 DEF Begun
  <2> QED
    BY <2>1, <2>2, <2>3 DEF Coherent, InboxFits
<1> QED
  BY <1>1, Coherence, PTL

\* Messages have their ids in the order of their times, and the next one comes after them.
InOrder(w) ==
    kind = "history" =>
       \A m \in rows :
          /\ \A n \in rows : m.id < n.id => m.at <= n.at
          /\ stamp[w] # 0 => m.at <= stamp[w]
          /\ newId[w] # 0 => m.id < newId[w]

LEMMA InOrderNext ==
    ASSUME NEW w, Writer = {w}, Sound, InOrder(w), [Next]_vars
    PROVE  InOrder(w)'
<1> USE DEF InOrder
<1>1. TypeOK /\ StoringFits /\ w \in Writer
  BY DEF Sound
<1>2. CASE Begin(w)
  BY <1>1, <1>2 DEF Begin, TypeOK, StoringFits
<1>3. CASE Insert(w)
  BY <1>1, <1>3 DEF Insert, TypeOK, StoringFits, Id
<1>4. CASE Commit(w)
  <2> DEFINE z == [id |-> newId[w], at |-> stamp[w]]
  <2>1. /\ kind' = kind /\ rows' = rows \cup {z} /\ stamp'[w] = 0 /\ newId'[w] = 0
        /\ z.id = newId[w] /\ z.at = stamp[w] /\ newId[w] # 0 /\ stamp[w] # 0
        /\ z.id \in Nat /\ z.at \in Nat
    BY <1>1, <1>4 DEF Commit, TypeOK, StoringFits
  <2> HIDE DEF z
  <2>2. \A m \in rows : m.id \in Nat /\ m.at \in Nat
    BY <1>1 DEF TypeOK, Id
  <2> QED
    BY <2>1, <2>2
<1>5. CASE Rollback(w)
  BY <1>1, <1>5 DEF Rollback, TypeOK
<1>6. CASE kind' # "history" \/ UNCHANGED <<kind, rows, stamp, newId>>
  BY <1>6
<1>7. CASE \E i \in Id : Hide(i) \/ Return(i)
  BY <1>6, <1>7 DEF Hide, Return, storing
<1>8. CASE \E m \in rows : MoveUp(m)
  BY <1>6, <1>8 DEF MoveUp
<1>9. CASE NextHistoryPage \/ NextListPage \/ CountList \/ NextInboxPage \/ Reopen
  BY <1>6, <1>9 DEF NextHistoryPage, NextListPage, CountList, NextInboxPage, Reopen, storing
<1>10. CASE UNCHANGED vars
  BY <1>6, <1>10 DEF vars, storing
<1> QED
  BY <1>2, <1>3, <1>4, <1>5, <1>7, <1>8, <1>9, <1>10 DEF Next

\* getHistory: as long as messages are stored one after the other, the cursor keeps its promise.
THEOREM OneWriterMissesNone ==
    ASSUME NEW w, Writer = {w}
    PROVE  Spec => []WalkIsComplete
<1>1. Init => InOrder(w)
  BY DEF Init, InOrder
<1>2. Coherent /\ InOrder(w) /\ [Next]_vars => InOrder(w)'
  BY InOrderNext DEF Coherent
<1>3. OnlyReversedAffected /\ Coherent /\ InOrder(w) => WalkIsComplete
  <2> SUFFICES ASSUME OnlyReversedAffected, Coherent, InOrder(w), kind = "history",
                      NEW i \in Missed
               PROVE  FALSE
    BY DEF WalkIsComplete
  <2>1. Reversed(i)
    BY DEF OnlyReversedAffected
  <2>2. \A m \in rows : m.id \in Nat /\ m.at \in Nat
    BY DEF Coherent, Sound, TypeOK, Id
  <2> QED
    BY <2>1, <2>2 DEF Reversed, InOrder
<1> QED
  BY <1>1, <1>2, <1>3, Coherence, OnlyReversedMissed, PTL DEF Spec
=============================================================================

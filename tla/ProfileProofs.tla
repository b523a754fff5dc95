--------------------------- MODULE ProfileProofs ---------------------------
(***************************************************************************)
(* Proofs about uploads and profiles.                                      *)
(*                                                                         *)
(* What an upload may leave behind follows from an account of every        *)
(* object: whatever is in the bucket or on its way there is confirmed,     *)
(* waited for or lost sight of.  What a profile shows follows from which   *)
(* copies of the row can be stale: only those of columns that are          *)
(* endangered.                                                             *)
(***************************************************************************)
EXTENDS Profile, TLAPS

(* Uploads *)

Accounted ==
    /\ sent \cap stored = {}
    /\ \A f \in sent : f \in lost \/ answer[f] = "pending"
    /\ \A f \in stored : f \in lost \/ answer[f] \in {"pending", "ok"}

\* By what state of the request: what it waits for and what it knows to be stored.
Progress ==
    /\ pc \in {"received", "refused"} => sent = {} /\ stored = {} /\ Pending = {} /\ Uploaded = {}
    /\ pc \in {"returned", "removing", "failed"} => Pending = {}
    /\ pc \in {"uploading", "returned"} => Uploaded \subseteq stored
    /\ pc = "removing" => removal = Uploaded
    /\ Pending \subseteq images.all

UploadsInv == TypeOK /\ Accounted /\ Progress /\ FailureLeavesNothing

LEMMA UploadsInit == Init => UploadsInv
  BY DEF Init, UploadsInv, TypeOK, Accounted, Progress, FailureLeavesNothing, Pending, Uploaded

\* The bucket stores, confirms or rejects an object, or its answer is lost.
LEMMA AnswersAccounted ==
    ASSUME UploadsInv, NEW f \in File, Store(f) \/ Confirm(f) \/ Reject(f) \/ LoseAnswer(f)
    PROVE  UploadsInv'
<1> USE DEF UploadsInv
<1>1. CASE Store(f)
  BY <1>1 DEF Store, TypeOK, Accounted, Progress, FailureLeavesNothing, Pending, Uploaded
<1>2. CASE Confirm(f)
  BY <1>2 DEF Confirm, Answer, TypeOK, Accounted, Progress, FailureLeavesNothing, Pending, Uploaded
<1>3. CASE Reject(f)
  BY <1>3 DEF Reject, Answer, TypeOK, Accounted, Progress, FailureLeavesNothing, Pending, Uploaded
<1>4. CASE LoseAnswer(f)
  BY <1>4 DEF LoseAnswer, Answer, TypeOK, Accounted, Progress, FailureLeavesNothing, Pending, Uploaded
<1> QED BY <1>1, <1>2, <1>3, <1>4

LEMMA UploadsNext == UploadsInv /\ [Next]_vars => UploadsInv'
<1> SUFFICES ASSUME UploadsInv, [Next]_vars PROVE UploadsInv'
  OBVIOUS
<1> USE DEF UploadsInv
<1>1. CASE Refuse
  BY <1>1 DEF Refuse, TypeOK, Accounted, Progress, FailureLeavesNothing, Pending, Uploaded
<1>2. CASE SendAll
  <2>1. TypeOK'
    BY <1>2 DEF SendAll, Acceptable, TypeOK, Progress, Uploaded
  <2>2. Accounted'
    BY <1>2 DEF SendAll, Acceptable, TypeOK, Accounted, Progress
  <2>3. Progress' /\ FailureLeavesNothing'
    BY <1>2 DEF SendAll, Acceptable, TypeOK, Progress, FailureLeavesNothing, Pending, Uploaded
  <2> QED BY <2>1, <2>2, <2>3
<1>3. CASE Return
  BY <1>3 DEF Return, Settled, TypeOK, Accounted, Progress, FailureLeavesNothing, Pending, Uploaded
<1>4. CASE RollBack
  BY <1>4 DEF RollBack, Settled, TypeOK, Accounted, Progress, FailureLeavesNothing, Pending, Uploaded
<1>5. CASE Throw
  <2>1. TypeOK'
    BY <1>5 DEF Throw, TypeOK, Uploaded
  <2>2. Accounted'
    BY <1>5 DEF Throw, TypeOK, Accounted
  <2>3. Progress'
    BY <1>5 DEF Throw, Progress, Pending, Uploaded
  <2>4. FailureLeavesNothing'
    BY <1>5 DEF Throw, TypeOK, Accounted, Progress, FailureLeavesNothing, Pending, Uploaded
  <2> QED BY <2>1, <2>2, <2>3, <2>4
<1>6. CASE Crash
  BY <1>6 DEF Crash, TypeOK, Accounted, Progress, FailureLeavesNothing, Pending, Uploaded
<1>7. CASE \E f \in File : Store(f) \/ Confirm(f) \/ Reject(f) \/ LoseAnswer(f)
  BY <1>7, AnswersAccounted
<1>8. CASE UNCHANGED vars
  BY <1>8 DEF vars, TypeOK, Accounted, Progress, FailureLeavesNothing, Pending, Uploaded
<1> QED BY <1>1, <1>2, <1>3, <1>4, <1>5, <1>6, <1>7, <1>8 DEF Next

\* An upload that failed leaves nothing behind that the bucket told the server of, unless it
\* would not remove it.
THEOREM UploadsLeaveNothing == Spec => []FailureLeavesNothing
<1>1. UploadsInv => FailureLeavesNothing
  BY DEF UploadsInv
<1> QED BY <1>1, UploadsInit, UploadsNext, PTL DEF Spec
-----------------------------------------------------------------------------
(* Profiles *)

LEMMA RowsAre ==
    ASSUME NEW r
    PROVE  r \in Rows <=> /\ r = [c \in Column |-> r[c]]
                          /\ r["phone"] \in Phone
                          /\ r["qr"] \in File \cup {None, Nowhere}
<1>1. ASSUME r \in Rows
      PROVE  r = [c \in Column |-> r[c]] /\ r["phone"] \in Phone /\ r["qr"] \in File \cup {None, Nowhere}
  BY <1>1 DEF Rows, Columns, Column
<1>2. ASSUME r = [c \in Column |-> r[c]], r["phone"] \in Phone, r["qr"] \in File \cup {None, Nowhere}
      PROVE  r \in Rows
  <2>1. r = Columns(r["phone"], r["qr"])
    BY <1>2 DEF Columns, Column
  <2> QED BY <2>1, <1>2 DEF Rows
<1> QED BY <1>1, <1>2

Known(url) == url \in File => pc = "returned" /\ url \in Uploaded

Copied(d) == at[d] \in {"found", "write"}

\* What an update asks for and carries, and that its QR code is one an upload returned.
Carried ==
    /\ entity = [d \in Device |-> entity[d]]
    /\ Known(row["qr"])
    /\ \A d \in Device :
          /\ at[d] # "idle" => asked[d]["phone"] # None
          /\ Known(asked[d]["qr"])
          /\ Copied(d) /\ "qr" \in DOMAIN entity[d] =>
                entity[d]["qr"] \in File \cup {None, Nowhere} /\ Known(entity[d]["qr"])
          /\ at[d] = "write" => assertManagedUrls(d)

\* A copy that differs from the row is one of an endangered column.
Stale ==
    \A d \in Device, c \in Column :
        /\ at[d] = "found" /\ entity[d][c] # row[c] => c \in endangered
        /\ at[d] = "write" =>
              /\ c \in DOMAIN entity[d] \ Asks(d) => c \in endangered
              /\ c \in DOMAIN entity[d] \cap Asks(d) => entity[d][c] = asked[d][c]
              /\ c \in Asks(d) \ DOMAIN entity[d] /\ d \notin crossed => row[c] = asked[d][c]

Agree == \A c \in Column : c \notin endangered => row[c] = accepted[c]

ProfileInv == UploadsInv /\ ProfileTypeOK /\ Carried /\ Stale /\ Agree

LEMMA ProfileInvStarts == ProfileInit => ProfileInv
<1> SUFFICES ASSUME ProfileInit PROVE ProfileInv
  OBVIOUS
<1>1. UploadsInv
  BY UploadsInit DEF ProfileInit
<1>2. PICK p \in Phone : row = Columns(p, None)
  BY DEF ProfileInit
<1>3. row \in Rows /\ accepted = row
  BY <1>2 DEF ProfileInit, Rows
<1>4. ProfileTypeOK
  BY <1>1, <1>3 DEF ProfileInit, ProfileTypeOK, UploadsInv, NoRow, Columns, Column
<1>5. Carried
  BY <1>2, ProfileAssumption DEF ProfileInit, Carried, Known, Copied, NoRow, Columns, Column
<1>6. Stale /\ Agree
  BY <1>3 DEF ProfileInit, Stale, Agree
<1> QED BY <1>1, <1>4, <1>5, <1>6 DEF ProfileInv

\* An upload goes on: what is known of it stays known.
LEMMA UploadGoesOn ==
    ASSUME ProfileInv, [Next]_vars, UNCHANGED profile
    PROVE  ProfileInv'
<1>1. UploadsInv'
  BY UploadsNext DEF ProfileInv
<1>2. ProfileTypeOK'
  BY <1>1 DEF ProfileInv, ProfileTypeOK, UploadsInv, profile, Rows
<1>3. pc = "returned" => pc' = "returned" /\ Uploaded \subseteq Uploaded'
  BY DEF ProfileInv, UploadsInv, Progress, Pending, Uploaded, TypeOK, Next, vars, Refuse, SendAll,
         Return, RollBack, Throw, Crash, Store, Confirm, Reject, LoseAnswer, Answer
<1>4. \A url : Known(url) => Known(url)'
  BY <1>3 DEF Known
<1>5. Carried'
  BY <1>4 DEF ProfileInv, Carried, Copied, profile, isManagedUrl, assertManagedUrls, Known
<1>6. Stale' /\ Agree'
  BY DEF ProfileInv, Stale, Agree, profile, Asks
<1> QED BY <1>1, <1>2, <1>5, <1>6 DEF ProfileInv

LEMMA UploadsStay == UploadsInv /\ UNCHANGED vars => UploadsInv' /\ UNCHANGED <<pc, Uploaded>>
  BY UploadsNext DEF Uploaded, vars

LEMMA AreFunctions ==
    ASSUME ProfileInv
    PROVE  /\ at = [d \in Device |-> at[d]]
           /\ asked = [d \in Device |-> asked[d]]
           /\ entity = [d \in Device |-> entity[d]]
<1>1. at = [d \in Device |-> at[d]]
  BY DEF ProfileInv, ProfileTypeOK
<1> DEFINE Asked == {Columns(p, q) : p \in Phone \cup {None, Undefined},
                                     q \in File \cup {None, Nowhere, Undefined, Foreign}}
<1>2. asked \in [Device -> Asked]
  BY DEF ProfileInv, ProfileTypeOK
<1> HIDE DEF Asked
<1>3. asked = [d \in Device |-> asked[d]]
  BY <1>2
<1> QED BY <1>1, <1>3 DEF ProfileInv, Carried

\* A request may name any image it knows.
LEMMA PatchMeKeeps ==
    ASSUME ProfileInv, UNCHANGED vars, NEW d \in Device, PatchMe(d)
    PROVE  ProfileInv'
<1>1. UploadsInv' /\ UNCHANGED <<pc, Uploaded>>
  BY UploadsStay DEF ProfileInv
<1>2. PICK p \in Phone \cup {Undefined}, q \in Urls \cup {None, Undefined} :
         asked' = [asked EXCEPT ![d] = Columns(p, q)]
  BY DEF PatchMe
<1>3. q \in File \cup {None, Nowhere, Undefined, Foreign} /\ Known(q)
  BY ProfileAssumption DEF Urls, Uploaded, Known
<1>4. Columns(p, q)["phone"] = p /\ Columns(p, q)["qr"] = q
  BY DEF Columns, Column
<1>5. ProfileTypeOK'
  BY <1>1, <1>2, <1>3 DEF ProfileInv, ProfileTypeOK, UploadsInv, PatchMe
<1>6. asked' = [e \in Device |-> IF e = d THEN Columns(p, q) ELSE asked[e]]
  BY <1>2, AreFunctions
<1>7. at' = [e \in Device |-> IF e = d THEN "find" ELSE at[e]]
  BY AreFunctions DEF PatchMe
<1>8. Carried'
  <2>1. \A e \in Device : Known(asked[e]["qr"])'
    BY <1>1, <1>3, <1>4, <1>6 DEF ProfileInv, Carried, Known
  <2>2. p # None
    BY ProfileAssumption
  <2> QED BY <1>1, <1>4, <1>6, <1>7, <2>1, <2>2
          DEF ProfileInv, Carried, Copied, PatchMe, Known, isManagedUrl, assertManagedUrls
<1>9. Stale' /\ Agree'
  BY <1>6, <1>7 DEF ProfileInv, Stale, Agree, PatchMe, Asks
<1> QED BY <1>1, <1>5, <1>8, <1>9 DEF ProfileInv

\* A fresh copy does not differ from the row.
LEMMA FindKeeps ==
    ASSUME ProfileInv, UNCHANGED vars, NEW d \in Device, Find(d)
    PROVE  ProfileInv'
<1>1. UploadsInv' /\ UNCHANGED <<pc, Uploaded>>
  BY UploadsStay DEF ProfileInv
<1>2. entity' = [e \in Device |-> IF e = d THEN row ELSE entity[e]]
  BY AreFunctions DEF Find
<1>3. at' = [e \in Device |-> IF e = d THEN "found" ELSE at[e]]
  BY AreFunctions DEF Find
<1>4. row \in Rows /\ row["qr"] \in File \cup {None, Nowhere} /\ DOMAIN row = Column
  BY RowsAre DEF ProfileInv, ProfileTypeOK
<1>5. ProfileTypeOK'
  BY <1>1, <1>2, <1>3, <1>4 DEF ProfileInv, ProfileTypeOK, UploadsInv, Find, Rows
<1>6. Carried'
  BY <1>1, <1>2, <1>3, <1>4 DEF ProfileInv, Carried, Copied, Find, Known, assertManagedUrls,
         isManagedUrl
<1>7. Stale' /\ Agree'
  BY <1>2, <1>3 DEF ProfileInv, Stale, Agree, Find, Asks
<1> QED BY <1>1, <1>5, <1>6, <1>7 DEF ProfileInv

\* An update that ends without a write leaves the row, and nothing of its own.
LEMMA FinishKeeps ==
    ASSUME ProfileInv, UNCHANGED vars, NEW d \in Device, Finish(d), crossed' = crossed \ {d},
           UNCHANGED <<row, accepted, endangered>>
    PROVE  ProfileInv'
<1>1. UploadsInv' /\ UNCHANGED <<pc, Uploaded>>
  BY UploadsStay DEF ProfileInv
<1>2. /\ entity' = [e \in Device |-> IF e = d THEN NoRow ELSE entity[e]]
      /\ asked' = [e \in Device |-> IF e = d THEN NoRow ELSE asked[e]]
      /\ at' = [e \in Device |-> IF e = d THEN "idle" ELSE at[e]]
  BY AreFunctions DEF Finish
<1>3. NoRow["qr"] = None /\ DOMAIN NoRow = Column
  BY DEF NoRow, Columns, Column
<1>4. ProfileTypeOK'
  <2> DEFINE Asked == {Columns(p, q) : p \in Phone \cup {None, Undefined},
                                       q \in File \cup {None, Nowhere, Undefined, Foreign}}
  <2>1. asked \in [Device -> Asked]
    BY DEF ProfileInv, ProfileTypeOK
  <2>2. NoRow \in Asked
    BY DEF NoRow
  <2> HIDE DEF Asked
  <2>3. asked' \in [Device -> Asked]
    BY <1>2, <2>1, <2>2
  <2>4. at' \in [Device -> {"idle", "find", "found", "write"}]
    BY <1>2 DEF ProfileInv, ProfileTypeOK
  <2>5. TypeOK' /\ row' \in Rows' /\ accepted' \in Rows'
    BY <1>1 DEF ProfileInv, ProfileTypeOK, UploadsInv, Rows
  <2>6. \A e \in Device :
          /\ DOMAIN entity'[e] \subseteq Column
          /\ at'[e] = "found" => entity'[e] \in Rows'
          /\ at'[e] = "write" /\ "phone" \in DOMAIN entity'[e] => entity'[e]["phone"] \in Phone
    BY <1>2, <1>3 DEF ProfileInv, ProfileTypeOK, Rows
  <2>7. crossed' \subseteq Device /\ endangered' \subseteq Column
    BY DEF ProfileInv, ProfileTypeOK
  <2> QED BY <2>3, <2>4, <2>5, <2>6, <2>7 DEF ProfileTypeOK, Asked
<1>5. Carried'
  <2>1. Known(None)
    BY ProfileAssumption DEF Known
  <2> QED BY <1>1, <1>2, <1>3, <2>1 DEF ProfileInv, Carried, Copied, Known, assertManagedUrls,
             isManagedUrl
<1>6. Stale' /\ Agree'
  BY <1>2 DEF ProfileInv, Stale, Agree, Asks
<1> QED BY <1>1, <1>4, <1>5, <1>6 DEF ProfileInv

\* What a request says.
LEMMA AskedAre ==
    ASSUME ProfileInv, NEW d \in Device
    PROVE  /\ asked[d]["phone"] \in Phone \cup {None, Undefined}
           /\ asked[d]["qr"] \in File \cup {None, Nowhere, Undefined, Foreign}
           /\ \A c \in Column : c \in Asks(d) <=> asked[d][c] # Undefined
<1>1. PICK p \in Phone \cup {None, Undefined}, q \in File \cup {None, Nowhere, Undefined, Foreign} :
         asked[d] = Columns(p, q)
  BY DEF ProfileInv, ProfileTypeOK
<1> QED BY <1>1 DEF Columns, Column, Asks

\* What save is to write differs from the row: because the request asks for it, or because
\* the row has changed since it was read.
LEMMA CompareKeeps ==
    ASSUME ProfileInv, UNCHANGED vars, NEW d \in Device, Compare(d)
    PROVE  ProfileInv'
<1> DEFINE Changes == [c \in {x \in Column : Assigned(d)[x] # row[x]} |-> Assigned(d)[c]]
<1>1. UploadsInv' /\ UNCHANGED <<pc, Uploaded>>
  BY UploadsStay DEF ProfileInv
<1>2. /\ entity' = [e \in Device |-> IF e = d THEN Changes ELSE entity[e]]
      /\ at' = [e \in Device |-> IF e = d THEN "write" ELSE at[e]]
  BY AreFunctions DEF Compare
<1>3. /\ DOMAIN Changes = {x \in Column : Assigned(d)[x] # row[x]}
      /\ \A c \in DOMAIN Changes : Changes[c] = Assigned(d)[c]
  OBVIOUS
<1>4. \A c \in Column : Assigned(d)[c] = IF c \in Asks(d) THEN asked[d][c] ELSE entity[d][c]
  BY DEF Assigned
<1>5. /\ entity[d] \in Rows
      /\ entity[d]["phone"] \in Phone
      /\ entity[d]["qr"] \in File \cup {None, Nowhere}
      /\ DOMAIN entity[d] = Column
      /\ Known(entity[d]["qr"])
  <2>1. entity[d] \in Rows
    BY DEF ProfileInv, ProfileTypeOK, Compare
  <2>2. /\ entity[d]["phone"] \in Phone
        /\ entity[d]["qr"] \in File \cup {None, Nowhere}
        /\ DOMAIN entity[d] = Column
    BY <2>1, RowsAre
  <2>3. Known(entity[d]["qr"])
    BY <2>2 DEF ProfileInv, Carried, Copied, Compare, Column
  <2> QED BY <2>1, <2>2, <2>3
<1>6. /\ Assigned(d)["phone"] \in Phone
      /\ Assigned(d)["qr"] \in File \cup {None, Nowhere}
      /\ Known(Assigned(d)["qr"])
  <2>1. asked[d]["phone"] # None /\ Known(asked[d]["qr"]) /\ asked[d]["qr"] # Foreign
    BY ProfileAssumption DEF ProfileInv, Carried, Compare, isManagedUrl, assertManagedUrls
  <2>2. "phone" \in Column /\ "qr" \in Column
    BY DEF Column
  <2>3. Assigned(d)["phone"] \in Phone
    BY <1>4, <1>5, <2>1, <2>2, AskedAre
  <2>4. Assigned(d)["qr"] \in File \cup {None, Nowhere} /\ Known(Assigned(d)["qr"])
    BY <1>4, <1>5, <2>1, <2>2, AskedAre
  <2> QED BY <2>3, <2>4
<1> HIDE DEF Changes
<1>7. ProfileTypeOK'
  <2>1. TypeOK' /\ row' \in Rows' /\ accepted' \in Rows'
    BY <1>1 DEF ProfileInv, ProfileTypeOK, UploadsInv, Compare, Rows
  <2>2. at' \in [Device -> {"idle", "find", "found", "write"}]
    BY <1>2 DEF ProfileInv, ProfileTypeOK
  <2>3. /\ asked' \in [Device -> {Columns(p, q) : p \in Phone \cup {None, Undefined},
                                    q \in File \cup {None, Nowhere, Undefined, Foreign}}]
        /\ crossed' \subseteq Device
        /\ endangered' \subseteq Column
    BY DEF ProfileInv, ProfileTypeOK, Compare
  <2>4. \A e \in Device :
          /\ DOMAIN entity'[e] \subseteq Column
          /\ at'[e] = "found" => entity'[e] \in Rows'
          /\ at'[e] = "write" /\ "phone" \in DOMAIN entity'[e] => entity'[e]["phone"] \in Phone
    BY <1>2, <1>3, <1>6 DEF ProfileInv, ProfileTypeOK, Rows
  <2> QED BY <2>1, <2>2, <2>3, <2>4 DEF ProfileTypeOK
<1>8. Carried'
  BY <1>1, <1>2, <1>3, <1>6 DEF ProfileInv, Carried, Copied, Compare, Known,
         assertManagedUrls, isManagedUrl
<1>9. Stale'
  BY <1>2, <1>3, <1>4 DEF ProfileInv, Stale, Compare, Asks
<1>10. Agree'
  BY DEF ProfileInv, Agree, Compare
<1> QED BY <1>1, <1>7, <1>8, <1>9, <1>10 DEF ProfileInv

\* A write changes what its request asks for, and puts back what was endangered before.
LEMMA WriteKeeps ==
    ASSUME ProfileInv, UNCHANGED vars, NEW d \in Device, Write(d)
    PROVE  ProfileInv'
<1>1. UploadsInv' /\ UNCHANGED <<pc, Uploaded>>
  BY UploadsStay DEF ProfileInv
<1>2. /\ entity' = [e \in Device |-> IF e = d THEN NoRow ELSE entity[e]]
      /\ asked' = [e \in Device |-> IF e = d THEN NoRow ELSE asked[e]]
      /\ at' = [e \in Device |-> IF e = d THEN "idle" ELSE at[e]]
  BY AreFunctions DEF Write, Finish
<1>3. /\ row' = [c \in Column |-> IF c \in DOMAIN entity[d] THEN entity[d][c] ELSE row[c]]
      /\ accepted' = [c \in Column |-> IF c \in Asks(d) THEN asked[d][c] ELSE accepted[c]]
      /\ crossed' = (crossed \ {d}) \cup UnderWay(d)
      /\ endangered' = IF d \in crossed \/ UnderWay(d) # {} THEN endangered \cup Asks(d)
                       ELSE endangered \ Asks(d)
      /\ at[d] = "write"
  BY DEF Write
<1>4. /\ NoRow["qr"] = None /\ DOMAIN NoRow = Column
      /\ "phone" \in Column /\ "qr" \in Column
  BY DEF NoRow, Columns, Column
<1>5. row["phone"] \in Phone /\ row["qr"] \in File \cup {None, Nowhere}
  BY RowsAre DEF ProfileInv, ProfileTypeOK
<1>6. row'["phone"] \in Phone /\ row'["qr"] \in File \cup {None, Nowhere} /\ Known(row'["qr"])
  <2>1. "phone" \in DOMAIN entity[d] => entity[d]["phone"] \in Phone
    BY <1>3 DEF ProfileInv, ProfileTypeOK
  <2>2. "qr" \in DOMAIN entity[d] => entity[d]["qr"] \in File \cup {None, Nowhere} /\ Known(entity[d]["qr"])
    BY <1>3 DEF ProfileInv, Carried, Copied
  <2>3. Known(row["qr"])
    BY DEF ProfileInv, Carried
  <2> QED BY <1>3, <1>4, <1>5, <2>1, <2>2, <2>3
<1>7. accepted'["phone"] \in Phone /\ accepted'["qr"] \in File \cup {None, Nowhere}
  <2>1. asked[d]["phone"] # None /\ asked[d]["qr"] # Foreign
    BY <1>3, ProfileAssumption DEF ProfileInv, Carried, isManagedUrl, assertManagedUrls
  <2>2. accepted["phone"] \in Phone /\ accepted["qr"] \in File \cup {None, Nowhere}
    BY RowsAre DEF ProfileInv, ProfileTypeOK
  <2> QED BY <1>3, <1>4, <2>1, <2>2, AskedAre
<1>8. row' \in Rows /\ accepted' \in Rows
  <2> DEFINE r == row'
             a == accepted'
  <2>1. /\ r = [c \in Column |-> r[c]]
        /\ r["phone"] \in Phone
        /\ r["qr"] \in File \cup {None, Nowhere}
        /\ a = [c \in Column |-> a[c]]
        /\ a["phone"] \in Phone
        /\ a["qr"] \in File \cup {None, Nowhere}
    BY <1>3, <1>6, <1>7
  <2> HIDE DEF r, a
  <2>2. r \in Rows /\ a \in Rows
    BY <2>1, RowsAre
  <2> QED BY <2>2 DEF r, a
<1>9. ProfileTypeOK'
  <2>1. TypeOK'
    BY <1>1 DEF UploadsInv
  <2>2. crossed' \subseteq Device /\ endangered' \subseteq Column
    BY <1>3 DEF ProfileInv, ProfileTypeOK, UnderWay, Asks
  <2>3. at' \in [Device -> {"idle", "find", "found", "write"}]
    BY <1>2 DEF ProfileInv, ProfileTypeOK
  <2>4. asked' \in [Device -> {Columns(p, q) : p \in Phone \cup {None, Undefined},
                                               q \in File \cup {None, Nowhere, Undefined, Foreign}}]
    BY <1>2 DEF ProfileInv, ProfileTypeOK, NoRow
  <2>5. \A e \in Device :
          /\ DOMAIN entity'[e] \subseteq Column
          /\ at'[e] = "found" => entity'[e] \in Rows
          /\ at'[e] = "write" /\ "phone" \in DOMAIN entity'[e] => entity'[e]["phone"] \in Phone
    BY <1>2, <1>4 DEF ProfileInv, ProfileTypeOK
  <2>6. Rows' = Rows
    BY DEF Rows
  <2> QED BY <1>8, <2>1, <2>2, <2>3, <2>4, <2>5, <2>6 DEF ProfileTypeOK
<1>10. Carried'
  <2>1. Known(None)
    BY ProfileAssumption DEF Known
  <2> QED BY <1>1, <1>2, <1>4, <1>6, <2>1 DEF ProfileInv, Carried, Copied, Known, assertManagedUrls,
             isManagedUrl
<1>11. \A c \in Column : row'[c] # row[c] => c \in endangered \/ c \in Asks(d)
  BY <1>3 DEF ProfileInv, Stale
<1>12. ASSUME NEW e \in Device, e # d, Copied(e)
       PROVE  e \in crossed' /\ endangered' = endangered \cup Asks(d)
  BY <1>3, <1>12 DEF UnderWay, Copied
<1>13. Stale'
  <2> SUFFICES ASSUME NEW e \in Device, NEW c \in Column, at'[e] \in {"found", "write"}
               PROVE  /\ at'[e] = "found" /\ entity'[e][c] # row'[c] => c \in endangered'
                      /\ at'[e] = "write" =>
                            /\ c \in DOMAIN entity'[e] \ Asks(e)' => c \in endangered'
                            /\ c \in DOMAIN entity'[e] \cap Asks(e)' => entity'[e][c] = asked'[e][c]
                            /\ c \in Asks(e)' \ DOMAIN entity'[e] /\ e \notin crossed' =>
                                  row'[c] = asked'[e][c]
    BY DEF Stale
  <2>1. e # d /\ Copied(e)
    BY <1>2 DEF Copied
  <2>2. at'[e] = at[e] /\ entity'[e] = entity[e] /\ asked'[e] = asked[e] /\ Asks(e)' = Asks(e)
    BY <1>2, <2>1 DEF Asks
  <2>3. e \in crossed' /\ endangered' = endangered \cup Asks(d)
    BY <1>12, <2>1
  <2> QED BY <1>11, <2>2, <2>3 DEF ProfileInv, Stale
<1>14. Agree'
  <2> SUFFICES ASSUME NEW c \in Column, c \notin endangered' PROVE row'[c] = accepted'[c]
    BY DEF Agree
  <2>1. CASE c \in Asks(d)
    <3>1. d \notin crossed
      BY <1>3, <2>1
    <3> QED BY <1>3, <2>1, <3>1 DEF ProfileInv, Stale
  <2>2. CASE c \notin Asks(d)
    <3>1. c \notin endangered
      BY <1>3, <2>2
    <3> QED BY <1>3, <1>11, <2>2, <3>1 DEF ProfileInv, Agree
  <2> QED BY <2>1, <2>2
<1> QED BY <1>1, <1>9, <1>10, <1>13, <1>14 DEF ProfileInv

LEMMA ProfileInvKept == ProfileInv /\ [ProfileNext]_profileVars => ProfileInv'
<1> SUFFICES ASSUME ProfileInv, [ProfileNext]_profileVars PROVE ProfileInv'
  OBVIOUS
<1>1. CASE Next /\ UNCHANGED profile
  BY <1>1, UploadGoesOn
<1>2. ASSUME NEW d \in Device, UpdateProfile(d), UNCHANGED vars
      PROVE  ProfileInv'
  <2>1. CASE RefuseForeign(d) \/ FailUpdate(d)
    BY <1>2, <2>1, FinishKeeps DEF RefuseForeign, FailUpdate
  <2> QED BY <1>2, <2>1, PatchMeKeeps, FindKeeps, CompareKeeps, WriteKeeps DEF UpdateProfile
<1>3. CASE UNCHANGED profileVars
  BY <1>3, UploadGoesOn DEF profileVars
<1> QED BY <1>1, <1>2, <1>3 DEF ProfileNext

THEOREM ProfileInvariant == ProfileSpec => []ProfileInv
  BY ProfileInvStarts, ProfileInvKept, PTL DEF ProfileSpec

\* Every variable of uploads and profiles has its type, and the phone number is never null.
THEOREM ProfileTypeCorrect == ProfileSpec => []ProfileTypeOK
<1>1. ProfileInv => ProfileTypeOK
  BY DEF ProfileInv
<1> QED BY <1>1, ProfileInvariant, PTL

\* An upload that failed leaves nothing behind that the bucket told the server of, unless it
\* would not remove it, whatever profiles do meanwhile.
THEOREM FailuresCleanUp == ProfileSpec => []FailureLeavesNothing
<1>1. ProfileInv => FailureLeavesNothing
  BY DEF ProfileInv, UploadsInv
<1> QED BY <1>1, ProfileInvariant, PTL

\* The QR code others are shown is never one of another site, and when an upload returned it
\* the image is in the bucket.
THEOREM QrCodesStay == ProfileSpec => []QrStaysInBucket
<1>1. ProfileInv => QrStaysInBucket
  <2> SUFFICES ASSUME ProfileInv, row["qr"] \notin {None, Nowhere} PROVE row["qr"] \in stored
    BY DEF QrStaysInBucket
  <2>1. row["qr"] \in File
    BY RowsAre DEF ProfileInv, ProfileTypeOK
  <2> QED BY <2>1 DEF ProfileInv, Carried, Known, UploadsInv, Progress
<1> QED BY <1>1, ProfileInvariant, PTL

\* A column last changed by an update that no other overlapped is as that update left it, and
\* the employee logs in with the number it set.
THEOREM ChangesStay == ProfileSpec => []AcceptedChangesStay
<1>1. ProfileInv => AcceptedChangesStay
  <2> SUFFICES ASSUME ProfileInv PROVE AcceptedChangesStay
    OBVIOUS
  <2>1. row["phone"] # None
    BY RowsAre, ProfileAssumption DEF ProfileInv, ProfileTypeOK
  <2> QED BY <2>1 DEF ProfileInv, Agree, AcceptedChangesStay, CanLogIn, phonesMatch, Column
<1> QED BY <1>1, ProfileInvariant, PTL
=============================================================================

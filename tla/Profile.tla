------------------------------ MODULE Profile ------------------------------
(***************************************************************************)
(* An employee's phone number and payment QR code, changed by PATCH        *)
(* /users/me from several devices at once (users.service.ts).  The phone   *)
(* number is what the employee logs in with (auth.service.ts), and the QR  *)
(* code should be one of the images uploaded before; all that is compared  *)
(* of its URL is the prefix of the bucket.                                 *)
(*                                                                         *)
(* The handler reads the row, assigns what the request names and saves     *)
(* the whole row.  TypeORM's save reads it again and writes the columns    *)
(* that differ: also those that somebody else changed since the first      *)
(* reading, which it puts back.                                            *)
(***************************************************************************)
EXTENDS Uploads

CONSTANTS
    Device,     \* updates that may be running at a time
    Phone,      \* phone numbers, by their digits
    Foreign,    \* a URL that does not point into the bucket
    Nowhere,    \* a URL under the bucket's prefix where there is no object
    Undefined,  \* a field the request leaves out
    None        \* null

ASSUME ProfileAssumption ==
    /\ None \notin Phone \cup File \cup {Foreign, Nowhere, Undefined}
    /\ Undefined \notin Phone \cup File
    /\ Foreign \notin File \cup {Nowhere, Undefined}
    /\ Nowhere \notin File \cup {Undefined}

VARIABLES
    row,        \* the columns of the employee
    at,         \* where each update is
    asked,      \* the fields of its request
    entity,     \* the employee as the handler has it, then the columns save is to write
    accepted,   \* ghost: what each column was last changed to
    crossed,    \* ghost: updates under way when another wrote the row
    endangered  \* ghost: columns last changed by an update that overlapped another

profile == <<row, at, asked, entity, accepted, crossed, endangered>>
profileVars == <<vars, profile>>

Column == {"phone", "qr"}
Columns(p, q) == [c \in Column |-> IF c = "phone" THEN p ELSE q]
NoRow == Columns(None, None)

\* What a client may send: the URLs an upload returned, one from elsewhere, and one that it
\* made up, or has from an image that is gone, under the prefix of the bucket.
Urls == {Foreign, Nowhere} \cup (IF pc = "returned" THEN Uploaded ELSE {})

ProfileInit ==
    /\ Init
    /\ \E p \in Phone : row = Columns(p, None)
    /\ at = [d \in Device |-> "idle"]
    /\ asked = [d \in Device |-> NoRow]
    /\ entity = [d \in Device |-> NoRow]
    /\ accepted = row
    /\ crossed = {}
    /\ endangered = {}
-----------------------------------------------------------------------------
(* updateProfile *)

\* "The phone number [...] can be changed but never cleared", the QR code can.
PatchMe(d) ==
    /\ at[d] = "idle"
    /\ \E p \in Phone \cup {Undefined}, q \in Urls \cup {None, Undefined} :
          asked' = [asked EXCEPT ![d] = Columns(p, q)]
    /\ at' = [at EXCEPT ![d] = "find"]
    /\ UNCHANGED <<row, entity, accepted, crossed, endangered>>

Find(d) ==
    /\ at[d] = "find"
    /\ entity' = [entity EXCEPT ![d] = row]
    /\ at' = [at EXCEPT ![d] = "found"]
    /\ UNCHANGED <<row, asked, accepted, crossed, endangered>>

Finish(d) ==
    /\ at' = [at EXCEPT ![d] = "idle"]
    /\ asked' = [asked EXCEPT ![d] = NoRow]
    /\ entity' = [entity EXCEPT ![d] = NoRow]

\* Faulty variant: any URL is good.
managedOrNot(url) == TRUE

\* Only the prefix is compared: whether there is an object at the URL is not asked.
isManagedUrl(url) == url \in File \cup {Nowhere}

\* A QR code is looked at when one is given.
assertManagedUrls(d) == asked[d]["qr"] \in {None, Undefined} \/ isManagedUrl(asked[d]["qr"])

RefuseForeign(d) ==
    /\ at[d] = "found"
    /\ ~assertManagedUrls(d)
    /\ Finish(d)
    /\ crossed' = crossed \ {d}
    /\ UNCHANGED <<row, accepted, endangered>>

Asks(d) == {c \in Column : asked[d][c] # Undefined}

\* Faulty variant: what the request leaves out is cleared.
AssignedAll(d) == [c \in Column |-> IF c \in Asks(d) THEN asked[d][c] ELSE None]

Assigned(d) == [c \in Column |-> IF c \in Asks(d) THEN asked[d][c] ELSE entity[d][c]]

\* save reads the row again and compares.
Compare(d) ==
    /\ at[d] = "found"
    /\ assertManagedUrls(d)
    /\ entity' = [entity EXCEPT ![d] =
                    [c \in {x \in Column : Assigned(d)[x] # row[x]} |-> Assigned(d)[c]]]
    /\ at' = [at EXCEPT ![d] = "write"]
    /\ UNCHANGED <<row, asked, accepted, crossed, endangered>>

UnderWay(d) == {e \in Device \ {d} : at[e] \in {"found", "write"}}

Write(d) ==
    /\ at[d] = "write"
    /\ row' = [c \in Column |-> IF c \in DOMAIN entity[d] THEN entity[d][c] ELSE row[c]]
    /\ accepted' = [c \in Column |-> IF c \in Asks(d) THEN asked[d][c] ELSE accepted[c]]
    /\ crossed' = (crossed \ {d}) \cup UnderWay(d)
    /\ endangered' = IF d \in crossed \/ UnderWay(d) # {} THEN endangered \cup Asks(d)
                     ELSE endangered \ Asks(d)
    /\ Finish(d)

\* A statement fails, or the process ends.
FailUpdate(d) ==
    /\ at[d] # "idle"
    /\ Finish(d)
    /\ crossed' = crossed \ {d}
    /\ UNCHANGED <<row, accepted, endangered>>

UpdateProfile(d) ==
    \/ PatchMe(d) \/ Find(d) \/ RefuseForeign(d) \/ Compare(d) \/ Write(d) \/ FailUpdate(d)

ProfileNext ==
    \/ Next /\ UNCHANGED profile
    \/ \E d \in Device : UpdateProfile(d) /\ UNCHANGED vars

ProfileSpec == ProfileInit /\ [][ProfileNext]_profileVars
-----------------------------------------------------------------------------
(* login *)

\* The digits are compared; nobody logs in without a stored number.
phonesMatch(input, number) == number # None /\ input = number

CanLogIn(phone) == phonesMatch(phone, row["phone"])
-----------------------------------------------------------------------------
Rows == {Columns(p, q) : p \in Phone, q \in File \cup {None, Nowhere}}

\* Every variable has its type; the phone number is never null.
ProfileTypeOK ==
    /\ TypeOK
    /\ row \in Rows
    /\ at \in [Device -> {"idle", "find", "found", "write"}]
    /\ asked \in [Device -> {Columns(p, q) : p \in Phone \cup {None, Undefined},
                                             q \in File \cup {None, Nowhere, Undefined, Foreign}}]
    /\ \A d \in Device :
          /\ DOMAIN entity[d] \subseteq Column
          /\ at[d] = "found" => entity[d] \in Rows
          /\ at[d] = "write" /\ "phone" \in DOMAIN entity[d] => entity[d]["phone"] \in Phone
    /\ accepted \in Rows
    /\ crossed \subseteq Device
    /\ endangered \subseteq Column

\* "Prevents clients from storing arbitrary external URLs": the QR code others are shown is
\* never one of another site, and when an upload returned it the image is in the bucket.  A URL
\* under the prefix that the client made up is stored too: whether it leads anywhere is not
\* asked.
QrStaysInBucket == row["qr"] \notin {None, Nowhere} => row["qr"] \in stored

\* Whoever changes the phone number while nothing else changes the profile can log in with it
\* until the next change, and the QR code stays too: only an update that overlaps can take
\* either back.
AcceptedChangesStay ==
    /\ "phone" \notin endangered => CanLogIn(accepted["phone"])
    /\ "qr" \notin endangered => row["qr"] = accepted["qr"]
=============================================================================

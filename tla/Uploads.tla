------------------------------ MODULE Uploads ------------------------------
(***************************************************************************)
(* POST /storage/images: several images are put into the bucket at once,   *)
(* and those that got there are removed again when one fails               *)
(* (storage.service.ts).  Object paths are random, so that uploads do not  *)
(* touch each other's objects: one is modelled.                            *)
(*                                                                         *)
(* The bucket may carry out a request whose answer is lost, and may do so  *)
(* after the client gave up on it.                                         *)
(***************************************************************************)
EXTENDS FiniteSets, Naturals

CONSTANTS
    File,        \* images of the request
    MaxImages    \* MAX_IMAGES_PER_UPLOAD

ASSUME UploadsAssumption == IsFiniteSet(File) /\ MaxImages \in Nat

VARIABLES
    images,     \* the images sent, and those of them that are valid
    pc,         \* where the request is
    sent,       \* objects on their way to the bucket
    stored,     \* objects in the bucket
    answer,     \* what putObject came to for every image
    lost,       \* images whose answer was lost
    removal     \* objects the bucket is asked to remove

vars == <<images, pc, sent, stored, answer, lost, removal>>

Init ==
    /\ images \in [all : SUBSET File, valid : SUBSET File]
    /\ images.valid \subseteq images.all
    /\ pc = "received"
    /\ sent = {}
    /\ stored = {}
    /\ answer = [f \in File |-> "none"]
    /\ lost = {}
    /\ removal = {}
-----------------------------------------------------------------------------
(* uploadImages *)

Acceptable ==
    /\ images.all # {}
    /\ Cardinality(images.all) <= MaxImages
    /\ images.valid = images.all

\* No image, too many, or one that is empty, too large or of another type.
Refuse ==
    /\ pc = "received"
    /\ ~Acceptable
    /\ pc' = "refused"
    /\ UNCHANGED <<images, sent, stored, answer, lost, removal>>

SendAll ==
    /\ pc = "received"
    /\ Acceptable
    /\ pc' = "uploading"
    /\ sent' = images.valid
    /\ answer' = [f \in File |-> IF f \in sent' THEN "pending" ELSE "none"]
    /\ UNCHANGED <<images, stored, lost, removal>>

Uploaded == {f \in File : answer[f] = "ok"}
Failed == {f \in File : answer[f] = "failed"}
Pending == {f \in File : answer[f] = "pending"}

\* Faulty variant: Promise.all instead of Promise.allSettled.
SettledOrFailed == Pending = {} \/ Failed # {}

\* Promise.allSettled
Settled == Pending = {}

\* All images are stored; the client gets their URLs.
Return ==
    /\ pc = "uploading"
    /\ Settled
    /\ Failed = {}
    /\ pc' = "returned"
    /\ UNCHANGED <<images, sent, stored, answer, lost, removal>>

\* Faulty variant: the images of which nothing is known are removed.
RollBackFailed ==
    /\ pc = "uploading"
    /\ Settled
    /\ Failed # {}
    /\ removal' = Failed
    /\ pc' = "removing"
    /\ UNCHANGED <<images, sent, stored, answer, lost>>

\* One failed: the others are removed ...
RollBack ==
    /\ pc = "uploading"
    /\ Settled
    /\ Failed # {}
    /\ removal' = Uploaded
    /\ pc' = "removing"
    /\ UNCHANGED <<images, sent, stored, answer, lost>>

\* ... and the client is told, whether or not that succeeded.
Throw ==
    /\ pc = "removing"
    /\ pc' = "failed"
    /\ \/ stored' = stored \ removal /\ removal' = {}
       \/ removal # {} /\ UNCHANGED <<stored, removal>>
    /\ UNCHANGED <<images, sent, answer, lost>>
-----------------------------------------------------------------------------
(* putObject and the bucket *)

Answer(f, a) ==
    /\ answer[f] = "pending"
    /\ answer' = [answer EXCEPT ![f] = a]
    /\ UNCHANGED <<images, pc, removal>>

\* The bucket stores an object, even one the server no longer waits for.
Store(f) ==
    /\ f \in sent
    /\ sent' = sent \ {f}
    /\ stored' = stored \cup {f}
    /\ UNCHANGED <<images, pc, answer, lost, removal>>

Confirm(f) ==
    /\ f \in stored
    /\ Answer(f, "ok")
    /\ UNCHANGED <<sent, stored, lost>>

Reject(f) ==
    /\ f \in sent
    /\ Answer(f, "failed")
    /\ sent' = sent \ {f}
    /\ UNCHANGED <<stored, lost>>

\* The connection breaks; the object may be stored already or yet to be.
LoseAnswer(f) ==
    /\ Answer(f, "failed")
    /\ lost' = lost \cup {f}
    /\ UNCHANGED <<sent, stored>>

\* The process dies.
Crash ==
    /\ pc \in {"received", "uploading", "removing"}
    /\ pc' = "dead"
    /\ UNCHANGED <<images, sent, stored, answer, lost, removal>>

Next ==
    \/ Refuse \/ SendAll \/ Return \/ RollBack \/ Throw \/ Crash
    \/ \E f \in File : Store(f) \/ Confirm(f) \/ Reject(f) \/ LoseAnswer(f)

Spec == Init /\ [][Next]_vars
-----------------------------------------------------------------------------
\* Every variable has its type; only what is known to be stored is removed.
TypeOK ==
    /\ images \in [all : SUBSET File, valid : SUBSET File]
    /\ pc \in {"received", "refused", "uploading", "returned", "removing", "failed", "dead"}
    /\ sent \subseteq images.all
    /\ stored \subseteq images.all
    /\ answer \in [File -> {"none", "pending", "ok", "failed"}]
    /\ lost \subseteq images.all
    /\ removal \subseteq Uploaded

\* "Rolls back already-uploaded files on failure": an upload that failed leaves behind, now
\* or later, only what the bucket would not remove or stored without saying so.
FailureLeavesNothing == pc = "failed" => sent \cup stored \subseteq lost \cup removal
=============================================================================

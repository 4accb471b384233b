------------------------------- MODULE Media --------------------------------
(***************************************************************************)
(* Uploads: the gateway of services/control/src/app.ts in front of         *)
(* Synapse's media store, its cleanup timer, and the table media of        *)
(* store.ts.                                                               *)
(*                                                                         *)
(* A row charges its bytes to its owner from before they are forwarded     *)
(* until their deletion is confirmed.  Synapse may store what it received  *)
(* though the gateway has given up waiting, or lose its answer.  An upload *)
(* that is tried again is another file.                                    *)
(***************************************************************************)
EXTENDS Naturals, FiniteSetsExt

CONSTANTS
  Files,    \* uploads
  Size,     \* their bytes
  Owner,    \* who uploads them
  Quota,    \* bytes an owner may hold (100 MiB)
  Batch,    \* rows a cleanup pass takes (100)
  Passes,   \* cleanup passes at work at the same time
  MaxLost   \* bound: answers lost, requests failed, crashes

ASSUME MediaAssumption ==
  /\ IsFiniteSet(Files)
  /\ Size \in [Files -> Nat \ {0}]
  /\ Quota \in Nat /\ Batch \in Nat \ {0} /\ MaxLost \in Nat

VARIABLES
  row,     \* table media: no row, "reserved", or "known" with its content_uri
  upload,  \* the handlers: "forwarded" until Synapse answers, "stored" until it is heard
  wire,    \* given up, but Synapse may still receive them
  stored,  \* Synapse: the files it holds
  old,     \* older than 30 days
  left,    \* the rows each cleanup pass has yet to visit
  lost     \* bounded by MaxLost

mediaVars == <<row, upload, wire, stored, old, left, lost>>

Users == {Owner[f] : f \in Files}
Bytes(fs) == MapThenSumSet(LAMBDA f : Size[f], fs)
OwnedBy(u) == {f \in Files : Owner[f] = u}
Rows == {f \in Files : row[f] # "none"}

\* The sum is a number of bytes, a part of the files has no more of them, and a
\* further file adds its own.
SumLaws ==
  /\ Bytes({}) = 0
  /\ \A fs \in SUBSET Files : Bytes(fs) \in Nat
  /\ \A fs \in SUBSET Files : \A gs \in SUBSET fs : Bytes(gs) <= Bytes(fs)
  /\ \A fs \in SUBSET Files : \A f \in Files \ fs : Bytes(fs \cup {f}) = Bytes(fs) + Size[f]

(***************************************************************************)
(* Decisions.                                                              *)
(***************************************************************************)
\* Mutant of Charged: uploads still under way do not count.
ChargedKnown(u) == {f \in OwnedBy(u) : row[f] = "known"}

Charged(u) == OwnedBy(u) \cap Rows

\* Mutant of Keeps: an upload that failed is never charged.
KeepsNothing(refused) == FALSE

\* Only a refusal proves that nothing was stored.
Keeps(refused) == ~refused

\* Mutant of Confirms: a file that is gone already is not released.
ConfirmsDeleted(f) == f \in stored

\* Deleted or not found: both say the file is gone.
Confirms(f) == TRUE

Due == {f \in old : row[f] = "known"}

\* Which rows LIMIT leaves out is up to the database.
Taken(fs) == fs \subseteq Due /\ Cardinality(fs) = Min({Batch, Cardinality(Due)})

Loses == lost < MaxLost /\ lost' = lost + 1

MediaInit ==
  /\ row = [f \in Files |-> "none"]
  /\ upload = [f \in Files |-> "new"]
  /\ wire = {} /\ stored = {} /\ old = {}
  /\ left = [x \in Passes |-> {}]
  /\ lost = 0

(***************************************************************************)
(* POST .../upload.                                                        *)
(***************************************************************************)
\* reserveMedia, and the request to Synapse leaves.
ReserveMedia(f) ==
  /\ upload[f] = "new"
  /\ Bytes(Charged(Owner[f])) + Size[f] <= Quota
  /\ row' = [row EXCEPT ![f] = "reserved"]
  /\ upload' = [upload EXCEPT ![f] = "forwarded"]
  /\ UNCHANGED <<wire, stored, old, left, lost>>

\* Synapse stores a file, with the gateway waiting or not.
Receive(f) ==
  /\ \/ upload[f] = "forwarded" /\ upload' = [upload EXCEPT ![f] = "stored"]
     \/ f \in wire /\ UNCHANGED upload
  /\ stored' = stored \cup {f}
  /\ wire' = wire \ {f}
  /\ UNCHANGED <<row, old, left, lost>>

\* finishMedia.
FinishMedia(f) ==
  /\ upload[f] = "stored"
  /\ row' = [row EXCEPT ![f] = IF @ = "none" THEN @ ELSE "known"]
  /\ upload' = [upload EXCEPT ![f] = "over"]
  /\ UNCHANGED <<wire, stored, old, left, lost>>

\* The catch block: Synapse refused the file (4xx), or nobody knows.
UploadFails(f, refused) ==
  /\ IF refused THEN upload[f] = "forwarded" /\ UNCHANGED wire
     ELSE \/ upload[f] = "forwarded" /\ wire' \in {wire, wire \cup {f}}
          \/ upload[f] = "stored" /\ UNCHANGED wire
  /\ Loses
  /\ row' = [row EXCEPT ![f] = IF Keeps(refused) THEN @ ELSE "none"]
  /\ upload' = [upload EXCEPT ![f] = "over"]
  /\ UNCHANGED <<stored, old, left>>

Vanish(f) ==
  /\ f \in wire
  /\ wire' = wire \ {f}
  /\ UNCHANGED <<row, upload, stored, old, left, lost>>

\* The process restarts; what it had forwarded may arrive.
Restart ==
  /\ Loses
  /\ LET cut == {f \in Files : upload[f] \in {"forwarded", "stored"}}
     IN  /\ upload' = [f \in Files |-> IF f \in cut THEN "over" ELSE upload[f]]
         /\ \E late \in SUBSET {f \in cut : upload[f] = "forwarded"} : wire' = wire \cup late
  /\ left' = [x \in Passes |-> {}]
  /\ UNCHANGED <<row, stored, old>>

(***************************************************************************)
(* Retention.                                                              *)
(***************************************************************************)
\* A request is over long before thirty days.
GrowOld(f) ==
  /\ upload[f] = "over" /\ f \notin wire /\ f \notin old
  /\ old' = old \cup {f}
  /\ UNCHANGED <<row, upload, wire, stored, left, lost>>

\* mediaCleanup selects; a pass may find the last one still at work.
StartCleanup(x) ==
  /\ left[x] = {} /\ Due # {}
  /\ \E fs \in SUBSET Due : Taken(fs) /\ left' = [left EXCEPT ![x] = fs]
  /\ UNCHANGED <<row, upload, wire, stored, old, lost>>

\* One row: Synapse is asked to delete the file; the answer releases the row
\* (releaseMedia), or is lost, if the request arrived at all.
CleanUp(x, f) ==
  /\ f \in left[x]
  /\ left' = [left EXCEPT ![x] = @ \ {f}]
  /\ \/ /\ stored' = stored \ {f}
        /\ row' = [row EXCEPT ![f] = IF Confirms(f) THEN "none" ELSE @]
        /\ UNCHANGED lost
     \/ stored' \in {stored, stored \ {f}} /\ Loses /\ UNCHANGED row
  /\ UNCHANGED <<upload, wire, old>>

\* prune-media.py deletes old files, known to the gateway or not.
Prune(f) ==
  /\ f \in old \cap stored
  /\ stored' = stored \ {f}
  /\ UNCHANGED <<row, upload, wire, old, left, lost>>

MediaNext ==
  \/ \E f \in Files :
       \/ ReserveMedia(f) \/ Receive(f) \/ FinishMedia(f) \/ Vanish(f)
       \/ \E refused \in BOOLEAN : UploadFails(f, refused)
       \/ GrowOld(f) \/ Prune(f)
  \/ Restart
  \/ \E x \in Passes : StartCleanup(x) \/ \E f \in Files : CleanUp(x, f)

MediaSpec == MediaInit /\ [][MediaNext]_mediaVars

\* The timer fires again and again, and a pass goes through its rows.
MediaFairness ==
  \A x \in Passes : WF_mediaVars(StartCleanup(x)) /\ WF_mediaVars(\E f \in Files : CleanUp(x, f))

(***************************************************************************)
(* Properties.                                                             *)
(***************************************************************************)
\* The types; a pass never takes more rows than its LIMIT.
MediaTypeOK ==
  /\ row \in [Files -> {"none", "reserved", "known"}]
  /\ upload \in [Files -> {"new", "forwarded", "stored", "over"}]
  /\ wire \subseteq Files /\ stored \subseteq Files /\ old \subseteq Files
  /\ left \in [Passes -> SUBSET Files]
  /\ \A x \in Passes : Cardinality(left[x]) <= Batch
  /\ lost \in 0 .. MaxLost

\* Every file Synapse holds or may yet store is charged: no failed, late or
\* repeated request, crash or overlapping cleanup releases a row too early
\* ("Successful files remain charged until their deletion is confirmed").
StoredIsCharged == stored \cup wire \subseteq Rows

\* Why: a file is on its way to Synapse once, charged from before it leaves; it
\* is known or old only after that. Proved inductive in Control_proofs.
ChargeInv ==
  /\ StoredIsCharged
  /\ \A f \in Files :
       /\ upload[f] = "new" => f \notin stored \cup wire \cup old
       /\ upload[f] = "forwarded" => f \in Rows /\ f \notin stored \cup wire \cup old
       /\ upload[f] = "stored" => f \in Rows /\ f \notin wire \cup old
  /\ wire \cap old = {}
  /\ \A x \in Passes : left[x] \subseteq old

\* What Synapse holds of an owner's files is within the quota, however many
\* uploads are under way together.
QuotaKept == \A u \in Users : Bytes(OwnedBy(u) \cap stored) <= Quota

\* An old file the gateway knows is released in the end, also if an earlier
\* pass deleted it without hearing so, or the retention task did.
ChargeReleased == \A f \in Files : f \in old /\ row[f] = "known" ~> row[f] = "none"
=============================================================================

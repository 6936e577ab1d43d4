-------------------------------- MODULE Media --------------------------------
(***************************************************************************)
(* The pictures of one entity (internal/media): rows of media_attachments, *)
(* the objects they name in the store, and which row is the primary one.   *)
(* No transaction spans the table and the store, and the primary is set in *)
(* a transaction of its own.                                               *)
(*                                                                         *)
(* A job is one request, served once; the row an upload inserts and the    *)
(* objects it stores bear the job's name, as they bear its file's UUID.    *)
(***************************************************************************)
EXTENDS Naturals, FiniteSets

CONSTANTS Jobs,
          Files,    \* contents, told apart by their hash
          Sizes     \* objects per picture: 3 in the code, full size and two thumbnails

ASSUME MediaAssumption == Sizes \in Nat /\ "none" \notin Jobs

Variants == 1..Sizes   \* in the order they are stored

VARIABLES
  pictures,  \* rows
  primary,   \* rows with is_primary
  objects,   \* <<row, variant>> in the store
  job,       \* per job: where it is, and what it is about
  unsure     \* history: rows whose insertion committed and was reported as failed

mediaVars == <<pictures, primary, objects, job, unsure>>

NoJob == [at |-> "new", file |-> "none", prim |-> FALSE, target |-> "none", old |-> {}]
Stage(j, p) == job[j].at = p
Stored(r) == {o \in objects : o[1] = r}
Duplicates(f) == {r \in pictures : job[r].file = f}
Held == UNION {job[j].old : j \in {k \in Jobs : Stage(k, "set")}}   \* rows locked
Moves(j, q) == job' = [job EXCEPT ![j] = q]
Over(j) == Moves(j, [job[j] EXCEPT !.at = "over"])

\* The statements.
PictureFound(r) == r \in pictures
PictureInserted(j) == pictures \cup {j}
PictureDeleted(r) == pictures \ {r}
PrimaryUnset(old) == primary \ old

-----------------------------------------------------------------------------
(* Upload.                                                                 *)

\* Upload of a picture the entity does not have: GetByContentHash.
StartUpload(j, f, p) ==
  /\ Stage(j, "new") /\ Duplicates(f) = {}
  /\ Moves(j, [NoJob EXCEPT !.at = "put", !.file = f, !.prim = p, !.target = j])
  /\ UNCHANGED <<pictures, primary, objects, unsure>>

Put(j) ==
  /\ Stage(j, "put") /\ Cardinality(Stored(j)) < Sizes
  /\ objects' = objects \cup {<<j, Cardinality(Stored(j)) + 1>>}
  /\ UNCHANGED <<pictures, primary, job, unsure>>

\* The objects of row r are deleted, but for those whose deletion fails.
Removed(r, kept) == kept \subseteq Stored(r) /\ objects' = objects \ (Stored(r) \ kept)

\* backend.Upload or the insertion fails: what was stored is taken back.
UploadFails(j, kept) ==
  /\ Stage(j, "put") /\ Removed(j, kept) /\ Over(j)
  /\ UNCHANGED <<pictures, primary, unsure>>

\* The request goes on with row r.
GoesOn(j, r) == IF job[j].prim THEN Moves(j, [job[j] EXCEPT !.at = "swap", !.target = r]) ELSE Over(j)

AllStored(j) == Stage(j, "put") /\ Cardinality(Stored(j)) = Sizes

\* CreateWithAudit.
Insert(j) ==
  /\ AllStored(j) /\ Duplicates(job[j].file) = {}
  /\ pictures' = PictureInserted(j)
  /\ GoesOn(j, j)
  /\ UNCHANGED <<primary, objects, unsure>>

\* uq_media_content_per_entity: another request inserted the same content.
\* Its row is the answer, and the objects just stored stay.
InsertDuplicate(j) ==
  /\ AllStored(j)
  /\ \E r \in Duplicates(job[j].file) : GoesOn(j, r)
  /\ UNCHANGED <<pictures, primary, objects, unsure>>

\* Commit fails, but the transaction was committed.
InsertUnsure(j, kept) ==
  /\ AllStored(j) /\ Duplicates(job[j].file) = {}
  /\ pictures' = PictureInserted(j) /\ unsure' = unsure \cup {j}
  /\ Removed(j, kept) /\ Over(j)
  /\ UNCHANGED primary

-----------------------------------------------------------------------------
(* The primary picture.                                                    *)

\* Update with is_primary, of a row that was not primary when it was written.
StartSwap(j, r) ==
  /\ Stage(j, "new") /\ PictureFound(r) /\ r \notin primary
  /\ Moves(j, [NoJob EXCEPT !.at = "swap", !.target = r])
  /\ UNCHANGED <<pictures, primary, objects, unsure>>

\* LockPrimaryMediaAttachment, FOR UPDATE.
LockPrimary(j) ==
  /\ Stage(j, "swap")
  /\ Moves(j, [job[j] EXCEPT !.at = IF primary \cap Held = {} THEN "set" ELSE "wait", !.old = primary])
  /\ UNCHANGED <<pictures, primary, objects, unsure>>

\* The lock is released: a row that is no longer primary is not found.
Woken(j) ==
  /\ Stage(j, "wait") /\ job[j].old \cap Held = {}
  /\ Moves(j, [job[j] EXCEPT !.at = "set", !.old = @ \cap primary])
  /\ UNCHANGED <<pictures, primary, objects, unsure>>

\* Mutant: the old primary stays unset when the new one is gone.
NotUndone(old) == primary \ old

\* Rollback.
Undone(old) == primary

\* uq_media_primary_per_entity.
Unique(t, old) == PrimaryUnset(old) \subseteq {t}

\* UnsetPrimaryForEntity, SetAttachmentAsPrimary, and the commit or rollback.
SetPrimary(j) ==
  LET t == job[j].target  old == job[j].old IN
  /\ Stage(j, "set")
  /\ primary' = IF PictureFound(t) /\ Unique(t, old) THEN {t} ELSE Undone(old)
  /\ Over(j)
  /\ UNCHANGED <<pictures, objects, unsure>>

-----------------------------------------------------------------------------
(* Delete.                                                                 *)

\* GetByID.
StartDelete(j, r) ==
  /\ Stage(j, "new") /\ PictureFound(r)
  /\ Moves(j, [NoJob EXCEPT !.at = "delete", !.target = r])
  /\ UNCHANGED <<pictures, primary, objects, unsure>>

\* DeleteMediaAttachment; the second of two deletions finds no row.
DeleteRow(j) ==
  LET r == job[j].target IN
  /\ Stage(j, "delete") /\ r \notin Held
  /\ pictures' = PictureDeleted(r) /\ primary' = primary \ {r}
  /\ IF PictureFound(r) THEN Moves(j, [job[j] EXCEPT !.at = "clean"]) ELSE Over(j)
  /\ UNCHANGED <<objects, unsure>>

\* Mutant: the objects go first.
MayClean(j) == Stage(j, "clean") \/ Stage(j, "delete")

\* "Delete storage objects AFTER the transaction commits."
Cleans(j) == Stage(j, "clean")

Clean(j, kept) ==
  /\ Cleans(j)
  /\ Removed(job[j].target, kept) /\ Over(j)
  /\ UNCHANGED <<pictures, primary, unsure>>

\* The process ends, or the request is cancelled.
Broken(j) ==
  /\ ~Stage(j, "new") /\ ~Stage(j, "over") /\ Over(j)
  /\ UNCHANGED <<pictures, primary, objects, unsure>>

-----------------------------------------------------------------------------

MediaInit == /\ pictures = {} /\ primary = {} /\ objects = {} /\ unsure = {}
             /\ job = [j \in Jobs |-> NoJob]

MediaNext == \E j \in Jobs :
  \/ \E f \in Files, p \in BOOLEAN : StartUpload(j, f, p)
  \/ Put(j) \/ Insert(j) \/ InsertDuplicate(j)
  \/ \E kept \in SUBSET objects : UploadFails(j, kept) \/ InsertUnsure(j, kept) \/ Clean(j, kept)
  \/ \E r \in pictures : StartSwap(j, r) \/ StartDelete(j, r)
  \/ LockPrimary(j) \/ Woken(j) \/ SetPrimary(j) \/ DeleteRow(j) \/ Broken(j)
MediaSpec == MediaInit /\ [][MediaNext]_mediaVars

-----------------------------------------------------------------------------
(* Properties.                                                             *)

\* A picture that is listed can be shown in every size: its objects are
\* stored before its row and deleted after it, in whatever order uploads of
\* the same content, deletions, failures and crashes meet (Upload, Delete).
\* Only an insertion whose commit was wrongly reported as failed is excepted.
ObjectsHeld == \A r \in pictures \ unsure, v \in Variants : <<r, v>> \in objects

\* An entity that has a primary picture keeps exactly one until that picture
\* is deleted: concurrent swaps and deletions neither add a second nor lose
\* the first (SwapPrimaryWithAudit, "atomically").
PrimaryHeld == [][\A r \in primary : r \in pictures' => Cardinality(primary') = 1]_mediaVars
=============================================================================

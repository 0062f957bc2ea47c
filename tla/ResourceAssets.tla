---------------------------- MODULE ResourceAssets ----------------------------
(***************************************************************************)
(* Uploaded files: rows of assignment_item_resources that name an object   *)
(* in the bucket by the digest of its content, so that rows of the same    *)
(* content share one object (assignment-resources.service.ts).             *)
(*                                                                         *)
(* The object store takes no part in the transactions of the database.  An *)
(* upload and a removal therefore hold an advisory lock on the key while   *)
(* they change both; duplicates, late saves and cascading deletes change   *)
(* rows without that lock and without looking at the bucket.               *)
(*                                                                         *)
(* Rows are added, copied and dropped one by one; which of them a command  *)
(* may touch is the matter of AssignmentLifecycle.                         *)
(***************************************************************************)
EXTENDS Naturals

CONSTANTS
  Keys,     \* asset keys: assignment-resources/<sha256>
  Clients,  \* HTTP requests that may be in progress at one time
  MaxIds    \* bound on the rows ever inserted

ASSUME AssetsAssumption == MaxIds \in Nat

VARIABLES
  rows,       \* committed upload rows: [id, key, checked]
  objects,    \* keys of the bucket
  requests,   \* per client: where its request stands, or Idle
  ids,        \* ids handed out so far
  torn,       \* history: keys erased by a removal that was then rolled back
  abandoned   \* history: keys of which a cascade deleted a row, or whose
              \* upload was rolled back after its PUT, since their last erasure

vars == <<rows, objects, requests, ids, torn, abandoned>>

Idle == [step |-> "idle"]

Step(c, s) == requests' = [requests EXCEPT ![c].step = s]

Finish(c) == requests' = [requests EXCEPT ![c] = Idle]

NewId == ids < MaxIds /\ ids' = ids + 1

Init ==
  /\ rows = {} /\ objects = {} /\ ids = 0
  /\ requests = [c \in Clients |-> Idle]
  /\ torn = {} /\ abandoned = {}

-----------------------------------------------------------------------------
(***************************************************************************)
(* pg_advisory_xact_lock(hashtext(key)), held until commit or rollback.    *)
(***************************************************************************)
Holding == {"locked", "stored", "shared", "last", "erased"}

Holds(c, k) == requests[c].step \in Holding /\ requests[c].key = k

\* Mutant: nobody waits.
LockAnyway(c) ==
  /\ requests[c].step = "checked"
  /\ Step(c, "locked")
  /\ UNCHANGED <<rows, objects, ids, torn, abandoned>>

Lock(c) ==
  /\ requests[c].step = "checked"
  /\ ~ \E d \in Clients : Holds(d, requests[c].key)
  /\ Step(c, "locked")
  /\ UNCHANGED <<rows, objects, ids, torn, abandoned>>

-----------------------------------------------------------------------------
(***************************************************************************)
(* createUpload: check the item, lock, PUT the object, insert the row.  A  *)
(* row is checked when its own upload has put the object.                  *)
(***************************************************************************)
CheckUpload(c, k) ==
  /\ requests[c] = Idle
  /\ requests' = [requests EXCEPT ![c] = [op |-> "upload", step |-> "checked", key |-> k]]
  /\ UNCHANGED <<rows, objects, ids, torn, abandoned>>

Put(c) ==
  /\ requests[c].step = "locked" /\ requests[c].op = "upload"
  /\ objects' = objects \cup {requests[c].key}
  /\ torn' = torn \ {requests[c].key}
  /\ Step(c, "stored")
  /\ UNCHANGED <<rows, ids, abandoned>>

InsertRow(c) ==
  /\ requests[c].step = "stored"
  /\ NewId
  /\ rows' = rows \cup {[id |-> ids, key |-> requests[c].key, checked |-> TRUE]}
  /\ Finish(c)
  /\ UNCHANGED <<objects, torn, abandoned>>

-----------------------------------------------------------------------------
(***************************************************************************)
(* remove: read the resource, lock, delete its row, count the rows left    *)
(* with its key, and erase the object when there are none.  The deletion   *)
(* is seen by others at the commit only.                                   *)
(***************************************************************************)
CheckRemove(c, r) ==
  /\ requests[c] = Idle /\ r \in rows
  /\ requests' = [requests EXCEPT
       ![c] = [op |-> "remove", step |-> "checked", key |-> r.key, row |-> r]]
  /\ UNCHANGED <<rows, objects, ids, torn, abandoned>>

\* Mutant: the rows are counted before the deletion.
CountAndDeleteRow(c) ==
  /\ requests[c].step = "locked" /\ requests[c].op = "remove"
  /\ Step(c, IF \E q \in rows : q.key = requests[c].key THEN "shared" ELSE "last")
  /\ UNCHANGED <<rows, objects, ids, torn, abandoned>>

DeleteRow(c) ==
  /\ requests[c].step = "locked" /\ requests[c].op = "remove"
  /\ Step(c, IF \E q \in rows : q.id # requests[c].row.id /\ q.key = requests[c].key
             THEN "shared" ELSE "last")
  /\ UNCHANGED <<rows, objects, ids, torn, abandoned>>

Erase(c) ==
  /\ requests[c].step = "last"
  /\ objects' = objects \ {requests[c].key}
  /\ abandoned' = abandoned \ {requests[c].key}
  /\ Step(c, "erased")
  /\ UNCHANGED <<rows, ids, torn>>

CommitRemove(c) ==
  /\ requests[c].step \in {"shared", "erased"}
  /\ rows' = {r \in rows : r.id # requests[c].row.id}
  /\ Finish(c)
  /\ UNCHANGED <<objects, ids, torn, abandoned>>

\* A failed statement, a refused insert, a lost connection: the transaction is
\* rolled back, what was done to the bucket is not.
Abort(c) ==
  /\ requests[c] # Idle
  /\ torn' = IF requests[c].step = "erased" THEN torn \cup {requests[c].key} ELSE torn
  /\ abandoned' = IF requests[c].step = "stored" THEN abandoned \cup {requests[c].key}
                  ELSE abandoned
  /\ Finish(c)
  /\ UNCHANGED <<rows, objects, ids>>

-----------------------------------------------------------------------------
(***************************************************************************)
(* The commands of student-assignments.service.ts: duplicate inserts rows  *)
(* for the uploads it read; publish, archive and cancel save the rows they *)
(* read, inserting again those that are gone; update and remove delete     *)
(* rows by ON DELETE CASCADE.                                              *)
(***************************************************************************)
Read(c, op, r) ==
  /\ requests[c] = Idle /\ r \in rows
  /\ requests' = [requests EXCEPT ![c] = [op |-> op, step |-> "read", row |-> r]]
  /\ UNCHANGED <<rows, objects, ids, torn, abandoned>>

Duplicate(c) ==
  /\ requests[c].step = "read" /\ requests[c].op = "duplicate"
  /\ NewId
  /\ rows' = rows \cup {[id |-> ids, key |-> requests[c].row.key, checked |-> FALSE]}
  /\ Finish(c)
  /\ UNCHANGED <<objects, torn, abandoned>>

Save(c) ==
  /\ requests[c].step = "read" /\ requests[c].op = "save"
  /\ rows' = IF \E q \in rows : q.id = requests[c].row.id THEN rows
             ELSE rows \cup {[requests[c].row EXCEPT !.checked = FALSE]}
  /\ Finish(c)
  /\ UNCHANGED <<objects, ids, torn, abandoned>>

\* A row whose deletion is not committed keeps others from deleting it.
BeingDeleted(r) ==
  \E c \in Clients : /\ requests[c].step \in {"shared", "last", "erased"}
                      /\ requests[c].row.id = r.id

Drop(r) ==
  /\ ~ BeingDeleted(r)
  /\ rows' = rows \ {r}
  /\ abandoned' = abandoned \cup {r.key}
  /\ UNCHANGED <<objects, requests, ids, torn>>

-----------------------------------------------------------------------------
Next ==
  \/ \E c \in Clients :
       \/ \E k \in Keys : CheckUpload(c, k)
       \/ \E r \in rows : CheckRemove(c, r) \/ Read(c, "duplicate", r) \/ Read(c, "save", r)
       \/ Lock(c) \/ Put(c) \/ InsertRow(c)
       \/ DeleteRow(c) \/ Erase(c) \/ CommitRemove(c)
       \/ Duplicate(c) \/ Save(c) \/ Abort(c)
  \/ \E r \in rows : Drop(r)

Spec == Init /\ [][Next]_vars

-----------------------------------------------------------------------------
(***************************************************************************)
(* Types and safety.                                                       *)
(***************************************************************************)
Row == [id : Nat, key : Keys, checked : BOOLEAN]

Request ==
  {Idle}
    \cup [op : {"upload"}, step : {"checked", "locked", "stored"}, key : Keys]
    \cup [op : {"remove"}, step : {"checked", "locked", "shared", "last", "erased"},
          key : Keys, row : Row]
    \cup [op : {"duplicate", "save"}, step : {"read"}, row : Row]

\* Rows, keys and requests hold what the schema and the code put there.
TypeOK ==
  /\ rows \in SUBSET Row
  /\ objects \in SUBSET Keys
  /\ requests \in [Clients -> Request]
  /\ ids \in Nat
  /\ torn \in SUBSET Keys /\ abandoned \in SUBSET Keys

\* The object of r is there, or a removal that holds the lock has erased it and
\* may still be rolled back, or one was rolled back at that point.
Readable(r) ==
  \/ r.key \in objects \cup torn
  \/ \E c \in Clients : requests[c].step = "erased" /\ requests[c].key = r.key

\* Whatever uploads and removals of one content overlap, and wherever one fails,
\* a row whose own upload put the object has it: nobody erases an object on a
\* count that missed a row of an upload.
UploadedRowsReadable == \A r \in rows : r.checked => Readable(r)

\* An object that no row names and no transaction deals with is there for one of
\* two reasons only: an upload failed after its PUT, or a cascade deleted rows.
NothingLeaks ==
  \A k \in objects :
    \/ \E r \in rows : r.key = k
    \/ \E c \in Clients : Holds(c, k)
    \/ k \in abandoned

\* docs/development/README.md: removing a reference deletes the object only after
\* its final reference is removed.  Does not hold for copies: a duplicate that has
\* read the row inserts its own after the removal has counted the rows.
ReferencedObjectsExist == \A r \in rows : Readable(r)
=============================================================================

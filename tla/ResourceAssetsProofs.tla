------------------------- MODULE ResourceAssetsProofs -------------------------
(***************************************************************************)
(* What holds of rows and objects for any number of contents and requests. *)
(* The induction follows a key through the steps of the one transaction    *)
(* that holds its lock.                                                    *)
(***************************************************************************)
EXTENDS ResourceAssets, TLAPS

\* One transaction at a time deals with a key.
LockExclusive ==
  \A c, d \in Clients, k \in Keys : Holds(c, k) /\ Holds(d, k) => c = d

\* What the holder of the lock knows of the rows an upload has put there.
HolderKnows ==
  \A c \in Clients :
    /\ requests[c].step = "stored" => requests[c].key \in objects
    /\ requests[c].step \in {"last", "erased"} =>
         \A r \in rows : r.checked /\ r.key = requests[c].key
                           => r.id = requests[c].row.id

Protected == LockExclusive /\ HolderKnows /\ UploadedRowsReadable

LEMMA RequestShape ==
  ASSUME TypeOK, NEW c \in Clients
  PROVE  /\ requests[c].step = "idle" => requests[c] = Idle
         /\ requests[c].step \in Holding \cup {"checked"} => requests[c].key \in Keys
         /\ requests[c].step \in {"shared", "last", "erased"} =>
              requests[c].op = "remove" /\ requests[c].row \in Row
         /\ requests[c].step = "stored" => requests[c].op = "upload"
         /\ requests[c].step = "read" =>
              requests[c].op \in {"duplicate", "save"} /\ requests[c].row \in Row
  BY DEF TypeOK, Request, Idle, Holding

\* A step keeps the kind of request it advances.
LEMMA StepShape ==
  ASSUME TypeOK, NEW c \in Clients, NEW s, Step(c, s),
         \/ requests[c].op = "upload" /\ s \in {"locked", "stored"}
         \/ requests[c].op = "remove" /\ s \in {"locked", "shared", "last", "erased"},
         requests[c] # Idle
  PROVE  requests' \in [Clients -> Request]
<1>1. [requests[c] EXCEPT !.step = s] \in Request
  BY DEF TypeOK, Request
<1>2. requests' = [requests EXCEPT ![c] = [requests[c] EXCEPT !.step = s]]
  BY DEF Step, TypeOK
<1> QED
  BY <1>1, <1>2 DEF TypeOK

LEMMA FinishShape ==
  ASSUME TypeOK, NEW c \in Clients, Finish(c)
  PROVE  requests' \in [Clients -> Request]
  BY DEF TypeOK, Finish, Request

LEMMA TypedInsert ==
  ASSUME TypeOK, NewId, NEW r \in Row, rows' = rows \cup {r},
         UNCHANGED <<objects, torn, abandoned>>, requests' \in [Clients -> Request]
  PROVE  TypeOK'
  BY DEF TypeOK, NewId

LEMMA InitTyped == Init => TypeOK
  BY DEF Init, TypeOK, Request

LEMMA NextTyped == TypeOK /\ [Next]_vars => TypeOK'
<1> SUFFICES ASSUME TypeOK, [Next]_vars PROVE TypeOK'
  OBVIOUS
<1>1. ASSUME NEW c \in Clients, NEW k \in Keys, CheckUpload(c, k) PROVE TypeOK'
  BY <1>1 DEF CheckUpload, TypeOK, Request
<1>2. ASSUME NEW c \in Clients, NEW r \in rows, CheckRemove(c, r) PROVE TypeOK'
  <2>1. [op |-> "remove", step |-> "checked", key |-> r.key, row |-> r] \in Request
    BY DEF Request, TypeOK, Row
  <2> QED
    BY <1>2, <2>1 DEF CheckRemove, TypeOK
<1>3. ASSUME NEW c \in Clients, NEW r \in rows, NEW op \in {"duplicate", "save"}, Read(c, op, r)
      PROVE  TypeOK'
  <2>1. [op |-> op, step |-> "read", row |-> r] \in Request
    BY DEF Request, TypeOK
  <2> QED
    BY <1>3, <2>1 DEF Read, TypeOK
<1>4. ASSUME NEW c \in Clients, Lock(c) PROVE TypeOK'
  <2>1. requests[c] # Idle /\ requests[c].op \in {"upload", "remove"}
    BY <1>4 DEF Lock, TypeOK, Request, Idle
  <2> QED
    BY <1>4, <2>1, StepShape DEF Lock, TypeOK
<1>5. ASSUME NEW c \in Clients, Put(c) PROVE TypeOK'
  <2>1. requests[c] # Idle /\ requests[c].key \in Keys
    BY <1>5 DEF Put, TypeOK, Request, Idle
  <2>2. requests' \in [Clients -> Request]
    BY <1>5, <2>1, StepShape DEF Put
  <2> QED
    BY <1>5, <2>1, <2>2 DEF Put, TypeOK
<1>6. ASSUME NEW c \in Clients, InsertRow(c) PROVE TypeOK'
  <2>1. requests[c].key \in Keys
    BY <1>6, RequestShape DEF InsertRow, Holding
  <2>2. [id |-> ids, key |-> requests[c].key, checked |-> TRUE] \in Row
    BY <2>1 DEF TypeOK, Row
  <2> QED
    BY <1>6, <2>2, FinishShape, TypedInsert DEF InsertRow
<1>7. ASSUME NEW c \in Clients, DeleteRow(c) PROVE TypeOK'
  <2>1. requests[c] # Idle
    BY <1>7 DEF DeleteRow, Idle
  <2>2. requests' \in [Clients -> Request]
    BY <1>7, <2>1, StepShape DEF DeleteRow
  <2> QED
    BY <1>7, <2>2 DEF DeleteRow, TypeOK
<1>8. ASSUME NEW c \in Clients, Erase(c) PROVE TypeOK'
  <2>1. requests[c] # Idle /\ requests[c].op = "remove"
    BY <1>8, RequestShape DEF Erase, Idle
  <2>2. requests' \in [Clients -> Request]
    BY <1>8, <2>1, StepShape DEF Erase
  <2> QED
    BY <1>8, <2>2 DEF Erase, TypeOK
<1>9. ASSUME NEW c \in Clients, CommitRemove(c) PROVE TypeOK'
  BY <1>9 DEF CommitRemove, Finish, TypeOK, Request
<1>10. ASSUME NEW c \in Clients, Abort(c) PROVE TypeOK'
  <2>1. requests[c].step \in {"erased", "stored"} => requests[c].key \in Keys
    BY RequestShape DEF Holding
  <2> QED
    BY <1>10, <2>1 DEF Abort, Finish, TypeOK, Request
<1>11. ASSUME NEW c \in Clients, Duplicate(c) PROVE TypeOK'
  <2>1. requests[c].row \in Row
    BY <1>11, RequestShape DEF Duplicate
  <2>2. [id |-> ids, key |-> requests[c].row.key, checked |-> FALSE] \in Row
    BY <2>1 DEF TypeOK, Row
  <2> QED
    BY <1>11, <2>2, FinishShape, TypedInsert DEF Duplicate
<1>12. ASSUME NEW c \in Clients, Save(c) PROVE TypeOK'
  <2>1. [requests[c].row EXCEPT !.checked = FALSE] \in Row
    BY <1>12, RequestShape DEF Save, Row
  <2> QED
    BY <1>12, <2>1 DEF Save, Finish, TypeOK, Request
<1>13. ASSUME NEW r \in rows, Drop(r) PROVE TypeOK'
  BY <1>13 DEF Drop, TypeOK, Row
<1>14. CASE UNCHANGED vars
  BY <1>14 DEF vars, TypeOK
<1> QED
  BY <1>1, <1>2, <1>3, <1>4, <1>5, <1>6, <1>7, <1>8, <1>9, <1>10, <1>11, <1>12, <1>13, <1>14
  DEF Next

\* Rows, objects and requests always hold what schema and code put there.
THEOREM AssetsTyping == Spec => []TypeOK
  BY InitTyped, NextTyped, PTL DEF Spec

-----------------------------------------------------------------------------
(***************************************************************************)
(* The lock, and the rows of uploads.                                      *)
(***************************************************************************)
LEMMA InitProtected == Init => Protected
  BY DEF Init, Protected, LockExclusive, HolderKnows, UploadedRowsReadable, Holds, Holding, Idle

\* A step in which c alone changes its request and nobody starts to hold a key.
LEMMA StillExclusive ==
  ASSUME TypeOK, LockExclusive, NEW c \in Clients,
         \A d \in Clients : d # c => requests'[d] = requests[d],
         \A k \in Keys : Holds(c, k)' => Holds(c, k)
  PROVE  LockExclusive'
  BY DEF LockExclusive, Holds

LEMMA NextProtected == TypeOK /\ Protected /\ [Next]_vars => Protected'
<1> SUFFICES ASSUME TypeOK, Protected, [Next]_vars PROVE Protected'
  OBVIOUS
<1> USE DEF Protected
\* Requests that begin hold nothing, and nothing else changes.
<1>1. ASSUME NEW c \in Clients, requests[c] = Idle, NEW q,
             requests' = [requests EXCEPT ![c] = q], q.step \in {"checked", "read"},
             UNCHANGED <<rows, objects, ids, torn, abandoned>>
      PROVE  Protected'
  <2>1. LockExclusive'
    BY <1>1, StillExclusive DEF Holds, Holding, TypeOK
  <2>2. HolderKnows'
    BY <1>1 DEF HolderKnows, TypeOK
  <2>3. UploadedRowsReadable'
    BY <1>1 DEF UploadedRowsReadable, Readable, TypeOK, Idle
  <2> QED
    BY <2>1, <2>2, <2>3
<1>2. ASSUME NEW c \in Clients, NEW k \in Keys, CheckUpload(c, k) PROVE Protected'
  BY <1>1, <1>2 DEF CheckUpload
<1>3. ASSUME NEW c \in Clients, NEW r \in rows, CheckRemove(c, r) PROVE Protected'
  BY <1>1, <1>3 DEF CheckRemove
<1>4. ASSUME NEW c \in Clients, NEW r \in rows, NEW op \in {"duplicate", "save"}, Read(c, op, r)
      PROVE  Protected'
  BY <1>1, <1>4 DEF Read
<1>5. ASSUME NEW c \in Clients, Lock(c) PROVE Protected'
  <2>1. /\ requests' = [requests EXCEPT ![c] = [requests[c] EXCEPT !.step = "locked"]]
        /\ requests[c].key \in Keys
        /\ requests'[c].step = "locked" /\ requests'[c].key = requests[c].key
    BY <1>5, RequestShape DEF Lock, Step, TypeOK, Request, Idle
  <2>2. LockExclusive'
    BY <1>5, <2>1 DEF Lock, LockExclusive, Holds, TypeOK
  <2>3. HolderKnows'
    BY <1>5, <2>1 DEF Lock, HolderKnows, TypeOK
  <2>4. UploadedRowsReadable'
    BY <1>5, <2>1 DEF Lock, UploadedRowsReadable, Readable, TypeOK
  <2> QED
    BY <2>2, <2>3, <2>4
<1>6. ASSUME NEW c \in Clients, Put(c) PROVE Protected'
  <2>1. /\ requests' = [requests EXCEPT ![c] = [requests[c] EXCEPT !.step = "stored"]]
        /\ requests'[c].step = "stored" /\ requests'[c].key = requests[c].key
    BY <1>6 DEF Put, Step, TypeOK, Request, Idle
  <2>2. LockExclusive'
    BY <1>6, <2>1, StillExclusive DEF Put, Holds, Holding, TypeOK
  <2>3. HolderKnows'
    BY <1>6, <2>1 DEF Put, HolderKnows, TypeOK
  <2>4. UploadedRowsReadable'
    BY <1>6, <2>1 DEF Put, UploadedRowsReadable, Readable, TypeOK
  <2> QED
    BY <2>2, <2>3, <2>4
<1>7. ASSUME NEW c \in Clients, InsertRow(c) PROVE Protected'
  <2> DEFINE k == requests[c].key
  <2>1. /\ k \in Keys /\ Holds(c, k) /\ k \in objects
        /\ requests' = [requests EXCEPT ![c] = Idle]
        /\ rows' = rows \cup {[id |-> ids, key |-> k, checked |-> TRUE]}
        /\ UNCHANGED <<objects, torn>>
    BY <1>7, RequestShape DEF InsertRow, Finish, HolderKnows, Holds, Holding
  <2>2. LockExclusive'
    BY <2>1, StillExclusive DEF Holds, Holding, Idle, TypeOK
  <2>3. \A d \in Clients \ {c} :
          requests[d].step \in {"last", "erased"} => requests[d].key # k
    BY <2>1 DEF LockExclusive, Holds, Holding
  <2>4. HolderKnows'
    BY <2>1, <2>3 DEF HolderKnows, TypeOK, Idle
  <2>5. UploadedRowsReadable'
    BY <1>7, <2>1 DEF InsertRow, UploadedRowsReadable, Readable, TypeOK, Idle
  <2> QED
    BY <2>2, <2>4, <2>5
<1>8. ASSUME NEW c \in Clients, DeleteRow(c) PROVE Protected'
  <2>1. PICK s \in {"shared", "last"} :
          /\ requests' = [requests EXCEPT ![c] = [requests[c] EXCEPT !.step = s]]
          /\ s = "last" =>
               \A q \in rows : q.key = requests[c].key => q.id = requests[c].row.id
          /\ requests'[c].step = s /\ requests'[c].key = requests[c].key
          /\ requests'[c].row = requests[c].row
    <3>1. requests[c] \in [op : {"remove"}, step : {"checked", "locked", "shared", "last", "erased"},
                           key : Keys, row : Row]
      BY <1>8 DEF DeleteRow, TypeOK, Request, Idle
    <3>2. ASSUME NEW s \in {"shared", "last"}, Step(c, s)
          PROVE  /\ requests' = [requests EXCEPT ![c] = [requests[c] EXCEPT !.step = s]]
                 /\ requests'[c].step = s /\ requests'[c].key = requests[c].key
                 /\ requests'[c].row = requests[c].row
      BY <3>1, <3>2 DEF Step, TypeOK
    <3>3. CASE \E q \in rows : q.id # requests[c].row.id /\ q.key = requests[c].key
      BY <1>8, <3>2, <3>3 DEF DeleteRow
    <3>4. CASE ~ \E q \in rows : q.id # requests[c].row.id /\ q.key = requests[c].key
      BY <1>8, <3>2, <3>4 DEF DeleteRow
    <3> QED
      BY <3>3, <3>4
  <2>2. LockExclusive'
    BY <1>8, <2>1, StillExclusive DEF DeleteRow, Holds, Holding, TypeOK
  <2>3. HolderKnows'
    BY <1>8, <2>1 DEF DeleteRow, HolderKnows, TypeOK
  <2>4. UploadedRowsReadable'
    BY <1>8, <2>1 DEF DeleteRow, UploadedRowsReadable, Readable, TypeOK
  <2> QED
    BY <2>2, <2>3, <2>4
<1>9. ASSUME NEW c \in Clients, Erase(c) PROVE Protected'
  <2> DEFINE k == requests[c].key
  <2>1. /\ k \in Keys /\ Holds(c, k)
        /\ requests' = [requests EXCEPT ![c] = [requests[c] EXCEPT !.step = "erased"]]
        /\ requests'[c].step = "erased" /\ requests'[c].key = k
        /\ requests'[c].row = requests[c].row
        /\ UNCHANGED <<rows, torn>> /\ objects' = objects \ {k}
        /\ requests[c].step = "last"
    <3>1. requests[c].op = "remove" /\ requests[c] # Idle
      BY <1>9, RequestShape DEF Erase, Idle
    <3>2. requests[c] \in [op : {"remove"}, step : {"checked", "locked", "shared", "last", "erased"},
                           key : Keys, row : Row]
      BY <3>1 DEF TypeOK, Request
    <3> QED
      BY <1>9, <3>2 DEF Erase, Step, Holds, Holding, TypeOK
  <2>2. LockExclusive'
    BY <2>1, StillExclusive DEF Holds, Holding, TypeOK
  <2>3. \A d \in Clients \ {c} : requests[d].step = "stored" => requests[d].key # k
    BY <2>1 DEF LockExclusive, Holds, Holding
  <2>4. HolderKnows'
    BY <2>1, <2>3 DEF HolderKnows, TypeOK
  <2>5. UploadedRowsReadable'
    BY <2>1 DEF UploadedRowsReadable, Readable, TypeOK
  <2> QED
    BY <2>2, <2>4, <2>5
<1>10. ASSUME NEW c \in Clients, CommitRemove(c) PROVE Protected'
  <2>1. /\ requests' = [requests EXCEPT ![c] = Idle]
        /\ rows' = {r \in rows : r.id # requests[c].row.id}
        /\ UNCHANGED <<objects, torn>>
    BY <1>10 DEF CommitRemove, Finish
  <2>2. LockExclusive'
    BY <2>1, StillExclusive DEF Holds, Holding, Idle, TypeOK
  <2>3. HolderKnows'
    BY <2>1 DEF HolderKnows, TypeOK, Idle
  <2>4. UploadedRowsReadable'
    BY <2>1 DEF HolderKnows, UploadedRowsReadable, Readable, TypeOK
  <2> QED
    BY <2>2, <2>3, <2>4
<1>11. ASSUME NEW c \in Clients, Abort(c) PROVE Protected'
  <2>1. /\ requests' = [requests EXCEPT ![c] = Idle]
        /\ UNCHANGED <<rows, objects>>
        /\ torn \subseteq torn'
        /\ requests[c].step = "erased" => requests[c].key \in torn'
    BY <1>11 DEF Abort, Finish
  <2>2. LockExclusive'
    BY <2>1, StillExclusive DEF Holds, Holding, Idle, TypeOK
  <2>3. HolderKnows'
    BY <2>1 DEF HolderKnows, TypeOK, Idle
  <2>4. UploadedRowsReadable'
    BY <2>1 DEF UploadedRowsReadable, Readable, TypeOK
  <2> QED
    BY <2>2, <2>3, <2>4
\* Copies and rows brought back were not put by an upload of their own.
<1>12. ASSUME NEW c \in Clients, Duplicate(c) \/ Save(c) PROVE Protected'
  <2>1. /\ requests' = [requests EXCEPT ![c] = Idle]
        /\ requests[c].step = "read"
        /\ \A r \in rows' : r.checked => r \in rows
        /\ UNCHANGED <<objects, torn>>
    <3>1. CASE Duplicate(c)
      BY <3>1 DEF Duplicate, Finish
    <3>2. CASE Save(c)
      <4>1. [requests[c].row EXCEPT !.checked = FALSE].checked = FALSE
        BY <3>2, RequestShape DEF Save, Row
      <4> QED
        BY <3>2, <4>1 DEF Save, Finish
    <3> QED
      BY <1>12, <3>1, <3>2
  <2>2. LockExclusive'
    BY <2>1, StillExclusive DEF Holds, Holding, Idle, TypeOK
  <2>3. HolderKnows'
    BY <2>1 DEF HolderKnows, TypeOK, Idle
  <2>4. UploadedRowsReadable'
    BY <2>1 DEF UploadedRowsReadable, Readable, TypeOK
  <2> QED
    BY <2>2, <2>3, <2>4
<1>13. ASSUME NEW r \in rows, Drop(r) PROVE Protected'
  BY <1>13 DEF Drop, LockExclusive, Holds, HolderKnows, UploadedRowsReadable, Readable
<1>14. CASE UNCHANGED vars
  BY <1>14 DEF vars, LockExclusive, Holds, HolderKnows, UploadedRowsReadable, Readable
<1> QED
  BY <1>2, <1>3, <1>4, <1>5, <1>6, <1>7, <1>8, <1>9, <1>10, <1>11, <1>12, <1>13, <1>14 DEF Next

\* A row whose own upload put the object can be read, whatever uploads, removals,
\* copies and failures overlap, except where a removal failed after its erasure.
THEOREM UploadsStayReadable == Spec => []UploadedRowsReadable
<1>1. Protected => UploadedRowsReadable
  BY DEF Protected
<1> QED
  BY <1>1, InitProtected, NextProtected, AssetsTyping, PTL DEF Spec

-----------------------------------------------------------------------------
(***************************************************************************)
(* Ids name keys: two rows with one id, in the table or in the hands of a  *)
(* request, are the same upload.                                           *)
(***************************************************************************)
HasRow(c) ==
  \/ requests[c].step = "read"
  \/ /\ requests[c].step \in {"checked", "locked", "shared", "last", "erased"}
     /\ requests[c].op = "remove"

Named == rows \cup {requests[c].row : c \in {d \in Clients : HasRow(d)}}

IdsNameKeys ==
  /\ \A r \in Named : r.id < ids
  /\ \A r, q \in Named : r.id = q.id => r.key = q.key
  /\ \A c \in Clients :
       HasRow(c) /\ requests[c].step # "read" => requests[c].key = requests[c].row.key

LEMMA NamedType == ASSUME TypeOK PROVE Named \subseteq Row
  BY DEF TypeOK, Named, HasRow, Request, Idle

\* A step after which nothing is named that was not named before.
LEMMA NoNewNames ==
  ASSUME TypeOK, IdsNameKeys, UNCHANGED ids,
         \A x \in rows' : \E y \in Named : y.id = x.id /\ y.key = x.key,
         \A c \in Clients : HasRow(c)' =>
           /\ requests'[c].row \in rows \/ (HasRow(c) /\ requests'[c].row = requests[c].row)
           /\ requests'[c].step # "read" => requests'[c].key = requests'[c].row.key
  PROVE  IdsNameKeys'
<1>1. \A x \in Named' : \E y \in Named : y.id = x.id /\ y.key = x.key
  BY DEF Named
<1> QED
  BY <1>1 DEF IdsNameKeys

\* A step that inserts a row under a new id and ends a request.
LEMMA NewName ==
  ASSUME TypeOK, IdsNameKeys, NewId, NEW c \in Clients, Finish(c),
         NEW r \in Row, r.id = ids, rows' = rows \cup {r}
  PROVE  IdsNameKeys'
<1>1. \A d \in Clients : HasRow(d)' => d # c /\ HasRow(d) /\ requests'[d] = requests[d]
  BY DEF Finish, HasRow, Idle, TypeOK
<1>2. Named' \subseteq Named \cup {r}
  BY <1>1 DEF Named
<1>3. ids \in Nat /\ ids' = ids + 1 /\ \A x \in Named : x.id \in Nat
  BY NamedType DEF NewId, TypeOK, Row
<1>4. \A x \in Named' : x.id < ids'
  BY <1>2, <1>3 DEF IdsNameKeys
<1>5. \A x, y \in Named' : x.id = y.id => x.key = y.key
  BY <1>2, <1>3 DEF IdsNameKeys
<1> QED
  BY <1>1, <1>4, <1>5 DEF IdsNameKeys

LEMMA FinishRows ==
  ASSUME TypeOK, IdsNameKeys, UNCHANGED ids, NEW c \in Clients, Finish(c),
         \A x \in rows' : \E y \in Named : y.id = x.id /\ y.key = x.key
  PROVE  IdsNameKeys'
<1>1. \A d \in Clients : HasRow(d)' => d # c /\ HasRow(d) /\ requests'[d] = requests[d]
  BY DEF Finish, HasRow, Idle, TypeOK
<1> QED
  BY <1>1, NoNewNames DEF IdsNameKeys

\* What Step(c, s) leaves of a removal.
LEMMA StepKeeps ==
  ASSUME TypeOK, NEW c \in Clients, NEW s, Step(c, s), requests[c] # Idle,
         requests[c].op \in {"upload", "remove"}
  PROVE  /\ requests'[c].step = s /\ requests'[c].key = requests[c].key
         /\ requests'[c].op = requests[c].op
         /\ requests[c].op = "remove" => requests'[c].row = requests[c].row
         /\ requests[c].op = "upload" => requests[c].step \in {"checked", "locked", "stored"}
         /\ requests[c].op = "remove" => HasRow(c)
         /\ \A d \in Clients : d # c => requests'[d] = requests[d]
<1>1. CASE requests[c].op = "upload"
  <2>1. requests[c] \in [op : {"upload"}, step : {"checked", "locked", "stored"}, key : Keys]
    BY <1>1 DEF TypeOK, Request
  <2> QED
    BY <1>1, <2>1 DEF Step, TypeOK
<1>2. CASE requests[c].op = "remove"
  <2>1. requests[c] \in [op : {"remove"}, step : {"checked", "locked", "shared", "last", "erased"},
                         key : Keys, row : Row]
    BY <1>2 DEF TypeOK, Request
  <2> QED
    BY <1>2, <2>1 DEF Step, TypeOK, HasRow
<1> QED
  BY <1>1, <1>2

LEMMA StepRows ==
  ASSUME TypeOK, IdsNameKeys, UNCHANGED <<rows, ids>>, NEW c \in Clients,
         NEW s \in {"locked", "stored", "shared", "last", "erased"}, Step(c, s),
         requests[c] # Idle, requests[c].op \in {"upload", "remove"}
  PROVE  IdsNameKeys'
<1>1. \A d \in Clients : HasRow(d)' =>
        /\ HasRow(d) /\ requests'[d].row = requests[d].row
        /\ requests'[d].step # "read" => requests'[d].key = requests'[d].row.key
  <2>1. ASSUME NEW d \in Clients, d # c, HasRow(d)'
        PROVE  /\ HasRow(d) /\ requests'[d].row = requests[d].row
               /\ requests'[d].step # "read" => requests'[d].key = requests'[d].row.key
    <3>1. requests'[d] = requests[d]
      BY <2>1, StepKeeps
    <3> QED
      BY <2>1, <3>1 DEF HasRow, IdsNameKeys
  <2>2. ASSUME HasRow(c)'
        PROVE  /\ HasRow(c) /\ requests'[c].row = requests[c].row
               /\ requests'[c].key = requests'[c].row.key
    <3>1. requests'[c].step = s /\ requests'[c].op = requests[c].op /\ s # "read"
      BY StepKeeps
    <3>2. requests[c].op = "remove"
      BY <2>2, <3>1 DEF HasRow
    <3>3. /\ HasRow(c) /\ requests'[c].row = requests[c].row
          /\ requests'[c].key = requests[c].key
      BY <3>2, StepKeeps
    <3>4. requests[c].step # "read"
      BY <3>2, RequestShape
    <3> QED
      BY <3>3, <3>4 DEF IdsNameKeys
  <2> QED
    BY <2>1, <2>2
<1>2. \A x \in rows' : x \in Named
  BY DEF Named
<1> QED
  BY <1>1, <1>2, NoNewNames

LEMMA BeginRows ==
  ASSUME TypeOK, IdsNameKeys, UNCHANGED <<rows, ids>>, NEW c \in Clients, NEW q,
         requests' = [requests EXCEPT ![c] = q],
         HasRow(c)' => q.row \in rows /\ (q.step # "read" => q.key = q.row.key)
  PROVE  IdsNameKeys'
<1>1. \A d \in Clients : HasRow(d)' =>
        /\ requests'[d].row \in rows \/ (HasRow(d) /\ requests'[d].row = requests[d].row)
        /\ requests'[d].step # "read" => requests'[d].key = requests'[d].row.key
  BY DEF HasRow, IdsNameKeys, TypeOK
<1>2. \A x \in rows' : x \in Named
  BY DEF Named
<1> QED
  BY <1>1, <1>2, NoNewNames

LEMMA NextNamed == TypeOK /\ IdsNameKeys /\ [Next]_vars => IdsNameKeys'
<1> SUFFICES ASSUME TypeOK, IdsNameKeys, [Next]_vars PROVE IdsNameKeys'
  OBVIOUS
<1>1. ASSUME NEW c \in Clients, NEW k \in Keys, CheckUpload(c, k) PROVE IdsNameKeys'
  BY <1>1, BeginRows DEF CheckUpload, HasRow, TypeOK
<1>2. ASSUME NEW c \in Clients, NEW r \in rows, CheckRemove(c, r) PROVE IdsNameKeys'
  BY <1>2, BeginRows DEF CheckRemove
<1>3. ASSUME NEW c \in Clients, NEW r \in rows, NEW op \in {"duplicate", "save"}, Read(c, op, r)
      PROVE  IdsNameKeys'
  BY <1>3, BeginRows DEF Read
<1>4. ASSUME NEW c \in Clients, Lock(c) PROVE IdsNameKeys'
  <2>1. requests[c] # Idle /\ requests[c].op \in {"upload", "remove"}
    BY <1>4 DEF Lock, TypeOK, Request, Idle
  <2> QED
    BY <1>4, <2>1, StepRows DEF Lock
<1>5. ASSUME NEW c \in Clients, Put(c) PROVE IdsNameKeys'
  BY <1>5, StepRows DEF Put, Idle
<1>6. ASSUME NEW c \in Clients, InsertRow(c) PROVE IdsNameKeys'
  <2>1. [id |-> ids, key |-> requests[c].key, checked |-> TRUE] \in Row
    BY <1>6, RequestShape DEF InsertRow, Holding, TypeOK, Row
  <2> QED
    BY <1>6, <2>1, NewName DEF InsertRow
<1>7. ASSUME NEW c \in Clients, DeleteRow(c) PROVE IdsNameKeys'
  BY <1>7, StepRows DEF DeleteRow, Idle
<1>8. ASSUME NEW c \in Clients, Erase(c) PROVE IdsNameKeys'
  BY <1>8, StepRows, RequestShape DEF Erase, Idle
<1>9. ASSUME NEW c \in Clients, CommitRemove(c) PROVE IdsNameKeys'
  BY <1>9, FinishRows DEF CommitRemove, Named
<1>10. ASSUME NEW c \in Clients, Abort(c) PROVE IdsNameKeys'
  BY <1>10, FinishRows DEF Abort, Named
<1>11. ASSUME NEW c \in Clients, Duplicate(c) PROVE IdsNameKeys'
  <2>1. [id |-> ids, key |-> requests[c].row.key, checked |-> FALSE] \in Row
    BY <1>11, RequestShape DEF Duplicate, TypeOK, Row
  <2> QED
    BY <1>11, <2>1, NewName DEF Duplicate
<1>12. ASSUME NEW c \in Clients, Save(c) PROVE IdsNameKeys'
  <2> DEFINE r == requests[c].row
             q == [r EXCEPT !.checked = FALSE]
  <2>1. r \in Named /\ q.id = r.id /\ q.key = r.key
    BY <1>12, RequestShape DEF Save, Named, HasRow, Row
  <2>2. rows' \subseteq rows \cup {q} /\ Finish(c) /\ UNCHANGED ids
    BY <1>12 DEF Save
  <2> QED
    BY <2>1, <2>2, FinishRows DEF Named
<1>13. ASSUME NEW r \in rows, Drop(r) PROVE IdsNameKeys'
  <2>1. \A x \in rows' : x \in Named
    BY <1>13 DEF Drop, Named
  <2>2. \A c \in Clients : HasRow(c)' => HasRow(c)
    BY <1>13 DEF Drop, HasRow
  <2> QED
    BY <1>13, <2>1, <2>2, NoNewNames DEF Drop, IdsNameKeys
<1>14. CASE UNCHANGED vars
  BY <1>14 DEF vars, IdsNameKeys, Named, HasRow
<1> QED
  BY <1>1, <1>2, <1>3, <1>4, <1>5, <1>6, <1>7, <1>8, <1>9, <1>10, <1>11, <1>12, <1>13, <1>14
  DEF Next

-----------------------------------------------------------------------------
(***************************************************************************)
(* Nothing leaks.                                                          *)
(***************************************************************************)
Kept(k) == (\E r \in rows : r.key = k) \/ k \in abandoned

Storing(k) == \E c \in Clients : requests[c].step = "stored" /\ requests[c].key = k

Accounted ==
  /\ \A k \in objects : Kept(k) \/ Storing(k)
  /\ \A c \in Clients :
       /\ requests[c].step = "erased" => requests[c].key \notin objects
       /\ requests[c].step = "shared" =>
            \/ \E r \in rows : r.id # requests[c].row.id /\ r.key = requests[c].key
            \/ requests[c].key \in abandoned

\* A step that keeps rows, objects and abandoned keys, and ends no upload and
\* no removal past its count.
LEMMA QuietAccounted ==
  ASSUME TypeOK, Accounted, UNCHANGED <<rows, objects, abandoned>>, NEW c \in Clients,
         \A d \in Clients : d # c => requests'[d] = requests[d],
         requests[c].step # "stored",
         requests'[c].step \notin {"erased", "shared"}
  PROVE  Accounted'
<1>1. \A k \in objects : Kept(k)' \/ Storing(k)'
  BY DEF Accounted, Kept, Storing
<1> QED
  BY <1>1 DEF Accounted

LEMMA NextAccounted ==
  TypeOK /\ LockExclusive /\ IdsNameKeys /\ Accounted /\ [Next]_vars => Accounted'
<1> SUFFICES ASSUME TypeOK, LockExclusive, IdsNameKeys, Accounted, [Next]_vars
             PROVE  Accounted'
  OBVIOUS
<1>1. ASSUME NEW c \in Clients, NEW k \in Keys, CheckUpload(c, k) PROVE Accounted'
  BY <1>1, QuietAccounted DEF CheckUpload, TypeOK, Idle
<1>2. ASSUME NEW c \in Clients, NEW r \in rows, CheckRemove(c, r) PROVE Accounted'
  BY <1>2, QuietAccounted DEF CheckRemove, TypeOK, Idle
<1>3. ASSUME NEW c \in Clients, NEW r \in rows, NEW op \in {"duplicate", "save"}, Read(c, op, r)
      PROVE  Accounted'
  BY <1>3, QuietAccounted DEF Read, TypeOK, Idle
<1>4. ASSUME NEW c \in Clients, Lock(c) PROVE Accounted'
  <2>1. requests[c] # Idle /\ requests[c].op \in {"upload", "remove"}
    BY <1>4 DEF Lock, TypeOK, Request, Idle
  <2>2. /\ requests'[c].step = "locked"
        /\ \A d \in Clients : d # c => requests'[d] = requests[d]
    BY <1>4, <2>1, StepKeeps DEF Lock
  <2> QED
    BY <1>4, <2>2, QuietAccounted DEF Lock
<1>5. ASSUME NEW c \in Clients, Put(c) PROVE Accounted'
  <2> DEFINE k == requests[c].key
  <2>1. /\ requests'[c].step = "stored" /\ requests'[c].key = k
        /\ \A d \in Clients : d # c => requests'[d] = requests[d]
    BY <1>5, StepKeeps DEF Put, Idle
  <2>2. objects' = objects \cup {k} /\ UNCHANGED <<rows, abandoned>> /\ requests[c].step = "locked"
    BY <1>5 DEF Put
  <2>3. \A d \in Clients : requests[d].step = "erased" => requests[d].key # k
    BY <2>2, RequestShape DEF LockExclusive, Holds, Holding
  <2>4. \A l \in objects' : Kept(l)' \/ Storing(l)'
    BY <2>1, <2>2 DEF Accounted, Kept, Storing
  <2> QED
    BY <2>1, <2>2, <2>3, <2>4 DEF Accounted
<1>6. ASSUME NEW c \in Clients, InsertRow(c) PROVE Accounted'
  <2> DEFINE k == requests[c].key
             r == [id |-> ids, key |-> k, checked |-> TRUE]
  <2>1. /\ requests' = [requests EXCEPT ![c] = Idle]
        /\ rows' = rows \cup {r} /\ r.key = k
        /\ UNCHANGED <<objects, abandoned>>
    BY <1>6 DEF InsertRow, Finish
  <2> HIDE DEF r
  <2>2. \A l \in objects : Kept(l)' \/ Storing(l)'
    BY <2>1 DEF Accounted, Kept, Storing, TypeOK
  <2> QED
    BY <2>1, <2>2 DEF Accounted, TypeOK, Idle
<1>7. ASSUME NEW c \in Clients, DeleteRow(c) PROVE Accounted'
  <2>1. requests[c] # Idle /\ requests[c].op = "remove" /\ requests[c].step = "locked"
    BY <1>7 DEF DeleteRow, Idle
  <2>2. UNCHANGED <<rows, objects, abandoned>>
    BY <1>7 DEF DeleteRow
  <2>3. CASE \E q \in rows : q.id # requests[c].row.id /\ q.key = requests[c].key
    <3>1. /\ requests'[c].step = "shared" /\ requests'[c].key = requests[c].key
          /\ requests'[c].row = requests[c].row
          /\ \A d \in Clients : d # c => requests'[d] = requests[d]
      BY <1>7, <2>1, <2>3, StepKeeps DEF DeleteRow
    <3>2. \A l \in objects : Kept(l)' \/ Storing(l)'
      BY <2>1, <2>2, <3>1 DEF Accounted, Kept, Storing
    <3> QED
      BY <2>2, <2>3, <3>1, <3>2 DEF Accounted
  <2>4. CASE ~ \E q \in rows : q.id # requests[c].row.id /\ q.key = requests[c].key
    <3>1. /\ requests'[c].step = "last"
          /\ \A d \in Clients : d # c => requests'[d] = requests[d]
      BY <1>7, <2>1, <2>4, StepKeeps DEF DeleteRow
    <3> QED
      BY <2>1, <2>2, <3>1, QuietAccounted
  <2> QED
    BY <2>3, <2>4
<1>8. ASSUME NEW c \in Clients, Erase(c) PROVE Accounted'
  <2> DEFINE k == requests[c].key
  <2>1. requests[c] # Idle /\ requests[c].op = "remove" /\ requests[c].step = "last" /\ k \in Keys
    BY <1>8, RequestShape DEF Erase, Idle, Holding
  <2>2. /\ requests'[c].step = "erased" /\ requests'[c].key = k
        /\ \A d \in Clients : d # c => requests'[d] = requests[d]
    BY <1>8, <2>1, StepKeeps DEF Erase
  <2>3. UNCHANGED rows /\ objects' = objects \ {k} /\ abandoned' = abandoned \ {k}
    BY <1>8 DEF Erase
  <2>4. \A d \in Clients \ {c} : requests[d].step = "shared" => requests[d].key # k
    BY <2>1 DEF LockExclusive, Holds, Holding
  <2>5. \A l \in objects' : Kept(l)' \/ Storing(l)'
    BY <2>1, <2>2, <2>3 DEF Accounted, Kept, Storing
  <2> QED
    BY <2>2, <2>3, <2>4, <2>5 DEF Accounted
<1>9. ASSUME NEW c \in Clients, CommitRemove(c) PROVE Accounted'
  <2> DEFINE k == requests[c].key
             i == requests[c].row.id
  <2>1. /\ requests' = [requests EXCEPT ![c] = Idle]
        /\ rows' = {r \in rows : r.id # i}
        /\ UNCHANGED <<objects, abandoned>>
        /\ requests[c].step \in {"shared", "erased"} /\ k \in Keys /\ Holds(c, k)
    BY <1>9, RequestShape DEF CommitRemove, Finish, Holds, Holding
  <2>2. \A r \in rows : r.id = i => r.key = k
    BY <2>1, RequestShape DEF IdsNameKeys, Named, HasRow
  <2>3. \A l \in objects : Kept(l)' \/ Storing(l)'
    <3>1. CASE requests[c].step = "erased"
      BY <2>1, <2>2, <3>1 DEF Accounted, Kept, Storing, TypeOK
    <3>2. CASE requests[c].step = "shared"
      BY <2>1, <2>2, <3>2 DEF Accounted, Kept, Storing, TypeOK
    <3> QED
      BY <2>1, <3>1, <3>2
  <2>4. \A d \in Clients \ {c} : requests[d].step = "shared" => requests[d].key # k
    BY <2>1 DEF LockExclusive, Holds, Holding
  <2> QED
    BY <2>1, <2>2, <2>3, <2>4 DEF Accounted, TypeOK, Idle
<1>10. ASSUME NEW c \in Clients, Abort(c) PROVE Accounted'
  <2>1. /\ requests' = [requests EXCEPT ![c] = Idle]
        /\ UNCHANGED <<rows, objects>> /\ abandoned \subseteq abandoned'
        /\ requests[c].step = "stored" => requests[c].key \in abandoned'
    BY <1>10 DEF Abort, Finish
  <2>2. \A l \in objects : Kept(l)' \/ Storing(l)'
    BY <2>1 DEF Accounted, Kept, Storing, TypeOK
  <2> QED
    BY <2>1, <2>2 DEF Accounted, TypeOK, Idle
<1>11. ASSUME NEW c \in Clients, Duplicate(c) \/ Save(c) PROVE Accounted'
  <2>1. /\ requests' = [requests EXCEPT ![c] = Idle]
        /\ UNCHANGED <<objects, abandoned>> /\ rows \subseteq rows'
        /\ requests[c].step = "read"
    BY <1>11 DEF Duplicate, Save, Finish
  <2>2. \A l \in objects : Kept(l)' \/ Storing(l)'
    BY <2>1 DEF Accounted, Kept, Storing, TypeOK
  <2> QED
    BY <2>1, <2>2 DEF Accounted, TypeOK, Idle
<1>12. ASSUME NEW r \in rows, Drop(r) PROVE Accounted'
  BY <1>12 DEF Drop, Accounted, Kept, Storing
<1>13. CASE UNCHANGED vars
  BY <1>13 DEF vars, Accounted, Kept, Storing
<1> QED
  BY <1>1, <1>2, <1>3, <1>4, <1>5, <1>6, <1>7, <1>8, <1>9, <1>10, <1>11, <1>12, <1>13 DEF Next

LEMMA InitAccounted == Init => IdsNameKeys /\ Accounted
  BY DEF Init, IdsNameKeys, Named, HasRow, Accounted, Kept, Storing, Idle

\* Every object has a row, or a transaction at work on it, or was left behind by
\* a failed upload or a cascade: no interleaving of locked uploads and removals
\* with copies, late saves and cascades leaves one in any other way.
THEOREM ObjectsAreAccountedFor == Spec => []NothingLeaks
<1>1. TypeOK /\ Accounted => NothingLeaks
  BY DEF Accounted, NothingLeaks, Kept, Storing, Holds, Holding
<1>2. Protected => LockExclusive
  BY DEF Protected
<1> QED
  BY <1>1, <1>2, InitProtected, NextProtected, InitAccounted, NextNamed, NextAccounted,
     AssetsTyping, PTL DEF Spec
=============================================================================

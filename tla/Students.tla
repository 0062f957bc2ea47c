------------------------------ MODULE Students ------------------------------
(***************************************************************************)
(* The students of students.service.ts, statement by statement.  update    *)
(* and deactivate read a row, change the copy and save it; save reads the  *)
(* row once more and writes the columns in which the copy differs.         *)
(*                                                                         *)
(* A row's name and zone stand for its four editable columns.              *)
(***************************************************************************)
EXTENDS Naturals

CONSTANTS
  Clients,   \* callers; each waits for its answer before it asks again
  Users, NoUser,
  Ids,       \* student ids
  Names, Zones

ASSUME StudentsAssumption ==
  /\ NoUser \notin Users /\ Ids # {}
  /\ "UTC" \in Zones /\ "kept" \notin Names \cup Zones

VARIABLES
  rows,      \* id -> row, or NoRow
  requests   \* per client, with what its caller knew: see Requests

studentVars == <<rows, requests>>

Columns == {"active", "name", "zone"}
Row == [owner : Users, active : BOOLEAN, name : Names, zone : Zones]
NoRow == [owner |-> NoUser, active |-> FALSE, name |-> "none", zone |-> "none"]

\* The body of a request; "kept" is a field it does not name.
Change == [name : Names \cup {"kept"}, zone : Zones \cup {"kept"}]
Nothing == [name |-> "kept", zone |-> "kept"]

Stages == {"none", "sent", "read", "compared", "answered"}

\* meant, overtaken and outdated are history: the columns the caller changed, was
\* the row written since it was read, and the columns in which the row read was
\* not the one the caller's form was filled with.
Requests ==
  [stage : Stages, as : Users \cup {NoUser}, op : {"create", "update", "deactivate"},
   id : Ids, change : Change, copy : Row \cup {NoRow}, writes : SUBSET Columns, ok : BOOLEAN,
   base : Row \cup {NoRow}, meant : SUBSET Columns, overtaken : BOOLEAN,
   outdated : SUBSET Columns]

SomeId == CHOOSE id \in Ids : TRUE

NoRequest ==
  [stage |-> "none", as |-> NoUser, op |-> "update", id |-> SomeId, change |-> Nothing,
   copy |-> NoRow, writes |-> {}, ok |-> FALSE, base |-> NoRow, meant |-> {},
   overtaken |-> FALSE, outdated |-> {}]

Differing(row, other) == {k \in Columns : row[k] # other[k]}

Answer(c, ok) ==
  requests' = [requests EXCEPT ![c].stage = "answered", ![c].ok = ok]

\* findOneOwnedBy
Found(user, id) == rows[id] # NoRow /\ rows[id].owner = user /\ rows[id].active

\* Mutant: an absent zone is assigned like any other value.
ZoneAsSent(change) == change.zone

\* UpdateStudentDto is PartialType of a class that initialises timeZone, so a body
\* without a zone arrives with UTC.
ZoneOf(change) == IF change.zone = "kept" THEN "UTC" ELSE change.zone

\* Mutant: deactivate takes the update's path, defaults included.
MergedAlways(row, op, change) ==
  [row EXCEPT !.active = op # "deactivate",
              !.name = IF change.name = "kept" THEN @ ELSE change.name,
              !.zone = ZoneOf(change)]

Merged(row, op, change) ==
  IF op = "deactivate" THEN [row EXCEPT !.active = FALSE]
  ELSE [row EXCEPT !.name = IF change.name = "kept" THEN @ ELSE change.name,
                   !.zone = ZoneOf(change)]

Read(c) ==
  /\ requests[c].stage = "sent" /\ requests[c].op # "create"
  /\ LET r == requests[c] IN
       IF Found(r.as, r.id)
       THEN requests' = [requests EXCEPT ![c] =
              [@ EXCEPT !.stage = "read", !.copy = Merged(rows[r.id], r.op, r.change),
                        !.outdated = IF r.base = NoRow THEN {} ELSE Differing(r.base, rows[r.id])]]
       ELSE Answer(c, FALSE)
  /\ UNCHANGED rows

\* save: the row is loaded again and compared; without a difference nothing is written.
Compare(c) ==
  /\ requests[c].stage = "read"
  /\ LET writes == Differing(requests[c].copy, rows[requests[c].id]) IN
       IF writes = {} THEN Answer(c, TRUE)
       ELSE requests' = [requests EXCEPT ![c].stage = "compared", ![c].writes = writes]
  /\ UNCHANGED rows

Overtaking(c) ==
  [d \in Clients |->
     [requests[d] EXCEPT !.overtaken =
        @ \/ (d # c /\ requests[d].stage = "read" /\ requests[d].id = requests[c].id)]]

Written(row, copy, writes) ==
  [row EXCEPT !.active = IF "active" \in writes THEN copy.active ELSE @,
              !.name   = IF "name" \in writes THEN copy.name ELSE @,
              !.zone   = IF "zone" \in writes THEN copy.zone ELSE @]

Write(c) ==
  /\ requests[c].stage = "compared"
  /\ LET r == requests[c] IN
       rows' = [rows EXCEPT ![r.id] = Written(@, r.copy, r.writes)]
  /\ requests' = [Overtaking(c) EXCEPT ![c].stage = "answered", ![c].ok = TRUE]

Create(c) ==
  /\ requests[c].stage = "sent" /\ requests[c].op = "create"
  /\ IF requests[c].as = NoUser
     THEN Answer(c, FALSE) /\ UNCHANGED rows
     ELSE \E id \in Ids :
            /\ rows[id] = NoRow
            /\ rows' = [rows EXCEPT ![id] =
                          [owner |-> requests[c].as, active |-> TRUE,
                           name |-> requests[c].change.name, zone |-> ZoneOf(requests[c].change)]]
            /\ Answer(c, TRUE)

Serve(c) == Read(c) \/ Compare(c) \/ Write(c) \/ Create(c)

StudentsOK ==
  /\ rows \in [Ids -> Row \cup {NoRow}]
  /\ requests \in [Clients -> Requests]

\* A save changes a column its caller did not mean to change only for one of three
\* causes: the row was written between its two statements, the form was filled
\* before somebody changed the column, or an update named no zone and got UTC.  So a
\* deactivated student comes back only by an update that was already under way.
OnlyMeant ==
  [][\A c \in Clients : LET r == requests[c] IN
       Write(c) =>
         \A k \in Differing(rows[r.id], rows'[r.id]) \ r.meant :
           r.overtaken \/ k \in r.outdated \/ (k = "zone" /\ r.op = "update" /\ r.change.zone = "kept")]_studentVars
=============================================================================

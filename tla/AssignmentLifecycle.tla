------------------------- MODULE AssignmentLifecycle -------------------------
(***************************************************************************)
(* The life of weekly assignments: student-assignments.service.ts and the  *)
(* part of assignment-resources.service.ts that adds resources to an item  *)
(* or removes them.                                                        *)
(*                                                                         *)
(* Every command reads the assignment, checks its status and writes later  *)
(* without a lock on the row, so other commands may run in between.        *)
(*                                                                         *)
(* An assignment is a row with nested rows: notices, sections (each with   *)
(* its items) and resources of items.  A nested row is known by the batch  *)
(* of its INSERT and its position; a batch puts at most one resource of    *)
(* each kind into a section.                                               *)
(***************************************************************************)
EXTENDS Naturals

CONSTANTS
  Assignments,   \* ids of the assignments of one student
  Clients,       \* HTTP requests that may be in progress at one time
  Details,       \* values of the own columns (title, description, dates)
  Positions,     \* positions of sections
  NoticePlaces,  \* positions of notices
  MaxBatches     \* bound on the INSERTs of nested rows

ASSUME LifecycleAssumption ==
  /\ Positions \subseteq Nat /\ NoticePlaces \subseteq Nat
  /\ MaxBatches \in Nat

VARIABLES
  rows,      \* student_assignments, each with its nested rows
  active,    \* student.is_active
  requests,  \* per client: the command that passed its check, or Idle
  batches    \* INSERTs of nested rows so far

vars == <<rows, active, requests, batches>>

Unborn == [status |-> "unborn"]
Deleted == [status |-> "deleted"]
Idle == [op |-> "idle"]

Live == {"draft", "published", "archived", "cancelled"}

Exists(a) == rows[a].status \in Live

\* Mutant: what is moved out of the way by 1000 positions stays there.
NestedMovedAway(batch, places) == {[batch |-> batch, position |-> p + 1000] : p \in places}

Nested(batch, places) == {[batch |-> batch, position |-> p] : p \in places}

\* A new resource row of section s, which only a retained upload ever leaves.
Fresh(batch, s, kind) ==
  [batch |-> batch, place |-> s.position, kind |-> kind, section |-> s]

Links(batch, sections) == {Fresh(batch, s, "link") : s \in sections}

Finish(c) == requests' = [requests EXCEPT ![c] = Idle]

NewBatch == batches < MaxBatches /\ batches' = batches + 1

Init ==
  /\ rows = [a \in Assignments |-> Unborn]
  /\ active = TRUE
  /\ requests = [c \in Clients |-> Idle]
  /\ batches = 0

-----------------------------------------------------------------------------
(***************************************************************************)
(* create inserts a draft with at least one section and with links;        *)
(* duplicate inserts a draft with the nested content of an assignment of   *)
(* any status, its uploads included.                                       *)
(***************************************************************************)
Draft(d, ns, ss, rs) ==
  [ status |-> "draft", published |-> FALSE, archived |-> FALSE,
    details |-> d, notices |-> ns, sections |-> ss, resources |-> rs ]

Create(a) ==
  /\ active /\ rows[a] = Unborn
  /\ NewBatch
  /\ \E d \in Details, ns \in SUBSET NoticePlaces, ss \in (SUBSET Positions) \ {{}} :
       \E links \in SUBSET Links(batches, Nested(batches, ss)) :
         rows' = [rows EXCEPT ![a] =
                    Draft(d, Nested(batches, ns), Nested(batches, ss), links)]
  /\ UNCHANGED <<active, requests>>

\* Mutant: the entities of the source are saved again under the copy.
CopiedAsTheyAre(r, batch, d) == Draft(d, r.notices, r.sections, r.resources)

Copied(r, batch, d) ==
  Draft(d, {[n EXCEPT !.batch = batch] : n \in r.notices},
           {[s EXCEPT !.batch = batch] : s \in r.sections},
           {Fresh(batch, [x.section EXCEPT !.batch = batch], x.kind) : x \in r.resources})

Duplicate(a, b) ==
  /\ active /\ Exists(a) /\ rows[b] = Unborn
  /\ NewBatch
  /\ \E d \in Details : rows' = [rows EXCEPT ![b] = Copied(rows[a], batches, d)]
  /\ UNCHANGED <<active, requests>>

-----------------------------------------------------------------------------
(***************************************************************************)
(* The checks at the head of the commands.  A request keeps the row it     *)
(* read (and would save) in seen.                                          *)
(***************************************************************************)
\* Mutant: cancel forgets to look at the status.
AdmitsCancelOfAny(op) ==
  CASE op \in {"publish", "remove", "update"} -> {"draft"}
    [] op = "archive" -> {"published"}
    [] op = "cancel" -> Live

Admits(op) ==
  CASE op \in {"publish", "remove", "update"} -> {"draft"}
    [] op = "archive" -> {"published"}
    [] op = "cancel" -> {"draft", "published"}

Begin(c, request) ==
  /\ active /\ requests[c] = Idle
  /\ requests' = [requests EXCEPT ![c] = request]
  /\ UNCHANGED <<rows, active, batches>>

Check(c, a, op) ==
  /\ rows[a].status \in Admits(op)
  /\ Begin(c, [op |-> op, id |-> a, seen |-> rows[a]])

\* requireWritableItem, before an upload or a link is stored
CheckItem(c, a, s) ==
  /\ rows[a].status = "draft" /\ s \in rows[a].sections
  /\ Begin(c, [op |-> "attach", id |-> a, seen |-> rows[a], section |-> s])

\* requireWritableResource
CheckResource(c, a, r) ==
  /\ rows[a].status = "draft" /\ r \in rows[a].resources
  /\ Begin(c, [op |-> "detach", id |-> a, seen |-> rows[a], resource |-> r])

-----------------------------------------------------------------------------
(***************************************************************************)
(* publish, archive and cancel change the entity they read and save it.    *)
(* TypeORM's save compares the entity with the row as it is now: it writes *)
(* back every column that differs, inserts again what is no longer there,  *)
(* and detaches nested rows the entity does not know, which their NOT NULL *)
(* foreign key refuses, so that the save fails.                            *)
(***************************************************************************)
Stamped(op, r) ==
  CASE op = "publish" -> [r EXCEPT !.status = "published", !.published = TRUE]
    [] op = "archive" -> [r EXCEPT !.status = "archived", !.archived = TRUE]
    [] op = "cancel"  -> [r EXCEPT !.status = "cancelled"]

KnowsNested(seen, row) ==
  /\ row.notices \subseteq seen.notices
  /\ row.sections \subseteq seen.sections
  /\ row.resources \subseteq seen.resources

\* Mutant: the new status and its timestamp alone are written.
SavePatch(c) ==
  /\ requests[c].op \in {"publish", "archive", "cancel"}
  /\ Exists(requests[c].id)
  /\ rows' = [rows EXCEPT ![requests[c].id] = Stamped(requests[c].op, @)]
  /\ Finish(c)
  /\ UNCHANGED <<active, batches>>

Save(c) ==
  /\ requests[c].op \in {"publish", "archive", "cancel"}
  /\ LET a == requests[c].id
         seen == requests[c].seen
     IN  /\ Exists(a) => KnowsNested(seen, rows[a])
         /\ rows' = [rows EXCEPT ![a] = Stamped(requests[c].op, seen)]
  /\ Finish(c)
  /\ UNCHANGED <<active, batches>>

\* DELETE ... WHERE id; the nested rows go with it (ON DELETE CASCADE).
Remove(c) ==
  /\ requests[c].op = "remove"
  /\ rows' = [rows EXCEPT ![requests[c].id] = Deleted]
  /\ Finish(c)
  /\ UNCHANGED <<active, batches>>

-----------------------------------------------------------------------------
(***************************************************************************)
(* update: one transaction, whose writes are not conditional on the status *)
(* it read.  Own columns are updated if given; given notices replace those *)
(* of the assignment; given sections replace the sections that were read.  *)
(* Retained uploads move to a new section; links and other uploads go with *)
(* their old one.                                                          *)
(***************************************************************************)
Replace(row, old, new, links, home) ==
  [row EXCEPT
     !.sections = (@ \ old) \cup new,
     !.resources = {r \in @ : r.section \notin old /\ r \notin DOMAIN home}
                     \cup {[r EXCEPT !.section = home[r]] : r \in DOMAIN home}
                     \cup links]

Uploads(row) == {x \in row.resources : x.kind = "upload"}

\* UNIQUE (assignment_id, position); the sections read are moved out of the way.
NoCollision(row, old, new) ==
  \A s \in row.sections \ old, t \in new : s.position # t.position

Update(c) ==
  /\ requests[c].op = "update"
  /\ NewBatch
  /\ LET a == requests[c].id
         old == requests[c].seen.sections
     IN  /\ Exists(a)
         /\ \E d \in Details,
               ns \in {rows[a].notices} \cup {Nested(batches, p) : p \in SUBSET NoticePlaces} :
              LET row == [rows[a] EXCEPT !.details = d, !.notices = ns]
              IN  \/ rows' = [rows EXCEPT ![a] = row]
                  \/ \E ss \in (SUBSET Positions) \ {{}}, kept \in SUBSET Uploads(row) :
                       LET new == Nested(batches, ss)
                       IN  /\ NoCollision(row, old, new)
                           /\ \E home \in [kept -> new], links \in SUBSET Links(batches, new) :
                                rows' = [rows EXCEPT ![a] = Replace(row, old, new, links, home)]
  /\ Finish(c)
  /\ UNCHANGED active

-----------------------------------------------------------------------------
(***************************************************************************)
(* Resources of an item: the foreign key only asks that the item exists.   *)
(***************************************************************************)
Attach(c) ==
  /\ requests[c].op = "attach"
  /\ NewBatch
  /\ LET a == requests[c].id
         s == requests[c].section
     IN  /\ Exists(a) /\ s \in rows[a].sections
         /\ \E kind \in {"link", "upload"} :
              rows' = [rows EXCEPT ![a].resources = @ \cup {Fresh(batches, s, kind)}]
  /\ Finish(c)
  /\ UNCHANGED active

SameResource(r, q) == r = [q EXCEPT !.section = r.section]

Detach(c) ==
  /\ requests[c].op = "detach"
  /\ LET a == requests[c].id
     IN  rows' = IF Exists(a)
                 THEN [rows EXCEPT ![a].resources =
                         {r \in @ : ~ SameResource(r, requests[c].resource)}]
                 ELSE rows
  /\ Finish(c)
  /\ UNCHANGED <<active, batches>>

-----------------------------------------------------------------------------
\* A request that is answered with an error: invalid input, a constraint of
\* the database, a failed statement.  Its transaction leaves nothing behind.
Fail(c) ==
  /\ requests[c] # Idle
  /\ Finish(c)
  /\ UNCHANGED <<rows, active, batches>>

Deactivate ==
  /\ active
  /\ active' = FALSE
  /\ UNCHANGED <<rows, requests, batches>>

Command == {"publish", "archive", "cancel", "remove", "update"}

Next ==
  \/ \E a \in Assignments :
       \/ Create(a)
       \/ \E b \in Assignments : Duplicate(a, b)
       \/ \E c \in Clients :
            \/ \E op \in Command : Check(c, a, op)
            \/ Exists(a) /\ \E s \in rows[a].sections : CheckItem(c, a, s)
            \/ Exists(a) /\ \E r \in rows[a].resources : CheckResource(c, a, r)
  \/ \E c \in Clients :
       \/ Save(c) \/ Remove(c) \/ Update(c) \/ Attach(c) \/ Detach(c) \/ Fail(c)
  \/ Deactivate

Spec == Init /\ [][Next]_vars

-----------------------------------------------------------------------------
(***************************************************************************)
(* Types and safety.                                                       *)
(***************************************************************************)
NoticeRow == [batch : Nat, position : NoticePlaces]
SectionRow == [batch : Nat, position : Positions]
ResourceRow == [batch : Nat, place : Positions, kind : {"link", "upload"},
                section : SectionRow]

Row ==
  [ status : Live, published : BOOLEAN, archived : BOOLEAN, details : Details,
    notices : SUBSET NoticeRow, sections : SUBSET SectionRow,
    resources : SUBSET ResourceRow ]

Request ==
  {Idle}
    \cup [op : Command, id : Assignments, seen : Row]
    \cup [op : {"attach"}, id : Assignments, seen : Row, section : SectionRow]
    \cup [op : {"detach"}, id : Assignments, seen : Row, resource : ResourceRow]

\* Rows, requests and counters hold what the schema and the entities allow.
TypeOK ==
  /\ rows \in [Assignments -> Row \cup {Unborn, Deleted}]
  /\ active \in BOOLEAN
  /\ requests \in [Clients -> Request]
  /\ batches \in Nat

\* The status of a row and its two timestamps tell one story.
StampsMatch(r) ==
  /\ r.status = "draft" => ~ r.published /\ ~ r.archived
  /\ r.status = "published" => r.published /\ ~ r.archived
  /\ r.status = "archived" => r.published /\ r.archived
  /\ r.status = "cancelled" => ~ r.archived

\* Sections have distinct positions, there is at least one, and resources
\* belong to one of them.
WellFormed(r) ==
  /\ r.sections # {}
  /\ \A s, t \in r.sections : s.position = t.position => s = t
  /\ \A x \in r.resources : x.section \in r.sections

\* However commands of several clients overlap, and although a save may bring
\* back columns and nested rows that others changed or deleted, no assignment
\* has timestamps of another status, duplicate or no sections, or a resource
\* of a section that is gone.
RowsConsistent ==
  \A a \in Assignments : Exists(a) => StampsMatch(rows[a]) /\ WellFormed(rows[a])

\* Two assignments never share a nested row: what is edited, attached or deleted
\* in one, a copy above all, leaves the other alone, whatever a late save revives.
NothingShared ==
  \A a, b \in Assignments :
    a # b /\ Exists(a) /\ Exists(b) =>
      /\ rows[a].notices \cap rows[b].notices = {}
      /\ rows[a].sections \cap rows[b].sections = {}
      /\ \A x \in rows[a].resources, y \in rows[b].resources : ~ SameResource(x, y)

SameNested(r, q) ==
  /\ r.notices = q.notices /\ r.sections = q.sections /\ r.resources = q.resources

SameContent(r, q) == r.details = q.details /\ SameNested(r, q)

\* What the error messages and docs/api-contracts.md promise of one step.
Legal(old, new) ==
  \/ new = old
  \/ old = Unborn /\ new.status = "draft"
  \/ old.status = "draft" /\ new.status \in {"draft", "deleted"}
  \/ /\ new.status \in Live \ {"draft"}
     /\ old.status \in {"draft", "published"}
     /\ SameContent(old, new)
     /\ new.status = "published" => old.status = "draft"
     /\ new.status = "archived" => old.status = "published"

\* An illegal change takes a race: whoever makes it had read a row that was
\* changed before it wrote.  Commands that do not overlap never leave a final
\* status, edit or delete what is published, or revive what was deleted.
IllegalNeedsRace ==
  [][\A a \in Assignments :
       Legal(rows[a], rows'[a])
         \/ \E c \in Clients : /\ requests[c] # Idle /\ requests'[c] = Idle
                               /\ requests[c].id = a
                               /\ requests[c].seen # rows[a]]_vars

\* docs/api-contracts.md: published nested content is immutable.  Does not
\* hold: an update, upload or removal whose check saw the draft writes after
\* the assignment was published.
PublishedContentIsImmutable ==
  [][\A a \in Assignments :
       rows[a].status = "published" /\ rows'[a].status \in Live
         => SameNested(rows[a], rows'[a])]_vars
=============================================================================

---------------------- MODULE AssignmentLifecycleProofs ----------------------
(***************************************************************************)
(* What holds of assignments for any number of assignments and clients.    *)
(* The induction needs that the row a request would write back is as       *)
(* consistent as the rows of the table, and of a status its command admits.*)
(***************************************************************************)
EXTENDS AssignmentLifecycle, TLAPS

SeenConsistent ==
  \A c \in Clients : requests[c] # Idle =>
    /\ StampsMatch(requests[c].seen) /\ WellFormed(requests[c].seen)
    /\ requests[c].op \in Command => requests[c].seen.status \in Admits(requests[c].op)
    /\ requests[c].op \in {"attach", "detach"} => requests[c].seen.status = "draft"

LEMMA Live_ == \A a : Exists(a) => rows[a] # Unborn /\ rows[a] # Deleted
  BY DEF Exists, Live, Unborn, Deleted

LEMMA RowsAreRows == ASSUME TypeOK, NEW a \in Assignments, Exists(a) PROVE rows[a] \in Row
  BY DEF TypeOK, Exists, Live, Unborn, Deleted

LEMMA NestedType ==
  /\ \A places \in SUBSET Positions, b \in Nat : Nested(b, places) \in SUBSET SectionRow
  /\ \A places \in SUBSET NoticePlaces, b \in Nat : Nested(b, places) \in SUBSET NoticeRow
  BY DEF Nested, SectionRow, NoticeRow

LEMMA FreshType ==
  \A b \in Nat, s \in SectionRow, k \in {"link", "upload"} : Fresh(b, s, k) \in ResourceRow
  BY DEF Fresh, ResourceRow, SectionRow

LEMMA LinksType ==
  ASSUME NEW b \in Nat, NEW ss \in SUBSET SectionRow, NEW links \in SUBSET Links(b, ss)
  PROVE  links \in SUBSET ResourceRow
  BY FreshType DEF Links

LEMMA DraftType ==
  ASSUME NEW d \in Details, NEW ns \in SUBSET NoticeRow, NEW ss \in SUBSET SectionRow,
         NEW rs \in SUBSET ResourceRow
  PROVE  Draft(d, ns, ss, rs) \in Row
  BY DEF Draft, Row, Live

LEMMA CopiedType ==
  ASSUME NEW r \in Row, NEW b \in Nat, NEW d \in Details
  PROVE  Copied(r, b, d) \in Row
<1>1. {[n EXCEPT !.batch = b] : n \in r.notices} \in SUBSET NoticeRow
  BY DEF Row, NoticeRow
<1>2. {[t EXCEPT !.batch = b] : t \in r.sections} \in SUBSET SectionRow
  BY DEF Row, SectionRow
<1>3. {Fresh(b, [x.section EXCEPT !.batch = b], x.kind) : x \in r.resources} \in SUBSET ResourceRow
  <2>1. \A x \in r.resources : /\ [x.section EXCEPT !.batch = b] \in SectionRow
                                /\ x.kind \in {"link", "upload"}
    BY DEF Row, ResourceRow, SectionRow
  <2> QED
    BY <2>1, FreshType
<1> QED
  BY <1>1, <1>2, <1>3, DraftType DEF Copied

LEMMA ReplaceType ==
  ASSUME NEW r \in Row, NEW old, NEW new \in SUBSET SectionRow,
         NEW links \in SUBSET ResourceRow,
         NEW kept \in SUBSET r.resources, NEW home \in [kept -> new]
  PROVE  Replace(r, old, new, links, home) \in Row
<1>1. \A x \in kept : [x EXCEPT !.section = home[x]] \in ResourceRow
  BY DEF Row, ResourceRow
<1>2. (r.sections \ old) \cup new \in SUBSET SectionRow
  BY DEF Row
<1>3. {x \in r.resources : x.section \notin old /\ x \notin DOMAIN home}
        \cup {[x EXCEPT !.section = home[x]] : x \in DOMAIN home}
        \cup links \in SUBSET ResourceRow
  BY <1>1 DEF Row
<1> QED
  BY <1>2, <1>3 DEF Replace, Row

LEMMA ReplaceStatus ==
  \A r \in Row : \A old, new, links, home :
    Replace(r, old, new, links, home).status = r.status
  BY DEF Replace, Row

LEMMA StampedType ==
  ASSUME NEW r \in Row, NEW op \in {"publish", "archive", "cancel"}
  PROVE  Stamped(op, r) \in Row
  BY DEF Stamped, Row, Live

-----------------------------------------------------------------------------
LEMMA InitType == Init => TypeOK
  BY DEF Init, TypeOK, Request, Unborn, Idle

\* The request that finishes leaves only idle or untouched requests behind.
LEMMA FinishType ==
  ASSUME TypeOK, NEW c \in Clients, Finish(c)
  PROVE  requests' \in [Clients -> Request]
  BY DEF TypeOK, Finish, Request

LEMMA UpdateWrites ==
  ASSUME TypeOK, NEW c \in Clients, Update(c)
  PROVE  \E r \in Row : /\ r.status = rows[requests[c].id].status
                        /\ rows' = [rows EXCEPT ![requests[c].id] = r]
<1> DEFINE a == requests[c].id
           old == requests[c].seen.sections
<1>1. a \in Assignments /\ Exists(a) /\ batches \in Nat /\ batches' \in Nat
  BY DEF Update, NewBatch, TypeOK, Request, Idle
<1>2. rows[a] \in Row
  BY <1>1, RowsAreRows
<1>3. PICK d \in Details,
           ns \in {rows[a].notices} \cup {Nested(batches, p) : p \in SUBSET NoticePlaces} :
        LET row == [rows[a] EXCEPT !.details = d, !.notices = ns]
        IN  \/ rows' = [rows EXCEPT ![a] = row]
            \/ \E ss \in (SUBSET Positions) \ {{}}, kept \in SUBSET Uploads(row) :
                 LET new == Nested(batches, ss)
                 IN  /\ NoCollision(row, old, new)
                     /\ \E home \in [kept -> new], links \in SUBSET Links(batches, new) :
                          rows' = [rows EXCEPT ![a] = Replace(row, old, new, links, home)]
  BY DEF Update
<1> DEFINE row == [rows[a] EXCEPT !.details = d, !.notices = ns]
<1>4. ns \in SUBSET NoticeRow
  BY <1>1, <1>2, NestedType DEF Row
<1>5. row \in Row /\ row.status = rows[a].status
  BY <1>2, <1>4 DEF Row
<1>6. \E r \in Row : r.status = rows[a].status /\ rows' = [rows EXCEPT ![a] = r]
  <2>1. CASE rows' = [rows EXCEPT ![a] = row]
    BY <2>1, <1>5
  <2>2. ASSUME NEW ss \in SUBSET Positions, NEW kept \in SUBSET Uploads(row),
               NEW home \in [kept -> Nested(batches, ss)],
               NEW links \in SUBSET Links(batches, Nested(batches, ss)),
               rows' = [rows EXCEPT ![a] = Replace(row, old, Nested(batches, ss), links, home)]
        PROVE  \E r \in Row : r.status = rows[a].status /\ rows' = [rows EXCEPT ![a] = r]
    <3>1. Nested(batches, ss) \in SUBSET SectionRow
      BY <1>1, NestedType
    <3>4. links \in SUBSET ResourceRow
      BY <1>1, <3>1, LinksType
    <3>5. kept \in SUBSET row.resources
      BY DEF Uploads
    <3> HIDE DEF row, old, a
    <3>2. Replace(row, old, Nested(batches, ss), links, home) \in Row
      BY <2>2, <1>5, <3>1, <3>4, <3>5, ReplaceType
    <3>3. Replace(row, old, Nested(batches, ss), links, home).status = rows[a].status
      BY <1>5, ReplaceStatus
    <3> QED
      BY <2>2, <3>2, <3>3
  <2> QED
    BY <1>3, <2>1, <2>2
<1> QED
  BY <1>6

LEMMA NextType == TypeOK /\ [Next]_vars => TypeOK'
<1> SUFFICES ASSUME TypeOK, [Next]_vars PROVE TypeOK'
  OBVIOUS
<1>1. ASSUME NEW a \in Assignments, Create(a) PROVE TypeOK'
  <2>1. batches' \in Nat /\ batches \in Nat
    BY <1>1 DEF Create, NewBatch, TypeOK
  <2>2. PICK d \in Details, ns \in SUBSET NoticePlaces, ss \in (SUBSET Positions) \ {{}} :
          \E links \in SUBSET Links(batches, Nested(batches, ss)) :
            rows' = [rows EXCEPT ![a] =
                       Draft(d, Nested(batches, ns), Nested(batches, ss), links)]
    BY <1>1 DEF Create
  <2>4. PICK links \in SUBSET Links(batches, Nested(batches, ss)) :
          rows' = [rows EXCEPT ![a] =
                     Draft(d, Nested(batches, ns), Nested(batches, ss), links)]
    BY <2>2
  <2>3. Draft(d, Nested(batches, ns), Nested(batches, ss), links) \in Row
    BY <2>1, NestedType, LinksType, DraftType
  <2> QED
    BY <1>1, <2>1, <2>4, <2>3 DEF Create, TypeOK
<1>13. ASSUME NEW a \in Assignments, NEW b \in Assignments, Duplicate(a, b) PROVE TypeOK'
  <2>1. batches' \in Nat /\ batches \in Nat /\ rows[a] \in Row
    BY <1>13, RowsAreRows DEF Duplicate, NewBatch, TypeOK
  <2>2. PICK d \in Details : rows' = [rows EXCEPT ![b] = Copied(rows[a], batches, d)]
    BY <1>13 DEF Duplicate
  <2>3. Copied(rows[a], batches, d) \in Row
    BY <2>1, CopiedType
  <2> QED
    BY <1>13, <2>1, <2>2, <2>3 DEF Duplicate, TypeOK
<1>2. ASSUME NEW c \in Clients, NEW a \in Assignments, NEW op \in Command, Check(c, a, op)
      PROVE  TypeOK'
  <2>1. Exists(a)
    BY <1>2 DEF Check, Admits, Exists, Live, Command
  <2>2. [op |-> op, id |-> a, seen |-> rows[a]] \in Request
    BY <2>1, RowsAreRows DEF Request
  <2> QED
    BY <1>2, <2>2 DEF Check, Begin, TypeOK
<1>3. ASSUME NEW c \in Clients, NEW a \in Assignments, Exists(a),
             NEW s \in rows[a].sections, CheckItem(c, a, s)
      PROVE  TypeOK'
  <2>1. [op |-> "attach", id |-> a, seen |-> rows[a], section |-> s] \in Request
    BY <1>3, RowsAreRows DEF Request, Row
  <2> QED
    BY <1>3, <2>1 DEF CheckItem, Begin, TypeOK
<1>4. ASSUME NEW c \in Clients, NEW a \in Assignments, Exists(a),
             NEW r \in rows[a].resources, CheckResource(c, a, r)
      PROVE  TypeOK'
  <2>1. [op |-> "detach", id |-> a, seen |-> rows[a], resource |-> r] \in Request
    BY <1>4, RowsAreRows DEF Request, Row
  <2> QED
    BY <1>4, <2>1 DEF CheckResource, Begin, TypeOK
<1>5. ASSUME NEW c \in Clients, Save(c) PROVE TypeOK'
  <2>1. requests[c].id \in Assignments /\ requests[c].seen \in Row
    BY <1>5 DEF Save, TypeOK, Request, Idle
  <2>2. Stamped(requests[c].op, requests[c].seen) \in Row
    BY <1>5, <2>1, StampedType DEF Save
  <2> QED
    BY <1>5, <2>1, <2>2, FinishType DEF Save, TypeOK
<1>6. ASSUME NEW c \in Clients, Remove(c) PROVE TypeOK'
  BY <1>6, FinishType DEF Remove, TypeOK
<1>7. ASSUME NEW c \in Clients, Update(c) PROVE TypeOK'
  <2>1. requests[c].id \in Assignments /\ batches' \in Nat /\ Finish(c)
    BY <1>7 DEF Update, NewBatch, TypeOK, Request, Idle
  <2> QED
    BY <1>7, <2>1, UpdateWrites, FinishType DEF Update, TypeOK
<1>8. ASSUME NEW c \in Clients, Attach(c) PROVE TypeOK'
  <2> DEFINE a == requests[c].id
             s == requests[c].section
  <2>1. a \in Assignments /\ s \in SectionRow /\ Exists(a) /\ batches \in Nat /\ batches' \in Nat
    BY <1>8 DEF Attach, NewBatch, TypeOK, Request, Idle, Command
  <2>2. rows[a] \in Row
    BY <2>1, RowsAreRows
  <2>3. PICK kind \in {"link", "upload"} :
          rows' = [rows EXCEPT ![a].resources = @ \cup {Fresh(batches, s, kind)}]
    BY <1>8 DEF Attach
  <2> DEFINE r == [rows[a] EXCEPT !.resources = @ \cup {Fresh(batches, s, kind)}]
  <2>4. r \in Row
    <3>1. Fresh(batches, s, kind) \in ResourceRow
      BY <2>1, FreshType
    <3> QED
      BY <2>2, <3>1 DEF Row
  <2>5. rows' = [rows EXCEPT ![a] = r]
    BY <2>3, <2>1 DEF TypeOK
  <2> QED
    BY <1>8, <2>1, <2>4, <2>5, FinishType DEF Attach, TypeOK
<1>9. ASSUME NEW c \in Clients, Detach(c) PROVE TypeOK'
  <2> DEFINE a == requests[c].id
             left(r) == {x \in r.resources : ~ SameResource(x, requests[c].resource)}
  <2>1. a \in Assignments
    BY <1>9 DEF Detach, TypeOK, Request, Idle, Command
  <2>2. CASE Exists(a)
    <3>1. [rows[a] EXCEPT !.resources = left(rows[a])] \in Row
      BY <2>1, <2>2, RowsAreRows DEF Row
    <3>2. rows' = [rows EXCEPT ![a] = [rows[a] EXCEPT !.resources = left(rows[a])]]
      BY <1>9, <2>1, <2>2 DEF Detach, TypeOK
    <3> QED
      BY <1>9, <2>1, <3>1, <3>2, FinishType DEF Detach, TypeOK
  <2>3. CASE ~ Exists(a)
    BY <1>9, <2>3, FinishType DEF Detach, TypeOK
  <2> QED
    BY <2>2, <2>3
<1>10. ASSUME NEW c \in Clients, Fail(c) PROVE TypeOK'
  BY <1>10, FinishType DEF Fail, TypeOK
<1>11. CASE Deactivate
  BY <1>11 DEF Deactivate, TypeOK
<1>12. CASE UNCHANGED vars
  BY <1>12 DEF vars, TypeOK
<1> QED
  BY <1>1, <1>2, <1>3, <1>4, <1>5, <1>6, <1>7, <1>8, <1>9, <1>10, <1>11, <1>12, <1>13
  DEF Next

\* Rows, requests and counters always hold what schema and entities allow.
THEOREM LifecycleTyping == Spec => []TypeOK
  BY InitType, NextType, PTL DEF Spec

-----------------------------------------------------------------------------
(***************************************************************************)
(* Consistency of the rows, and of the copies requests hold.               *)
(***************************************************************************)
Sound(r) == StampsMatch(r) /\ WellFormed(r)

Consistent == RowsConsistent /\ SeenConsistent

LEMMA NestedDistinct ==
  \A batch, places : \A s, t \in Nested(batch, places) : s.position = t.position => s = t
  BY DEF Nested

LEMMA NestedNonEmpty ==
  ASSUME NEW batch, NEW places, places # {} PROVE Nested(batch, places) # {}
<1>1. PICK p \in places : TRUE
  OBVIOUS
<1>2. [batch |-> batch, position |-> p] \in Nested(batch, places)
  BY DEF Nested
<1> QED
  BY <1>2

LEMMA StampedSound ==
  ASSUME NEW r \in Row, NEW op \in {"publish", "archive", "cancel"},
         Sound(r), r.status \in Admits(op)
  PROVE  Sound(Stamped(op, r))
<1>1. /\ Stamped(op, r).sections = r.sections
      /\ Stamped(op, r).resources = r.resources
  BY DEF Stamped, Row
<1>2. WellFormed(Stamped(op, r))
  BY <1>1 DEF Sound, WellFormed
<1>3. StampsMatch(Stamped(op, r))
  BY DEF Sound, StampsMatch, Stamped, Admits, Row
<1> QED
  BY <1>2, <1>3 DEF Sound

LEMMA DraftSound ==
  ASSUME NEW d, NEW ns, NEW ss, NEW rs, ss # {},
         \A s, t \in ss : s.position = t.position => s = t,
         \A x \in rs : x.section \in ss
  PROVE  Sound(Draft(d, ns, ss, rs))
  BY DEF Draft, Sound, StampsMatch, WellFormed

LEMMA CopiedSound ==
  ASSUME NEW r \in Row, Sound(r), NEW b, NEW d
  PROVE  Sound(Copied(r, b, d))
<1> DEFINE ss == {[s EXCEPT !.batch = b] : s \in r.sections}
           rs == {Fresh(b, [x.section EXCEPT !.batch = b], x.kind) : x \in r.resources}
<1>1. ss # {}
  BY DEF Sound, WellFormed
<1>2. \A s, t \in ss : s.position = t.position => s = t
  BY DEF Row, SectionRow
<1>3. \A x \in rs : x.section \in ss
  BY DEF Sound, WellFormed, Fresh
<1> HIDE DEF ss, rs
<1>4. \A ns : Sound(Draft(d, ns, ss, rs))
  BY <1>1, <1>2, <1>3, DraftSound
<1> QED
  BY <1>4 DEF Copied, ss, rs

LEMMA ReplaceSound ==
  ASSUME NEW r \in Row, Sound(r), NEW old, NEW batch \in Nat,
         NEW places \in SUBSET Positions, places # {},
         NEW kept \in SUBSET r.resources,
         NEW home \in [kept -> Nested(batch, places)],
         NEW links \in SUBSET Links(batch, Nested(batch, places)),
         NoCollision(r, old, Nested(batch, places))
  PROVE  Sound(Replace(r, old, Nested(batch, places), links, home))
<1> DEFINE new == Nested(batch, places)
           q == Replace(r, old, new, links, home)
<1>1. /\ q.sections = (r.sections \ old) \cup new
      /\ q.resources = {x \in r.resources : x.section \notin old /\ x \notin DOMAIN home}
                         \cup {[x EXCEPT !.section = home[x]] : x \in DOMAIN home}
                         \cup links
      /\ q.status = r.status /\ q.published = r.published /\ q.archived = r.archived
  BY DEF Replace, Row
<1>2. new # {} /\ q.sections # {}
  BY <1>1, NestedNonEmpty
<1>3. \A s, t \in q.sections : s.position = t.position => s = t
  BY <1>1, NestedDistinct DEF NoCollision, Sound, WellFormed
<1>4. \A x \in q.resources : x.section \in q.sections
  <2>1. \A x \in r.resources : x.section \in r.sections
    BY DEF Sound, WellFormed
  <2>2. \A x \in kept : [x EXCEPT !.section = home[x]].section \in new
    BY DEF Row, ResourceRow
  <2>3. \A x \in links : x.section \in new
    BY DEF Links, Fresh
  <2> QED
    BY <1>1, <2>1, <2>2, <2>3
<1>5. StampsMatch(q)
  BY <1>1 DEF Sound, StampsMatch
<1> QED
  BY <1>2, <1>3, <1>4, <1>5 DEF Sound, WellFormed

\* A step that writes at most one sound row and starts no request.
LEMMA WriteSound ==
  ASSUME TypeOK, Consistent, NEW c \in Clients, Finish(c),
         NEW a \in Assignments, NEW r, rows' = [rows EXCEPT ![a] = r],
         r.status \in Live => Sound(r)
  PROVE  Consistent'
<1>1. SeenConsistent'
  BY DEF Consistent, SeenConsistent, Finish, TypeOK
<1>2. RowsConsistent'
  BY DEF Consistent, RowsConsistent, Exists, TypeOK, Sound
<1> QED
  BY <1>1, <1>2 DEF Consistent

\* A step that inserts a sound row.
LEMMA InsertSound ==
  ASSUME TypeOK, Consistent, UNCHANGED requests, NEW a \in Assignments,
         NEW r, Sound(r), rows' = [rows EXCEPT ![a] = r]
  PROVE  Consistent'
<1>1. SeenConsistent'
  BY DEF Consistent, SeenConsistent
<1>2. RowsConsistent'
  BY DEF Consistent, RowsConsistent, Exists, TypeOK, Sound
<1> QED
  BY <1>1, <1>2 DEF Consistent

\* A step that starts a request with a row of the table.
LEMMA BeginSound ==
  ASSUME TypeOK, Consistent, NEW c \in Clients, NEW a \in Assignments,
         NEW request, Begin(c, request), request.seen = rows[a], Exists(a),
         request.op \in Command => rows[a].status \in Admits(request.op),
         request.op \in {"attach", "detach"} => rows[a].status = "draft"
  PROVE  Consistent'
<1>1. RowsConsistent'
  BY DEF Consistent, RowsConsistent, Begin, Exists
<1>2. SeenConsistent'
  BY DEF Consistent, RowsConsistent, SeenConsistent, Begin, TypeOK
<1> QED
  BY <1>1, <1>2 DEF Consistent

LEMMA NextConsistent == TypeOK /\ Consistent /\ [Next]_vars => Consistent'
<1> SUFFICES ASSUME TypeOK, Consistent, [Next]_vars PROVE Consistent'
  OBVIOUS
<1>1. ASSUME NEW a \in Assignments, Create(a) PROVE Consistent'
  <2>1. PICK d \in Details, ns \in SUBSET NoticePlaces, ss \in (SUBSET Positions) \ {{}} :
          \E links \in SUBSET Links(batches, Nested(batches, ss)) :
            rows' = [rows EXCEPT ![a] =
                       Draft(d, Nested(batches, ns), Nested(batches, ss), links)]
    BY <1>1 DEF Create
  <2>4. PICK links \in SUBSET Links(batches, Nested(batches, ss)) :
          rows' = [rows EXCEPT ![a] =
                     Draft(d, Nested(batches, ns), Nested(batches, ss), links)]
    BY <2>1
  <2>2. \A x \in links : x.section \in Nested(batches, ss)
    BY DEF Links, Fresh
  <2>3. Sound(Draft(d, Nested(batches, ns), Nested(batches, ss), links))
    BY <2>2, NestedNonEmpty, NestedDistinct, DraftSound
  <2> QED
    BY <1>1, <2>4, <2>3, InsertSound DEF Create
<1>13. ASSUME NEW a \in Assignments, NEW b \in Assignments, Duplicate(a, b) PROVE Consistent'
  <2>1. rows[a] \in Row /\ Sound(rows[a])
    BY <1>13, RowsAreRows DEF Duplicate, Consistent, RowsConsistent, Sound
  <2> QED
    BY <1>13, <2>1, CopiedSound, InsertSound DEF Duplicate
<1>2. ASSUME NEW c \in Clients, NEW a \in Assignments, NEW op \in Command, Check(c, a, op)
      PROVE  Consistent'
  <2>1. Exists(a) /\ op \notin {"attach", "detach"}
    BY <1>2 DEF Check, Admits, Exists, Live, Command
  <2> QED
    BY <1>2, <2>1, BeginSound DEF Check
<1>3. ASSUME NEW c \in Clients, NEW a \in Assignments, Exists(a),
             NEW s \in rows[a].sections, CheckItem(c, a, s)
      PROVE  Consistent'
  BY <1>3, BeginSound DEF CheckItem, Command
<1>4. ASSUME NEW c \in Clients, NEW a \in Assignments, Exists(a),
             NEW r \in rows[a].resources, CheckResource(c, a, r)
      PROVE  Consistent'
  BY <1>4, BeginSound DEF CheckResource, Command
<1>5. ASSUME NEW c \in Clients, Save(c) PROVE Consistent'
  <2>1. requests[c].id \in Assignments /\ requests[c].seen \in Row
    BY <1>5 DEF Save, TypeOK, Request, Idle
  <2>2. Sound(requests[c].seen) /\ requests[c].seen.status \in Admits(requests[c].op)
    BY <1>5 DEF Save, Consistent, SeenConsistent, Idle, Command, Sound
  <2> QED
    BY <1>5, <2>1, <2>2, StampedSound, WriteSound DEF Save
<1>6. ASSUME NEW c \in Clients, Remove(c) PROVE Consistent'
  <2>1. requests[c].id \in Assignments
    BY <1>6 DEF Remove, TypeOK, Request, Idle
  <2> QED
    BY <1>6, <2>1, WriteSound DEF Remove, Deleted, Live
<1>7. ASSUME NEW c \in Clients, Update(c) PROVE Consistent'
  <2> DEFINE a == requests[c].id
             old == requests[c].seen.sections
  <2>1. a \in Assignments /\ Exists(a) /\ batches \in Nat
    BY <1>7 DEF Update, TypeOK, Request, Idle
  <2>2. rows[a] \in Row /\ Sound(rows[a])
    BY <2>1, RowsAreRows DEF Consistent, RowsConsistent, Sound
  <2>3. PICK d \in Details,
             ns \in {rows[a].notices} \cup {Nested(batches, p) : p \in SUBSET NoticePlaces} :
          LET row == [rows[a] EXCEPT !.details = d, !.notices = ns]
          IN  \/ rows' = [rows EXCEPT ![a] = row]
              \/ \E ss \in (SUBSET Positions) \ {{}}, kept \in SUBSET Uploads(row) :
                   LET new == Nested(batches, ss)
                   IN  /\ NoCollision(row, old, new)
                       /\ \E home \in [kept -> new], links \in SUBSET Links(batches, new) :
                            rows' = [rows EXCEPT ![a] = Replace(row, old, new, links, home)]
    BY <1>7 DEF Update
  <2> DEFINE row == [rows[a] EXCEPT !.details = d, !.notices = ns]
  <2>4. ns \in SUBSET NoticeRow
    BY <2>1, <2>2, NestedType DEF Row
  <2>5. row \in Row /\ Sound(row)
    BY <2>2, <2>4 DEF Row, Sound, StampsMatch, WellFormed
  <2>6. \E r : rows' = [rows EXCEPT ![a] = r] /\ Sound(r)
    <3>1. CASE rows' = [rows EXCEPT ![a] = row]
      BY <3>1, <2>5
    <3>2. ASSUME NEW ss \in (SUBSET Positions) \ {{}}, NEW kept \in SUBSET Uploads(row),
                 NoCollision(row, old, Nested(batches, ss)),
                 NEW home \in [kept -> Nested(batches, ss)],
                 NEW links \in SUBSET Links(batches, Nested(batches, ss)),
                 rows' = [rows EXCEPT ![a] = Replace(row, old, Nested(batches, ss), links, home)]
          PROVE  \E r : rows' = [rows EXCEPT ![a] = r] /\ Sound(r)
      <4>3. kept \in SUBSET row.resources
        BY DEF Uploads
      <4> HIDE DEF row, old, a
      <4>1. ss \in SUBSET Positions /\ ss # {}
        BY <3>2
      <4>2. Sound(Replace(row, old, Nested(batches, ss), links, home))
        BY <3>2, <4>1, <4>3, <2>1, <2>5, ReplaceSound
      <4> QED
        BY <3>2, <4>2
    <3> QED
      BY <2>3, <3>1, <3>2
  <2>7. Finish(c)
    BY <1>7 DEF Update
  <2> HIDE DEF a
  <2> QED
    BY <2>1, <2>6, <2>7, WriteSound
<1>8. ASSUME NEW c \in Clients, Attach(c) PROVE Consistent'
  <2> DEFINE a == requests[c].id
  <2>1. PICK kind \in {"link", "upload"} :
          rows' = [rows EXCEPT ![a].resources =
                     @ \cup {Fresh(batches, requests[c].section, kind)}]
    BY <1>8 DEF Attach
  <2> DEFINE x == Fresh(batches, requests[c].section, kind)
             r == [rows[a] EXCEPT !.resources = @ \cup {x}]
  <2>2. a \in Assignments /\ Exists(a) /\ x.section \in rows[a].sections
    BY <1>8 DEF Attach, Fresh, TypeOK, Request, Idle, Command
  <2>3. rows[a] \in Row /\ Sound(rows[a])
    BY <2>2, RowsAreRows DEF Consistent, RowsConsistent, Sound
  <2> HIDE DEF x
  <2>4. Sound(r)
    BY <2>2, <2>3 DEF Row, Sound, StampsMatch, WellFormed
  <2>5. rows' = [rows EXCEPT ![a] = r] /\ Finish(c)
    BY <1>8, <2>1, <2>2 DEF Attach, TypeOK, x
  <2> QED
    BY <2>2, <2>4, <2>5, WriteSound
<1>9. ASSUME NEW c \in Clients, Detach(c) PROVE Consistent'
  <2> DEFINE a == requests[c].id
             r == [rows[a] EXCEPT !.resources =
                     {x \in @ : ~ SameResource(x, requests[c].resource)}]
  <2>1. a \in Assignments /\ Finish(c)
    BY <1>9 DEF Detach, TypeOK, Request, Idle, Command
  <2>2. CASE Exists(a)
    <3>1. rows[a] \in Row /\ Sound(rows[a])
      BY <2>1, <2>2, RowsAreRows DEF Consistent, RowsConsistent, Sound
    <3>2. Sound(r)
      BY <3>1 DEF Row, Sound, StampsMatch, WellFormed
    <3>3. rows' = [rows EXCEPT ![a] = r]
      BY <1>9, <2>1, <2>2 DEF Detach, TypeOK
    <3> QED
      BY <2>1, <3>2, <3>3, WriteSound
  <2>3. CASE ~ Exists(a)
    <3>1. rows' = [rows EXCEPT ![a] = rows[a]] /\ rows[a].status \notin Live
      BY <1>9, <2>1, <2>3 DEF Detach, TypeOK, Exists
    <3> QED
      BY <2>1, <3>1, WriteSound
  <2> QED
    BY <2>2, <2>3
<1>10. ASSUME NEW c \in Clients, Fail(c) PROVE Consistent'
  BY <1>10 DEF Fail, Finish, TypeOK, Consistent, RowsConsistent, SeenConsistent, Exists
<1>11. CASE Deactivate
  BY <1>11 DEF Deactivate, Consistent, RowsConsistent, SeenConsistent, Exists
<1>12. CASE UNCHANGED vars
  BY <1>12 DEF vars, Consistent, RowsConsistent, SeenConsistent, Exists
<1> QED
  BY <1>1, <1>2, <1>3, <1>4, <1>5, <1>6, <1>7, <1>8, <1>9, <1>10, <1>11, <1>12, <1>13
  DEF Next

LEMMA InitConsistent == Init => Consistent
  BY DEF Init, Consistent, RowsConsistent, SeenConsistent, Exists, Unborn, Live, Idle

\* However commands overlap, no assignment ends up with the timestamps of
\* another status, without sections, with two sections at one position, or
\* with a resource whose section is gone.
THEOREM AssignmentsStayConsistent == Spec => []RowsConsistent
<1>1. Consistent => RowsConsistent
  BY DEF Consistent
<1> QED
  BY <1>1, InitConsistent, NextConsistent, LifecycleTyping, PTL DEF Spec

-----------------------------------------------------------------------------
(***************************************************************************)
(* Illegal changes take a race.                                            *)
(***************************************************************************)
Raced(a) ==
  \E c \in Clients : /\ requests[c] # Idle /\ requests'[c] = Idle
                      /\ requests[c].id = a
                      /\ requests[c].seen # rows[a]

Writes(c) == Save(c) \/ Remove(c) \/ Update(c) \/ Attach(c) \/ Detach(c)

LEMMA NextLegal ==
  ASSUME TypeOK, Consistent, [Next]_vars, NEW a \in Assignments
  PROVE  Legal(rows[a], rows'[a]) \/ Raced(a)
<1>1. CASE rows'[a] = rows[a]
  BY <1>1 DEF Legal
<1>2. ASSUME Create(a) \/ \E b \in Assignments : Duplicate(b, a)
      PROVE  Legal(rows[a], rows'[a])
  BY <1>2 DEF Create, Duplicate, Copied, Draft, Legal, TypeOK
<1>3. ASSUME NEW c \in Clients, requests[c] # Idle, Finish(c),
             \/ requests[c].id # a \/ requests[c].seen = rows[a],
             Writes(c)
      PROVE  Legal(rows[a], rows'[a])
  <2>1. CASE requests[c].id # a
    BY <1>3, <2>1 DEF Writes, Save, Remove, Update, Attach, Detach, Legal, TypeOK
  <2>2. ASSUME requests[c].id = a, requests[c].seen = rows[a]
        PROVE  Legal(rows[a], rows'[a])
    <3>1. rows[a] \in Row
      BY <1>3, <2>2 DEF Writes, Save, Remove, Update, Attach, Detach, TypeOK, Request, Idle
    <3>2. CASE Save(c)
      BY <3>1, <3>2, <2>2
      DEF Writes, Save, Consistent, SeenConsistent, Idle, Command, Admits, Stamped, Legal,
          SameContent, SameNested, Row, Live, TypeOK
    <3>3. CASE Remove(c)
      BY <3>1, <3>3, <2>2
      DEF Remove, Consistent, SeenConsistent, Idle, Command, Admits, Legal, Deleted, TypeOK
    <3>4. ASSUME Update(c) \/ Attach(c) \/ Detach(c)
          PROVE  rows'[a].status = rows[a].status /\ rows[a].status = "draft"
      <4>1. rows[a].status = "draft"
        <5>1. requests[c].op \in {"update", "attach", "detach"}
          BY <3>4 DEF Update, Attach, Detach
        <5>2. Admits("update") = {"draft"}
          BY DEF Admits
        <5> QED
          BY <1>3, <5>1, <5>2, <2>2 DEF Consistent, SeenConsistent, Command
      <4>2. rows'[a].status = rows[a].status
        <5>1. CASE Update(c)
          BY <5>1, <2>2, UpdateWrites DEF TypeOK
        <5>2. CASE Attach(c)
          <6>1. PICK rs : rows' = [rows EXCEPT ![a] = [rows[a] EXCEPT !.resources = rs]]
            BY <5>2, <2>2 DEF Attach, TypeOK
          <6> QED
            BY <6>1, <3>1 DEF Row, TypeOK
        <5>3. CASE Detach(c)
          BY <3>1, <5>3, <2>2 DEF Detach, Row, TypeOK
        <5> QED
          BY <3>4, <5>1, <5>2, <5>3
      <4> QED
        BY <4>1, <4>2
    <3> QED
      BY <1>3, <3>2, <3>3, <3>4 DEF Legal, Writes
  <2> QED
    BY <1>3, <2>1, <2>2
<1>4. ASSUME NEW c \in Clients, requests[c] # Idle, Finish(c),
             requests[c].id = a, requests[c].seen # rows[a]
      PROVE  Raced(a)
  BY <1>4 DEF Raced, Finish, TypeOK
<1>5. \/ rows'[a] = rows[a]
      \/ Create(a) \/ \E b \in Assignments : Duplicate(b, a)
      \/ \E c \in Clients : requests[c] # Idle /\ Finish(c) /\ Writes(c)
  <2>1. ASSUME NEW b \in Assignments, Create(b) PROVE rows'[a] = rows[a] \/ Create(a)
    BY <2>1 DEF Create, TypeOK
  <2>6. ASSUME NEW b \in Assignments, NEW d \in Assignments, Duplicate(b, d)
        PROVE  rows'[a] = rows[a] \/ Duplicate(b, a)
    BY <2>6 DEF Duplicate, TypeOK
  <2>2. ASSUME NEW b \in Assignments, NEW c \in Clients,
               \/ \E op \in Command : Check(c, b, op)
               \/ \E x \in rows[b].sections : CheckItem(c, b, x)
               \/ \E x \in rows[b].resources : CheckResource(c, b, x)
        PROVE  rows'[a] = rows[a]
    BY <2>2 DEF Check, CheckItem, CheckResource, Begin
  <2>3. ASSUME NEW c \in Clients,
               Writes(c)
        PROVE  requests[c] # Idle /\ Finish(c)
    <3>1. requests[c].op # "idle"
      BY <2>3 DEF Writes, Save, Remove, Update, Attach, Detach
    <3>2. Finish(c)
      BY <2>3 DEF Writes, Save, Remove, Update, Attach, Detach
    <3> QED
      BY <3>1, <3>2 DEF Idle
  <2>4. ASSUME NEW c \in Clients, Fail(c) PROVE rows'[a] = rows[a]
    BY <2>4 DEF Fail
  <2>5. ASSUME Deactivate \/ UNCHANGED vars PROVE rows'[a] = rows[a]
    BY <2>5 DEF Deactivate, vars
  <2> QED
    BY <2>1, <2>2, <2>3, <2>4, <2>5, <2>6 DEF Next, Writes
<1>6. ASSUME NEW c \in Clients, requests[c] # Idle, Finish(c),
             Writes(c)
      PROVE  Legal(rows[a], rows'[a]) \/ Raced(a)
  <2>1. CASE requests[c].id # a \/ requests[c].seen = rows[a]
    BY <1>3, <1>6, <2>1
  <2>2. CASE requests[c].id = a /\ requests[c].seen # rows[a]
    BY <1>4, <1>6, <2>2
  <2> QED
    BY <2>1, <2>2
<1>7. CASE Create(a) \/ \E b \in Assignments : Duplicate(b, a)
  BY <1>2, <1>7
<1>8. CASE \E c \in Clients : requests[c] # Idle /\ Finish(c) /\ Writes(c)
  <2>1. PICK c \in Clients : requests[c] # Idle /\ Finish(c) /\ Writes(c)
    BY <1>8
  <2> QED
    BY <2>1, <1>6
<1> QED
  BY <1>1, <1>5, <1>7, <1>8

\* Commands that do not overlap respect every rule of the lifecycle: an
\* illegal change needs a request whose row was changed since it read it.
THEOREM IllegalChangesAreRaces == Spec => IllegalNeedsRace
<1>1. TypeOK /\ Consistent /\ [Next]_vars =>
        [\A a \in Assignments :
           Legal(rows[a], rows'[a])
             \/ \E c \in Clients : /\ requests[c] # Idle /\ requests'[c] = Idle
                                   /\ requests[c].id = a
                                   /\ requests[c].seen # rows[a]]_vars
  BY NextLegal DEF Raced
<1> QED
  BY <1>1, InitConsistent, NextConsistent, LifecycleTyping, PTL DEF Spec, IllegalNeedsRace

-----------------------------------------------------------------------------
(***************************************************************************)
(* Nothing is shared: a batch of nested rows belongs to one assignment, in *)
(* the table as in the copies that requests hold.                          *)
(***************************************************************************)
Batches(r) ==
  {x.batch : x \in r.notices} \cup {x.batch : x \in r.sections} \cup {x.batch : x \in r.resources}

Has(a, n) ==
  \/ Exists(a) /\ n \in Batches(rows[a])
  \/ \E c \in Clients : /\ requests[c] # Idle /\ requests[c].id = a
                         /\ n \in Batches(requests[c].seen)

Apart ==
  \A a, b \in Assignments, n \in Nat : Has(a, n) => n < batches /\ (Has(b, n) => a = b)

\* A step that adds at most the new batch, and that to assignment a.
LEMMA ApartStep ==
  ASSUME TypeOK, Apart, NEW a \in Assignments, batches' = batches \/ batches' = batches + 1,
         \A b \in Assignments, n \in Nat :
           Has(b, n)' => Has(b, n) \/ (b = a /\ n = batches /\ batches' = batches + 1)
  PROVE  Apart'
<1>1. batches \in Nat
  BY DEF TypeOK
<1>2. ASSUME NEW b \in Assignments, NEW n \in Nat, Has(b, n)' PROVE n < batches'
  BY <1>1, <1>2 DEF Apart
<1>3. ASSUME NEW b \in Assignments, NEW d \in Assignments, NEW n \in Nat, Has(b, n)', Has(d, n)'
      PROVE  b = d
  <2>1. Has(b, n) => n < batches
    BY DEF Apart
  <2>2. Has(d, n) => n < batches
    BY DEF Apart
  <2>3. CASE Has(b, n) /\ Has(d, n)
    BY <2>3 DEF Apart
  <2>4. CASE ~ Has(b, n) \/ ~ Has(d, n)
    <3>1. n = batches
      BY <1>3, <2>4
    <3>2. ~ Has(b, n) /\ ~ Has(d, n)
      BY <1>1, <2>1, <2>2, <3>1
    <3> QED
      BY <1>3, <3>2
  <2> QED
    BY <2>3, <2>4
<1> QED
  BY <1>2, <1>3 DEF Apart

\* A step that ends a request and writes, if anything, a row for a whose
\* batches were held for a or are new.
LEMMA WriteApart ==
  ASSUME TypeOK, Apart, NEW c \in Clients, Finish(c), NEW a \in Assignments, NEW r,
         rows' = [rows EXCEPT ![a] = r],
         batches' = batches \/ batches' = batches + 1,
         r.status \in Live =>
           \A n \in Batches(r) : Has(a, n) \/ (n = batches /\ batches' = batches + 1)
  PROVE  Apart'
<1>1. ASSUME NEW b \in Assignments, NEW n \in Nat, Has(b, n)'
      PROVE  Has(b, n) \/ (b = a /\ n = batches /\ batches' = batches + 1)
  <2>1. CASE Exists(b)' /\ n \in Batches(rows[b])'
    <3>1. CASE b = a
      <4>1. rows'[a] = r
        BY DEF TypeOK
      <4>2. r.status \in Live /\ n \in Batches(r)
        BY <2>1, <3>1, <4>1 DEF Exists, Batches
      <4> QED
        BY <3>1, <4>2
    <3>2. CASE b # a
      <4>1. rows'[b] = rows[b]
        BY <3>2 DEF TypeOK
      <4> QED
        BY <2>1, <4>1 DEF Has, Exists, Batches
    <3> QED
      BY <3>1, <3>2
  <2>2. ASSUME NEW d \in Clients, requests'[d] # Idle, requests'[d].id = b,
               n \in Batches(requests[d].seen)'
        PROVE  Has(b, n)
    <3>1. requests'[d] = requests[d]
      BY <2>2 DEF Finish, TypeOK
    <3> QED
      BY <2>2, <3>1 DEF Has, Batches
  <2> QED
    BY <1>1, <2>1, <2>2 DEF Has
<1> QED
  BY <1>1, ApartStep

LEMMA BeginApart ==
  ASSUME TypeOK, Apart, NEW c \in Clients, NEW a \in Assignments, NEW request,
         Begin(c, request), request.seen = rows[a], request.id = a, Exists(a)
  PROVE  Apart'
<1>1. UNCHANGED <<rows, batches>>
  BY DEF Begin
<1>2. ASSUME NEW b \in Assignments, NEW n \in Nat, Has(b, n)' PROVE Has(b, n)
  <2>1. CASE Exists(b)' /\ n \in Batches(rows[b])'
    BY <1>1, <2>1 DEF Has, Exists, Batches
  <2>2. ASSUME NEW d \in Clients, requests'[d] # Idle, requests'[d].id = b,
               n \in Batches(requests[d].seen)'
        PROVE  Has(b, n)
    <3>1. CASE d = c
      <4>1. requests'[c] = request
        BY DEF Begin, TypeOK
      <4> QED
        BY <2>2, <3>1, <4>1, <1>1 DEF Has, Batches
    <3>2. CASE d # c
      <4>1. requests'[d] = requests[d]
        BY <3>2 DEF Begin, TypeOK
      <4> QED
        BY <2>2, <4>1 DEF Has, Batches
    <3> QED
      BY <3>1, <3>2
  <2> QED
    BY <1>2, <2>1, <2>2 DEF Has
<1> QED
  BY <1>1, <1>2, ApartStep

LEMMA InsertApart ==
  ASSUME TypeOK, Apart, UNCHANGED requests, NewBatch, NEW a \in Assignments, NEW r,
         rows' = [rows EXCEPT ![a] = r], Batches(r) \subseteq {batches}
  PROVE  Apart'
<1>1. ASSUME NEW b \in Assignments, NEW n \in Nat, Has(b, n)'
      PROVE  Has(b, n) \/ (b = a /\ n = batches /\ batches' = batches + 1)
  <2>1. CASE Exists(b)' /\ n \in Batches(rows[b])'
    <3>1. CASE b = a
      BY <2>1, <3>1 DEF NewBatch, TypeOK, Batches
    <3>2. CASE b # a
      <4>1. rows'[b] = rows[b]
        BY <3>2 DEF TypeOK
      <4> QED
        BY <2>1, <4>1 DEF Has, Exists, Batches
    <3> QED
      BY <3>1, <3>2
  <2>2. CASE ~ (Exists(b)' /\ n \in Batches(rows[b])')
    BY <1>1, <2>2 DEF Has, Batches
  <2> QED
    BY <2>1, <2>2
<1> QED
  BY <1>1, ApartStep DEF NewBatch

LEMMA DraftBatches ==
  ASSUME NEW d, NEW ns, NEW ss, NEW rs, NEW b,
         \A x \in ns : x.batch = b, \A x \in ss : x.batch = b, \A x \in rs : x.batch = b
  PROVE  Batches(Draft(d, ns, ss, rs)) \subseteq {b}
  BY DEF Draft, Batches

LEMMA ReplaceBatches ==
  ASSUME NEW r \in Row, NEW old, NEW new, NEW links, NEW b, NEW kept \in SUBSET r.resources,
         NEW home \in [kept -> new],
         \A x \in new : x.batch = b, \A x \in links : x.batch = b
  PROVE  Batches(Replace(r, old, new, links, home)) \subseteq Batches(r) \cup {b}
<1> DEFINE q == Replace(r, old, new, links, home)
<1>1. /\ q.notices = r.notices
      /\ q.sections = (r.sections \ old) \cup new
      /\ q.resources = {x \in r.resources : x.section \notin old /\ x \notin DOMAIN home}
                         \cup {[x EXCEPT !.section = home[x]] : x \in DOMAIN home}
                         \cup links
  BY DEF Replace, Row
<1>2. \A x \in r.resources : \A t : [x EXCEPT !.section = t].batch = x.batch
  BY DEF Row, ResourceRow
<1>3. ASSUME NEW x \in q.resources PROVE x.batch = b \/ \E y \in r.resources : x.batch = y.batch
  <2>1. CASE x \in r.resources \/ x \in links
    BY <2>1
  <2>2. CASE x \in {[y EXCEPT !.section = home[y]] : y \in DOMAIN home}
    <3>1. PICK y \in kept : x = [y EXCEPT !.section = home[y]]
      BY <2>2
    <3>2. x.batch = y.batch
      BY <1>2, <3>1
    <3> QED
      BY <3>2
  <2> QED
    BY <1>1, <1>3, <2>1, <2>2
<1> HIDE DEF q
<1>4. Batches(q) \subseteq Batches(r) \cup {b}
  BY <1>1, <1>3 DEF Batches
<1> QED
  BY <1>4 DEF q

LEMMA UpdateApart == ASSUME TypeOK, Apart, NEW c \in Clients, Update(c) PROVE Apart'
<1> DEFINE a == requests[c].id
           old == requests[c].seen.sections
<1>1. /\ requests[c] \in Request /\ requests[c] # Idle /\ a \in Assignments
      /\ batches \in Nat /\ Exists(a) /\ rows[a] \in Row
  <2>1. requests[c] \in Request /\ requests[c] # Idle /\ batches \in Nat /\ Exists(a)
    BY DEF TypeOK, Update, Idle
  <2>2. a \in Assignments
    BY <2>1 DEF Request
  <2> QED
    BY <2>1, <2>2, RowsAreRows
<1>2. PICK d \in Details,
           ns \in {rows[a].notices} \cup {Nested(batches, p) : p \in SUBSET NoticePlaces} :
        LET row == [rows[a] EXCEPT !.details = d, !.notices = ns]
        IN  \/ rows' = [rows EXCEPT ![a] = row]
            \/ \E ss \in (SUBSET Positions) \ {{}}, kept \in SUBSET Uploads(row) :
                 LET new == Nested(batches, ss)
                 IN  \E home \in [kept -> new], links \in SUBSET Links(batches, new) :
                       rows' = [rows EXCEPT ![a] = Replace(row, old, new, links, home)]
  BY DEF Update
<1> DEFINE row == [rows[a] EXCEPT !.details = d, !.notices = ns]
<1>3. ns \in SUBSET NoticeRow
  BY <1>1, <1>2, NestedType DEF Row
<1>4. /\ row \in Row /\ row.notices = ns /\ row.sections = rows[a].sections
      /\ row.resources = rows[a].resources
  BY <1>1, <1>3 DEF Row
<1>5. Batches(row) \subseteq Batches(rows[a]) \cup {batches}
  BY <1>2, <1>4 DEF Batches, Nested
<1>6. \A n \in Batches(rows[a]) : Has(a, n)
  BY <1>1 DEF Has
<1>7. Finish(c) /\ batches' = batches + 1
  BY DEF Update, NewBatch
<1>8. CASE rows' = [rows EXCEPT ![a] = row]
  <2>1. \A n \in Batches(row) : Has(a, n) \/ (n = batches /\ batches' = batches + 1)
    BY <1>5, <1>6, <1>7
  <2> HIDE DEF row, a
  <2> QED
    BY <1>1, <1>7, <1>8, <2>1, WriteApart
<1>9. ASSUME NEW ss \in (SUBSET Positions) \ {{}}, NEW kept \in SUBSET Uploads(row),
             NEW home \in [kept -> Nested(batches, ss)],
             NEW links \in SUBSET Links(batches, Nested(batches, ss)),
             rows' = [rows EXCEPT ![a] = Replace(row, old, Nested(batches, ss), links, home)]
      PROVE  Apart'
  <2> DEFINE new == Nested(batches, ss)
             q == Replace(row, old, new, links, home)
  <2>1. \A x \in new : x.batch = batches
    BY DEF Nested
  <2>2. \A x \in links : x.batch = batches
    BY DEF Links, Fresh
  <2>3. kept \in SUBSET row.resources
    BY DEF Uploads
  <2>4. Batches(q) \subseteq Batches(row) \cup {batches}
    <3> HIDE DEF row, new, old
    <3> QED
      BY <1>4, <1>9, <2>1, <2>2, <2>3, ReplaceBatches DEF new
  <2>5. \A n \in Batches(q) : Has(a, n) \/ (n = batches /\ batches' = batches + 1)
    BY <1>5, <1>6, <1>7, <2>4
  <2> HIDE DEF row, a, q
  <2> QED
    BY <1>1, <1>7, <1>9, <2>5, WriteApart DEF q
<1> QED
  BY <1>2, <1>8, <1>9

LEMMA RequestApart ==
  ASSUME TypeOK, Apart, NEW c \in Clients,
         Save(c) \/ Remove(c) \/ Attach(c) \/ Detach(c) \/ Fail(c)
  PROVE  Apart'
<1> DEFINE a == requests[c].id
<1>1. requests[c] \in Request /\ requests[c] # Idle /\ batches \in Nat /\ a \in Assignments
  <2>1. requests[c] \in Request /\ requests[c] # Idle /\ batches \in Nat
    BY DEF TypeOK, Save, Remove, Attach, Detach, Fail, Idle
  <2> QED
    BY <2>1 DEF Request
<1>2. \A n \in Nat : n \in Batches(requests[c].seen) => Has(a, n)
  BY <1>1 DEF Has
<1>3. requests[c].seen \in Row
  BY <1>1 DEF Request
<1>4. \A r \in Row : Batches(r) \subseteq Nat
  BY DEF Batches, Row, NoticeRow, SectionRow, ResourceRow
<1>5. CASE Save(c)
  <2> DEFINE r == Stamped(requests[c].op, requests[c].seen)
  <2>1. rows' = [rows EXCEPT ![a] = r] /\ Finish(c) /\ batches' = batches
    BY <1>5 DEF Save
  <2>2. Batches(r) = Batches(requests[c].seen)
    <3>1. requests[c].op \in {"publish", "archive", "cancel"}
      BY <1>5 DEF Save
    <3>2. /\ r.notices = requests[c].seen.notices /\ r.sections = requests[c].seen.sections
          /\ r.resources = requests[c].seen.resources
      BY <1>3, <3>1 DEF Stamped, Row
    <3> HIDE DEF r
    <3> QED
      BY <3>2 DEF Batches
  <2>3. \A n \in Batches(r) : Has(a, n)
    BY <1>2, <1>3, <1>4, <2>2
  <2> HIDE DEF r, a
  <2> QED
    BY <1>1, <2>1, <2>3, WriteApart
<1>6. CASE Remove(c)
  <2>1. rows' = [rows EXCEPT ![a] = Deleted] /\ Finish(c) /\ batches' = batches
    BY <1>6 DEF Remove
  <2>2. Deleted.status \notin Live
    BY DEF Deleted, Live
  <2> HIDE DEF a
  <2> QED
    BY <1>1, <2>1, <2>2, WriteApart
<1>7. CASE Attach(c)
  <2>1. Exists(a) /\ rows[a] \in Row /\ Finish(c) /\ batches' = batches + 1
    BY <1>1, <1>7, RowsAreRows DEF Attach, NewBatch
  <2>2. PICK kind : rows' = [rows EXCEPT ![a].resources =
                               @ \cup {Fresh(batches, requests[c].section, kind)}]
    BY <1>7 DEF Attach
  <2> DEFINE r == [rows[a] EXCEPT !.resources =
                     @ \cup {Fresh(batches, requests[c].section, kind)}]
  <2>3. Batches(r) \subseteq Batches(rows[a]) \cup {batches}
    <3>1. /\ r.notices = rows[a].notices /\ r.sections = rows[a].sections
          /\ r.resources = rows[a].resources \cup {Fresh(batches, requests[c].section, kind)}
      BY <2>1 DEF Row
    <3>2. Fresh(batches, requests[c].section, kind).batch = batches
      BY DEF Fresh
    <3> HIDE DEF r
    <3> QED
      BY <3>1, <3>2 DEF Batches
  <2>4. \A n \in Batches(r) : Has(a, n) \/ (n = batches /\ batches' = batches + 1)
    BY <2>1, <2>3 DEF Has
  <2>5. rows' = [rows EXCEPT ![a] = r]
    BY <2>2
  <2> HIDE DEF r, a
  <2> QED
    BY <1>1, <2>1, <2>4, <2>5, WriteApart
<1>8. CASE Detach(c) /\ Exists(a)
  <2> DEFINE r == [rows[a] EXCEPT !.resources =
                     {x \in @ : ~ SameResource(x, requests[c].resource)}]
  <2>1. rows' = [rows EXCEPT ![a] = r] /\ Finish(c) /\ batches' = batches
    BY <1>8 DEF Detach
  <2>2. rows[a] \in Row
    BY <1>1, <1>8, RowsAreRows
  <2>3. Batches(r) \subseteq Batches(rows[a])
    <3>1. /\ r.notices = rows[a].notices /\ r.sections = rows[a].sections
          /\ r.resources \subseteq rows[a].resources
      BY <2>2 DEF Row
    <3> HIDE DEF r
    <3> QED
      BY <3>1 DEF Batches
  <2>4. \A n \in Batches(r) : Has(a, n)
    BY <1>8, <2>3 DEF Has
  <2> HIDE DEF r, a
  <2> QED
    BY <1>1, <2>1, <2>4, WriteApart
<1>9. CASE Fail(c) \/ (Detach(c) /\ ~ Exists(a))
  <2>1. UNCHANGED <<rows, batches>> /\ Finish(c)
    BY <1>9 DEF Fail, Detach
  <2>2. rows' = [rows EXCEPT ![a] = rows[a]]
    BY <1>1, <2>1 DEF TypeOK
  <2>3. rows[a].status \in Live => \A n \in Batches(rows[a]) : Has(a, n)
    BY DEF Has, Exists
  <2> HIDE DEF a
  <2> QED
    BY <1>1, <2>1, <2>2, <2>3, WriteApart
<1> QED
  BY <1>5, <1>6, <1>7, <1>8, <1>9

LEMMA NextApart == ASSUME TypeOK, Apart, [Next]_vars PROVE Apart'
<1>1. ASSUME NEW a \in Assignments, Create(a) PROVE Apart'
  <2>1. PICK d \in Details, ns \in SUBSET NoticePlaces, ss \in (SUBSET Positions) \ {{}} :
          \E links \in SUBSET Links(batches, Nested(batches, ss)) :
            rows' = [rows EXCEPT ![a] =
                       Draft(d, Nested(batches, ns), Nested(batches, ss), links)]
    BY <1>1 DEF Create
  <2>2. PICK links \in SUBSET Links(batches, Nested(batches, ss)) :
          rows' = [rows EXCEPT ![a] =
                     Draft(d, Nested(batches, ns), Nested(batches, ss), links)]
    BY <2>1
  <2>3. \A places : \A x \in Nested(batches, places) : x.batch = batches
    BY DEF Nested
  <2>4. \A x \in links : x.batch = batches
    BY DEF Links, Fresh
  <2>5. Batches(Draft(d, Nested(batches, ns), Nested(batches, ss), links)) \subseteq {batches}
    <3> DEFINE A == Nested(batches, ns)
               B == Nested(batches, ss)
    <3>1. (\A x \in A : x.batch = batches) /\ (\A x \in B : x.batch = batches)
      BY <2>3
    <3> HIDE DEF A, B
    <3>2. Batches(Draft(d, A, B, links)) \subseteq {batches}
      BY <2>4, <3>1, DraftBatches
    <3> QED
      BY <3>2 DEF A, B
  <2> QED
    BY <1>1, <2>2, <2>5, InsertApart DEF Create
<1>2. ASSUME NEW a \in Assignments, NEW b \in Assignments, Duplicate(a, b) PROVE Apart'
  <2>1. PICK d \in Details : rows' = [rows EXCEPT ![b] = Copied(rows[a], batches, d)]
    BY <1>2 DEF Duplicate
  <2>2. rows[a] \in Row
    BY <1>2, RowsAreRows DEF Duplicate
  <2>3. Batches(Copied(rows[a], batches, d)) \subseteq {batches}
    <3>1. \A x \in {[n EXCEPT !.batch = batches] : n \in rows[a].notices} : x.batch = batches
      BY <2>2 DEF Row, NoticeRow
    <3>2. \A x \in {[n EXCEPT !.batch = batches] : n \in rows[a].sections} : x.batch = batches
      BY <2>2 DEF Row, SectionRow
    <3>3. \A x \in {Fresh(batches, [y.section EXCEPT !.batch = batches], y.kind) :
                      y \in rows[a].resources} : x.batch = batches
      BY DEF Fresh
    <3> DEFINE A == {[n EXCEPT !.batch = batches] : n \in rows[a].notices}
               B == {[n EXCEPT !.batch = batches] : n \in rows[a].sections}
               C == {Fresh(batches, [y.section EXCEPT !.batch = batches], y.kind) :
                       y \in rows[a].resources}
    <3>4. Copied(rows[a], batches, d) = Draft(d, A, B, C)
      BY DEF Copied
    <3>5. /\ \A x \in A : x.batch = batches
          /\ \A x \in B : x.batch = batches
          /\ \A x \in C : x.batch = batches
      BY <3>1, <3>2, <3>3
    <3> HIDE DEF A, B, C
    <3>6. Batches(Draft(d, A, B, C)) \subseteq {batches}
      BY <3>5, DraftBatches
    <3> QED
      BY <3>4, <3>6
  <2> QED
    BY <1>2, <2>1, <2>3, InsertApart DEF Duplicate
<1>3. ASSUME NEW a \in Assignments, NEW c \in Clients, NEW op \in Command, Check(c, a, op)
      PROVE  Apart'
  <2>1. Exists(a)
    BY <1>3 DEF Check, Admits, Command, Exists, Live
  <2> QED
    BY <1>3, <2>1, BeginApart DEF Check
<1>4. ASSUME NEW a \in Assignments, NEW c \in Clients, NEW s, CheckItem(c, a, s) PROVE Apart'
  <2>1. Exists(a)
    BY <1>4 DEF CheckItem, Exists, Live
  <2> QED
    BY <1>4, <2>1, BeginApart DEF CheckItem
<1>5. ASSUME NEW a \in Assignments, NEW c \in Clients, NEW r, CheckResource(c, a, r) PROVE Apart'
  <2>1. Exists(a)
    BY <1>5 DEF CheckResource, Exists, Live
  <2> QED
    BY <1>5, <2>1, BeginApart DEF CheckResource
<1>6. ASSUME UNCHANGED <<rows, requests, batches>> PROVE Apart'
  <2>1. \A a, n : Has(a, n)' <=> Has(a, n)
    BY <1>6 DEF Has, Exists, Batches
  <2> QED
    BY <1>6, <2>1 DEF Apart
<1>7. CASE UNCHANGED vars
  BY <1>6, <1>7 DEF vars
<1>8. CASE Deactivate
  BY <1>6, <1>8 DEF Deactivate
<1> QED
  BY <1>1, <1>2, <1>3, <1>4, <1>5, <1>7, <1>8, RequestApart, UpdateApart DEF Next

LEMMA ApartGivesNothingShared == ASSUME TypeOK, Apart PROVE NothingShared
<1> SUFFICES ASSUME NEW a \in Assignments, NEW b \in Assignments, a # b, Exists(a), Exists(b)
             PROVE  /\ rows[a].notices \cap rows[b].notices = {}
                    /\ rows[a].sections \cap rows[b].sections = {}
                    /\ \A x \in rows[a].resources, y \in rows[b].resources : ~ SameResource(x, y)
  BY DEF NothingShared
<1>1. rows[a] \in Row /\ rows[b] \in Row
  BY RowsAreRows
<1>2. \A n \in Nat : ~ (n \in Batches(rows[a]) /\ n \in Batches(rows[b]))
  BY DEF Apart, Has
<1>3. ASSUME NEW x \in rows[a].notices, x \in rows[b].notices PROVE FALSE
  <2>1. x.batch \in Nat
    BY <1>1 DEF Row, NoticeRow
  <2> QED
    BY <1>2, <1>3, <2>1 DEF Batches
<1>4. ASSUME NEW x \in rows[a].sections, x \in rows[b].sections PROVE FALSE
  <2>1. x.batch \in Nat
    BY <1>1 DEF Row, SectionRow
  <2> QED
    BY <1>2, <1>4, <2>1 DEF Batches
<1>5. ASSUME NEW x \in rows[a].resources, NEW y \in rows[b].resources, SameResource(x, y)
      PROVE  FALSE
  <2>1. x \in ResourceRow /\ y \in ResourceRow
    BY <1>1 DEF Row
  <2>2. x.batch = y.batch
    BY <1>5, <2>1 DEF SameResource, ResourceRow
  <2>3. x.batch \in Nat
    BY <2>1 DEF ResourceRow
  <2> QED
    BY <1>2, <2>2, <2>3 DEF Batches
<1> QED
  BY <1>3, <1>4, <1>5

\* Assignments never share a nested row (NothingShared): a copy can be edited
\* without touching its source, whatever requests overlap.
THEOREM CopiesAreIndependent == Spec => []NothingShared
<1>1. Init => Apart
  BY DEF Init, Apart, Has, Exists, Unborn, Live
<1>2. TypeOK /\ Apart /\ [Next]_vars => Apart'
  BY NextApart
<1>3. TypeOK /\ Apart => NothingShared
  BY ApartGivesNothingShared
<1> QED
  BY LifecycleTyping, <1>1, <1>2, <1>3, PTL DEF Spec
=============================================================================

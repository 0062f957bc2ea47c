--------------------------- MODULE AccountsProofs ---------------------------
(***************************************************************************)
(* Proofs about Students and Accounts.                                     *)
(***************************************************************************)
EXTENDS Accounts, TLAPS

LEMMA NoRowIsNone == NoRow \notin Row
  BY StudentsAssumption DEF NoRow, Row

LEMMA NoRequestTyped == NoRequest \in Requests /\ SomeId \in Ids
<1>1. SomeId \in Ids
  BY StudentsAssumption DEF SomeId
<1>2. Nothing \in Change
  BY DEF Nothing, Change
<1> QED
  BY <1>1, <1>2 DEF NoRequest, Requests, Stages

\* Does the row's update name no zone, and so set it to UTC?
Defaulted(r, k) == k = "zone" /\ r.op = "update" /\ r.change.zone = "kept"

Excused(r, k) == r.overtaken \/ k \in r.outdated \/ Defaulted(r, k)

(***************************************************************************)
(* What a request says of its caller: a deactivation means the column      *)
(* active, and a field that an update carries and does not mean has the    *)
(* value the form was filled with.  Only what was found is saved.          *)
(***************************************************************************)
Meaning(r) ==
  /\ r.op = "create" => r.change.name \in Names
  /\ r.op = "deactivate" => "active" \in r.meant
  /\ r.op = "update" /\ "name" \notin r.meant =>
       r.change.name = "kept" \/ (r.base # NoRow /\ r.change.name = r.base.name)
  /\ r.op = "update" /\ "zone" \notin r.meant =>
       r.change.zone = "kept" \/ (r.base # NoRow /\ r.change.zone = r.base.zone)

Holding(r, row) ==
  /\ r.stage \in {"read", "compared"} => r.op # "create" /\ row # NoRow /\ r.copy # NoRow
  /\ r.stage = "read" => \A k \in Columns \ r.meant : r.copy[k] = row[k] \/ Excused(r, k)
  /\ r.stage = "compared" => \A k \in r.writes \ r.meant : Excused(r, k)

Sound ==
  /\ StudentsOK
  /\ \A c \in Clients : Meaning(requests[c]) /\ Holding(requests[c], rows[requests[c].id])

LEMMA IdleSound == \A row : Meaning(NoRequest) /\ Holding(NoRequest, row)
  BY DEF Meaning, Holding, NoRequest, Nothing

\* A merged row is a row, and it differs from the one read only in columns the caller
\* meant, in outdated ones and in a defaulted zone.
LEMMA MergedTyped ==
  ASSUME NEW row \in Row, NEW op, NEW change \in Change
  PROVE  Merged(row, op, change) \in Row
<1>1. ZoneOf(change) \in Zones
  BY StudentsAssumption DEF ZoneOf, Change
<1> QED
  BY <1>1 DEF Merged, Row, Change

LEMMA MergedMeans ==
  ASSUME NEW row \in Row, NEW r \in Requests, Meaning(r), r.op # "create",
         NEW outdated, outdated = IF r.base = NoRow THEN {} ELSE Differing(r.base, row),
         NEW k \in Columns \ r.meant
  PROVE  \/ Merged(row, r.op, r.change)[k] = row[k]
         \/ k \in outdated
         \/ Defaulted(r, k)
<1> DEFINE copy == Merged(row, r.op, r.change)
<1>1. r.op \in {"update", "deactivate"}
  BY DEF Requests
<1>2. CASE r.op = "deactivate"
  <2>1. copy = [row EXCEPT !.active = FALSE]
    BY <1>2 DEF Merged
  <2>2. k # "active" /\ k \in {"name", "zone"}
    BY <1>2 DEF Meaning, Columns
  <2> QED
    BY <2>1, <2>2 DEF Row
<1>3. CASE r.op = "update"
  <2>1. copy = [row EXCEPT !.name = IF r.change.name = "kept" THEN @ ELSE r.change.name,
                           !.zone = ZoneOf(r.change)]
    BY <1>3 DEF Merged
  <2>2. CASE k = "active"
    BY <2>1, <2>2 DEF Row
  <2>3. CASE k = "name"
    <3>1. CASE r.change.name = "kept"
      BY <2>1, <2>3, <3>1 DEF Row
    <3>2. CASE r.change.name # "kept"
      <4>1. r.base # NoRow /\ r.change.name = r.base.name
        BY <1>3, <2>3, <3>2 DEF Meaning
      <4>2. copy.name = r.base.name
        BY <2>1, <3>2, <4>1 DEF Row
      <4>3. r.base.name # row.name => "name" \in outdated
        BY <4>1 DEF Differing, Columns
      <4> QED
        BY <2>3, <4>2, <4>3
    <3> QED
      BY <3>1, <3>2
  <2>4. CASE k = "zone"
    <3>1. CASE r.change.zone = "kept"
      BY <1>3, <2>4, <3>1 DEF Defaulted
    <3>2. CASE r.change.zone # "kept"
      <4>1. r.base # NoRow /\ r.change.zone = r.base.zone
        BY <1>3, <2>4, <3>2 DEF Meaning
      <4>2. copy.zone = r.base.zone
        BY <2>1, <3>2, <4>1 DEF Row, ZoneOf
      <4>3. r.base.zone # row.zone => "zone" \in outdated
        BY <4>1 DEF Differing, Columns
      <4> QED
        BY <2>4, <4>2, <4>3
    <3> QED
      BY <3>1, <3>2
  <2> QED
    BY <2>2, <2>3, <2>4 DEF Columns
<1> QED
  BY <1>1, <1>2, <1>3

-----------------------------------------------------------------------------
(***************************************************************************)
(* The statements of StudentsService keep requests sound.                  *)
(***************************************************************************)
LEMMA OneRequest ==
  ASSUME Sound, NEW c \in Clients, NEW r \in Requests, Meaning(r), Holding(r, rows[r.id]),
         rows' = rows, requests' = [requests EXCEPT ![c] = r]
  PROVE  Sound'
<1>1. StudentsOK'
  BY DEF Sound, StudentsOK
<1>2. ASSUME NEW d \in Clients
      PROVE  Meaning(requests'[d]) /\ Holding(requests'[d], rows'[requests'[d].id])
  <2>1. requests'[d] = IF d = c THEN r ELSE requests[d]
    BY DEF Sound, StudentsOK
  <2> QED
    BY <2>1, <1>2 DEF Sound
<1> QED
  BY <1>1, <1>2 DEF Sound

LEMMA AnswerSound ==
  ASSUME Sound, NEW c \in Clients, NEW ok \in BOOLEAN, Answer(c, ok), rows' = rows
  PROVE  Sound'
<1> DEFINE r == [requests[c] EXCEPT !.stage = "answered", !.ok = ok]
<1>1. requests[c] \in Requests /\ Meaning(requests[c])
  BY DEF Sound, StudentsOK
<1>2. r \in Requests
  BY <1>1 DEF Requests, Stages
<1>3. r.stage = "answered" /\ r.op = requests[c].op /\ r.meant = requests[c].meant
      /\ r.change = requests[c].change /\ r.base = requests[c].base
  BY <1>1 DEF Requests
<1>4. Meaning(r) /\ Holding(r, rows[r.id])
  BY <1>1, <1>3 DEF Meaning, Holding
<1>5. requests' = [requests EXCEPT ![c] = r]
  BY DEF Answer, Sound, StudentsOK
<1> HIDE DEF r
<1> QED
  BY <1>2, <1>4, <1>5, OneRequest

LEMMA ReadSound == ASSUME Sound, NEW c \in Clients, Read(c) PROVE Sound'
<1> DEFINE q == requests[c]
           row == rows[q.id]
<1>1. q \in Requests /\ Meaning(q) /\ rows' = rows /\ q.stage = "sent" /\ q.op # "create"
  BY DEF Sound, StudentsOK, Read
<1>2. CASE ~Found(q.as, q.id)
  <2>1. Answer(c, FALSE)
    BY <1>2 DEF Read
  <2> QED
    BY <1>1, <2>1, AnswerSound
<1>3. CASE Found(q.as, q.id)
  <2> DEFINE outdated == IF q.base = NoRow THEN {} ELSE Differing(q.base, row)
             copy == Merged(row, q.op, q.change)
             r == [q EXCEPT !.stage = "read", !.copy = copy, !.outdated = outdated]
  <2>1. row \in Row /\ row # NoRow
    BY <1>1, <1>3 DEF Found, Sound, StudentsOK, Requests
  <2>2. requests' = [requests EXCEPT ![c] = r]
    BY <1>3 DEF Read
  <2>3. q.change \in Change
    BY <1>1 DEF Requests
  <2>4. copy \in Row
    BY <2>1, <2>3, MergedTyped
  <2>5. outdated \subseteq Columns
    BY DEF Differing
  <2> HIDE DEF copy, outdated
  <2>6. r \in Requests
    BY <1>1, <2>4, <2>5 DEF Requests, Stages
  <2>7. /\ r.stage = "read" /\ r.op = q.op /\ r.meant = q.meant /\ r.change = q.change
        /\ r.base = q.base /\ r.copy = copy /\ r.outdated = outdated /\ r.id = q.id
    BY <1>1 DEF Requests
  <2>8. Meaning(r)
    BY <1>1, <2>7 DEF Meaning
  <2>9. ASSUME NEW k \in Columns \ q.meant
        PROVE  copy[k] = row[k] \/ k \in outdated \/ Defaulted(q, k)
    BY <1>1, <2>1, <2>9, MergedMeans DEF copy, outdated
  <2>10. ASSUME NEW k PROVE Defaulted(r, k) = Defaulted(q, k)
    BY <2>7 DEF Defaulted
  <2>11. r.copy # NoRow
    BY <2>4, <2>7, NoRowIsNone
  <2>12. Holding(r, rows[r.id])
    BY <1>1, <2>1, <2>7, <2>9, <2>10, <2>11 DEF Holding, Excused
  <2> QED
    BY <1>1, <2>2, <2>6, <2>8, <2>12, OneRequest
<1> QED
  BY <1>2, <1>3

LEMMA CompareSound == ASSUME Sound, NEW c \in Clients, Compare(c) PROVE Sound'
<1> DEFINE q == requests[c]
           writes == Differing(q.copy, rows[q.id])
<1>1. q \in Requests /\ Meaning(q) /\ Holding(q, rows[q.id]) /\ rows' = rows /\ q.stage = "read"
  BY DEF Sound, StudentsOK, Compare
<1>2. CASE writes = {}
  <2>1. Answer(c, TRUE)
    BY <1>2 DEF Compare
  <2> QED
    BY <1>1, <2>1, AnswerSound
<1>3. CASE writes # {}
  <2> DEFINE r == [q EXCEPT !.stage = "compared", !.writes = writes]
  <2>1. requests' = [requests EXCEPT ![c] = r]
    BY <1>3 DEF Compare, Sound, StudentsOK
  <2>2. \A k \in writes \ q.meant : Excused(q, k)
    BY <1>1 DEF Holding, Differing
  <2>3. writes \subseteq Columns
    BY DEF Differing
  <2> HIDE DEF writes
  <2>4. r \in Requests
    BY <1>1, <2>3 DEF Requests, Stages
  <2>5. /\ r.stage = "compared" /\ r.op = q.op /\ r.meant = q.meant /\ r.change = q.change
        /\ r.base = q.base /\ r.copy = q.copy /\ r.outdated = q.outdated /\ r.id = q.id
        /\ r.overtaken = q.overtaken /\ r.writes = writes
    BY <1>1 DEF Requests
  <2>6. Meaning(r)
    BY <1>1, <2>5 DEF Meaning
  <2>7. ASSUME NEW k PROVE Excused(r, k) = Excused(q, k)
    BY <2>5 DEF Excused, Defaulted
  <2>8. Holding(r, rows[r.id])
    BY <1>1, <2>2, <2>5, <2>7 DEF Holding
  <2> QED
    BY <1>1, <2>1, <2>4, <2>6, <2>8, OneRequest
<1> QED
  BY <1>2, <1>3

LEMMA WriteSound == ASSUME Sound, NEW c \in Clients, Write(c) PROVE Sound'
<1> DEFINE q == requests[c]
           row == rows[q.id]
           written == Written(row, q.copy, q.writes)
           answered == [q EXCEPT !.stage = "answered", !.ok = TRUE]
<1>1. q \in Requests /\ Meaning(q) /\ q.stage = "compared" /\ Holding(q, row)
  BY DEF Sound, StudentsOK, Write
<1>2. row \in Row /\ q.copy \in Row
  BY <1>1 DEF Holding, Requests, Sound, StudentsOK
<1>3. written \in Row
  BY <1>2 DEF Row, Written
<1>4. q.id \in Ids
  BY <1>1 DEF Requests
<1>5. rows' = [rows EXCEPT ![q.id] = written]
  BY DEF Write
<1> HIDE DEF written
<1>6. rows' \in [Ids -> Row \cup {NoRow}]
  BY <1>3, <1>5 DEF Sound, StudentsOK
<1>7. \A id \in Ids : rows'[id] = IF id = q.id THEN written ELSE rows[id]
  BY <1>5 DEF Sound, StudentsOK
<1>8. requests'[c] = answered
  BY <1>1 DEF Write, Overtaking, Requests
<1>9. answered \in Requests /\ Meaning(answered) /\ Holding(answered, rows'[answered.id])
  <2>1. answered \in Requests
    BY <1>1 DEF Requests, Stages
  <2>2. /\ answered.stage = "answered" /\ answered.op = q.op /\ answered.meant = q.meant
        /\ answered.change = q.change /\ answered.base = q.base
    BY <1>1 DEF Requests
  <2> HIDE DEF answered
  <2> QED
    BY <1>1, <2>1, <2>2 DEF Meaning, Holding
<1>10. ASSUME NEW d \in Clients, d # c
       PROVE  /\ requests'[d] \in Requests /\ Meaning(requests'[d])
              /\ Holding(requests'[d], rows'[requests'[d].id])
  <2> DEFINE p == requests[d]
             r == [p EXCEPT !.overtaken = @ \/ (d # c /\ p.stage = "read" /\ p.id = q.id)]
  <2>1. p \in Requests /\ Meaning(p) /\ Holding(p, rows[p.id])
    BY <1>10 DEF Sound, StudentsOK
  <2>2. requests'[d] = r
    BY <1>10 DEF Write, Overtaking
  <2>3. /\ r \in Requests /\ r.stage = p.stage /\ r.op = p.op /\ r.meant = p.meant
        /\ r.change = p.change /\ r.base = p.base /\ r.copy = p.copy /\ r.outdated = p.outdated
        /\ r.id = p.id /\ r.writes = p.writes
    BY <2>1 DEF Requests
  <2>4. p.overtaken \/ (p.stage = "read" /\ p.id = q.id) => r.overtaken
    BY <1>10, <2>1 DEF Requests
  <2> HIDE DEF r
  <2>5. Meaning(r)
    BY <2>1, <2>3 DEF Meaning
  <2>6. ASSUME NEW k, Excused(p, k) PROVE Excused(r, k)
    BY <2>3, <2>4, <2>6 DEF Excused, Defaulted
  <2>7. p.id \in Ids
    BY <2>1 DEF Requests
  <2>8. rows[p.id] # NoRow => rows'[p.id] # NoRow
    BY <1>3, <1>7, <2>7, NoRowIsNone
  <2>9. CASE p.stage = "read" /\ p.id = q.id
    <3>1. \A k : Excused(r, k)
      BY <2>4, <2>9 DEF Excused
    <3> QED
      BY <2>1, <2>2, <2>3, <2>5, <2>8, <3>1 DEF Holding
  <2>10. CASE p.stage = "read" /\ p.id # q.id
    <3>1. rows'[p.id] = rows[p.id]
      BY <1>7, <2>7, <2>10
    <3> QED
      BY <2>1, <2>2, <2>3, <2>5, <2>6, <3>1 DEF Holding
  <2>11. CASE p.stage # "read"
    BY <2>1, <2>2, <2>3, <2>5, <2>6, <2>8, <2>11 DEF Holding
  <2> QED
    BY <2>9, <2>10, <2>11
<1>11. requests' \in [Clients -> Requests]
  <2>1. requests' = [[d \in Clients |->
           [requests[d] EXCEPT !.overtaken =
              @ \/ (d # c /\ requests[d].stage = "read" /\ requests[d].id = requests[c].id)]]
         EXCEPT ![c].stage = "answered", ![c].ok = TRUE]
    BY DEF Write, Overtaking
  <2>2. requests' = [d \in Clients |-> requests'[d]]
    BY <2>1
  <2>3. \A d \in Clients : requests'[d] \in Requests
    BY <1>8, <1>9, <1>10
  <2> QED
    BY <2>2, <2>3
<1> HIDE DEF answered
<1>12. StudentsOK'
  BY <1>6, <1>11 DEF StudentsOK
<1>13. \A d \in Clients : Meaning(requests'[d]) /\ Holding(requests'[d], rows'[requests'[d].id])
  BY <1>8, <1>9, <1>10
<1> QED
  BY <1>12, <1>13 DEF Sound

LEMMA CreateSound == ASSUME Sound, NEW c \in Clients, Create(c) PROVE Sound'
<1>1. /\ requests[c] \in Requests /\ Meaning(requests[c])
      /\ requests[c].stage = "sent" /\ requests[c].op = "create"
  BY DEF Sound, StudentsOK, Create
<1>2. CASE requests[c].as = NoUser
  <2>1. Answer(c, FALSE) /\ rows' = rows
    BY <1>2 DEF Create
  <2> QED
    BY <2>1, AnswerSound
<1>3. CASE requests[c].as # NoUser
  <2> DEFINE new == [owner |-> requests[c].as, active |-> TRUE,
                     name |-> requests[c].change.name, zone |-> ZoneOf(requests[c].change)]
  <2>1. PICK id \in Ids : /\ rows[id] = NoRow /\ rows' = [rows EXCEPT ![id] = new]
                          /\ Answer(c, TRUE)
    BY <1>3 DEF Create
  <2>2. ZoneOf(requests[c].change) \in Zones
    BY <1>1, StudentsAssumption DEF ZoneOf, Change, Requests
  <2>3. new \in Row
    BY <1>1, <1>3, <2>2 DEF Row, Requests, Meaning
  <2> DEFINE answered == [requests[c] EXCEPT !.stage = "answered", !.ok = TRUE]
  <2> HIDE DEF new
  <2>4. requests' = [requests EXCEPT ![c] = answered]
    BY <2>1 DEF Answer, Sound, StudentsOK
  <2>5. answered \in Requests
    BY <1>1 DEF Requests, Stages
  <2>6. /\ answered.stage = "answered" /\ answered.op = requests[c].op
        /\ answered.change = requests[c].change
    BY <1>1 DEF Requests
  <2> HIDE DEF answered
  <2>7. StudentsOK'
    BY <2>1, <2>3, <2>4, <2>5 DEF Sound, StudentsOK
  <2>8. ASSUME NEW d \in Clients
        PROVE  Meaning(requests'[d]) /\ Holding(requests'[d], rows'[requests'[d].id])
    <3>1. CASE d = c
      <4>1. requests'[d] = answered
        BY <2>4, <3>1 DEF Sound, StudentsOK
      <4> QED
        BY <1>1, <2>6, <4>1 DEF Meaning, Holding
    <3>2. CASE d # c
      <4>1. requests'[d] = requests[d]
        BY <2>4, <3>2 DEF Sound, StudentsOK
      <4>2. Meaning(requests[d]) /\ Holding(requests[d], rows[requests[d].id])
        BY DEF Sound
      <4>3. requests[d].id \in Ids
        BY DEF Sound, StudentsOK, Requests
      <4>4. CASE requests[d].id = id
        BY <2>1, <4>1, <4>2, <4>4 DEF Holding
      <4>5. CASE requests[d].id # id
        <5>1. rows'[requests[d].id] = rows[requests[d].id]
          BY <2>1, <4>3, <4>5 DEF Sound, StudentsOK
        <5> QED
          BY <4>1, <4>2, <5>1
      <4> QED
        BY <4>4, <4>5
    <3> QED
      BY <3>1, <3>2
  <2> QED
    BY <2>7, <2>8 DEF Sound
<1> QED
  BY <1>2, <1>3

LEMMA ServeSound == ASSUME Sound, NEW c \in Clients, Serve(c) PROVE Sound'
  BY ReadSound, CompareSound, WriteSound, CreateSound DEF Serve

-----------------------------------------------------------------------------
(***************************************************************************)
(* Types of the tabs.  Their requests are sound because a form holds the   *)
(* row it was filled with.                                                 *)
(***************************************************************************)
Filled == \A t \in Tabs : form[t].op = "update" => form[t].base # NoRow

Tallied == world \in Worlds /\ faults \in Nat /\ calls \in Nat

Inv == Sound /\ SessionOK /\ ListingOK /\ FormsOK /\ Filled /\ Tallied

LEMMA WorldFacts ==
  ASSUME Tallied
  PROVE  /\ world.accounts \subseteq Users /\ world.tabs \subseteq Tabs /\ Tabs \subseteq Clients
         /\ world.callers \subseteq Clients \ Tabs
         /\ world.enrolled \in [Ids -> Someone]
         /\ world.calls \in Nat /\ world.faults \in Nat
  BY AccountsAssumption DEF Tallied, Someone

LEMMA EmptyTyped ==
  /\ NoList \in [owner : Someone, rows : [Ids -> Row \cup {NoRow}]]
  /\ NoMe \in [sent : BOOLEAN, as : Someone]
  /\ NoForm \in [op : {"none", "create", "update"}, id : Ids, base : Row \cup {NoRow}]
  /\ NoForm.op = "none" /\ NoForm.base = NoRow /\ NoList.owner = NoUser /\ NoMe.sent = FALSE
  BY NoRequestTyped DEF NoList, NoMe, NoForm, Someone

LEMMA FaultCounted == ASSUME Tallied, Fault PROVE faults' \in Nat
  BY DEF Fault, Tallied

LEMMA InitInv == ASSUME Init PROVE Inv
<1>1. Tallied
  BY DEF Init, Tallied
<1>2. rows \in [Ids -> Row \cup {NoRow}]
  BY <1>1, WorldFacts, AccountsAssumption DEF Init, Someone, Row
<1>3. requests \in [Clients -> Requests] /\ \A c \in Clients : requests[c] = NoRequest
  BY NoRequestTyped DEF Init
<1>4. Sound
  BY <1>2, <1>3, IdleSound DEF Sound, StudentsOK
<1>5. SessionOK
  <2>1. storage \in Users
    BY <1>1, WorldFacts DEF Init
  <2> QED
    BY <2>1, EmptyTyped DEF Init, SessionOK, Someone
<1>6. ListingOK /\ FormsOK /\ Filled
  BY EmptyTyped DEF Init, ListingOK, FormsOK, Filled
<1> QED
  BY <1>1, <1>4, <1>5, <1>6 DEF Inv

LEMMA Ended ==
  ASSUME Sound, NEW c \in Clients, requests' = [requests EXCEPT ![c] = NoRequest], rows' = rows
  PROVE  Sound'
  BY OneRequest, IdleSound, NoRequestTyped

LEMMA Sent ==
  ASSUME Sound, Tallied, NEW c \in Clients, NEW as \in Someone,
         NEW op \in {"create", "update", "deactivate"}, NEW id \in Ids, NEW change \in Change,
         NEW base \in Row \cup {NoRow}, NEW meant \in SUBSET Columns,
         Send(c, as, op, id, change, base, meant), rows' = rows,
         op = "create" => change.name \in Names,
         op = "deactivate" => "active" \in meant,
         op = "update" /\ "name" \notin meant =>
           change.name = "kept" \/ (base # NoRow /\ change.name = base.name),
         op = "update" /\ "zone" \notin meant =>
           change.zone = "kept" \/ (base # NoRow /\ change.zone = base.zone)
  PROVE  Sound' /\ calls' \in Nat
<1> DEFINE r == [NoRequest EXCEPT !.stage = "sent", !.as = as, !.op = op, !.id = id,
                                  !.change = change, !.base = base, !.meant = meant]
<1>1. r \in Requests
  BY NoRequestTyped DEF Requests, Stages, Someone
<1>2. /\ r.stage = "sent" /\ r.op = op /\ r.change = change /\ r.base = base /\ r.meant = meant
  BY NoRequestTyped DEF Requests
<1>3. requests' = [requests EXCEPT ![c] = r] /\ calls' \in Nat
  BY DEF Send, Tallied
<1> HIDE DEF r
<1>4. Meaning(r) /\ Holding(r, rows[r.id])
  BY <1>2 DEF Meaning, Holding
<1> QED
  BY <1>1, <1>3, <1>4, OneRequest

LEMMA Forgotten ==
  ASSUME Inv, NEW t \in Tabs, Forget(t)
  PROVE  ListingOK' /\ FormsOK' /\ Filled'
<1>1. ListingOK'
  BY EmptyTyped DEF Inv, Forget, ListingOK
<1>2. FormsOK'
  BY EmptyTyped DEF Inv, Forget, FormsOK
<1>3. Filled'
  BY EmptyTyped DEF Inv, Forget, FormsOK, Filled
<1> QED
  BY <1>1, <1>2, <1>3

LEMMA OpenedTyped ==
  ASSUME Inv, NEW t \in Tabs,
         NEW new \in [op : {"none", "create", "update"}, id : Ids, base : Row \cup {NoRow}],
         new.op = "update" => new.base # NoRow, Opened(t, new)
  PROVE  FormsOK' /\ Filled'
<1>1. FormsOK'
  BY DEF Inv, Opened, FormsOK
<1>2. Filled'
  BY DEF Inv, Opened, FormsOK, Filled
<1> QED
  BY <1>1, <1>2

LEMMA StoreTyped ==
  ASSUME SessionOK, NEW t \in Tabs, NEW whose \in Someone, Store(t, whose)
  PROVE  storage' \in Someone /\ foreign' \in [Tabs -> BOOLEAN]
  BY DEF Store, SessionOK

LEMMA SignedOutTyped ==
  ASSUME Inv, NEW t \in Tabs, SignedOut(t)
  PROVE  SessionOK' /\ ListingOK' /\ FormsOK' /\ Filled'
<1>1. NoUser \in Someone /\ SessionOK
  BY DEF Someone, Inv
<1>2. storage' \in Someone /\ foreign' \in [Tabs -> BOOLEAN]
  BY <1>1, StoreTyped DEF SignedOut
<1>3. token' \in [Tabs -> Someone] /\ user' \in [Tabs -> Someone]
  BY <1>1 DEF SignedOut, SessionOK
<1>4. me' \in [Tabs -> [sent : BOOLEAN, as : Someone]]
  BY <1>1, EmptyTyped DEF SignedOut, SessionOK
<1>5. SessionOK'
  BY <1>2, <1>3, <1>4 DEF SessionOK
<1> QED
  BY <1>5, Forgotten DEF SignedOut

-----------------------------------------------------------------------------
(***************************************************************************)
(* One step of a tab or of a caller.                                       *)
(***************************************************************************)
LEMMA StoodStill ==
  ASSUME Sound, UNCHANGED studentVars
  PROVE  Sound'
  BY DEF Sound, StudentsOK, studentVars

LEMMA SessionStep ==
  ASSUME Inv, NEW t \in Tabs,
         SignIn(t) \/ Logout(t) \/ Reload(t) \/ Restoring(t)
  PROVE  Inv'
<1>1. Sound'
  BY StoodStill DEF Inv, SignIn, Logout, Reload, Restoring, AskMe, MeAnswered, MeFails
<1>2. Tallied'
  BY FaultCounted DEF Inv, Tallied, SignIn, Logout, Reload, Restoring, AskMe, MeAnswered, MeFails
<1>3. CASE SignIn(t)
  <2>1. PICK u \in world.accounts : Store(t, u) /\ token' = [token EXCEPT ![t] = u]
    BY <1>3 DEF SignIn
  <2>2. u \in Someone
    BY <2>1, WorldFacts DEF Inv, Someone
  <2>3. storage' \in Someone /\ foreign' \in [Tabs -> BOOLEAN]
    BY <2>1, <2>2, StoreTyped DEF Inv
  <2>4. SessionOK'
    BY <1>3, <2>1, <2>2, <2>3 DEF SignIn, Inv, SessionOK
  <2>5. ListingOK' /\ FormsOK' /\ Filled'
    BY <1>3 DEF SignIn, Inv, listing, forms, ListingOK, FormsOK, Filled
  <2> QED
    BY <1>1, <1>2, <2>4, <2>5 DEF Inv
<1>4. CASE Logout(t) \/ MeFails(t)
  <2>1. SignedOut(t)
    BY <1>4 DEF Logout, MeFails
  <2> QED
    BY <1>1, <1>2, <2>1, SignedOutTyped DEF Inv
<1>5. CASE Reload(t)
  <2>1. ListingOK' /\ FormsOK' /\ Filled'
    BY <1>5, Forgotten DEF Reload
  <2>2. token' \in [Tabs -> Someone] /\ user' \in [Tabs -> Someone]
    BY <1>5 DEF Reload, Inv, SessionOK, Someone
  <2>3. me' \in [Tabs -> [sent : BOOLEAN, as : Someone]]
    BY <1>5, EmptyTyped DEF Reload, Inv, SessionOK
  <2>4. SessionOK'
    BY <1>5, <2>2, <2>3 DEF Reload, Inv, SessionOK
  <2> QED
    BY <1>1, <1>2, <2>1, <2>4 DEF Inv
<1>6. CASE AskMe(t)
  <2>1. SessionOK'
    BY <1>6 DEF AskMe, Inv, SessionOK
  <2>2. ListingOK' /\ FormsOK' /\ Filled'
    BY <1>6 DEF AskMe, Inv, listing, forms, ListingOK, FormsOK, Filled
  <2> QED
    BY <1>1, <1>2, <2>1, <2>2 DEF Inv
<1>7. CASE MeAnswered(t)
  <2>1. me[t].as \in Someone
    BY DEF Inv, SessionOK
  <2>2. user' \in [Tabs -> Someone]
    BY <1>7, <2>1 DEF MeAnswered, Inv, SessionOK
  <2>3. me' \in [Tabs -> [sent : BOOLEAN, as : Someone]]
    BY <1>7, EmptyTyped DEF MeAnswered, Inv, SessionOK
  <2>4. foreign' \in [Tabs -> BOOLEAN]
    BY <1>7 DEF MeAnswered, Inv, SessionOK
  <2>5. SessionOK'
    BY <1>7, <2>2, <2>3, <2>4 DEF MeAnswered, Inv, SessionOK
  <2>6. ListingOK' /\ FormsOK' /\ Filled'
    BY <1>7 DEF MeAnswered, Inv, forms, ListingOK, FormsOK, Filled
  <2> QED
    BY <1>1, <1>2, <2>5, <2>6 DEF Inv
<1> QED
  BY <1>3, <1>4, <1>5, <1>6, <1>7 DEF Restoring

LEMMA ListStep ==
  ASSUME Inv, NEW t \in Tabs, ReadList(t) \/ ListArrives(t) \/ ListFails(t)
  PROVE  Inv'
<1>1. Sound' /\ SessionOK' /\ FormsOK' /\ Filled'
  BY StoodStill DEF Inv, ReadList, ListArrives, ListFails, session, forms, SessionOK, FormsOK, Filled
<1>2. Tallied'
  BY FaultCounted DEF Inv, Tallied, ReadList, ListArrives, ListFails
<1>3. CASE ReadList(t)
  <2> DEFINE read == [owner |-> storage,
                      rows |-> [id \in Ids |-> IF Found(storage, id) THEN rows[id] ELSE NoRow]]
  <2>1. read \in [owner : Someone, rows : [Ids -> Row \cup {NoRow}]]
    BY DEF Inv, SessionOK, Sound, StudentsOK
  <2>2. fetch' = [fetch EXCEPT ![t] = read] /\ due' = [due EXCEPT ![t] = FALSE] /\ UNCHANGED list
    BY <1>3 DEF ReadList
  <2> HIDE DEF read
  <2>3. ListingOK'
    BY <2>1, <2>2 DEF Inv, ListingOK
  <2> QED
    BY <1>1, <1>2, <2>3 DEF Inv
<1>4. CASE ListArrives(t)
  <2>1. ListingOK'
    BY <1>4, EmptyTyped DEF ListArrives, Inv, ListingOK
  <2> QED
    BY <1>1, <1>2, <2>1 DEF Inv
<1>5. CASE ListFails(t)
  <2>1. ListingOK'
    BY <1>5 DEF ListFails, Inv, ListingOK
  <2> QED
    BY <1>1, <1>2, <2>1 DEF Inv
<1> QED
  BY <1>3, <1>4, <1>5

LEMMA FormStep ==
  ASSUME Inv, NEW t \in Tabs, BeginEdit(t) \/ BeginAdd(t) \/ CloseForm(t)
  PROVE  Inv'
<1>1. Sound' /\ SessionOK' /\ ListingOK' /\ Tallied'
  BY StoodStill DEF Inv, BeginEdit, BeginAdd, CloseForm, session, listing, SessionOK, ListingOK, Tallied
<1>2. CASE BeginEdit(t)
  <2>1. PICK id \in Ids :
          /\ list[t].rows[id] # NoRow
          /\ Opened(t, [op |-> "update", id |-> id, base |-> list[t].rows[id]])
    BY <1>2 DEF BeginEdit, Shows
  <2>2. list[t].rows[id] \in Row \cup {NoRow}
    BY DEF Inv, ListingOK
  <2>3. FormsOK' /\ Filled'
    BY <2>1, <2>2, OpenedTyped
  <2> QED
    BY <1>1, <2>3 DEF Inv
<1>3. CASE BeginAdd(t)
  <2>1. [NoForm EXCEPT !.op = "create"] = [op |-> "create", id |-> SomeId, base |-> NoRow]
    BY DEF NoForm
  <2>2. Opened(t, [op |-> "create", id |-> SomeId, base |-> NoRow])
    BY <1>3, <2>1 DEF BeginAdd
  <2>3. FormsOK' /\ Filled'
    BY <2>2, OpenedTyped, NoRequestTyped
  <2> QED
    BY <1>1, <2>3 DEF Inv
<1>4. CASE CloseForm(t)
  <2>1. FormsOK' /\ Filled'
    BY <1>4, OpenedTyped, EmptyTyped DEF CloseForm
  <2> QED
    BY <1>1, <2>1 DEF Inv
<1> QED
  BY <1>2, <1>3, <1>4

LEMMA NoteTyped ==
  ASSUME Inv, NEW t \in Tabs, note' = [note EXCEPT ![t] = "none"], UNCHANGED <<form, created, lost>>
  PROVE  FormsOK' /\ Filled'
  BY DEF Inv, FormsOK, Filled

LEMMA SendStep ==
  ASSUME Inv, NEW t \in Tabs, Submit(t) \/ Deactivate(t)
  PROVE  Inv'
<1>1. SessionOK' /\ ListingOK' /\ FormsOK' /\ Filled' /\ rows' = rows
  BY NoteTyped DEF Inv, Submit, Deactivate, session, listing, SessionOK, ListingOK
<1>2. t \in Clients /\ storage \in Someone /\ Sound /\ Tallied
  BY WorldFacts DEF Inv, SessionOK
<1>3. CASE Submit(t)
  <2>1. PICK name \in Names, zone \in Zones :
          LET change == [name |-> name, zone |-> zone] IN
            Send(t, storage, form[t].op, form[t].id, change, form[t].base,
                 IF form[t].op = "create" THEN Columns
                 ELSE {k \in {"name", "zone"} : change[k] # form[t].base[k]})
    BY <1>3 DEF Submit
  <2> DEFINE change == [name |-> name, zone |-> zone]
             meant == IF form[t].op = "create" THEN Columns
                      ELSE {k \in {"name", "zone"} : change[k] # form[t].base[k]}
  <2>2. /\ form[t].op \in {"create", "update"} /\ form[t].id \in Ids
        /\ form[t].base \in Row \cup {NoRow} /\ (form[t].op = "update" => form[t].base # NoRow)
    BY <1>3 DEF Submit, Inv, FormsOK, Filled
  <2>3. change \in Change /\ change.name \in Names /\ meant \in SUBSET Columns
    BY DEF Change, Columns
  <2>4. form[t].op = "update" /\ "name" \notin meant => change.name = form[t].base.name
    BY <2>2
  <2>5. form[t].op = "update" /\ "zone" \notin meant => change.zone = form[t].base.zone
    BY <2>2
  <2>6. Send(t, storage, form[t].op, form[t].id, change, form[t].base, meant)
    BY <2>1
  <2> HIDE DEF change, meant
  <2>7. Sound' /\ calls' \in Nat
    BY <1>1, <1>2, <2>2, <2>3, <2>4, <2>5, <2>6, Sent
  <2>8. Tallied'
    BY <1>2, <1>3, <2>7 DEF Submit, Tallied
  <2> QED
    BY <1>1, <2>7, <2>8 DEF Inv
<1>4. CASE Deactivate(t)
  <2>1. PICK id \in Ids : Send(t, storage, "deactivate", id, Nothing, NoRow, {"active"})
    BY <1>4 DEF Deactivate
  <2>2. Nothing \in Change /\ {"active"} \in SUBSET Columns /\ NoRow \in Row \cup {NoRow}
    BY DEF Nothing, Change, Columns
  <2>3. Sound' /\ calls' \in Nat
    BY <1>1, <1>2, <2>1, <2>2, Sent
  <2>4. Tallied'
    BY <1>2, <1>4, <2>3 DEF Deactivate, Tallied
  <2> QED
    BY <1>1, <2>3, <2>4 DEF Inv
<1> QED
  BY <1>3, <1>4

LEMMA EndStep ==
  ASSUME Inv, NEW t \in Tabs, Answered(t) \/ NotReached(t)
  PROVE  Inv'
<1>1. Sound'
  BY Ended, WorldFacts DEF Inv, Answered, NotReached
<1>2. SessionOK' /\ Tallied'
  BY FaultCounted DEF Inv, Answered, NotReached, session, SessionOK, Tallied
<1>3. ListingOK'
  BY DEF Inv, Answered, NotReached, ListingOK
<1>4. form' \in {form, [form EXCEPT ![t] = NoForm]}
  BY DEF Answered, NotReached
<1>5. form' \in [Tabs -> [op : {"none", "create", "update"}, id : Ids, base : Row \cup {NoRow}]]
  BY <1>4, EmptyTyped DEF Inv, FormsOK
<1>6. Filled'
  BY <1>4, EmptyTyped DEF Inv, FormsOK, Filled
<1>7. note' \in [Tabs -> {"none", "refused", "unreachable"}]
  BY DEF Inv, Answered, NotReached, FormsOK
<1>8. created' = created /\ lost' \in [Tabs -> BOOLEAN]
  BY DEF Inv, Answered, NotReached, FormsOK
<1>9. FormsOK'
  BY <1>5, <1>7, <1>8 DEF Inv, FormsOK
<1> QED
  BY <1>1, <1>2, <1>3, <1>6, <1>9 DEF Inv

LEMMA CallStep ==
  ASSUME Inv, NEW c \in Clients, ServeOne(c) \/ Call(c) \/ CallEnds(c)
  PROVE  Inv'
<1>1. SessionOK' /\ ListingOK' /\ Filled'
  BY DEF Inv, ServeOne, Call, CallEnds, session, listing, forms, SessionOK, ListingOK, Filled
<1>2. FormsOK'
  BY DEF Inv, ServeOne, Call, CallEnds, forms, FormsOK
<1>3. CASE ServeOne(c)
  <2>1. Sound' /\ Tallied'
    BY <1>3, ServeSound DEF ServeOne, Inv, Tallied
  <2> QED
    BY <1>1, <1>2, <2>1 DEF Inv
<1>4. CASE Call(c)
  <2>1. PICK id \in Ids, change \in Change :
          /\ rows[id] # NoRow
          /\ Send(c, rows[id].owner, "update", id, change, NoRow,
                  {k \in {"name", "zone"} : change[k] # "kept"})
    BY <1>4 DEF Call
  <2> DEFINE meant == {k \in {"name", "zone"} : change[k] # "kept"}
  <2>2. rows[id].owner \in Someone /\ Sound /\ Tallied /\ rows' = rows
    BY <1>4, <2>1 DEF Call, Inv, Sound, StudentsOK, Row, Someone
  <2>3. meant \in SUBSET Columns /\ NoRow \in Row \cup {NoRow}
    BY DEF Columns
  <2>4. "name" \notin meant => change.name = "kept"
    OBVIOUS
  <2>5. "zone" \notin meant => change.zone = "kept"
    OBVIOUS
  <2> HIDE DEF meant
  <2>6. Send(c, rows[id].owner, "update", id, change, NoRow, meant)
    BY <2>1 DEF meant
  <2>7. Sound' /\ calls' \in Nat
    BY <2>2, <2>3, <2>4, <2>5, <2>6, Sent
  <2>8. Tallied'
    BY <1>4, <2>2, <2>7 DEF Call, Tallied
  <2> QED
    BY <1>1, <1>2, <2>7, <2>8 DEF Inv
<1>5. CASE CallEnds(c)
  <2>1. Sound' /\ Tallied'
    BY <1>5, Ended DEF CallEnds, Inv, Tallied
  <2> QED
    BY <1>1, <1>2, <2>1 DEF Inv
<1> QED
  BY <1>3, <1>4, <1>5

LEMMA NextInv == ASSUME Inv, [Next]_vars PROVE Inv'
<1>1. ASSUME NEW t \in world.tabs, OfTab(t) PROVE Inv'
  <2>1. t \in Tabs
    BY <1>1, WorldFacts DEF Inv
  <2> QED
    BY <1>1, <2>1, SessionStep, ListStep, FormStep, SendStep, EndStep DEF OfTab
<1>2. ASSUME NEW c \in Clients, ServeOne(c) \/ Call(c) \/ CallEnds(c) PROVE Inv'
  BY <1>2, CallStep
<1>3. CASE UNCHANGED vars
  BY <1>3, StoodStill DEF Inv, vars, studentVars, session, listing, forms,
     SessionOK, ListingOK, FormsOK, Filled, Tallied
<1> QED
  BY <1>1, <1>2, <1>3 DEF Next

LEMMA Invariance == Spec => []Inv
<1>1. Init => Inv
  BY InitInv
<1>2. Inv /\ [Next]_vars => Inv'
  BY NextInv
<1> QED
  BY <1>1, <1>2, PTL DEF Spec

\* Rows, requests and tabs keep their types.
THEOREM AccountTyping == Spec => []TypeOK
<1>1. Inv => TypeOK
  BY DEF Inv, Sound, Tallied, TypeOK
<1> QED
  BY <1>1, Invariance, PTL

\* A column changes that its caller did not mean to change only because the row was
\* overtaken, the form outdated or the zone defaulted.
THEOREM SavesAreMeant == Spec => OnlyMeant
<1>1. ASSUME Inv, NEW c \in Clients, Write(c),
             NEW k \in Differing(rows[requests[c].id], rows'[requests[c].id]) \ requests[c].meant
      PROVE  Excused(requests[c], k)
  <2> DEFINE q == requests[c]
             row == rows[q.id]
  <2>1. q \in Requests /\ q.stage = "compared" /\ Holding(q, row)
    BY <1>1 DEF Inv, Sound, StudentsOK, Write
  <2>2. row \in Row /\ q.copy \in Row /\ q.id \in Ids
    BY <1>1, <2>1 DEF Holding, Requests, Inv, Sound, StudentsOK
  <2>3. rows'[q.id] = Written(row, q.copy, q.writes)
    BY <1>1, <2>2 DEF Write, Inv, Sound, StudentsOK
  <2>4. k \in Columns /\ row[k] # Written(row, q.copy, q.writes)[k]
    BY <1>1, <2>3 DEF Differing
  <2>5. k \in q.writes
    BY <2>2, <2>4 DEF Written, Row, Columns
  <2> QED
    BY <1>1, <2>1, <2>5 DEF Holding
<1>2. Inv /\ [Next]_vars =>
        [\A c \in Clients : LET r == requests[c] IN
           Write(c) =>
             \A k \in Differing(rows[r.id], rows'[r.id]) \ r.meant :
               r.overtaken \/ k \in r.outdated \/ (k = "zone" /\ r.op = "update" /\ r.change.zone = "kept")]_studentVars
  BY <1>1 DEF Excused, Defaulted
<1> QED
  BY <1>2, Invariance, PTL DEF Spec, OnlyMeant

-----------------------------------------------------------------------------
(***************************************************************************)
(* Whose list and whose requests a tab has.                                *)
(***************************************************************************)
SignedOff(t) ==
  user[t] = NoUser =>
    /\ list[t].owner = NoUser /\ fetch[t].owner = NoUser
    /\ requests[t] = NoRequest /\ form[t].op = "none"

AlignedTab(t) ==
  /\ token[t] = NoUser => user[t] = NoUser
  /\ me[t].sent => token[t] # NoUser /\ user[t] = NoUser
  /\ requests[t].stage = "none" => requests[t] = NoRequest
  /\ SignedOff(t)
  /\ user[t] # NoUser /\ ~foreign[t] =>
       /\ storage = user[t]
       /\ \A whose \in {list[t].owner, fetch[t].owner, requests[t].as} : whose \in {user[t], NoUser}

Aligned == \A t \in Tabs : AlignedTab(t)

\* What another tab stores does not disturb a tab, or makes it foreign.
LEMMA OtherAligned ==
  ASSUME Inv, NEW t \in Tabs, NEW whose \in Someone, Store(t, whose), NEW x \in Tabs, x # t,
         AlignedTab(x), token'[x] = token[x], user'[x] = user[x], me'[x] = me[x],
         list'[x] = list[x], fetch'[x] = fetch[x], form'[x] = form[x], requests'[x] = requests[x]
  PROVE  AlignedTab(x)'
<1>1. foreign'[x] = (foreign[x] \/ storage # whose) /\ storage' = whose
  BY DEF Store
<1>2. SignedOff(x)'
  BY DEF AlignedTab, SignedOff
<1>3. ASSUME user[x] # NoUser, ~foreign'[x]
      PROVE  ~foreign[x] /\ storage' = storage
  BY <1>1, <1>3
<1> QED
  BY <1>2, <1>3 DEF AlignedTab

LEMMA SameAligned ==
  ASSUME NEW x \in Tabs, AlignedTab(x), storage' = storage, foreign'[x] = foreign[x],
         token'[x] = token[x], user'[x] = user[x], me'[x] = me[x],
         list'[x] = list[x], fetch'[x] = fetch[x], form'[x] = form[x], requests'[x] = requests[x]
  PROVE  AlignedTab(x)'
  BY DEF AlignedTab, SignedOff

LEMMA SignedOutAligned ==
  ASSUME Inv, Aligned, NEW t \in Tabs, SignedOut(t), requests[t].stage = "none",
         UNCHANGED requests
  PROVE  Aligned'
<1>1. NoUser \in Someone
  BY DEF Someone
<1>2. AlignedTab(t)'
  <2>1. token'[t] = NoUser /\ user'[t] = NoUser /\ me'[t] = NoMe
    BY DEF SignedOut, Inv, SessionOK
  <2>2. list'[t] = NoList /\ fetch'[t] = NoList /\ form'[t] = NoForm
    BY DEF SignedOut, Forget, Inv, ListingOK, FormsOK
  <2>3. requests'[t] = NoRequest
    BY DEF Aligned, AlignedTab
  <2> QED
    BY <2>1, <2>2, <2>3, EmptyTyped DEF AlignedTab, SignedOff
<1>3. ASSUME NEW x \in Tabs, x # t PROVE AlignedTab(x)'
  <2>1. token'[x] = token[x] /\ user'[x] = user[x] /\ me'[x] = me[x]
    BY <1>3 DEF SignedOut, Inv, SessionOK
  <2>2. list'[x] = list[x] /\ fetch'[x] = fetch[x] /\ form'[x] = form[x]
    BY <1>3 DEF SignedOut, Forget, Inv, ListingOK, FormsOK
  <2>3. Store(t, NoUser) /\ requests'[x] = requests[x]
    BY DEF SignedOut
  <2> QED
    BY <1>1, <1>3, <2>1, <2>2, <2>3, OtherAligned DEF Aligned
<1> QED
  BY <1>2, <1>3 DEF Aligned

LEMMA SessionAligned ==
  ASSUME Inv, Aligned, NEW t \in Tabs, SignIn(t) \/ Logout(t) \/ Reload(t) \/ Restoring(t)
  PROVE  Aligned'
<1>0. UNCHANGED requests
  BY DEF SignIn, Logout, Reload, Restoring, AskMe, MeAnswered, MeFails, studentVars
<1>1. AlignedTab(t)
  BY DEF Aligned
<1>2. CASE SignIn(t)
  <2>1. PICK u \in world.accounts : Store(t, u) /\ token' = [token EXCEPT ![t] = u]
    BY <1>2 DEF SignIn
  <2>2. u \in Someone /\ u # NoUser
    BY <2>1, WorldFacts, StudentsAssumption DEF Inv, Someone
  <2>3. UNCHANGED <<user, me, list, fetch, form>>
    BY <1>2 DEF SignIn, listing, forms
  <2>4. user'[t] = NoUser /\ token'[t] = u /\ ~me'[t].sent
    BY <1>1, <1>2, <2>1, <2>3 DEF SignIn, AlignedTab, Inv, SessionOK
  <2>5. AlignedTab(t)'
    BY <1>0, <1>1, <2>2, <2>3, <2>4 DEF AlignedTab, SignedOff
  <2>6. ASSUME NEW x \in Tabs, x # t PROVE AlignedTab(x)'
    <3>1. token'[x] = token[x]
      BY <2>1, <2>6 DEF Inv, SessionOK
    <3> QED
      BY <1>0, <2>1, <2>2, <2>3, <2>6, <3>1, OtherAligned DEF Aligned
  <2> QED
    BY <2>5, <2>6 DEF Aligned
<1>3. CASE Logout(t)
  BY <1>0, <1>3, SignedOutAligned DEF Logout
<1>4. CASE MeFails(t)
  <2>1. requests[t].stage = "none"
    BY <1>1, <1>4, NoRequestTyped DEF MeFails, AlignedTab, SignedOff, NoRequest
  <2> QED
    BY <1>0, <1>4, <2>1, SignedOutAligned DEF MeFails
<1>5. CASE Reload(t)
  <2>1. user'[t] = NoUser /\ me'[t] = NoMe /\ requests'[t] = NoRequest
    BY <1>0, <1>1, <1>5 DEF Reload, Inv, SessionOK, AlignedTab
  <2>2. list'[t] = NoList /\ fetch'[t] = NoList /\ form'[t] = NoForm
    BY <1>5 DEF Reload, Forget, Inv, ListingOK, FormsOK
  <2>3. AlignedTab(t)'
    BY <2>1, <2>2, EmptyTyped DEF AlignedTab, SignedOff
  <2>4. ASSUME NEW x \in Tabs, x # t PROVE AlignedTab(x)'
    <3>1. token'[x] = token[x] /\ user'[x] = user[x] /\ me'[x] = me[x]
      BY <1>5, <2>4 DEF Reload, Inv, SessionOK
    <3>2. list'[x] = list[x] /\ fetch'[x] = fetch[x] /\ form'[x] = form[x]
      BY <1>5, <2>4 DEF Reload, Forget, Inv, ListingOK, FormsOK
    <3>3. storage' = storage /\ foreign'[x] = foreign[x]
      BY <1>5 DEF Reload
    <3> QED
      BY <1>0, <3>1, <3>2, <3>3, SameAligned DEF Aligned
  <2> QED
    BY <2>3, <2>4 DEF Aligned
<1>6. CASE AskMe(t)
  <2>1. UNCHANGED <<storage, foreign, token, user, list, fetch, form>>
    BY <1>6 DEF AskMe, listing, forms
  <2>2. AlignedTab(t)'
    BY <1>0, <1>1, <1>6, <2>1 DEF AskMe, AlignedTab, SignedOff
  <2>3. ASSUME NEW x \in Tabs, x # t PROVE AlignedTab(x)'
    <3>1. me'[x] = me[x]
      BY <1>6, <2>3 DEF AskMe, Inv, SessionOK
    <3> QED
      BY <1>0, <2>1, <3>1, SameAligned DEF Aligned
  <2> QED
    BY <2>2, <2>3 DEF Aligned
<1>7. CASE MeAnswered(t)
  <2>1. UNCHANGED <<storage, token, list, fetch, form>>
    BY <1>7 DEF MeAnswered, forms
  <2>2. user[t] = NoUser /\ token[t] # NoUser /\ me[t].as # NoUser
    BY <1>1, <1>7 DEF MeAnswered, AlignedTab
  <2>3. user'[t] = me[t].as /\ me'[t] = NoMe /\ foreign'[t] = (storage # me[t].as)
    BY <1>7 DEF MeAnswered, Inv, SessionOK
  <2>4. requests[t] = NoRequest /\ list[t].owner = NoUser /\ fetch[t].owner = NoUser
    BY <1>1, <2>2 DEF AlignedTab, SignedOff
  <2>5. requests[t].as = NoUser
    BY <2>4 DEF NoRequest
  <2>6. AlignedTab(t)'
    BY <1>0, <2>1, <2>2, <2>3, <2>4, <2>5, EmptyTyped DEF AlignedTab, SignedOff
  <2>7. ASSUME NEW x \in Tabs, x # t PROVE AlignedTab(x)'
    <3>1. user'[x] = user[x] /\ me'[x] = me[x] /\ foreign'[x] = foreign[x]
      BY <1>7, <2>7 DEF MeAnswered, Inv, SessionOK
    <3> QED
      BY <1>0, <2>1, <3>1, SameAligned DEF Aligned
  <2> QED
    BY <2>6, <2>7 DEF Aligned
<1> QED
  BY <1>2, <1>3, <1>4, <1>5, <1>6, <1>7 DEF Restoring

\* The other steps of a tab leave the tokens and users alone.
LEMMA TabAligned ==
  ASSUME Inv, Aligned, NEW t \in Tabs, UNCHANGED session,
         \A x \in Tabs \ {t} : /\ list'[x] = list[x] /\ fetch'[x] = fetch[x] /\ form'[x] = form[x]
                               /\ requests'[x] = requests[x],
         AlignedTab(t)'
  PROVE  Aligned'
<1>1. ASSUME NEW x \in Tabs, x # t PROVE AlignedTab(x)'
  <2>1. /\ list'[x] = list[x] /\ fetch'[x] = fetch[x] /\ form'[x] = form[x]
        /\ requests'[x] = requests[x]
    BY <1>1
  <2> QED
    BY <2>1, SameAligned DEF Aligned, session
<1> QED
  BY <1>1 DEF Aligned

LEMMA ListAligned ==
  ASSUME Inv, Aligned, NEW t \in Tabs, ReadList(t) \/ ListArrives(t) \/ ListFails(t)
  PROVE  Aligned'
<1>1. UNCHANGED session /\ UNCHANGED requests /\ UNCHANGED form
  BY DEF ReadList, ListArrives, ListFails, studentVars, forms
<1>2. \A x \in Tabs \ {t} : list'[x] = list[x] /\ fetch'[x] = fetch[x]
  BY DEF ReadList, ListArrives, ListFails, Inv, ListingOK
<1>3. AlignedTab(t)
  BY DEF Aligned
<1>4. CASE ReadList(t)
  <2>1. user[t] # NoUser /\ fetch'[t].owner = storage /\ list'[t] = list[t]
    BY <1>4 DEF ReadList, Inv, ListingOK
  <2>2. AlignedTab(t)'
    BY <1>1, <1>3, <2>1 DEF AlignedTab, SignedOff, session
  <2> QED
    BY <1>1, <1>2, <2>2, TabAligned
<1>5. CASE ListArrives(t)
  <2>1. fetch[t].owner # NoUser /\ list'[t] = fetch[t] /\ fetch'[t] = NoList
    BY <1>5 DEF ListArrives, Inv, ListingOK
  <2>2. AlignedTab(t)'
    BY <1>1, <1>3, <2>1, EmptyTyped DEF AlignedTab, SignedOff, session
  <2> QED
    BY <1>1, <1>2, <2>2, TabAligned
<1>6. CASE ListFails(t)
  <2>1. list' = list /\ fetch' = fetch
    BY <1>6 DEF ListFails
  <2>2. AlignedTab(t)'
    BY <1>1, <1>3, <2>1 DEF AlignedTab, SignedOff, session
  <2> QED
    BY <1>1, <1>2, <2>2, TabAligned
<1> QED
  BY <1>4, <1>5, <1>6

LEMMA FormAligned ==
  ASSUME Inv, Aligned, NEW t \in Tabs, BeginEdit(t) \/ BeginAdd(t) \/ CloseForm(t)
  PROVE  Aligned'
<1>1. UNCHANGED session /\ UNCHANGED requests /\ UNCHANGED list /\ UNCHANGED fetch
  BY DEF BeginEdit, BeginAdd, CloseForm, studentVars, listing
<1>2. \A x \in Tabs \ {t} : form'[x] = form[x]
  BY DEF BeginEdit, BeginAdd, CloseForm, Opened, Inv, FormsOK
<1>3. user[t] # NoUser \/ form'[t].op = "none"
  BY EmptyTyped DEF BeginEdit, BeginAdd, CloseForm, Shows, Opened, Inv, FormsOK
<1>4. AlignedTab(t)
  BY DEF Aligned
<1>5. AlignedTab(t)'
  BY <1>1, <1>3, <1>4 DEF AlignedTab, SignedOff, session
<1> QED
  BY <1>1, <1>2, <1>5, TabAligned

LEMMA SendAligned ==
  ASSUME Inv, Aligned, NEW t \in Tabs, Submit(t) \/ Deactivate(t)
  PROVE  Aligned'
<1>1. UNCHANGED session /\ UNCHANGED list /\ UNCHANGED fetch /\ UNCHANGED form
  BY DEF Submit, Deactivate, listing
<1>2. AlignedTab(t)
  BY DEF Aligned
<1>3. user[t] # NoUser
  BY <1>2 DEF Submit, Deactivate, Shows, AlignedTab, SignedOff
<1>4. PICK op, id, change, base, meant : Send(t, storage, op, id, change, base, meant)
  BY DEF Submit, Deactivate
<1> DEFINE r == [NoRequest EXCEPT !.stage = "sent", !.as = storage, !.op = op, !.id = id,
                                  !.change = change, !.base = base, !.meant = meant]
<1>5. requests' = [requests EXCEPT ![t] = r] /\ requests \in [Clients -> Requests] /\ t \in Clients
  BY <1>4, AccountsAssumption DEF Send, Inv, Sound, StudentsOK
<1>6. r.stage = "sent" /\ r.as = storage
  BY DEF NoRequest
<1> HIDE DEF r
<1>7. requests'[t] = r /\ \A x \in Tabs \ {t} : requests'[x] = requests[x]
  BY <1>5, AccountsAssumption
<1>8. AlignedTab(t)'
  BY <1>1, <1>2, <1>3, <1>6, <1>7 DEF AlignedTab, SignedOff, session
<1> QED
  BY <1>1, <1>7, <1>8, TabAligned

LEMMA EndAligned ==
  ASSUME Inv, Aligned, NEW t \in Tabs, Answered(t) \/ NotReached(t)
  PROVE  Aligned'
<1>1. UNCHANGED session /\ UNCHANGED list /\ UNCHANGED fetch
  BY DEF Answered, NotReached
<1>2. form' \in {form, [form EXCEPT ![t] = NoForm]} /\ requests' = [requests EXCEPT ![t] = NoRequest]
  BY DEF Answered, NotReached
<1>3. requests'[t] = NoRequest /\ \A x \in Tabs \ {t} : requests'[x] = requests[x]
  BY <1>2, AccountsAssumption DEF Inv, Sound, StudentsOK
<1>4. \A x \in Tabs \ {t} : form'[x] = form[x]
  BY <1>2 DEF Inv, FormsOK
<1>5. form'[t].op \in {form[t].op, "none"}
  BY <1>2, EmptyTyped DEF Inv, FormsOK
<1>6. AlignedTab(t) /\ NoRequest.as = NoUser
  BY DEF Aligned, NoRequest
<1>7. AlignedTab(t)'
  BY <1>1, <1>3, <1>5, <1>6 DEF AlignedTab, SignedOff, session
<1> QED
  BY <1>1, <1>3, <1>4, <1>7, TabAligned

\* The service moves a request on and leaves its sender alone.
LEMMA Served ==
  ASSUME Sound, NEW c \in Clients, Serve(c), NEW d \in Clients
  PROVE  /\ requests'[d].as = requests[d].as /\ requests'[d].op = requests[d].op
         /\ requests[d].stage = "none" => c # d
         /\ requests'[d].stage = "none" => requests[d].stage = "none"
         /\ c # d => requests'[d].stage = requests[d].stage /\ requests'[d].ok = requests[d].ok
<1>1. requests \in [Clients -> Requests]
  BY DEF Sound, StudentsOK
<1>2. requests[c].stage # "none"
  BY DEF Serve, Read, Compare, Write, Create
<1>3. ASSUME NEW ok \in BOOLEAN, Answer(c, ok)
      PROVE  /\ requests'[d].as = requests[d].as /\ requests'[d].op = requests[d].op
             /\ requests'[d].stage = IF d = c THEN "answered" ELSE requests[d].stage
             /\ c # d => requests'[d].ok = requests[d].ok
  BY <1>1, <1>3 DEF Answer, Requests
<1>4. CASE Read(c)
  <2>1. CASE ~Found(requests[c].as, requests[c].id)
    BY <1>2, <1>3, <1>4, <2>1 DEF Read
  <2>2. CASE Found(requests[c].as, requests[c].id)
    <3>1. PICK copy, outdated :
            requests' = [requests EXCEPT ![c] =
              [requests[c] EXCEPT !.stage = "read", !.copy = copy, !.outdated = outdated]]
      BY <1>4, <2>2 DEF Read
    <3> QED
      BY <1>1, <1>2, <3>1 DEF Requests
  <2> QED
    BY <2>1, <2>2
<1>5. CASE Compare(c)
  <2>1. CASE Differing(requests[c].copy, rows[requests[c].id]) = {}
    BY <1>2, <1>3, <1>5, <2>1 DEF Compare
  <2>2. CASE Differing(requests[c].copy, rows[requests[c].id]) # {}
    <3>1. PICK writes : requests' = [requests EXCEPT ![c].stage = "compared", ![c].writes = writes]
      BY <1>5, <2>2 DEF Compare
    <3> QED
      BY <1>1, <1>2, <3>1 DEF Requests
  <2> QED
    BY <2>1, <2>2
<1>6. CASE Write(c)
  <2>1. Overtaking(c) \in [Clients -> Requests]
    <3>1. ASSUME NEW x \in Clients PROVE Overtaking(c)[x] \in Requests
      <4> DEFINE p == requests[x]
                 r == [p EXCEPT !.overtaken = @ \/ (x # c /\ p.stage = "read" /\ p.id = requests[c].id)]
      <4>1. p \in Requests
        BY <1>1
      <4>2. r \in Requests
        BY <4>1 DEF Requests
      <4> QED
        BY <4>2 DEF Overtaking
    <3>2. Overtaking(c) = [x \in Clients |-> Overtaking(c)[x]]
      BY DEF Overtaking
    <3> QED
      BY <3>1, <3>2
  <2>2. /\ Overtaking(c)[d].as = requests[d].as /\ Overtaking(c)[d].op = requests[d].op
        /\ Overtaking(c)[d].stage = requests[d].stage /\ Overtaking(c)[d].ok = requests[d].ok
    BY <1>1 DEF Overtaking, Requests
  <2>3. requests' = [Overtaking(c) EXCEPT ![c].stage = "answered", ![c].ok = TRUE]
    BY <1>6 DEF Write
  <2> QED
    BY <1>2, <2>1, <2>2, <2>3 DEF Requests
<1>7. CASE Create(c)
  BY <1>2, <1>3, <1>7 DEF Create
<1> QED
  BY <1>4, <1>5, <1>6, <1>7 DEF Serve

LEMMA ServeKeepsIdle ==
  ASSUME Sound, NEW c \in Clients, Serve(c), NEW d \in Clients, requests[d] = NoRequest
  PROVE  requests'[d] = NoRequest
<1>1. requests \in [Clients -> Requests] /\ NoRequest.stage = "none"
  BY DEF Sound, StudentsOK, NoRequest
<1>2. c # d
  BY <1>1, Served
<1>3. CASE Read(c) \/ Compare(c) \/ Create(c)
  BY <1>1, <1>2, <1>3 DEF Read, Compare, Create, Answer
<1>4. CASE Write(c)
  <2>1. requests'[d] = Overtaking(c)[d]
    BY <1>2, <1>4 DEF Write, Overtaking
  <2>2. Overtaking(c)[d] = [requests[d] EXCEPT !.overtaken =
          requests[d].overtaken
            \/ (d # c /\ requests[d].stage = "read" /\ requests[d].id = requests[c].id)]
    BY DEF Overtaking
  <2>3. (requests[d].overtaken
          \/ (d # c /\ requests[d].stage = "read" /\ requests[d].id = requests[c].id)) = FALSE
    BY DEF NoRequest
  <2>4. Overtaking(c)[d] = [NoRequest EXCEPT !.overtaken = FALSE]
    BY <2>2, <2>3, Zenon
  <2> QED
    BY <2>1, <2>4 DEF NoRequest
<1> QED
  BY <1>3, <1>4 DEF Serve

LEMMA CallAligned ==
  ASSUME Inv, Aligned, NEW c \in Clients, ServeOne(c) \/ Call(c) \/ CallEnds(c)
  PROVE  Aligned'
<1>1. UNCHANGED <<session, list, fetch, form>>
  BY DEF ServeOne, Call, CallEnds, listing, forms
<1>2. ASSUME NEW t \in Tabs
      PROVE  /\ requests[t] = NoRequest => requests'[t] = NoRequest
             /\ requests'[t].as = requests[t].as
             /\ requests'[t].stage = "none" => requests[t].stage = "none"
  <2>1. CASE ServeOne(c)
    BY <2>1, Served, ServeKeepsIdle, AccountsAssumption DEF ServeOne, Inv
  <2>2. CASE Call(c) \/ CallEnds(c)
    <3>1. c # t /\ t \in Clients
      BY <2>2, WorldFacts DEF Inv, Call, CallEnds
    <3>2. requests'[t] = requests[t]
      BY <2>2, <3>1 DEF Call, CallEnds, Send, Inv, Sound, StudentsOK
    <3> QED
      BY <3>2
  <2> QED
    BY <2>1, <2>2
<1>3. ASSUME NEW t \in Tabs PROVE AlignedTab(t)'
  <2>1. AlignedTab(t)
    BY DEF Aligned
  <2> QED
    BY <1>1, <1>2, <2>1 DEF AlignedTab, SignedOff, session
<1> QED
  BY <1>3 DEF Aligned

LEMMA NextAligned == ASSUME Inv, Aligned, [Next]_vars PROVE Aligned'
<1>1. ASSUME NEW t \in world.tabs, OfTab(t) PROVE Aligned'
  <2>1. t \in Tabs
    BY <1>1, WorldFacts DEF Inv
  <2> QED
    BY <1>1, <2>1, SessionAligned, ListAligned, FormAligned, SendAligned, EndAligned DEF OfTab
<1>2. CASE UNCHANGED vars
  BY <1>2 DEF vars, studentVars, session, listing, forms, Aligned, AlignedTab, SignedOff
<1> QED
  BY <1>1, <1>2, CallAligned DEF Next

\* A tab lists and saves as the user it names, unless another tab has signed in or out.
THEOREM TabsActAsShown == Spec => []ActsAsShown
<1>1. ASSUME Init
      PROVE  Aligned
  <2>1. ASSUME NEW t \in Tabs PROVE AlignedTab(t)
    <3>1. /\ user[t] = NoUser /\ me[t] = NoMe /\ requests[t] = NoRequest
          /\ list[t] = NoList /\ fetch[t] = NoList /\ form[t] = NoForm
      BY <1>1, AccountsAssumption DEF Init
    <3> QED
      BY <3>1, EmptyTyped DEF AlignedTab, SignedOff
  <2> QED
    BY <2>1 DEF Aligned
<1>2. Inv /\ Aligned /\ [Next]_vars => Aligned'
  BY NextAligned
<1>3. Aligned => ActsAsShown
  BY DEF Aligned, AlignedTab, ActsAsShown
<1> QED
  BY <1>1, <1>2, <1>3, Invariance, PTL DEF Spec

-----------------------------------------------------------------------------
(***************************************************************************)
(* What a form has created.                                                *)
(***************************************************************************)
Made(t) ==
  /\ requests[t].stage = "answered" /\ requests[t].op = "create" /\ requests[t].ok

CountedTab(t) ==
  /\ requests[t].stage # "none" =>
       /\ note[t] = "none" /\ user[t] # NoUser
       /\ requests[t].op = "create" <=> form[t].op = "create"
  /\ ~lost[t] /\ created[t] # 0 => created[t] = 1 /\ (form[t].op # "create" \/ Made(t))

Counted == \A t \in Tabs : CountedTab(t)

LEMMA SameCounted ==
  ASSUME NEW x \in Tabs, CountedTab(x), requests'[x] = requests[x], user'[x] = user[x],
         form'[x] = form[x], note'[x] = note[x], created'[x] = created[x], lost'[x] = lost[x]
  PROVE  CountedTab(x)'
  BY DEF CountedTab, Made

\* A tab without a request has its form opened, closed or forgotten.
LEMMA FreshCounted ==
  ASSUME FormsOK, Counted, NEW t \in Tabs, NEW new, requests[t].stage = "none", UNCHANGED requests,
         \A x \in Tabs \ {t} : user'[x] = user[x],
         form' = [form EXCEPT ![t] = new], note' = [note EXCEPT ![t] = "none"],
         created' = [created EXCEPT ![t] = 0], lost' = [lost EXCEPT ![t] = FALSE]
  PROVE  Counted'
<1>1. CountedTab(t)'
  BY DEF CountedTab, FormsOK
<1>2. ASSUME NEW x \in Tabs, x # t PROVE CountedTab(x)'
  <2>1. /\ user'[x] = user[x] /\ form'[x] = form[x] /\ note'[x] = note[x]
        /\ created'[x] = created[x] /\ lost'[x] = lost[x] /\ requests'[x] = requests[x]
    BY <1>2 DEF FormsOK
  <2> QED
    BY <2>1, SameCounted DEF Counted
<1> QED
  BY <1>1, <1>2 DEF Counted

LEMMA SessionCounted ==
  ASSUME Inv, Aligned, Counted, NEW t \in Tabs, SignIn(t) \/ Logout(t) \/ Reload(t) \/ Restoring(t)
  PROVE  Counted'
<1>0. UNCHANGED requests /\ NoRequest.stage = "none"
  BY DEF SignIn, Logout, Reload, Restoring, AskMe, MeAnswered, MeFails, studentVars, NoRequest
<1>1. user[t] = NoUser => requests[t].stage = "none"
  BY DEF Counted, CountedTab
<1>2. CASE SignIn(t) \/ AskMe(t)
  BY <1>0, <1>2 DEF SignIn, AskMe, forms, Counted, CountedTab, Made
<1>3. CASE Logout(t) \/ MeFails(t) \/ Reload(t)
  <2>1. requests[t].stage = "none"
    BY <1>1, <1>3 DEF Logout, MeFails, Reload, Aligned, AlignedTab
  <2>2. user' = [user EXCEPT ![t] = NoUser] /\ Forget(t)
    BY <1>3 DEF Logout, MeFails, SignedOut, Reload
  <2> QED
    BY <1>0, <2>1, <2>2, FreshCounted DEF Inv, SessionOK, Forget
<1>4. CASE MeAnswered(t)
  <2>1. user' = [user EXCEPT ![t] = me[t].as] /\ me[t].as # NoUser /\ UNCHANGED forms
    BY <1>4 DEF MeAnswered
  <2>2. \A x \in Tabs : user[x] # NoUser => user'[x] # NoUser
    BY <2>1 DEF Inv, SessionOK
  <2> QED
    BY <1>0, <2>1, <2>2 DEF forms, Counted, CountedTab, Made
<1> QED
  BY <1>2, <1>3, <1>4 DEF Restoring

LEMMA FormCounted ==
  ASSUME Inv, Counted, NEW t \in Tabs, BeginEdit(t) \/ BeginAdd(t) \/ CloseForm(t)
  PROVE  Counted'
<1>1. PICK new : Opened(t, new)
  BY DEF BeginEdit, BeginAdd, CloseForm
<1>2. requests[t].stage = "none" /\ UNCHANGED requests /\ UNCHANGED user
  BY DEF BeginEdit, BeginAdd, CloseForm, Busy, studentVars, session
<1> QED
  BY <1>1, <1>2, FreshCounted DEF Opened, Inv

LEMMA SendCounted ==
  ASSUME Inv, Aligned, Counted, NEW t \in Tabs, Submit(t) \/ Deactivate(t)
  PROVE  Counted'
<1>1. UNCHANGED <<user, form, created, lost>> /\ note' = [note EXCEPT ![t] = "none"]
  BY DEF Submit, Deactivate, session
<1>2. user[t] # NoUser
  BY DEF Submit, Deactivate, Shows, Aligned, AlignedTab, SignedOff
<1>3. PICK op, id, change, base, meant :
        Send(t, storage, op, id, change, base, meant) /\ (op = "create" <=> form[t].op = "create")
  <2>1. CASE Submit(t)
    <3>1. PICK id, change, base, meant : Send(t, storage, form[t].op, id, change, base, meant)
      BY <2>1 DEF Submit
    <3> QED
      BY <3>1
  <2>2. CASE Deactivate(t)
    <3>1. PICK id, change, base, meant : Send(t, storage, "deactivate", id, change, base, meant)
      BY <2>2 DEF Deactivate
    <3>2. form[t].op # "create"
      BY <2>2 DEF Deactivate, Shows
    <3> QED
      BY <3>1, <3>2
  <2> QED
    BY <2>1, <2>2
<1> DEFINE r == [NoRequest EXCEPT !.stage = "sent", !.as = storage, !.op = op, !.id = id,
                                  !.change = change, !.base = base, !.meant = meant]
<1>4. requests' = [requests EXCEPT ![t] = r] /\ requests \in [Clients -> Requests] /\ t \in Clients
      /\ requests[t].stage = "none"
  BY <1>3, AccountsAssumption DEF Send, Inv, Sound, StudentsOK
<1>5. r.stage = "sent" /\ r.op = op
  BY DEF NoRequest
<1> HIDE DEF r
<1>6. requests'[t] = r /\ note'[t] = "none" /\ CountedTab(t)
  BY <1>1, <1>4 DEF Inv, FormsOK, Counted
<1>7. ~Made(t)
  BY <1>4 DEF Made
<1>8. CountedTab(t)'
  BY <1>1, <1>2, <1>3, <1>5, <1>6, <1>7 DEF CountedTab
<1>9. ASSUME NEW x \in Tabs, x # t PROVE CountedTab(x)'
  <2>1. requests'[x] = requests[x] /\ note'[x] = note[x]
    BY <1>1, <1>4, <1>9, AccountsAssumption DEF Inv, FormsOK
  <2> QED
    BY <1>1, <2>1, SameCounted DEF Counted
<1> QED
  BY <1>8, <1>9 DEF Counted

LEMMA EndCounted ==
  ASSUME Inv, Counted, NEW t \in Tabs, Answered(t) \/ NotReached(t)
  PROVE  Counted'
<1>1. /\ requests \in [Clients -> Requests] /\ t \in Clients
      /\ requests' = [requests EXCEPT ![t] = NoRequest] /\ UNCHANGED <<user, created>>
  BY AccountsAssumption DEF Answered, NotReached, Inv, Sound, StudentsOK, session
<1>2. /\ form' \in {form, [form EXCEPT ![t] = NoForm]}
      /\ note' \in {[note EXCEPT ![t] = n] : n \in {"none", "refused", "unreachable"}}
      /\ \A x \in Tabs \ {t} : lost'[x] = lost[x]
  <2>1. CASE Answered(t)
    <3>1. note' \in {[note EXCEPT ![t] = "none"], [note EXCEPT ![t] = "refused"]}
      BY <2>1 DEF Answered
    <3> QED
      BY <2>1, <3>1 DEF Answered
  <2>2. CASE NotReached(t)
    BY <2>2 DEF NotReached, Inv, FormsOK
  <2> QED
    BY <2>1, <2>2
<1>3. requests'[t] = NoRequest /\ NoRequest.stage = "none"
  BY <1>1 DEF NoRequest
<1>4. CountedTab(t)
  BY DEF Counted
<1>5. CountedTab(t)'
  <2>1. CASE Answered(t)
    <3>1. Made(t) => form'[t] = NoForm
      <4>1. ASSUME Made(t) PROVE form' = [form EXCEPT ![t] = NoForm]
        BY <2>1, <4>1 DEF Answered, Made
      <4> QED
        BY <4>1 DEF Inv, FormsOK
    <3>2. form'[t].op \in {form[t].op, "none"} /\ lost' = lost
      BY <1>2, <2>1, EmptyTyped DEF Answered, Inv, FormsOK
    <3> QED
      BY <1>1, <1>3, <1>4, <3>1, <3>2, EmptyTyped DEF CountedTab
  <2>2. CASE NotReached(t)
    <3>1. form' = form /\ lost'[t] = (lost[t] \/ requests[t].stage = "answered")
      BY <2>2 DEF NotReached, Inv, FormsOK
    <3> QED
      BY <1>1, <1>3, <1>4, <3>1 DEF CountedTab, Made
  <2> QED
    BY <2>1, <2>2
<1>6. ASSUME NEW x \in Tabs, x # t PROVE CountedTab(x)'
  <2>1. requests'[x] = requests[x] /\ form'[x] = form[x] /\ note'[x] = note[x] /\ lost'[x] = lost[x]
    BY <1>1, <1>2, <1>6, AccountsAssumption DEF Inv, FormsOK
  <2> QED
    BY <1>1, <2>1, SameCounted DEF Counted
<1> QED
  BY <1>5, <1>6 DEF Counted

LEMMA CallCounted ==
  ASSUME Inv, Counted, NEW c \in Clients, ServeOne(c) \/ Call(c) \/ CallEnds(c)
  PROVE  Counted'
<1>1. UNCHANGED <<user, form, note, lost>>
  BY DEF ServeOne, Call, CallEnds, session, forms
<1>2. CASE Call(c) \/ CallEnds(c)
  <2>1. ASSUME NEW t \in Tabs PROVE CountedTab(t)'
    <3>1. c # t /\ t \in Clients /\ created' = created
      BY <1>2, WorldFacts DEF Inv, Call, CallEnds, forms
    <3>2. requests'[t] = requests[t]
      BY <1>2, <3>1 DEF Call, CallEnds, Send, Inv, Sound, StudentsOK
    <3> QED
      BY <1>1, <3>1, <3>2, SameCounted DEF Counted
  <2> QED
    BY <2>1 DEF Counted
<1>3. CASE ServeOne(c)
  <2>1. ASSUME NEW t \in Tabs PROVE CountedTab(t)'
    <3>1. CountedTab(t) /\ t \in Clients /\ Serve(c) /\ Sound /\ created[t] \in Nat
      BY <1>3, AccountsAssumption DEF Counted, ServeOne, Inv, FormsOK
    <3>2. /\ requests'[t].op = requests[t].op
          /\ requests'[t].stage # "none" => requests[t].stage # "none"
      BY <3>1, Served
    <3>3. requests[c].stage # "none"
      BY <3>1 DEF Serve, Read, Compare, Write, Create
    <3>4. requests[c].stage # "answered"
      BY <3>1 DEF Serve, Read, Compare, Write, Create
    <3>5. CASE c = t /\ requests[c].op = "create" /\ rows' # rows
      <4>1. created'[t] = created[t] + 1
        BY <1>3, <3>5 DEF ServeOne, Inv, FormsOK
      <4>2. form[t].op = "create" /\ ~Made(t)
        BY <3>1, <3>3, <3>4, <3>5 DEF CountedTab, Made
      <4>3. ~lost[t] => created[t] = 0
        BY <3>1, <4>2 DEF CountedTab
      <4>4. Create(c)
        BY <3>1, <3>5 DEF Serve, Read, Compare, Write, Sound, Holding
      <4>5. Answer(c, TRUE)
        BY <3>5, <4>4 DEF Create
      <4>6. requests'[t].stage = "answered" /\ requests'[t].ok
        BY <3>1, <3>5, <4>5 DEF Answer, Sound, StudentsOK, Requests
      <4> QED
        BY <1>1, <3>1, <3>2, <3>5, <4>1, <4>2, <4>3, <4>6 DEF CountedTab, Made
    <3>6. CASE ~(c = t /\ requests[c].op = "create" /\ rows' # rows)
      <4>1. created'[t] = created[t]
        BY <1>3, <3>6 DEF ServeOne, Inv, FormsOK
      <4>2. Made(t) => Made(t)'
        BY <3>1, <3>2, <3>4, Served DEF Made
      <4> QED
        BY <1>1, <3>1, <3>2, <4>1, <4>2 DEF CountedTab
    <3> QED
      BY <3>5, <3>6
  <2> QED
    BY <2>1 DEF Counted
<1> QED
  BY <1>2, <1>3

LEMMA NextCounted == ASSUME Inv, Aligned, Counted, [Next]_vars PROVE Counted'
<1>1. ASSUME NEW t \in world.tabs, OfTab(t) PROVE Counted'
  <2>1. t \in Tabs
    BY <1>1, WorldFacts DEF Inv
  <2>2. CASE ReadList(t) \/ ListArrives(t) \/ ListFails(t)
    BY <2>2 DEF ReadList, ListArrives, ListFails, studentVars, session, forms, Counted, CountedTab, Made
  <2> QED
    BY <1>1, <2>1, <2>2, SessionCounted, FormCounted, SendCounted, EndCounted DEF OfTab
<1>2. CASE UNCHANGED vars
  BY <1>2 DEF vars, studentVars, session, forms, Counted, CountedTab, Made
<1> QED
  BY <1>1, <1>2, CallCounted DEF Next

\* However a form is saved, refused and saved again, it creates one student, unless an
\* answer was lost.
THEOREM OneStudentPerForm == Spec => []OneProfile
<1>1. ASSUME Init PROVE Aligned /\ Counted
  <2>1. ASSUME NEW t \in Tabs PROVE AlignedTab(t) /\ CountedTab(t)
    <3>1. /\ user[t] = NoUser /\ me[t] = NoMe /\ requests[t] = NoRequest
          /\ list[t] = NoList /\ fetch[t] = NoList /\ form[t] = NoForm /\ created[t] = 0
      BY <1>1, AccountsAssumption DEF Init
    <3>2. requests[t].stage = "none"
      BY <3>1 DEF NoRequest
    <3> QED
      BY <3>1, <3>2, EmptyTyped DEF AlignedTab, SignedOff, CountedTab
  <2> QED
    BY <2>1 DEF Aligned, Counted
<1>2. Init => Aligned /\ Counted
  BY <1>1
<1>3. Inv /\ Aligned /\ Counted /\ [Next]_vars => Aligned' /\ Counted'
  BY NextAligned, NextCounted
<1>4. Counted => OneProfile
  BY DEF Counted, CountedTab, Made, OneProfile
<1> QED
  BY <1>2, <1>3, <1>4, Invariance, PTL DEF Spec
=============================================================================

--------------------------- MODULE RewardsProofs ---------------------------
(***************************************************************************)
(* Theorems about Rewards for every set of students, clients, evaluators,  *)
(* assignments and zones, and every bound.                                 *)
(***************************************************************************)
EXTENDS Rewards, PracticeRulesProofs, TLAPS

USE DEF weeks

(***************************************************************************)
(* Dates are natural numbers.                                              *)
(***************************************************************************)
LEMMA LocalDateNat ==
  ASSUME NEW t \in Nat, NEW z \in Nat
  PROVE  LocalDate(t, z) \in Nat
  BY TicksPerDayAssumption, SMT DEF LocalDate

LEMMA DatesOfRows ==
  ASSUME TypeOK, NEW s
  PROVE  /\ LiveDates(s) \subseteq Nat
         /\ AwardDates(s) \subseteq Nat
  BY DEF TypeOK, Row, LiveDates, PracticeDates, AwardDates

LEMMA DerivedRow ==
  ASSUME NEW p, NEW t \in Nat, NEW z \in Zones,
         p \in [id : SessionIds, student : Students, item : Items \cup {NoItem},
                seconds : Durations, at : Nat, zone : Zones, date : Nat]
  PROVE  /\ Derived(p) \in Row
         /\ Derived(p).student = p.student
         /\ Derived(p).date \in Nat
<1>1. p.at \in Nat /\ p.zone \in Nat
  BY RewardsAssumption
<1>2. LocalDate(p.at, p.zone) \in Nat
  BY <1>1, LocalDateNat
<1> QED
  BY <1>2 DEF Derived, Row

\* A deleted item is taken out of the sessions, which stay what they are otherwise.
LEMMA DeletedRows ==
  ASSUME TypeOK, NEW items, ItemsDeleted(items)
  PROVE  /\ sessions' \in SUBSET Row /\ ledger' \in SUBSET Row
         /\ sessions' \subseteq ledger' /\ ledger \subseteq ledger' /\ done' \subseteq done
         /\ \A p \in sessions' : \E q \in sessions : p.student = q.student /\ p.date = q.date
<1> DEFINE Kept(p) == IF p.item \in items THEN [p EXCEPT !.item = NoItem] ELSE p
<1>1. /\ sessions' = {Kept(p) : p \in sessions}
      /\ ledger' = ledger \cup sessions' /\ done' = done \ items
  BY DEF ItemsDeleted
<1>2. ASSUME NEW p \in sessions
      PROVE  Kept(p) \in Row /\ Kept(p).student = p.student /\ Kept(p).date = p.date
  BY DEF TypeOK, Row
<1> HIDE DEF Kept
<1>3. sessions' \in SUBSET Row
  BY <1>1, <1>2
<1> QED
  BY <1>1, <1>2, <1>3 DEF TypeOK

\* What is done to assignments leaves all else alone, but for the items of sessions.
LEMMA PlanningFacts ==
  ASSUME TypeOK, NEW a \in Assignments, Planning(a)
  PROVE  /\ UNCHANGED <<now, zone, active, awards, unlocked, requests, awarding, evaluations,
                       faults, everDone, notices>>
         /\ ledger \subseteq ledger' /\ done' \subseteq done
         /\ sessions' \subseteq sessions \cup ledger'
         /\ everPlanned \subseteq everPlanned' /\ planned' \subseteq planned \cup everPlanned'
         /\ ledger' = ledger \/ \E items : ItemsDeleted(items)
<1>1. CASE Plan(a)
  BY <1>1 DEF Plan
<1>2. CASE Discard(a)
  <2>1. ItemsDeleted(a.items)
    BY <1>2 DEF Discard
  <2>2. ledger \subseteq ledger' /\ done' \subseteq done /\ sessions' \subseteq ledger'
    BY <2>1, DeletedRows
  <2> QED
    BY <1>2, <2>1, <2>2 DEF Discard
<1>3. CASE Issue(a) \/ Cancel(a)
  BY <1>3 DEF Issue, Cancel
<1>4. ASSUME NEW b \in Assignments, Edit(a, b)
      PROVE  /\ UNCHANGED <<now, zone, active, awards, unlocked, requests, awarding,
                            evaluations, faults, everDone, notices>>
             /\ ledger \subseteq ledger' /\ done' \subseteq done /\ sessions' \subseteq ledger'
             /\ everPlanned \subseteq everPlanned' /\ planned' \subseteq planned \cup everPlanned'
             /\ \E items : ItemsDeleted(items)
  <2>1. ItemsDeleted(a.items \ b.items)
    BY <1>4 DEF Edit
  <2>2. ledger \subseteq ledger' /\ done' \subseteq done /\ sessions' \subseteq ledger'
    BY <2>1, DeletedRows
  <2> QED
    BY <1>4, <2>1, <2>2 DEF Edit
<1> QED
  BY <1>1, <1>2, <1>3, <1>4 DEF Planning

LEMMA PlanningPractised ==
  ASSUME TypeOK, sessions \subseteq ledger, NEW a \in Assignments, Planning(a)
  PROVE  Practised' = Practised /\ sessions' \subseteq ledger'
<1>1. CASE ledger' = ledger
  BY <1>1, PlanningFacts DEF Practised
<1>2. ASSUME NEW items, ItemsDeleted(items)
      PROVE  Practised' = Practised
  <2>1. \A p \in sessions' : <<p.student, p.date>> \in Practised
    BY <1>2, DeletedRows DEF Practised
  <2>2. ledger' = ledger \cup sessions'
    BY <1>2 DEF ItemsDeleted
  <2> QED
    BY <2>1, <2>2 DEF Practised
<1> QED
  BY <1>1, <1>2, PlanningFacts

-----------------------------------------------------------------------------
(***************************************************************************)
(* Every reachable state is well typed.                                    *)
(***************************************************************************)
LEMMA InitType == Init => TypeOK
  BY RewardsAssumption DEF Init, TypeOK, Request, Evaluation

LEMMA WriteRowType ==
  ASSUME TypeOK, NEW c \in Clients, NEW old, NEW p \in Row,
         NEW type \in EventType, WriteRow(c, old, p, type)
  PROVE  TypeOK'
<1>1. Committed(type, p.student, p.date) \in Request
  BY DEF Committed, Request, Row
<1> QED
  BY <1>1 DEF TypeOK, WriteRow

LEMMA NextType == TypeOK /\ [Next]_vars => TypeOK'
<1> SUFFICES ASSUME TypeOK, [Next]_vars PROVE TypeOK'
  OBVIOUS
<1>1. ASSUME NEW c \in Clients, Create(c) PROVE TypeOK'
  <2>1. PICK s \in active, i \in Items \cup {NoItem}, secs \in Durations, at \in 0..now :
          WriteRow(c, {},
            Derived([id |-> NewId, student |-> s, item |-> i, seconds |-> secs,
                     at |-> at, zone |-> zone[s], date |-> 0]),
            "practice-session.created")
    BY <1>1 DEF Create
  <2>0. NewId \in SessionIds
    BY <1>1 DEF Create, NewId
  <2> DEFINE p == [id |-> NewId, student |-> s, item |-> i, seconds |-> secs,
                   at |-> at, zone |-> zone[s], date |-> 0]
  <2>2. at \in Nat /\ s \in Students /\ zone[s] \in Zones
    BY DEF TypeOK
  <2>3. Derived(p) \in Row
    BY <2>0, <2>2, DerivedRow
  <2> QED
    BY <2>1, <2>3, WriteRowType DEF EventType
<1>2. ASSUME NEW c \in Clients, Correct(c) PROVE TypeOK'
  <2>1. PICK q \in sessions, i \in Items \cup {NoItem}, secs \in Durations, at \in 0..now :
          WriteRow(c, {q}, Derived([q EXCEPT !.item = i, !.seconds = secs, !.at = at]),
                   "practice-session.corrected")
    BY <1>2 DEF Correct
  <2> DEFINE p == [q EXCEPT !.item = i, !.seconds = secs, !.at = at]
  <2>2. at \in Nat /\ q \in Row
    BY DEF TypeOK
  <2>3. p \in Row /\ q.zone \in Zones
    BY <2>2 DEF Row
  <2>4. Derived(p) \in Row
    BY <2>2, <2>3, DerivedRow DEF Row
  <2> QED
    BY <2>1, <2>4, WriteRowType DEF EventType
<1>3. ASSUME NEW c \in Clients, Remove(c) PROVE TypeOK'
  <2>1. PICK p \in sessions :
          /\ sessions' = sessions \ {p}
          /\ requests' = [requests EXCEPT
               ![c] = Committed("practice-session.deleted", p.student, p.date)]
    BY <1>3 DEF Remove
  <2>2. Committed("practice-session.deleted", p.student, p.date) \in Request
    BY DEF Committed, Request, TypeOK, Row, EventType
  <2> QED
    BY <1>3, <2>1, <2>2 DEF Remove, TypeOK
<1>4. ASSUME NEW c \in Clients, NEW a \in planned, NEW i \in Items,
             Complete(c, a, i) \/ Reopen(c, a, i)
      PROVE  TypeOK'
  <2>1. a.student \in Students
    BY RewardsAssumption DEF TypeOK
  <2>2. Committed("assignment-progress.changed", a.student, 0) \in Request
    BY <2>1 DEF Committed, Request, EventType
  <2> QED
    BY <1>4, <2>2 DEF Complete, Reopen, TypeOK
<1>5. ASSUME NEW c \in Clients, NEW e \in Evaluators, Publish(c, e) PROVE TypeOK'
  <2>1. /\ requests[c].student \in Students
        /\ requests[c].type \in EventType
        /\ requests[c].date \in Nat
    BY <1>5 DEF Publish, TypeOK, Request, Idle
  <2>2. Started(requests[c].student) \in Evaluation
    BY <2>1 DEF Started, Evaluation
  <2>3. AwardTask(requests[c]) \subseteq Students \X Nat
    BY <2>1 DEF AwardTask
  <2>4. Idle \in Request
    BY DEF Request
  <2> QED
    BY <1>5, <2>2, <2>3, <2>4 DEF Publish, TypeOK, tables
<1>6. ASSUME NEW c \in Clients, NEW a \in Assignments, RepairAwards(c, a) PROVE TypeOK'
  <2>1. a.student \in Students
    BY RewardsAssumption
  <2>2. Repaired(a.student, LiveDates(a.student) \ AwardDates(a.student),
                 LiveDates(a.student)) \in Request
    BY <2>1, DatesOfRows DEF Repaired, Request
  <2> QED
    BY <1>6, <2>2 DEF RepairAwards, TypeOK, tables
<1>7. ASSUME NEW c \in Clients, ReadSummary(c) PROVE TypeOK'
  <2>1. requests[c].student \in Students /\ requests[c].own \subseteq Nat
    BY <1>7 DEF ReadSummary, TypeOK, Request, Idle
  <2>2. Idle \in Request
    BY DEF Request
  <2> QED
    BY <1>7, <2>1, <2>2 DEF ReadSummary, TypeOK
<1>8. ASSUME NEW c \in Clients, SummaryFails(c) PROVE TypeOK'
  BY <1>8 DEF SummaryFails, Fault, TypeOK, tables, Request
<1>9. ASSUME NEW t \in awarding, Award(t) \/ AwardFails(t) PROVE TypeOK'
  BY <1>9 DEF Award, AwardFails, Fault, TypeOK, tables
<1>10. ASSUME NEW e \in Evaluators, NEW s \in Students, ListForOwner(s, e) PROVE TypeOK'
  BY <1>10 DEF ListForOwner, Started, Evaluation, TypeOK, tables
<1>11. ASSUME NEW e \in Evaluators, ReadFacts(e) PROVE TypeOK'
  <2> DEFINE s == evaluations[e].student
  <2>1. s \in Students
    BY <1>11 DEF ReadFacts, TypeOK, Evaluation, Idle
  <2>2. QualifiedNow(s) \subseteq AchievementKey
    BY DEF QualifiedNow, QualifiedKeys
  <2>3. Qualified(s, QualifiedNow(s)) \in Evaluation /\ Idle \in Evaluation
    BY <2>1, <2>2 DEF Qualified, Evaluation
  <2> QED
    BY <1>11, <2>3 DEF ReadFacts, TypeOK, tables
<1>12. ASSUME NEW e \in Evaluators, InsertUnlocks(e) PROVE TypeOK'
  <2> DEFINE s == evaluations[e].student
             new == {k \in evaluations[e].keys : <<s, k>> \notin unlocked}
  <2>1. s \in Students /\ evaluations[e].keys \subseteq AchievementKey
    BY <1>12 DEF InsertUnlocks, TypeOK, Evaluation, Idle
  <2>2. Inserted(s, new) \in Evaluation
    BY <2>1 DEF Inserted, Evaluation
  <2>3. new \subseteq AchievementKey
    BY <2>1
  <2>4. {<<s, k>> : k \in new} \subseteq Students \X AchievementKey
    <3> HIDE DEF s, new
    <3> QED BY <2>1, <2>3
  <2> QED
    BY <1>12, <2>2, <2>4 DEF InsertUnlocks, TypeOK
<1>13. ASSUME NEW e \in Evaluators, Announce(e) PROVE TypeOK'
  <2>1. notices' \in [Students \X AchievementKey -> Nat]
    BY <1>13 DEF Announce, TypeOK
  <2> QED
    BY <1>13, <2>1 DEF Announce, TypeOK, tables, Evaluation
<1>14. ASSUME NEW e \in Evaluators, EvaluationFails(e) PROVE TypeOK'
  BY <1>14 DEF EvaluationFails, Fault, TypeOK, tables, Evaluation
<1>15. ASSUME NEW a \in Assignments, Planning(a) PROVE TypeOK'
  <2>1. /\ sessions' \in SUBSET Row /\ ledger' \in SUBSET Row /\ done' \in SUBSET Items
        /\ planned' \in SUBSET Assignments /\ drafts' \in SUBSET planned'
        /\ cancelled' \in SUBSET Assignments /\ everPlanned' \in SUBSET Assignments
    <3>1. CASE Plan(a)
      BY <3>1 DEF Plan, TypeOK
    <3>2. CASE Issue(a) \/ Cancel(a)
      BY <3>2 DEF Issue, Cancel, TypeOK
    <3>3. CASE Discard(a)
      BY <3>3, DeletedRows DEF Discard, TypeOK
    <3>4. ASSUME NEW b \in Assignments, Edit(a, b)
          PROVE  /\ sessions' \in SUBSET Row /\ ledger' \in SUBSET Row
                 /\ done' \in SUBSET Items
                 /\ planned' \in SUBSET Assignments /\ drafts' \in SUBSET planned'
                 /\ cancelled' \in SUBSET Assignments /\ everPlanned' \in SUBSET Assignments
      BY <3>4, DeletedRows DEF Edit, TypeOK
    <3> QED
      BY <1>15, <3>1, <3>2, <3>3, <3>4 DEF Planning
  <2> QED
    BY <1>15, <2>1, PlanningFacts DEF TypeOK
<1>16. ASSUME NEW s \in Students, Deactivate(s) PROVE TypeOK'
  BY <1>16 DEF Deactivate, TypeOK
<1>17. ASSUME NEW s \in Students, NEW z \in Zones, SetZone(s, z) PROVE TypeOK'
  BY <1>17 DEF SetZone, TypeOK
<1>18. CASE Tick
  BY <1>18 DEF Tick, TypeOK
<1>19. CASE Crash
  BY <1>19 DEF Crash, Fault, TypeOK, tables, Request, Evaluation
<1>20. CASE UNCHANGED vars
  BY <1>20 DEF TypeOK, vars, tables
<1> QED
  BY <1>1, <1>2, <1>3, <1>4, <1>5, <1>6, <1>7, <1>8, <1>9, <1>10, <1>11, <1>12,
     <1>13, <1>14, <1>15, <1>16, <1>17, <1>18, <1>19, <1>20 DEF Next

\* Type correctness: the tables, the requests and the tasks keep their types.
THEOREM Typing == Spec => []TypeOK
  BY InitType, NextType, PTL DEF Spec

-----------------------------------------------------------------------------
(***************************************************************************)
(* XP is justified.  Practised only grows, so it is enough to look, for    *)
(* each action, at what newly becomes payable.                             *)
(***************************************************************************)
LEMMA PractisedGrows ==
  ASSUME ledger \subseteq ledger'
  PROVE  Practised \subseteq Practised'
  BY DEF Practised

LEMMA LiveIsPractised ==
  ASSUME sessions \subseteq ledger, NEW s, NEW d \in LiveDates(s)
  PROVE  <<s, d>> \in Practised
  BY DEF LiveDates, PracticeDates, Practised

LEMMA InitPayable == Init => PayableIsPractised
  BY DEF Init, PayableIsPractised, AwardsJustified, Idle

LEMMA WriteRowPayable ==
  ASSUME TypeOK, PayableIsPractised, NEW c \in Clients, NEW old, NEW p \in Row,
         NEW type \in EventType, WriteRow(c, old, p, type)
  PROVE  PayableIsPractised'
<1>1. ledger' = ledger \cup {p}
  BY DEF WriteRow
<1>2. Practised \subseteq Practised'
  BY <1>1, PractisedGrows
<1>3. <<p.student, p.date>> \in Practised'
  BY <1>1 DEF Practised
<1>4. requests' = [requests EXCEPT ![c] = Committed(type, p.student, p.date)]
  BY DEF WriteRow
<1>5. AwardTask(Committed(type, p.student, p.date)) \subseteq Practised'
  BY <1>3 DEF AwardTask, Committed
<1>6. (sessions \subseteq ledger)' /\ AwardsJustified' /\ awarding' \subseteq Practised'
  BY <1>1, <1>2 DEF WriteRow, PayableIsPractised, AwardsJustified
<1>7. ASSUME NEW b \in Clients
      PROVE  /\ requests'[b].step = "committed" => AwardTask(requests'[b]) \subseteq Practised'
             /\ requests'[b].step = "repaired" =>
                  \A d \in requests'[b].own : <<requests'[b].student, d>> \in Practised'
  <2>1. CASE b = c
    BY <1>4, <1>5, <2>1 DEF TypeOK, Committed
  <2>2. CASE b # c
    BY <1>2, <1>4, <2>2 DEF TypeOK, PayableIsPractised
  <2> QED
    BY <2>1, <2>2
<1> QED
  BY <1>6, <1>7 DEF PayableIsPractised

\* A step that leaves the tables of sessions and awards and the inserts in
\* flight alone, and makes no request payable, keeps the invariant.
LEMMA QuietPayable ==
  ASSUME PayableIsPractised, sessions' \subseteq sessions, ledger' = ledger,
         awards' = awards, awarding' \subseteq awarding,
         \A c \in Clients : \/ requests'[c] = requests[c]
                            \/ requests'[c] = Idle
                            \/ /\ requests'[c].step = "committed"
                               /\ AwardTask(requests'[c]) = {}
  PROVE  PayableIsPractised'
<1>1. Practised' = Practised
  BY DEF Practised
<1>2. ASSUME NEW c \in Clients
      PROVE  /\ requests'[c].step = "committed" => AwardTask(requests'[c]) \subseteq Practised
             /\ requests'[c].step = "repaired" =>
                  \A d \in requests'[c].own : <<requests'[c].student, d>> \in Practised
  BY DEF PayableIsPractised, Idle
<1> QED
  BY <1>1, <1>2 DEF PayableIsPractised, AwardsJustified

LEMMA NextPayable == TypeOK /\ PayableIsPractised /\ [Next]_vars => PayableIsPractised'
<1> SUFFICES ASSUME TypeOK, PayableIsPractised, [Next]_vars PROVE PayableIsPractised'
  OBVIOUS
<1>1. ASSUME NEW c \in Clients, Create(c) PROVE PayableIsPractised'
  <2>1. PICK s \in active, i \in Items \cup {NoItem}, secs \in Durations, at \in 0..now :
          WriteRow(c, {},
            Derived([id |-> NewId, student |-> s, item |-> i, seconds |-> secs,
                     at |-> at, zone |-> zone[s], date |-> 0]),
            "practice-session.created")
    BY <1>1 DEF Create
  <2>0. NewId \in SessionIds
    BY <1>1 DEF Create, NewId
  <2> DEFINE p == [id |-> NewId, student |-> s, item |-> i, seconds |-> secs,
                   at |-> at, zone |-> zone[s], date |-> 0]
  <2>2. at \in Nat /\ s \in Students /\ zone[s] \in Zones
    BY DEF TypeOK
  <2>3. Derived(p) \in Row
    BY <2>0, <2>2, DerivedRow
  <2> QED
    BY <2>1, <2>3, WriteRowPayable DEF EventType
<1>2. ASSUME NEW c \in Clients, Correct(c) PROVE PayableIsPractised'
  <2>1. PICK q \in sessions, i \in Items \cup {NoItem}, secs \in Durations, at \in 0..now :
          WriteRow(c, {q}, Derived([q EXCEPT !.item = i, !.seconds = secs, !.at = at]),
                   "practice-session.corrected")
    BY <1>2 DEF Correct
  <2> DEFINE p == [q EXCEPT !.item = i, !.seconds = secs, !.at = at]
  <2>2. at \in Nat /\ q \in Row
    BY DEF TypeOK
  <2>3. p \in Row /\ q.zone \in Zones
    BY <2>2 DEF Row
  <2>4. Derived(p) \in Row
    BY <2>2, <2>3, DerivedRow DEF Row
  <2> QED
    BY <2>1, <2>4, WriteRowPayable DEF EventType
<1>3. ASSUME NEW c \in Clients, Remove(c) PROVE PayableIsPractised'
  BY <1>3, QuietPayable DEF Remove, TypeOK, Committed, AwardTask
<1>4. ASSUME NEW c \in Clients, NEW a \in planned, NEW i \in Items,
             Complete(c, a, i) \/ Reopen(c, a, i)
      PROVE  PayableIsPractised'
  BY <1>4, QuietPayable DEF Complete, Reopen, TypeOK, Committed, AwardTask
<1>5. ASSUME NEW c \in Clients, NEW e \in Evaluators, Publish(c, e)
      PROVE  PayableIsPractised'
  <2>1. awarding' \subseteq Practised
    BY <1>5 DEF Publish, PayableIsPractised
  <2>2. Practised' = Practised
    BY <1>5 DEF Publish, Practised
  <2>3. \A b \in Clients : requests'[b] = requests[b] \/ requests'[b] = Idle
    BY <1>5 DEF Publish, TypeOK
  <2> QED
    BY <1>5, <2>1, <2>2, <2>3
    DEF Publish, tables, PayableIsPractised, AwardsJustified, Idle
<1>6. ASSUME NEW c \in Clients, NEW a \in Assignments, RepairAwards(c, a)
      PROVE  PayableIsPractised'
  <2>1. \A d \in LiveDates(a.student) : <<a.student, d>> \in Practised
    BY LiveIsPractised DEF PayableIsPractised
  <2>2. /\ requests'[c].step = "repaired"
        /\ requests'[c].student = a.student
        /\ requests'[c].own \subseteq LiveDates(a.student)
    BY <1>6 DEF RepairAwards, Repaired, TypeOK
  <2>3. \A b \in Clients : b # c => requests'[b] = requests[b]
    BY <1>6 DEF RepairAwards, TypeOK
  <2>4. /\ Practised' = Practised
        /\ sessions' = sessions /\ ledger' = ledger
        /\ awards' = awards /\ awarding' = awarding
    BY <1>6 DEF RepairAwards, tables, Practised
  <2>5. ASSUME NEW b \in Clients
        PROVE  /\ requests'[b].step = "committed" => AwardTask(requests'[b]) \subseteq Practised
               /\ requests'[b].step = "repaired" =>
                    \A d \in requests'[b].own : <<requests'[b].student, d>> \in Practised
    BY <2>1, <2>2, <2>3 DEF PayableIsPractised
  <2> QED
    BY <2>4, <2>5 DEF PayableIsPractised, AwardsJustified
<1>7. ASSUME NEW c \in Clients, ReadSummary(c) PROVE PayableIsPractised'
  <2>1. awards' \subseteq Practised
    BY <1>7 DEF ReadSummary, PayableIsPractised, AwardsJustified
  <2>2. Practised' = Practised
    BY <1>7 DEF ReadSummary, Practised
  <2>3. \A b \in Clients : requests'[b] = requests[b] \/ requests'[b] = Idle
    BY <1>7 DEF ReadSummary, TypeOK
  <2> QED
    BY <1>7, <2>1, <2>2, <2>3 DEF ReadSummary, PayableIsPractised, AwardsJustified, Idle
<1>8. ASSUME NEW c \in Clients, SummaryFails(c) PROVE PayableIsPractised'
  BY <1>8, QuietPayable DEF SummaryFails, tables, TypeOK
<1>9. ASSUME NEW t \in awarding, Award(t) PROVE PayableIsPractised'
  <2>1. t \in Practised /\ Practised' = Practised
    BY <1>9 DEF Award, PayableIsPractised, Practised
  <2> QED
    BY <1>9, <2>1 DEF Award, PayableIsPractised, AwardsJustified
<1>10. ASSUME NEW t \in awarding, AwardFails(t) PROVE PayableIsPractised'
  BY <1>10, QuietPayable DEF AwardFails, tables
<1>11. ASSUME NEW e \in Evaluators, \/ \E s \in Students : ListForOwner(s, e)
                                    \/ ReadFacts(e) \/ InsertUnlocks(e)
                                    \/ Announce(e) \/ EvaluationFails(e)
       PROVE  PayableIsPractised'
  BY <1>11, QuietPayable
  DEF ListForOwner, ReadFacts, InsertUnlocks, Announce, EvaluationFails, tables
<1>12. ASSUME NEW a \in Assignments, Planning(a) PROVE PayableIsPractised'
  <2>1. Practised' = Practised /\ sessions' \subseteq ledger'
    BY <1>12, PlanningPractised DEF PayableIsPractised
  <2> QED
    BY <1>12, <2>1, PlanningFacts DEF PayableIsPractised, AwardsJustified
<1>13. ASSUME NEW s \in Students, Deactivate(s) \/ \E z \in Zones : SetZone(s, z)
       PROVE  PayableIsPractised'
  BY <1>13, QuietPayable DEF Deactivate, SetZone
<1>14. CASE Tick
  BY <1>14, QuietPayable DEF Tick
<1>15. CASE Crash
  BY <1>15, QuietPayable DEF Crash, tables
<1>16. CASE UNCHANGED vars
  BY <1>16, QuietPayable DEF vars, tables
<1> QED
  BY <1>1, <1>2, <1>3, <1>4, <1>5, <1>6, <1>7, <1>8, <1>9, <1>10, <1>11, <1>12,
     <1>13, <1>14, <1>15, <1>16 DEF Next

\* XP is paid only for dates on which the student had a session, for any number
\* of overlapping requests, summaries, corrections, deletions and crashes.
THEOREM AwardsAreJustified == Spec => []AwardsJustified
<1>1. Init => PayableIsPractised
  BY InitPayable
<1>2. PayableIsPractised => AwardsJustified
  BY DEF PayableIsPractised
<1> QED
  BY <1>1, <1>2, NextPayable, Typing, PTL DEF Spec

-----------------------------------------------------------------------------
(***************************************************************************)
(* An unlock is announced at most once.  Only InsertUnlocks makes an       *)
(* evaluation the owner of rows, and only of rows that were not there.     *)
(***************************************************************************)
LEMMA InitNotices == Init => NoticesOwned
  BY DEF Init, NoticesOwned, NoticeOnce, Idle

\* A step that touches neither table and starts or ends evaluations without
\* making one the owner of new rows keeps the invariant.
LEMMA QuietNotices ==
  ASSUME NoticesOwned, unlocked' = unlocked, notices' = notices,
         \A e \in Evaluators : \/ evaluations'[e] = evaluations[e]
                               \/ evaluations'[e].step # "inserted"
  PROVE  NoticesOwned'
  BY DEF NoticesOwned, NoticeOnce

LEMMA InsertNotices ==
  ASSUME TypeOK, NoticesOwned, NEW e \in Evaluators, InsertUnlocks(e)
  PROVE  NoticesOwned'
<1> DEFINE s == evaluations[e].student
           new == {k \in evaluations[e].keys : <<s, k>> \notin unlocked}
<1>1. /\ unlocked' = unlocked \cup {<<s, k>> : k \in new}
      /\ evaluations' = [evaluations EXCEPT ![e] = Inserted(s, new)]
      /\ notices' = notices
  BY DEF InsertUnlocks
<1>2. s \in Students /\ new \subseteq AchievementKey
  BY DEF InsertUnlocks, TypeOK, Evaluation, Idle
<1>3. \A k \in new : <<s, k>> \notin unlocked
  OBVIOUS
<1> HIDE DEF s, new
<1>4. /\ evaluations'[e].step = "inserted"
      /\ evaluations'[e].student = s /\ evaluations'[e].keys = new
      /\ \A f \in Evaluators : f # e => evaluations'[f] = evaluations[f]
  BY <1>1 DEF TypeOK, Inserted
<1>5. \A k \in new : <<s, k>> \in unlocked' /\ notices[<<s, k>>] = 0
  <2> TAKE k \in new
  <2>1. <<s, k>> \in Students \X AchievementKey
    BY <1>2
  <2>2. notices[<<s, k>>] # 1 /\ notices[<<s, k>>] <= 1 /\ notices[<<s, k>>] \in Nat
    BY <1>3, <2>1 DEF NoticesOwned, NoticeOnce, TypeOK
  <2> QED
    BY <1>1, <2>2
<1>6. NoticeOnce'
  BY <1>1 DEF NoticesOwned, NoticeOnce
<1>7. ASSUME NEW f \in Evaluators, evaluations'[f].step = "inserted",
             NEW k \in evaluations'[f].keys
      PROVE  /\ <<evaluations'[f].student, k>> \in unlocked'
             /\ notices'[<<evaluations'[f].student, k>>] = 0
  BY <1>1, <1>4, <1>5, <1>7 DEF NoticesOwned
<1>8. ASSUME NEW f \in Evaluators, f # e, evaluations[f].step = "inserted",
             evaluations[f].student = s
      PROVE  evaluations[f].keys \cap new = {}
  BY <1>3, <1>8 DEF NoticesOwned
<1>9. ASSUME NEW f \in Evaluators, NEW g \in Evaluators, f # g,
             evaluations'[f].step = "inserted", evaluations'[g].step = "inserted",
             evaluations'[f].student = evaluations'[g].student
      PROVE  evaluations'[f].keys \cap evaluations'[g].keys = {}
  <2>1. CASE f = e
    BY <1>4, <1>8, <1>9, <2>1
  <2>2. CASE g = e
    BY <1>4, <1>8, <1>9, <2>2
  <2>3. CASE f # e /\ g # e
    BY <1>4, <1>9, <2>3 DEF NoticesOwned
  <2> QED
    BY <2>1, <2>2, <2>3
<1> QED
  BY <1>6, <1>7, <1>9 DEF NoticesOwned

LEMMA AnnounceNotices ==
  ASSUME TypeOK, NoticesOwned, NEW e \in Evaluators, Announce(e)
  PROVE  NoticesOwned'
<1> DEFINE s == evaluations[e].student
           ks == evaluations[e].keys
<1>1. /\ evaluations[e].step = "inserted"
      /\ unlocked' = unlocked
      /\ \A f \in Evaluators : f # e => evaluations'[f] = evaluations[f]
      /\ evaluations'[e].step # "inserted"
  BY DEF Announce, tables, TypeOK, Idle
<1>2. \A n \in Students \X AchievementKey :
        notices'[n] = IF n[1] = s /\ n[2] \in ks THEN notices[n] + 1 ELSE notices[n]
  BY DEF Announce, TypeOK
<1>3. ASSUME NEW n \in Students \X AchievementKey
      PROVE  /\ notices'[n] <= 1
             /\ notices'[n] = 1 => n \in unlocked'
  <2>1. CASE n[1] = s /\ n[2] \in ks
    <3>1. n = <<s, n[2]>>
      BY <2>1
    <3>2. n \in unlocked /\ notices[n] = 0
      BY <1>1, <2>1, <3>1 DEF NoticesOwned
    <3> QED
      BY <1>1, <1>2, <2>1, <3>2
  <2>2. CASE ~ (n[1] = s /\ n[2] \in ks)
    BY <1>1, <1>2, <2>2 DEF NoticesOwned, NoticeOnce
  <2> QED
    BY <2>1, <2>2
<1>4. ASSUME NEW f \in Evaluators, evaluations'[f].step = "inserted",
             NEW k \in evaluations'[f].keys
      PROVE  /\ <<evaluations'[f].student, k>> \in unlocked'
             /\ notices'[<<evaluations'[f].student, k>>] = 0
  <2>1. f # e /\ evaluations'[f] = evaluations[f]
    BY <1>1, <1>4
  <2> DEFINE t == evaluations[f].student
  <2>2. t \in Students /\ k \in AchievementKey
    BY <1>4, <2>1 DEF TypeOK, Evaluation, Idle
  <2>3. <<t, k>> \in unlocked /\ notices[<<t, k>>] = 0
    BY <1>4, <2>1 DEF NoticesOwned
  <2>4. ~ (t = s /\ k \in ks)
    BY <1>1, <1>4, <2>1 DEF NoticesOwned
  <2>5. notices'[<<t, k>>] = notices[<<t, k>>]
    BY <1>2, <2>2, <2>4
  <2> QED
    BY <1>1, <2>1, <2>3, <2>5
<1>5. ASSUME NEW f \in Evaluators, NEW g \in Evaluators, f # g,
             evaluations'[f].step = "inserted", evaluations'[g].step = "inserted",
             evaluations'[f].student = evaluations'[g].student
      PROVE  evaluations'[f].keys \cap evaluations'[g].keys = {}
  BY <1>1, <1>5 DEF NoticesOwned
<1> QED
  BY <1>3, <1>4, <1>5 DEF NoticesOwned, NoticeOnce

LEMMA NextNotices == TypeOK /\ NoticesOwned /\ [Next]_vars => NoticesOwned'
<1> SUFFICES ASSUME TypeOK, NoticesOwned, [Next]_vars PROVE NoticesOwned'
  OBVIOUS
<1>1. ASSUME NEW c \in Clients, Create(c) \/ Correct(c) PROVE NoticesOwned'
  <2>1. CASE Create(c)
    BY <2>1, QuietNotices DEF Create, WriteRow
  <2>2. CASE Correct(c)
    <3>1. unlocked' = unlocked /\ notices' = notices /\ evaluations' = evaluations
      BY <2>2 DEF Correct, WriteRow
    <3> QED
      BY <3>1, QuietNotices
  <2> QED
    BY <1>1, <2>1, <2>2
<1>2. ASSUME NEW c \in Clients, Remove(c) \/ ReadSummary(c) \/ SummaryFails(c)
      PROVE  NoticesOwned'
  BY <1>2, QuietNotices DEF Remove, ReadSummary, SummaryFails, tables
<1>3. ASSUME NEW c \in Clients, NEW a \in planned, NEW i \in Items,
             Complete(c, a, i) \/ Reopen(c, a, i)
      PROVE  NoticesOwned'
  BY <1>3, QuietNotices DEF Complete, Reopen
<1>4. ASSUME NEW c \in Clients, NEW a \in Assignments, RepairAwards(c, a)
      PROVE  NoticesOwned'
  BY <1>4, QuietNotices DEF RepairAwards, tables
<1>5. ASSUME NEW c \in Clients, NEW e \in Evaluators, Publish(c, e) PROVE NoticesOwned'
  BY <1>5, QuietNotices DEF Publish, tables, Started, TypeOK
<1>6. ASSUME NEW t \in awarding, Award(t) \/ AwardFails(t) PROVE NoticesOwned'
  BY <1>6, QuietNotices DEF Award, AwardFails, tables
<1>7. ASSUME NEW e \in Evaluators, NEW s \in Students, ListForOwner(s, e)
      PROVE  NoticesOwned'
  BY <1>7, QuietNotices DEF ListForOwner, tables, Started, TypeOK
<1>8. ASSUME NEW e \in Evaluators, ReadFacts(e) \/ EvaluationFails(e)
      PROVE  NoticesOwned'
  BY <1>8, QuietNotices DEF ReadFacts, EvaluationFails, tables, Qualified, Idle, TypeOK
<1>9. ASSUME NEW e \in Evaluators, InsertUnlocks(e) PROVE NoticesOwned'
  BY <1>9, InsertNotices
<1>10. ASSUME NEW e \in Evaluators, Announce(e) PROVE NoticesOwned'
  BY <1>10, AnnounceNotices
<1>11. ASSUME NEW a \in Assignments, Planning(a) PROVE NoticesOwned'
  BY <1>11, QuietNotices, PlanningFacts
<1>12. ASSUME NEW s \in Students, Deactivate(s) \/ \E z \in Zones : SetZone(s, z)
       PROVE  NoticesOwned'
  BY <1>12, QuietNotices DEF Deactivate, SetZone
<1>13. CASE Tick
  BY <1>13, QuietNotices DEF Tick
<1>14. CASE Crash
  BY <1>14, QuietNotices DEF Crash, tables, Idle
<1>15. CASE UNCHANGED vars
  BY <1>15, QuietNotices DEF vars, tables
<1> QED
  BY <1>1, <1>2, <1>3, <1>4, <1>5, <1>6, <1>7, <1>8, <1>9, <1>10, <1>11, <1>12,
     <1>13, <1>14, <1>15 DEF Next

\* However evaluations overlap and wherever the process stops, an unlock is
\* announced at most once and only after its row is in the database.
THEOREM AnnouncedAtMostOnce == Spec => []NoticeOnce
<1>1. Init => NoticesOwned
  BY InitNotices
<1>2. NoticesOwned => NoticeOnce
  BY DEF NoticesOwned
<1> QED
  BY <1>1, <1>2, NextNotices, Typing, PTL DEF Spec

-----------------------------------------------------------------------------
(***************************************************************************)
(* A summary repairs what events lost: awards only grow, so the dates that *)
(* were live when its INSERT ran stay covered until it reads the total.    *)
(***************************************************************************)
LEMMA QuietReconciles ==
  ASSUME SummaryReconciles, awards \subseteq awards',
         \A c \in Clients : \/ requests'[c] = requests[c]
                            \/ requests'[c].step # "repaired"
  PROVE  SummaryReconciles'
<1>1. \A s : AwardDates(s) \subseteq AwardDates(s)'
  BY DEF AwardDates
<1> QED
  BY <1>1 DEF SummaryReconciles

LEMMA NextReconciles == TypeOK /\ SummaryReconciles /\ [Next]_vars => SummaryReconciles'
<1> SUFFICES ASSUME TypeOK, SummaryReconciles, [Next]_vars PROVE SummaryReconciles'
  OBVIOUS
<1>1. ASSUME NEW c \in Clients, NEW a \in Assignments, RepairAwards(c, a)
      PROVE  SummaryReconciles'
  <2>1. /\ requests'[c].student = a.student
        /\ requests'[c].live = LiveDates(a.student)
        /\ requests'[c].own = LiveDates(a.student) \ AwardDates(a.student)
        /\ \A b \in Clients : b # c => requests'[b] = requests[b]
    BY <1>1 DEF RepairAwards, Repaired, TypeOK
  <2>2. \A s : AwardDates(s)' = AwardDates(s)
    BY <1>1 DEF RepairAwards, tables, AwardDates
  <2>3. LiveDates(a.student)
          \subseteq (LiveDates(a.student) \ AwardDates(a.student)) \cup AwardDates(a.student)
    OBVIOUS
  <2>4. awards' = awards
    BY <1>1 DEF RepairAwards, tables
  <2>5. requests'[c].live \subseteq
          requests'[c].own \cup {aw[2] : aw \in {x \in awards' : x[1] = requests'[c].student}}
    BY <2>1, <2>3, <2>4 DEF AwardDates
  <2>6. ASSUME NEW b \in Clients, b # c, requests'[b].step = "repaired"
        PROVE  requests'[b].live \subseteq
          requests'[b].own \cup {aw[2] : aw \in {x \in awards' : x[1] = requests'[b].student}}
    BY <2>1, <2>4, <2>6 DEF SummaryReconciles, AwardDates
  <2> QED
    BY <2>5, <2>6 DEF SummaryReconciles, AwardDates
<1>2. ASSUME NEW c \in Clients, Create(c) \/ Correct(c) PROVE SummaryReconciles'
  <2>1. PICK p, type, old : WriteRow(c, old, p, type)
    BY <1>2 DEF Create, Correct
  <2> QED
    BY <2>1, QuietReconciles DEF WriteRow, Committed, TypeOK
<1>3. ASSUME NEW c \in Clients, Remove(c) \/ ReadSummary(c) \/ SummaryFails(c)
      PROVE  SummaryReconciles'
  BY <1>3, QuietReconciles DEF Remove, ReadSummary, SummaryFails, tables, Committed, Idle, TypeOK
<1>4. ASSUME NEW c \in Clients, NEW a \in planned, NEW i \in Items,
             Complete(c, a, i) \/ Reopen(c, a, i)
      PROVE  SummaryReconciles'
  BY <1>4, QuietReconciles DEF Complete, Reopen, Committed, TypeOK
<1>5. ASSUME NEW c \in Clients, NEW e \in Evaluators, Publish(c, e)
      PROVE  SummaryReconciles'
  BY <1>5, QuietReconciles DEF Publish, tables, Idle, TypeOK
<1>6. ASSUME NEW t \in awarding, Award(t) \/ AwardFails(t) PROVE SummaryReconciles'
  BY <1>6, QuietReconciles DEF Award, AwardFails, tables
<1>7. ASSUME NEW e \in Evaluators, \/ \E s \in Students : ListForOwner(s, e)
                                   \/ ReadFacts(e) \/ InsertUnlocks(e)
                                   \/ Announce(e) \/ EvaluationFails(e)
      PROVE  SummaryReconciles'
  BY <1>7, QuietReconciles
  DEF ListForOwner, ReadFacts, InsertUnlocks, Announce, EvaluationFails, tables
<1>8. ASSUME NEW a \in Assignments, Planning(a) PROVE SummaryReconciles'
  BY <1>8, QuietReconciles, PlanningFacts
<1>9. ASSUME NEW s \in Students, Deactivate(s) \/ \E z \in Zones : SetZone(s, z)
      PROVE  SummaryReconciles'
  BY <1>9, QuietReconciles DEF Deactivate, SetZone
<1>10. CASE Tick
  BY <1>10, QuietReconciles DEF Tick
<1>11. CASE Crash
  BY <1>11, QuietReconciles DEF Crash, tables, Idle
<1>12. CASE UNCHANGED vars
  BY <1>12, QuietReconciles DEF vars, tables
<1> QED
  BY <1>1, <1>2, <1>3, <1>4, <1>5, <1>6, <1>7, <1>8, <1>9, <1>10, <1>11, <1>12 DEF Next

\* Every date practised when a summary began is covered when it adds up the XP.
THEOREM SummariesReconcile == Spec => []SummaryReconciles
<1>1. Init => SummaryReconciles
  BY DEF Init, SummaryReconciles, Idle
<1> QED
  BY <1>1, NextReconciles, Typing, PTL DEF Spec

-----------------------------------------------------------------------------
(***************************************************************************)
(* Rewards implements the abstract ledger.                                 *)
(***************************************************************************)
LEMMA InitImplements == Init => Promise!Init
  BY DEF Init, Promise!Init, Practised

LEMMA PractiseStep ==
  ASSUME NEW c \in Clients, NEW old, NEW p, NEW type, WriteRow(c, old, p, type)
  PROVE  Promise!Practise
<1>1. Practised' = Practised \cup {<<p.student, p.date>>}
  BY DEF WriteRow, Practised
<1> QED
  BY <1>1 DEF WriteRow, Promise!Practise

LEMMA PayStep ==
  ASSUME NEW paid \in SUBSET Practised, awards' = awards \cup paid,
         ledger' = ledger, unlocked' = unlocked, notices' = notices
  PROVE  Promise!Pay
  BY DEF Promise!Pay, Practised

LEMMA UnlockStep ==
  ASSUME TypeOK, NEW e \in Evaluators, InsertUnlocks(e)
  PROVE  Promise!Unlock
<1> DEFINE s == evaluations[e].student
           new == {k \in evaluations[e].keys : <<s, k>> \notin unlocked}
<1>1. s \in Students /\ new \subseteq AchievementKey
  BY DEF InsertUnlocks, TypeOK, Evaluation, Idle
<1>2. {<<s, k>> : k \in new} \in SUBSET (Students \X AchievementKey)
  <2> HIDE DEF s, new
  <2> QED BY <1>1
<1> QED
  BY <1>2 DEF InsertUnlocks, Promise!Unlock, Practised

LEMMA AnnounceStep ==
  ASSUME TypeOK, NoticesOwned, NEW e \in Evaluators, Announce(e)
  PROVE  Promise!Announce
<1> DEFINE s == evaluations[e].student
           fresh == {n \in Students \X AchievementKey :
                       n[1] = s /\ n[2] \in evaluations[e].keys}
<1>1. \A n \in fresh : n \in unlocked /\ notices[n] = 0
  <2> TAKE n \in fresh
  <2>1. n = <<s, n[2]>>
    OBVIOUS
  <2> QED
    BY <2>1 DEF Announce, NoticesOwned
<1>2. notices' = [n \in Students \X AchievementKey |->
                    IF n \in fresh THEN 1 ELSE notices[n]]
  <2>1. DOMAIN notices = Students \X AchievementKey
    BY DEF TypeOK
  <2>2. notices' = [n \in Students \X AchievementKey |->
                      IF n[1] = s /\ n[2] \in evaluations[e].keys
                      THEN notices[n] + 1 ELSE notices[n]]
    BY <2>1 DEF Announce
  <2> QED
    BY <1>1, <2>2
<1>3. fresh \in SUBSET unlocked
  BY <1>1
<1>4. UNCHANGED <<Practised, awards, unlocked>>
  BY DEF Announce, tables, Practised
<1> QED
  BY <1>1, <1>2, <1>3, <1>4 DEF Promise!Announce

LEMMA QuietImplements ==
  ASSUME ledger' = ledger, awards' = awards, unlocked' = unlocked, notices' = notices
  PROVE  UNCHANGED Promise!ledgerVars
  BY DEF Promise!ledgerVars, Practised

LEMMA NextImplements ==
  TypeOK /\ PayableIsPractised /\ NoticesOwned /\ [Next]_vars
    => [Promise!Next]_(Promise!ledgerVars)
<1> SUFFICES ASSUME TypeOK, PayableIsPractised, NoticesOwned, [Next]_vars
             PROVE  Promise!Next \/ UNCHANGED Promise!ledgerVars
  OBVIOUS
<1> DEFINE Goal == Promise!Next \/ UNCHANGED Promise!ledgerVars
<1>1. ASSUME NEW c \in Clients, Create(c) \/ Correct(c) PROVE Goal
  <2>1. PICK p, type, old : WriteRow(c, old, p, type)
    BY <1>1 DEF Create, Correct
  <2> QED
    BY <2>1, PractiseStep DEF Promise!Next
<1>2. ASSUME NEW c \in Clients, ReadSummary(c) PROVE Goal
  <2> DEFINE paid == {<<requests[c].student, d>> : d \in requests[c].own}
  <2>1. paid \in SUBSET Practised /\ awards' = awards \cup paid
    BY <1>2 DEF ReadSummary, PayableIsPractised
  <2>2. ledger' = ledger /\ unlocked' = unlocked /\ notices' = notices
    BY <1>2 DEF ReadSummary
  <2> HIDE DEF paid
  <2> QED
    BY <2>1, <2>2, PayStep DEF Promise!Next
<1>3. ASSUME NEW t \in awarding, Award(t) PROVE Goal
  <2>1. {t} \in SUBSET Practised /\ awards' = awards \cup {t}
    BY <1>3 DEF Award, PayableIsPractised
  <2>2. ledger' = ledger /\ unlocked' = unlocked /\ notices' = notices
    BY <1>3 DEF Award
  <2> QED
    BY <2>1, <2>2, PayStep DEF Promise!Next
<1>4. ASSUME NEW e \in Evaluators, InsertUnlocks(e) PROVE Goal
  BY <1>4, UnlockStep DEF Promise!Next
<1>5. ASSUME NEW e \in Evaluators, Announce(e) PROVE Goal
  BY <1>5, AnnounceStep DEF Promise!Next
<1>6. ASSUME NEW c \in Clients, \/ Remove(c) \/ SummaryFails(c)
                                \/ \E e \in Evaluators : Publish(c, e)
                                \/ \E a \in Assignments : RepairAwards(c, a)
      PROVE  Goal
  BY <1>6, QuietImplements DEF Remove, SummaryFails, Publish, RepairAwards, tables
<1>7. ASSUME NEW c \in Clients, NEW a \in planned, NEW i \in Items,
             Complete(c, a, i) \/ Reopen(c, a, i)
      PROVE  Goal
  BY <1>7, QuietImplements DEF Complete, Reopen
<1>8. ASSUME NEW t \in awarding, AwardFails(t) PROVE Goal
  BY <1>8, QuietImplements DEF AwardFails, tables
<1>9. ASSUME NEW e \in Evaluators, \/ \E s \in Students : ListForOwner(s, e)
                                   \/ ReadFacts(e) \/ EvaluationFails(e)
      PROVE  Goal
  BY <1>9, QuietImplements DEF ListForOwner, ReadFacts, EvaluationFails, tables
<1>10. ASSUME NEW a \in Assignments, Planning(a) PROVE Goal
  <2>1. Practised' = Practised
    BY <1>10, PlanningPractised DEF PayableIsPractised
  <2> QED
    BY <1>10, <2>1, PlanningFacts DEF Promise!ledgerVars
<1>11. ASSUME NEW s \in Students, Deactivate(s) \/ \E z \in Zones : SetZone(s, z) PROVE Goal
  BY <1>11, QuietImplements DEF Deactivate, SetZone
<1>12. CASE Tick
  BY <1>12, QuietImplements DEF Tick
<1>13. CASE Crash
  BY <1>13, QuietImplements DEF Crash, tables
<1>14. CASE UNCHANGED vars
  BY <1>14, QuietImplements DEF vars, tables
<1> QED
  BY <1>1, <1>2, <1>3, <1>4, <1>5, <1>6, <1>7, <1>8, <1>9, <1>10, <1>11, <1>12,
     <1>13, <1>14 DEF Next

\* Every behaviour of the server is a behaviour of the abstract ledger of
\* rewards: nothing unpractised is paid, nothing is announced twice, and no
\* award or achievement is ever taken back.
THEOREM Implementation == Spec => ImplementsLedger
<1>1. Init => Promise!Init
  BY InitImplements
<1>2. Init => PayableIsPractised /\ NoticesOwned
  BY InitPayable, InitNotices
<1> QED
  BY <1>1, <1>2, NextPayable, NextNotices, NextImplements, Typing, PTL
  DEF Spec, ImplementsLedger, Promise!Spec
-----------------------------------------------------------------------------
(***************************************************************************)
(* Every unlock is earned.  What a student has earned is judged from the   *)
(* history of the ledger, which only grows, and growing never takes back   *)
(* what sums, counts and runs of days have reached; the facts of an        *)
(* evaluation are read from live rows, which are part of that history.     *)
(***************************************************************************)
LEMMA EarnedWeek ==
  ASSUME NEW plans, NEW rows, NEW completed, NEW s
  PROVE  Earned(plans, rows, completed, s, "weekly_60_minutes") <=>
           \E a \in plans : a.student = s /\ SecondsOf(RowsOfWeek(rows, a)) >= 3600
  BY DEF Earned, SecondsOf

LEMMA ItemsChecked ==
  ASSUME NEW a \in Assignments, NEW i \in a.items
  PROVE  /\ a.start \in Nat /\ i.target \in Nat
         /\ i.mode = "one_time" \/ i.mode = "practice_days"
  BY RewardsAssumption DEF ItemChecked

LEMMA DaysOfItemGrow ==
  ASSUME NEW L, NEW M, IsFiniteSet(M), L \subseteq M, NEW a, NEW i
  PROVE  /\ DaysOfItem(L, a, i) \subseteq DaysOfItem(M, a, i)
         /\ IsFiniteSet(DaysOfItem(M, a, i))
         /\ Cardinality(DaysOfItem(L, a, i)) \in Nat
         /\ Cardinality(DaysOfItem(M, a, i)) \in Nat
         /\ Cardinality(DaysOfItem(L, a, i)) <= Cardinality(DaysOfItem(M, a, i))
<1> DEFINE rows == {q \in M : q.item = i /\ q.date \in a.start .. a.start + 6}
<1>1. IsFiniteSet(rows)
  BY FS_Subset
<1>2. IsFiniteSet(DaysOfItem(M, a, i))
  BY <1>1, ImageFinite DEF DaysOfItem
<1>3. DaysOfItem(L, a, i) \in SUBSET DaysOfItem(M, a, i)
  BY DEF DaysOfItem
<1>4. /\ IsFiniteSet(DaysOfItem(L, a, i))
      /\ Cardinality(DaysOfItem(L, a, i)) <= Cardinality(DaysOfItem(M, a, i))
  BY <1>2, <1>3, FS_Subset
<1> QED
  BY <1>2, <1>3, <1>4, FS_CardinalityType

LEMMA HistoryEarned ==
  ASSUME NEW L, NEW M, IsFiniteSet(M), L \subseteq M, \A p \in M : p.seconds \in Nat,
         NEW C, NEW D, C \subseteq D, NEW P, NEW Q, P \subseteq Q, Q \subseteq Assignments,
         NEW s, NEW k \in AchievementKey, Earned(P, L, C, s, k)
  PROVE  Earned(Q, M, D, s, k)
<1>1. PracticeDates(L, s) \subseteq PracticeDates(M, s)
  BY DEF PracticeDates
<1>2. CASE k = "first_practice"
  BY <1>1, <1>2 DEF Earned
<1>3. CASE k = "weekly_60_minutes"
  <2>1. PICK a \in P : a.student = s /\ SecondsOf(RowsOfWeek(L, a)) >= 3600
    BY <1>3, EarnedWeek
  <2>2. /\ RowsOfWeek(L, a) \in SUBSET RowsOfWeek(M, a)
        /\ RowsOfWeek(M, a) \in SUBSET M
    BY DEF RowsOfWeek
  <2>3. /\ IsFiniteSet(RowsOfWeek(M, a)) /\ IsFiniteSet(RowsOfWeek(L, a))
        /\ \A p \in RowsOfWeek(M, a) : p.seconds \in Nat
        /\ \A p \in RowsOfWeek(L, a) : p.seconds \in Nat
    BY <2>2, FS_Subset
  <2>4. /\ SecondsOf(RowsOfWeek(L, a)) \in Nat
        /\ SecondsOf(RowsOfWeek(M, a)) \in Nat
        /\ SecondsOf(RowsOfWeek(L, a)) <= SecondsOf(RowsOfWeek(M, a))
    BY <2>2, <2>3, SumNat, SumGrows
  <2>5. SecondsOf(RowsOfWeek(M, a)) >= 3600
    BY <2>1, <2>4
  <2> QED
    BY <1>3, <2>1, <2>5, EarnedWeek
<1>4. CASE k = "three_day_streak"
  BY <1>1, <1>4 DEF Earned, HasRun
<1>5. CASE k = "seven_day_streak"
  BY <1>1, <1>5 DEF Earned, HasRun
<1>6. CASE k = "first_assignment_complete"
  <2>1. PICK a \in P : /\ a.student = s /\ a.items # {}
                       /\ \A i \in a.items : Met(L, C, a, i)
    BY <1>6 DEF Earned
  <2>2. ASSUME NEW i \in a.items PROVE Met(M, D, a, i)
    <3>1. Met(L, C, a, i) /\ i.target \in Nat
      BY <2>1, ItemsChecked
    <3>2. /\ Cardinality(DaysOfItem(L, a, i)) \in Nat
          /\ Cardinality(DaysOfItem(M, a, i)) \in Nat
          /\ Cardinality(DaysOfItem(L, a, i)) <= Cardinality(DaysOfItem(M, a, i))
      BY DaysOfItemGrow
    <3>3. i.target <= Cardinality(DaysOfItem(L, a, i)) =>
            i.target <= Cardinality(DaysOfItem(M, a, i))
      BY <3>1, <3>2
    <3> QED
      BY <3>1, <3>3 DEF Met
  <2> QED
    BY <1>6, <2>1, <2>2 DEF Earned
<1> QED
  BY <1>2, <1>3, <1>4, <1>5, <1>6 DEF AchievementKey

\* The keys that the facts of live rows qualify for are earned by those rows.
LEMMA QualifiedIsEarned ==
  ASSUME TypeOK, IsFiniteSet(sessions), NEW s \in Students, NEW k \in QualifiedNow(s)
  PROVE  Earned(planned, sessions, done, s, k)
<1> DEFINE facts == CurrentFacts(s)
           dates == PracticeDates(sessions, s)
           own == {a \in planned : a.student = s}
<1>1. k \in AchievementKey /\ Qualifies(k, facts)
  BY DEF QualifiedNow, QualifiedKeys
<1>2. /\ facts.hasPractice <=> \E p \in sessions : p.student = s
      /\ facts.hasSixtyMinuteWeek <=> \E a \in own : WeeklySeconds(sessions, a) >= 3600
      /\ facts.currentStreak = RuleStreak(dates, Today(s))
      /\ facts.hasCompletedAssignment <=>
           \E a \in own \ cancelled : FactCompleted(sessions, done, a)
  BY DEF CurrentFacts, Facts, HourGoal
<1> HIDE DEF facts
<1>3. \A p \in sessions : p.date \in Nat /\ p.seconds \in Nat
  BY RewardsAssumption DEF TypeOK, Row
<1>4. dates \in SUBSET Int /\ IsFiniteSet(dates)
  <2>1. {q \in sessions : q.student = s} \in SUBSET sessions
    OBVIOUS
  <2>2. IsFiniteSet({q \in sessions : q.student = s})
    BY <2>1, FS_Subset
  <2> QED
    BY <1>3, <2>2, ImageFinite DEF PracticeDates
<1>5. Today(s) \in Int
  <2>1. now \in Nat /\ zone[s] \in Nat
    BY RewardsAssumption DEF TypeOK
  <2>2. Today(s) \in Nat
    BY <2>1, LocalDateNat DEF Today
  <2> QED
    BY <2>2
<1>6. CASE k = "first_practice"
  <2>1. \E p \in sessions : p.student = s
    BY <1>1, <1>2, <1>6 DEF Qualifies
  <2> QED
    BY <1>6, <2>1 DEF Earned, PracticeDates
<1>7. CASE k = "weekly_60_minutes"
  <2>1. PICK a \in own : WeeklySeconds(sessions, a) >= 3600
    BY <1>1, <1>2, <1>7 DEF Qualifies
  <2>2. a \in planned /\ a.student = s /\ a.start \in Nat
    BY RewardsAssumption DEF TypeOK
  <2>3. WeekRows(sessions, a) = RowsOfWeek(sessions, a)
    BY <1>3, <2>2 DEF WeekRows, RowsOfWeek, InWeek, LastDay
  <2>4. SecondsOf(RowsOfWeek(sessions, a)) >= 3600
    BY <2>1, <2>3, WeeklySecondsAdd
  <2> QED
    BY <1>7, <2>2, <2>4, EarnedWeek
<1>8. CASE k = "three_day_streak"
  <2>1. RuleStreak(dates, Today(s)) >= 3
    BY <1>1, <1>2, <1>8 DEF Qualifies, ShortStreak
  <2>2. HasRun(dates, 3)
    BY <1>4, <1>5, <2>1, RuleStreakIsRun DEF HasRun
  <2> QED
    BY <1>8, <2>2 DEF Earned, PracticeDates
<1>9. CASE k = "seven_day_streak"
  <2>1. RuleStreak(dates, Today(s)) >= 7
    BY <1>1, <1>2, <1>9 DEF Qualifies, LongStreak
  <2>2. HasRun(dates, 7)
    BY <1>4, <1>5, <2>1, RuleStreakIsRun DEF HasRun
  <2> QED
    BY <1>9, <2>2 DEF Earned, PracticeDates
<1>10. CASE k = "first_assignment_complete"
  <2>1. PICK a \in own : FactCompleted(sessions, done, a)
    BY <1>1, <1>2, <1>10 DEF Qualifies
  <2>2. /\ a \in planned /\ a \in Assignments
        /\ a.student = s /\ a.start \in Nat /\ a.items # {}
    BY <2>1, RewardsAssumption DEF FactCompleted, TypeOK
  <2>3. ASSUME NEW i \in a.items PROVE Met(sessions, done, a, i)
    <3>1. /\ i.mode = "one_time" \/ i.mode = "practice_days"
          /\ i.target \in Nat
      BY <2>2, ItemsChecked
    <3>2. CASE i.mode = "one_time"
      BY <2>1, <3>2 DEF FactCompleted, Met
    <3>3. CASE i.mode = "practice_days"
      <4>1. PractisedDays(sessions, a, i) \in Nat
        BY PractisedDaysFinite
      <4>2. PractisedDays(sessions, a, i) >= i.target
        BY <2>1, <3>1, <3>3, <4>1 DEF FactCompleted
      <4> DEFINE days == {p.date : p \in {q \in WeekRows(sessions, a) : q.item = i}}
      <4>3. days \in SUBSET DaysOfItem(sessions, a, i)
        BY <1>3, <2>2 DEF WeekRows, InWeek, LastDay, DaysOfItem
      <4>4. IsFiniteSet(DaysOfItem(sessions, a, i))
            /\ Cardinality(DaysOfItem(sessions, a, i)) \in Nat
        BY DaysOfItemGrow
      <4>5. Cardinality(days) <= Cardinality(DaysOfItem(sessions, a, i))
        BY <4>3, <4>4, FS_Subset
      <4>6. Cardinality(days) = PractisedDays(sessions, a, i)
        BY DEF PractisedDays
      <4> HIDE DEF days
      <4>7. i.target <= Cardinality(DaysOfItem(sessions, a, i))
        BY <3>1, <4>1, <4>2, <4>4, <4>5, <4>6
      <4> QED
        BY <3>3, <4>7 DEF Met
    <3> QED
      BY <3>1, <3>2, <3>3
  <2> QED
    BY <1>10, <2>2, <2>3 DEF Earned
<1> QED
  BY <1>1, <1>6, <1>7, <1>8, <1>9, <1>10 DEF AchievementKey

\* What was earned stays earned as the history grows.
LEMMA EarnedGrows ==
  ASSUME TypeOK', IsFiniteSet(ledger'), ledger \subseteq ledger', everDone \subseteq everDone',
         everPlanned \subseteq everPlanned', NEW s, NEW k \in AchievementKey, EverEarned(s, k)
  PROVE  Earned(everPlanned', ledger', everDone', s, k)
<1>1. \A p \in ledger' : p.seconds \in Nat
  BY RewardsAssumption DEF TypeOK, Row
<1> QED
  BY <1>1, HistoryEarned DEF EverEarned, TypeOK

LEMMA InitEarned == Init => KeysAreEarned
  BY FS_EmptySet DEF Init, KeysAreEarned, UnlockedIsEarned, Idle

\* A step that unlocks only what an evaluation has in hand, and gives no
\* evaluation keys that it has not read as earned, keeps the invariant.
LEMMA QuietEarned ==
  ASSUME TypeOK, TypeOK', KeysAreEarned,
         IsFiniteSet(ledger'), ledger \subseteq ledger', everDone \subseteq everDone',
         sessions' \subseteq ledger', done' \subseteq everDone',
         everPlanned \subseteq everPlanned', planned' \subseteq everPlanned',
         unlocked' = unlocked,
         \A e \in Evaluators : \/ evaluations'[e] = evaluations[e]
                               \/ evaluations'[e].step # "qualified"
  PROVE  KeysAreEarned'
<1>1. ASSUME NEW u \in unlocked' PROVE Earned(everPlanned', ledger', everDone', u[1], u[2])
  <2>1. u[2] \in AchievementKey /\ EverEarned(u[1], u[2])
    BY DEF TypeOK, KeysAreEarned, UnlockedIsEarned
  <2> QED
    BY <2>1, EarnedGrows
<1>2. ASSUME NEW e \in Evaluators, evaluations'[e].step = "qualified",
             NEW k \in evaluations'[e].keys
      PROVE  Earned(everPlanned', ledger', everDone', evaluations'[e].student, k)
  <2>1. evaluations'[e] = evaluations[e]
    BY <1>2
  <2>2. EverEarned(evaluations[e].student, k)
    BY <1>2, <2>1 DEF KeysAreEarned
  <2>3. k \in AchievementKey
    BY <1>2 DEF TypeOK, Evaluation, Idle
  <2>4. Earned(everPlanned', ledger', everDone', evaluations[e].student, k)
    BY <2>2, <2>3, EarnedGrows
  <2> QED
    BY <2>1, <2>4
<1> QED
  BY <1>1, <1>2 DEF KeysAreEarned, UnlockedIsEarned, EverEarned

LEMMA WriteRowEarned ==
  ASSUME TypeOK, TypeOK', KeysAreEarned, NEW c, NEW old, NEW p, NEW type,
         WriteRow(c, old, p, type)
  PROVE  KeysAreEarned'
<1>1. /\ ledger' = ledger \cup {p} /\ sessions' = (sessions \ old) \cup {p}
      /\ done' = done /\ everDone' = everDone
      /\ unlocked' = unlocked /\ evaluations' = evaluations /\ weeks' = weeks
  BY DEF WriteRow
<1>2. IsFiniteSet(ledger')
  BY <1>1, FS_AddElement DEF KeysAreEarned
<1>3. /\ sessions' \subseteq ledger' /\ done' \subseteq everDone'
      /\ planned' \subseteq everPlanned'
  BY <1>1 DEF KeysAreEarned
<1> QED
  BY <1>1, <1>2, <1>3, QuietEarned

\* Most steps leave the history alone and take from the tables at most.
LEMMA SameHistoryEarned ==
  ASSUME TypeOK, TypeOK', KeysAreEarned,
         ledger' = ledger, everDone' = everDone, unlocked' = unlocked, weeks' = weeks,
         sessions' \subseteq sessions, done' \subseteq done,
         \A e \in Evaluators : \/ evaluations'[e] = evaluations[e]
                               \/ evaluations'[e].step # "qualified"
  PROVE  KeysAreEarned'
<1>1. /\ IsFiniteSet(ledger') /\ ledger \subseteq ledger' /\ everDone \subseteq everDone'
      /\ sessions' \subseteq ledger' /\ done' \subseteq everDone'
      /\ planned' \subseteq everPlanned'
  BY DEF KeysAreEarned
<1> QED
  BY <1>1, QuietEarned

LEMMA ReadFactsEarned ==
  ASSUME TypeOK, KeysAreEarned, NEW e \in Evaluators, ReadFacts(e)
  PROVE  KeysAreEarned'
<1> DEFINE s == evaluations[e].student
<1>1. /\ unlocked' = unlocked /\ sessions' = sessions /\ done' = done /\ weeks' = weeks
      /\ ledger' = ledger /\ everDone' = everDone
      /\ evaluations' = [evaluations EXCEPT
           ![e] = IF QualifiedNow(s) = {} THEN Idle ELSE Qualified(s, QualifiedNow(s))]
  BY DEF ReadFacts, tables
<1>2. s \in Students
  BY DEF ReadFacts, TypeOK, Evaluation, Idle
<1> HIDE DEF s
<1>3. ASSUME NEW k \in QualifiedNow(s) PROVE Earned(everPlanned, ledger, everDone, s, k)
  <2>1. Earned(planned, sessions, done, s, k)
    <3>1. IsFiniteSet(sessions)
      BY FS_Subset DEF KeysAreEarned
    <3> QED
      BY <1>2, <3>1, QualifiedIsEarned
  <2>2. \A p \in ledger : p.seconds \in Nat
    BY RewardsAssumption DEF TypeOK, Row
  <2>3. k \in AchievementKey
    BY DEF QualifiedNow, QualifiedKeys
  <2> QED
    BY <2>1, <2>2, <2>3, HistoryEarned DEF KeysAreEarned, TypeOK
<1>4. ASSUME NEW f \in Evaluators, evaluations'[f].step = "qualified",
             NEW k \in evaluations'[f].keys
      PROVE  Earned(everPlanned', ledger', everDone', evaluations'[f].student, k)
  <2>1. CASE f = e
    <3>1. evaluations'[e] = Qualified(s, QualifiedNow(s))
      BY <1>1, <1>4, <2>1 DEF TypeOK, Idle
    <3> QED
      BY <1>1, <1>3, <1>4, <2>1, <3>1 DEF Qualified
  <2>2. CASE f # e
    BY <1>1, <1>4, <2>2 DEF TypeOK, KeysAreEarned, EverEarned
  <2> QED
    BY <2>1, <2>2
<1> QED
  BY <1>1, <1>4 DEF KeysAreEarned, UnlockedIsEarned, EverEarned

LEMMA InsertUnlocksEarned ==
  ASSUME TypeOK, KeysAreEarned, NEW e \in Evaluators, InsertUnlocks(e)
  PROVE  KeysAreEarned'
<1> DEFINE s == evaluations[e].student
           new == {k \in evaluations[e].keys : <<s, k>> \notin unlocked}
<1>1. /\ unlocked' = unlocked \cup {<<s, k>> : k \in new}
      /\ sessions' = sessions /\ done' = done /\ weeks' = weeks
      /\ ledger' = ledger /\ everDone' = everDone
      /\ evaluations' = [evaluations EXCEPT ![e] = Inserted(s, new)]
  BY DEF InsertUnlocks
<1>2. \A k \in new : Earned(everPlanned, ledger, everDone, s, k)
  BY DEF InsertUnlocks, KeysAreEarned, EverEarned
<1> HIDE DEF s, new
<1>3. ASSUME NEW u \in unlocked' PROVE Earned(everPlanned', ledger', everDone', u[1], u[2])
  <2>1. CASE u \in unlocked
    BY <1>1, <2>1 DEF KeysAreEarned, UnlockedIsEarned, EverEarned
  <2>2. CASE u \notin unlocked
    <3>1. PICK k \in new : u = <<s, k>>
      BY <1>1, <2>2
    <3> QED
      BY <1>1, <1>2, <3>1
  <2> QED
    BY <2>1, <2>2
<1>4. ASSUME NEW f \in Evaluators, evaluations'[f].step = "qualified",
             NEW k \in evaluations'[f].keys
      PROVE  Earned(everPlanned', ledger', everDone', evaluations'[f].student, k)
  <2>1. f # e
    BY <1>1, <1>4 DEF TypeOK, Inserted
  <2> QED
    BY <1>1, <1>4, <2>1 DEF TypeOK, KeysAreEarned, EverEarned
<1> QED
  BY <1>1, <1>3, <1>4 DEF KeysAreEarned, UnlockedIsEarned, EverEarned

LEMMA NextEarned ==
  TypeOK /\ TypeOK' /\ KeysAreEarned /\ [Next]_vars => KeysAreEarned'
<1> SUFFICES ASSUME TypeOK, TypeOK', KeysAreEarned, [Next]_vars PROVE KeysAreEarned'
  OBVIOUS
<1>1. ASSUME NEW c \in Clients, Create(c) \/ Correct(c) PROVE KeysAreEarned'
  BY <1>1, WriteRowEarned DEF Create, Correct
<1>2. ASSUME NEW c \in Clients, Remove(c) \/ ReadSummary(c) \/ SummaryFails(c)
      PROVE  KeysAreEarned'
  <2>1. /\ sessions' \subseteq sessions /\ done' = done /\ unlocked' = unlocked
        /\ weeks' = weeks
        /\ ledger' = ledger /\ everDone' = everDone /\ evaluations' = evaluations
    BY <1>2 DEF Remove, ReadSummary, SummaryFails, tables
  <2> QED
    BY <2>1, SameHistoryEarned
<1>3. ASSUME NEW c \in Clients, NEW a \in planned, NEW i \in Items, Complete(c, a, i)
      PROVE  KeysAreEarned'
  <2>1. /\ ledger' = ledger /\ sessions' = sessions
        /\ done' = done \cup {i} /\ everDone' = everDone \cup {i}
        /\ unlocked' = unlocked /\ evaluations' = evaluations /\ weeks' = weeks
    BY <1>3 DEF Complete
  <2>2. /\ IsFiniteSet(ledger') /\ sessions' \subseteq ledger'
        /\ done' \subseteq everDone' /\ planned' \subseteq everPlanned'
    BY <2>1 DEF KeysAreEarned
  <2> QED
    BY <2>1, <2>2, QuietEarned
<1>4. ASSUME NEW c \in Clients, NEW a \in planned, NEW i \in Items, Reopen(c, a, i)
      PROVE  KeysAreEarned'
  BY <1>4, SameHistoryEarned DEF Reopen
<1>5. ASSUME NEW c \in Clients, NEW a \in Assignments, RepairAwards(c, a)
      PROVE  KeysAreEarned'
  BY <1>5, SameHistoryEarned DEF RepairAwards, tables
<1>6. ASSUME NEW c \in Clients, NEW e \in Evaluators, Publish(c, e) PROVE KeysAreEarned'
  BY <1>6, SameHistoryEarned DEF Publish, tables, Started, TypeOK
<1>7. ASSUME NEW t \in awarding, Award(t) \/ AwardFails(t) PROVE KeysAreEarned'
  BY <1>7, SameHistoryEarned DEF Award, AwardFails, tables
<1>8. ASSUME NEW e \in Evaluators, NEW s \in Students, ListForOwner(s, e)
      PROVE  KeysAreEarned'
  BY <1>8, SameHistoryEarned DEF ListForOwner, tables, Started, TypeOK
<1>9. ASSUME NEW e \in Evaluators, ReadFacts(e) PROVE KeysAreEarned'
  BY <1>9, ReadFactsEarned
<1>10. ASSUME NEW e \in Evaluators, InsertUnlocks(e) PROVE KeysAreEarned'
  BY <1>10, InsertUnlocksEarned
<1>11. ASSUME NEW e \in Evaluators, Announce(e) \/ EvaluationFails(e)
       PROVE  KeysAreEarned'
  <2>1. /\ sessions' = sessions /\ done' = done /\ unlocked' = unlocked /\ weeks' = weeks
        /\ ledger' = ledger /\ everDone' = everDone
        /\ evaluations' = [evaluations EXCEPT ![e] = Idle]
    BY <1>11 DEF Announce, EvaluationFails, tables
  <2> QED
    BY <2>1, SameHistoryEarned DEF Idle, TypeOK
<1>12. ASSUME NEW a \in Assignments, Planning(a) PROVE KeysAreEarned'
  <2>1. /\ ledger \subseteq ledger' /\ everPlanned \subseteq everPlanned'
        /\ sessions' \subseteq ledger' /\ done' \subseteq everDone'
        /\ planned' \subseteq everPlanned' /\ everDone' = everDone
        /\ unlocked' = unlocked /\ evaluations' = evaluations
    BY <1>12, PlanningFacts DEF KeysAreEarned
  <2>2. IsFiniteSet(ledger')
    <3>1. CASE ledger' = ledger
      BY <3>1 DEF KeysAreEarned
    <3>2. ASSUME NEW items, ItemsDeleted(items) PROVE IsFiniteSet(ledger')
      <4> DEFINE Kept(p) == IF p.item \in items THEN [p EXCEPT !.item = NoItem] ELSE p
      <4>1. IsFiniteSet(sessions)
        BY FS_Subset DEF KeysAreEarned
      <4>2. IsFiniteSet({Kept(p) : p \in sessions})
        <5> DEFINE f == [p \in sessions |-> Kept(p)]
        <5> HIDE DEF Kept
        <5>1. f \in Surjection(sessions, {Kept(p) : p \in sessions})
          BY DEF Surjection
        <5> QED
          BY <4>1, <5>1, FS_Surjection
      <4>3. ledger' = ledger \cup {Kept(p) : p \in sessions}
        BY <3>2 DEF ItemsDeleted
      <4> QED
        BY <4>2, <4>3, FS_Union DEF KeysAreEarned
    <3> QED
      BY <1>12, <3>1, <3>2, PlanningFacts
  <2> QED
    BY <2>1, <2>2, QuietEarned
<1>13. ASSUME NEW s \in Students, Deactivate(s) \/ \E z \in Zones : SetZone(s, z)
       PROVE  KeysAreEarned'
  BY <1>13, SameHistoryEarned DEF Deactivate, SetZone
<1>14. CASE Tick
  BY <1>14, SameHistoryEarned DEF Tick
<1>15. CASE Crash
  BY <1>15, SameHistoryEarned DEF Crash, tables, Idle
<1>16. CASE UNCHANGED vars
  BY <1>16, SameHistoryEarned DEF vars, tables
<1> QED
  BY <1>1, <1>2, <1>3, <1>4, <1>5, <1>6, <1>7, <1>8, <1>9, <1>10, <1>11, <1>12,
     <1>13, <1>14, <1>15, <1>16 DEF Next

\* Whatever is corrected, deleted or reopened between the read of the facts and
\* the INSERT, an unlock is for something the student once really did.
THEOREM UnlocksAreEarned == Spec => []UnlockedIsEarned
<1>1. KeysAreEarned => UnlockedIsEarned
  BY DEF KeysAreEarned
<1> QED
  BY <1>1, InitEarned, NextEarned, Typing, PTL DEF Spec
=============================================================================

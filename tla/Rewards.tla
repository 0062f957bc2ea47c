------------------------------ MODULE Rewards ------------------------------
(***************************************************************************)
(* The server side of practice rewards: the ledger of practice sessions,   *)
(* the daily XP awards and the achievements, as the practice-sessions,     *)
(* practice-progress and achievements modules keep them in PostgreSQL.     *)
(*                                                                         *)
(* A request commits its transaction first and only then publishes an      *)
(* in-process event; two subscribers react to it, each with an             *)
(* asynchronous task of its own.  Everything not yet in the database is    *)
(* lost when the process stops.                                            *)
(*                                                                         *)
(* Transactions run at READ COMMITTED.  A request whose effect is one      *)
(* statement is one action here, its checks of ownership and status        *)
(* included: that an assignment is edited or cancelled, or a student       *)
(* deactivated, between the two is not modelled.  The two transactions     *)
(* that read, wait and then write are split.                               *)
(***************************************************************************)
EXTENDS PracticeRules

CONSTANTS
  Students,      \* rows of the student table
  SessionIds,    \* ids practice_sessions may hand out
  Clients,       \* HTTP requests that may be in progress at one time
  Evaluators,    \* evaluateStudent calls that may be in progress at one time
  Assignments,   \* records [student, start, items] a teacher may plan
  Zones,         \* offsets of the IANA zones, in ticks
  HomeZone,      \* the zone every student starts in
  Durations,     \* durations, in seconds, a client may send
  FirstInstant,  \* the clock in the initial state
  LastInstant,   \* bound on the clock
  MaxRows,       \* bound on the session rows, old versions included
  MaxFaults      \* bound on process crashes and failed statements

ASSUME RewardsAssumption ==
  /\ HomeZone \in Zones
  /\ Zones \subseteq Nat
  /\ Durations \subseteq Nat \ {0}
  /\ FirstInstant \in Nat
  /\ LastInstant \in Nat
  /\ MaxRows \in Nat /\ MaxFaults \in Nat
  /\ \A a \in Assignments :
       a.student \in Students /\ a.start \in Nat /\ \A i \in a.items : ItemChecked(i)

Items == UNION {a.items : a \in Assignments}

EventType == { "practice-session.created", "practice-session.corrected",
               "practice-session.deleted", "assignment-progress.changed" }

VARIABLES
  now,          \* the wall clock
  zone,         \* student.time_zone
  active,       \* students with is_active = true
  planned,      \* student_assignments
  drafts,       \* assignments whose status is 'draft'
  cancelled,    \* assignments whose status is 'cancelled'
  everPlanned,  \* history: every assignment as it ever was
  done,         \* items with a completion row that is not reopened
  sessions,     \* practice_sessions
  awards,       \* daily_practice_xp_awards, 10 XP each: <<student, date>>
  unlocked,     \* student_achievements: <<student, key>>
  requests,     \* per client: where its request stands
  awarding,     \* XP inserts in flight: <<student, date>>
  evaluations,  \* per evaluator: where its evaluateStudent call stands
  faults,       \* crashes and failures so far
  ledger,       \* history: every session row ever committed
  everDone,     \* history: every item ever completed
  notices       \* history: achievement.unlocked events published, counted

weeks == <<planned, drafts, cancelled, everPlanned>>
tables == <<now, zone, active, weeks, done, sessions, awards, unlocked>>
vars == <<tables, requests, awarding, evaluations, faults, ledger, everDone, notices>>

(***************************************************************************)
(* A request is idle, has committed a change it has yet to publish, or is  *)
(* the practice-summary transaction between its INSERT and its SELECT.     *)
(***************************************************************************)
Idle == [step |-> "idle"]
Committed(type, s, d) ==
  [step |-> "committed", type |-> type, student |-> s, date |-> d]
Repaired(s, dates, live) ==
  [step |-> "repaired", student |-> s, own |-> dates,
   live |-> live]   \* history: the practice dates when the INSERT ran

(***************************************************************************)
(* evaluateStudent opens its transaction ("started"), has read the facts   *)
(* and computed the keys they qualify for ("qualified"), or has committed  *)
(* and is left with the rows its INSERT returned ("inserted").             *)
(***************************************************************************)
Started(s) == [step |-> "started", student |-> s, keys |-> {}]
Qualified(s, ks) == [step |-> "qualified", student |-> s, keys |-> ks]
\* Mutant: the returned rows are kept instead of their keys.
InsertedRows(s, ks) == [step |-> "inserted", student |-> s, keys |-> {s} \X ks]

Inserted(s, ks) == [step |-> "inserted", student |-> s, keys |-> ks]

Today(s) == LocalDate(now, zone[s])

\* Mutant: dates derived with the zone the student has now.
LiveDatesNow(s) == {LocalDate(p.at, zone[s]) : p \in {q \in sessions : q.student = s}}

LiveDates(s) == PracticeDates(sessions, s)

AwardDates(s) == {aw[2] : aw \in {x \in awards : x[1] = s}}

CurrentFacts(s) == Facts(sessions, planned, cancelled, done, s, Today(s))

QualifiedNow(s) == QualifiedKeys(CurrentFacts(s))

Init ==
  /\ now = FirstInstant
  /\ zone = [s \in Students |-> HomeZone]
  /\ active = Students
  /\ planned = {} /\ drafts = {} /\ cancelled = {}
  /\ done = {} /\ sessions = {} /\ awards = {} /\ unlocked = {}
  /\ requests = [c \in Clients |-> Idle]
  /\ awarding = {}
  /\ evaluations = [e \in Evaluators |-> Idle]
  /\ faults = 0
  /\ ledger = {} /\ everDone = {} /\ everPlanned = {}
  /\ notices = [n \in Students \X AchievementKey |-> 0]

-----------------------------------------------------------------------------
(***************************************************************************)
(* Practice sessions (PracticeSessionsService).  The triggers on the table *)
(* snapshot the student's zone on INSERT and derive the local date on      *)
(* every write.                                                            *)
(***************************************************************************)
ItemAllowed(s, i) ==
  i # NoItem => \E a \in planned \ cancelled : i \in a.items /\ a.student = s

\* uuid_generate_v4: which unused id it is makes no difference.
NewId == CHOOSE id \in SessionIds : \A p \in ledger : p.id # id

Derived(p) == [p EXCEPT !.date = LocalDate(p.at, p.zone)]

WriteRow(c, old, p, type) ==
  /\ Cardinality(ledger \cup {p}) <= MaxRows
  /\ sessions' = (sessions \ old) \cup {p}
  /\ ledger' = ledger \cup {p}
  /\ requests' = [requests EXCEPT ![c] = Committed(type, p.student, p.date)]
  /\ UNCHANGED <<now, zone, active, weeks, done, awards, unlocked,
                 awarding, evaluations, faults, everDone, notices>>

Create(c) ==
  /\ requests[c] = Idle
  /\ \E id \in SessionIds : \A p \in ledger : p.id # id
  /\ \E s \in active, i \in Items \cup {NoItem}, secs \in Durations, at \in 0..now :
       /\ ItemAllowed(s, i)
       /\ WriteRow(c, {},
            Derived([id |-> NewId, student |-> s, item |-> i, seconds |-> secs,
                     at |-> at, zone |-> zone[s], date |-> 0]),
            "practice-session.created")

\* The row is locked from its read to the commit.  A correction that leaves
\* every field as it was is still published.
Correct(c) ==
  /\ requests[c] = Idle
  /\ \E p \in sessions, i \in Items \cup {NoItem}, secs \in Durations, at \in 0..now :
       /\ i # p.item => ItemAllowed(p.student, i)
       /\ WriteRow(c, {p},
            Derived([p EXCEPT !.item = i, !.seconds = secs, !.at = at]),
            "practice-session.corrected")

\* Mutant: a deleted session takes its XP along.
RemoveWithAward(c) ==
  /\ requests[c] = Idle
  /\ \E p \in sessions :
       /\ sessions' = sessions \ {p}
       /\ awards' = awards \ {<<p.student, p.date>>}
       /\ requests' = [requests EXCEPT
            ![c] = Committed("practice-session.deleted", p.student, p.date)]
  /\ UNCHANGED <<now, zone, active, weeks, done, unlocked, awarding,
                 evaluations, faults, ledger, everDone, notices>>

Remove(c) ==
  /\ requests[c] = Idle
  /\ \E p \in sessions :
       /\ sessions' = sessions \ {p}
       /\ requests' = [requests EXCEPT
            ![c] = Committed("practice-session.deleted", p.student, p.date)]
  /\ UNCHANGED <<now, zone, active, weeks, done, awards, unlocked, awarding,
                 evaluations, faults, ledger, everDone, notices>>

-----------------------------------------------------------------------------
(***************************************************************************)
(* One-time items (AssignmentItemCompletionsService).                      *)
(***************************************************************************)
Completable(a, i) ==
  /\ i \in a.items /\ i.mode = "one_time"
  /\ a.student \in active
  /\ a \notin cancelled

\* Mutant: a completion is stored and nothing published.
CompleteQuietly(c, a, i) ==
  /\ requests[c] = Idle
  /\ Completable(a, i)
  /\ i \notin done
  /\ done' = done \cup {i}
  /\ everDone' = everDone \cup {i}
  /\ UNCHANGED <<now, zone, active, weeks, sessions, awards, unlocked, requests,
                 awarding, evaluations, faults, ledger, notices>>

\* Only the request whose INSERT created the row publishes.
Complete(c, a, i) ==
  /\ requests[c] = Idle
  /\ Completable(a, i)
  /\ i \notin done
  /\ done' = done \cup {i}
  /\ everDone' = everDone \cup {i}
  /\ requests' = [requests EXCEPT
       ![c] = Committed("assignment-progress.changed", a.student, 0)]
  /\ UNCHANGED <<now, zone, active, weeks, sessions, awards, unlocked,
                 awarding, evaluations, faults, ledger, notices>>

\* TypeORM answers UPDATE ... RETURNING with the rows and their number, so that
\* rows.length is 2 and nothing is published.
Reopen(c, a, i) ==
  /\ requests[c] = Idle
  /\ Completable(a, i)
  /\ i \in done
  /\ done' = done \ {i}
  /\ UNCHANGED <<now, zone, active, weeks, sessions, awards, unlocked, requests,
                 awarding, evaluations, faults, ledger, everDone, notices>>

-----------------------------------------------------------------------------
(***************************************************************************)
(* Assignments (StudentAssignmentsService), as far as the facts depend on  *)
(* them, and students.  None of these publishes anything.                  *)
(***************************************************************************)
Fresh(items) == \A a \in everPlanned : a.items \cap items = {}

\* Completions go with their item, and sessions lose it (ON DELETE SET NULL).
ItemsDeleted(items) ==
  /\ done' = done \ items
  /\ sessions' = {IF p.item \in items THEN [p EXCEPT !.item = NoItem] ELSE p : p \in sessions}
  /\ ledger' = ledger \cup sessions'
  /\ Cardinality(ledger') <= MaxRows

\* create and duplicate
Plan(a) ==
  /\ a \notin planned /\ a.student \in active /\ Fresh(a.items)
  /\ planned' = planned \cup {a} /\ drafts' = drafts \cup {a}
  /\ everPlanned' = everPlanned \cup {a}
  /\ UNCHANGED <<now, zone, active, cancelled, done, sessions, awards, unlocked, requests,
                 awarding, evaluations, faults, ledger, everDone, notices>>

\* update of a draft: other dates, or other sections with items of their own.
Edit(a, b) ==
  /\ a \in drafts /\ a.student \in active
  /\ b \notin planned /\ b.student = a.student /\ (b.items = a.items \/ Fresh(b.items))
  /\ planned' = (planned \ {a}) \cup {b} /\ drafts' = (drafts \ {a}) \cup {b}
  /\ everPlanned' = everPlanned \cup {b}
  /\ ItemsDeleted(a.items \ b.items)
  /\ UNCHANGED <<now, zone, active, cancelled, awards, unlocked, requests,
                 awarding, evaluations, faults, everDone, notices>>

\* remove of a draft
Discard(a) ==
  /\ a \in drafts /\ a.student \in active
  /\ planned' = planned \ {a} /\ drafts' = drafts \ {a}
  /\ ItemsDeleted(a.items)
  /\ UNCHANGED <<now, zone, active, cancelled, everPlanned, awards, unlocked, requests,
                 awarding, evaluations, faults, everDone, notices>>

\* publish; archiving afterwards changes nothing here.
Issue(a) ==
  /\ a \in drafts /\ a.student \in active
  /\ drafts' = drafts \ {a}
  /\ UNCHANGED <<now, zone, active, planned, cancelled, everPlanned, done, sessions, awards,
                 unlocked, requests, awarding, evaluations, faults, ledger, everDone, notices>>

Cancel(a) ==
  /\ a \in planned \ cancelled /\ a.student \in active
  /\ cancelled' = cancelled \cup {a} /\ drafts' = drafts \ {a}
  /\ UNCHANGED <<now, zone, active, planned, everPlanned, done, sessions, awards, unlocked,
                 requests, awarding, evaluations, faults, ledger, everDone, notices>>

Planning(a) ==
  Plan(a) \/ Discard(a) \/ Issue(a) \/ Cancel(a) \/ (\E b \in Assignments : Edit(a, b))

Deactivate(s) ==
  /\ s \in active
  /\ active' = active \ {s}
  /\ UNCHANGED <<now, zone, weeks, done, sessions, awards, unlocked, requests,
                 awarding, evaluations, faults, ledger, everDone, notices>>

SetZone(s, z) ==
  /\ s \in active /\ zone[s] # z
  /\ zone' = [zone EXCEPT ![s] = z]
  /\ UNCHANGED <<now, active, weeks, done, sessions, awards, unlocked, requests,
                 awarding, evaluations, faults, ledger, everDone, notices>>

Tick ==
  /\ now < LastInstant
  /\ now' = now + 1
  /\ UNCHANGED <<zone, active, weeks, done, sessions, awards, unlocked, requests,
                 awarding, evaluations, faults, ledger, everDone, notices>>

-----------------------------------------------------------------------------
(***************************************************************************)
(* Publication.  Subject.next runs both subscribers before it returns: the *)
(* XP service starts an insert unless a session was deleted or the event   *)
(* is about an item, the achievements service starts an evaluation.        *)
(* Awards in flight are a set: inserts of one row are interchangeable.     *)
(***************************************************************************)
\* Mutant: XP for the day of the event.
AwardTaskToday(r) ==
  IF r.type = "practice-session.deleted" THEN {} ELSE {<<r.student, Today(r.student)>>}

AwardTask(r) ==
  IF r.type \in {"practice-session.created", "practice-session.corrected"}
  THEN {<<r.student, r.date>>} ELSE {}

Publish(c, e) ==
  /\ requests[c].step = "committed"
  /\ evaluations[e] = Idle
  /\ awarding' = awarding \cup AwardTask(requests[c])
  /\ evaluations' = [evaluations EXCEPT ![e] = Started(requests[c].student)]
  /\ requests' = [requests EXCEPT ![c] = Idle]
  /\ UNCHANGED <<tables, faults, ledger, everDone, notices>>

\* PracticeXpService.award: INSERT ... ON CONFLICT DO NOTHING
Award(t) ==
  /\ t \in awarding
  /\ awards' = awards \cup {t}
  /\ awarding' = awarding \ {t}
  /\ UNCHANGED <<now, zone, active, weeks, done, sessions, unlocked, requests,
                 evaluations, faults, ledger, everDone, notices>>

-----------------------------------------------------------------------------
(***************************************************************************)
(* AchievementsService.evaluateStudent, started by an event or, after the  *)
(* ownership check, by listForOwner (whose final SELECT changes nothing).  *)
(***************************************************************************)
ListForOwner(s, e) ==
  /\ s \in active
  /\ evaluations[e] = Idle
  /\ evaluations' = [evaluations EXCEPT ![e] = Started(s)]
  /\ UNCHANGED <<tables, requests, awarding, faults, ledger, everDone, notices>>

ReadFacts(e) ==
  /\ evaluations[e].step = "started"
  /\ LET s == evaluations[e].student
         ks == QualifiedNow(s)
     IN  evaluations' = [evaluations EXCEPT
           ![e] = IF ks = {} THEN Idle ELSE Qualified(s, ks)]
  /\ UNCHANGED <<tables, requests, awarding, faults, ledger, everDone, notices>>

\* Mutant: every key of the facts is announced, inserted or not.
InsertUnlocksAll(e) ==
  /\ evaluations[e].step = "qualified"
  /\ LET s == evaluations[e].student
     IN  /\ unlocked' = unlocked \cup {<<s, k>> : k \in evaluations[e].keys}
         /\ evaluations' = [evaluations EXCEPT ![e] = Inserted(s, evaluations[e].keys)]
  /\ UNCHANGED <<now, zone, active, weeks, done, sessions, awards, requests,
                 awarding, faults, ledger, everDone, notices>>

\* INSERT ... ON CONFLICT DO NOTHING RETURNING, and the commit.
InsertUnlocks(e) ==
  /\ evaluations[e].step = "qualified"
  /\ LET s == evaluations[e].student
         new == {k \in evaluations[e].keys : <<s, k>> \notin unlocked}
     IN  /\ unlocked' = unlocked \cup {<<s, k>> : k \in new}
         /\ evaluations' = [evaluations EXCEPT ![e] = Inserted(s, new)]
  /\ UNCHANGED <<now, zone, active, weeks, done, sessions, awards, requests,
                 awarding, faults, ledger, everDone, notices>>

Announce(e) ==
  /\ evaluations[e].step = "inserted"
  /\ notices' = [n \in DOMAIN notices |->
       IF n[1] = evaluations[e].student /\ n[2] \in evaluations[e].keys
       THEN notices[n] + 1 ELSE notices[n]]
  /\ evaluations' = [evaluations EXCEPT ![e] = Idle]
  /\ UNCHANGED <<tables, requests, awarding, faults, ledger, everDone>>

-----------------------------------------------------------------------------
(***************************************************************************)
(* PracticeProgressService.getAssignmentSummary: one transaction that      *)
(* inserts the missing awards of the student and then, in a statement with *)
(* a later snapshot, reads the figures.  Its rows show when it commits.    *)
(***************************************************************************)
RepairAwards(c, a) ==
  /\ requests[c] = Idle
  /\ a \in planned \ cancelled /\ a.student \in active
  /\ requests' = [requests EXCEPT
       ![c] = Repaired(a.student, LiveDates(a.student) \ AwardDates(a.student),
                       LiveDates(a.student))]
  /\ UNCHANGED <<tables, awarding, evaluations, faults, ledger, everDone, notices>>

ReadSummary(c) ==
  /\ requests[c].step = "repaired"
  /\ awards' = awards \cup {<<requests[c].student, d>> : d \in requests[c].own}
  /\ requests' = [requests EXCEPT ![c] = Idle]
  /\ UNCHANGED <<now, zone, active, weeks, done, sessions, unlocked, awarding,
                 evaluations, faults, ledger, everDone, notices>>

-----------------------------------------------------------------------------
(***************************************************************************)
(* Faults: a statement that fails, which both subscribers swallow, and a   *)
(* process that stops and starts again.                                    *)
(***************************************************************************)
Fault == faults < MaxFaults /\ faults' = faults + 1

AwardFails(t) ==
  /\ Fault
  /\ t \in awarding
  /\ awarding' = awarding \ {t}
  /\ UNCHANGED <<tables, requests, evaluations, ledger, everDone, notices>>

EvaluationFails(e) ==
  /\ Fault
  /\ evaluations[e].step \in {"started", "qualified"}
  /\ evaluations' = [evaluations EXCEPT ![e] = Idle]
  /\ UNCHANGED <<tables, requests, awarding, ledger, everDone, notices>>

SummaryFails(c) ==
  /\ Fault
  /\ requests[c].step = "repaired"
  /\ requests' = [requests EXCEPT ![c] = Idle]
  /\ UNCHANGED <<tables, awarding, evaluations, ledger, everDone, notices>>

Crash ==
  /\ Fault
  /\ requests' = [c \in Clients |-> Idle]
  /\ evaluations' = [e \in Evaluators |-> Idle]
  /\ awarding' = {}
  /\ UNCHANGED <<tables, ledger, everDone, notices>>

-----------------------------------------------------------------------------
Next ==
  \/ \E c \in Clients :
       \/ Create(c) \/ Correct(c) \/ Remove(c)
       \/ \E a \in planned, i \in Items : Complete(c, a, i) \/ Reopen(c, a, i)
       \/ \E e \in Evaluators : Publish(c, e)
       \/ \E a \in Assignments : RepairAwards(c, a)
       \/ ReadSummary(c) \/ SummaryFails(c)
  \/ \E t \in awarding : Award(t) \/ AwardFails(t)
  \/ \E e \in Evaluators :
       \/ \E s \in Students : ListForOwner(s, e)
       \/ ReadFacts(e) \/ InsertUnlocks(e) \/ Announce(e) \/ EvaluationFails(e)
  \/ \E a \in Assignments : Planning(a)
  \/ \E s \in Students : Deactivate(s) \/ (\E z \in Zones : SetZone(s, z))
  \/ Tick \/ Crash

Spec == Init /\ [][Next]_vars

-----------------------------------------------------------------------------
(***************************************************************************)
(* Types.                                                                  *)
(***************************************************************************)
Row == [id : SessionIds, student : Students, item : Items \cup {NoItem},
        seconds : Durations, at : Nat, zone : Zones, date : Nat]

Request ==
  {Idle}
    \cup [step : {"committed"}, type : EventType, student : Students, date : Nat]
    \cup [step : {"repaired"}, student : Students, own : SUBSET Nat, live : SUBSET Nat]

Evaluation ==
  {Idle} \cup [step : {"started", "qualified", "inserted"},
               student : Students, keys : SUBSET AchievementKey]

\* Every variable holds what its table, request or task can hold.
TypeOK ==
  /\ now \in Nat
  /\ zone \in [Students -> Zones]
  /\ active \in SUBSET Students
  /\ planned \in SUBSET Assignments /\ drafts \in SUBSET planned
  /\ cancelled \in SUBSET Assignments /\ everPlanned \in SUBSET Assignments
  /\ done \in SUBSET Items
  /\ sessions \in SUBSET Row
  /\ awards \in SUBSET (Students \X Nat)
  /\ unlocked \in SUBSET (Students \X AchievementKey)
  /\ requests \in [Clients -> Request]
  /\ awarding \in SUBSET (Students \X Nat)
  /\ evaluations \in [Evaluators -> Evaluation]
  /\ faults \in Nat
  /\ ledger \in SUBSET Row
  /\ everDone \in SUBSET Items
  /\ notices \in [Students \X AchievementKey -> Nat]

(***************************************************************************)
(* Safety.                                                                 *)
(***************************************************************************)
Practised == {<<p.student, p.date>> : p \in ledger}

\* XP is paid only for a date on which the student really had a session,
\* whichever of the two writers (event or summary repair) paid it, and
\* although the session may since have moved to another date or be gone.
AwardsJustified == awards \subseteq Practised

\* However many evaluations of one student overlap, and wherever a crash
\* falls, an unlock is announced at most once, and never before its row is
\* in the database (docs/achievement-delivery.md: event publication is
\* idempotent under concurrency).
NoticeOnce ==
  \A n \in Students \X AchievementKey :
    /\ notices[n] <= 1
    /\ notices[n] = 1 => n \in unlocked

\* The inductive form of AwardsJustified: whatever may still become an award,
\* an insert in flight, an unpublished event or the rows of an uncommitted
\* summary, is already a practised date.
PayableIsPractised ==
  /\ sessions \subseteq ledger
  /\ AwardsJustified
  /\ awarding \subseteq Practised
  /\ \A c \in Clients :
       /\ requests[c].step = "committed" => AwardTask(requests[c]) \subseteq Practised
       /\ requests[c].step = "repaired" =>
            \A d \in requests[c].own : <<requests[c].student, d>> \in Practised

\* The inductive form of NoticeOnce: the rows an evaluation has inserted and
\* not yet announced are in the table, unannounced, and nobody else's.
NoticesOwned ==
  /\ NoticeOnce
  /\ \A e \in Evaluators : evaluations[e].step = "inserted" =>
       \A k \in evaluations[e].keys :
         /\ <<evaluations[e].student, k>> \in unlocked
         /\ notices[<<evaluations[e].student, k>>] = 0
  /\ \A e, f \in Evaluators :
       /\ e # f
       /\ evaluations[e].step = "inserted" /\ evaluations[f].step = "inserted"
       /\ evaluations[e].student = evaluations[f].student
       => evaluations[e].keys \cap evaluations[f].keys = {}

\* Between the two statements of a summary every date that was practised when
\* it began is awarded or among its own rows: awards that an event lost are
\* repaired before XP is added up.
SummaryReconciles ==
  \A c \in Clients :
    requests[c].step = "repaired" =>
      requests[c].live \subseteq
        requests[c].own \cup AwardDates(requests[c].student)

(***************************************************************************)
(* What a student has deserved, judged from assignments, session rows and  *)
(* completed items alone: days in a row, the seconds of a week, the days   *)
(* of an item.                                                             *)
(***************************************************************************)
HasRun(dates, n) == \E d \in dates : d .. (d + n - 1) \subseteq dates

RowsOfWeek(rows, a) ==
  {p \in rows : p.student = a.student /\ p.date \in a.start .. a.start + 6}

DaysOfItem(rows, a, i) ==
  {p.date : p \in {q \in rows : q.item = i /\ q.date \in a.start .. a.start + 6}}

Met(rows, completed, a, i) ==
  IF i.mode = "one_time" THEN i \in completed
  ELSE i.target <= Cardinality(DaysOfItem(rows, a, i))

Earned(plans, rows, completed, s, k) ==
  LET dates == {p.date : p \in {q \in rows : q.student = s}}
      own == {a \in plans : a.student = s}
  IN  CASE k = "first_practice" -> dates # {}
        [] k = "weekly_60_minutes" ->
             \E a \in own : MapThenSumSet(LAMBDA p : p.seconds, RowsOfWeek(rows, a)) >= 3600
        [] k = "three_day_streak" -> HasRun(dates, 3)
        [] k = "seven_day_streak" -> HasRun(dates, 7)
        [] k = "first_assignment_complete" ->
             \E a \in own : a.items # {} /\ \A i \in a.items : Met(rows, completed, a, i)

EverEarned(s, k) == Earned(everPlanned, ledger, everDone, s, k)

\* Every unlocked achievement was once deserved, judged from the history of
\* the ledger alone: the weeks, dates, minutes and completions that ever existed.
UnlockedIsEarned == \A u \in unlocked : EverEarned(u[1], u[2])

\* The inductive form of UnlockedIsEarned: the keys an evaluation has read from
\* the facts and not yet inserted are earned as well, since what the facts are
\* read from, the live sessions and completions, is part of the history.
KeysAreEarned ==
  /\ UnlockedIsEarned
  /\ IsFiniteSet(ledger)
  /\ sessions \subseteq ledger /\ done \subseteq everDone /\ planned \subseteq everPlanned
  /\ \A e \in Evaluators : evaluations[e].step = "qualified" =>
       \A k \in evaluations[e].keys : EverEarned(evaluations[e].student, k)

\* A student whose summary shows a streak of three days has or qualifies for
\* the three-day achievement.  Does not hold: after a move to a western zone the
\* last session may be dated tomorrow; the summary counts its island
\* (end_date >= today - 1), the rule does not (last_date IN (today, today - 1)).
StreakShownIsRewarded ==
  \A s \in Students :
    SummaryStreak(LiveDates(s), Today(s)) >= 3 =>
      \/ "three_day_streak" \in QualifiedNow(s)
      \/ <<s, "three_day_streak">> \in unlocked

-----------------------------------------------------------------------------
(***************************************************************************)
(* The abstract ledger of rewards that this module implements: requests,   *)
(* tasks, faults and clocks are hidden.                                    *)
(***************************************************************************)
Promise == INSTANCE RewardLedger WITH
             Keys      <- AchievementKey,
             practised <- Practised

\* Every step pays practised dates, unlocks, announces for the first time what
\* is unlocked, records practice, or changes nothing of this; nothing is ever
\* taken back, although sessions are corrected, deleted and completions reopened.
ImplementsLedger == Promise!Spec
=============================================================================

--------------------------- MODULE PracticeRules ---------------------------
(***************************************************************************)
(* The pure rules behind the practice ledger: how an instant becomes a     *)
(* student-local date, how the two SQL queries of the server fold sessions *)
(* into weekly figures, streaks and item progress, and which achievements  *)
(* those figures qualify for.                                              *)
(*                                                                         *)
(* A session is a row of practice_sessions:                                *)
(*   [id, student, item, seconds, at, zone, date]                          *)
(* An assignment is [student, start, items], its week being the seven days *)
(* from start (CHECK end_date = start_date + 6); an item is [id, mode,     *)
(* target], target being 1 for a one_time item.                            *)
(***************************************************************************)
EXTENDS Integers, FiniteSets, FiniteSetsExt

CONSTANTS
  TicksPerDay   \* instants per calendar day; a zone is an offset in ticks

ASSUME TicksPerDayAssumption == TicksPerDay \in Nat \ {0}

HourGoal     == 3600  \* seconds of the weekly_60_minutes rule
ShortStreak  == 3     \* days of the three_day_streak rule
LongStreak   == 7     \* days of the seven_day_streak rule

NoItem == [id |-> "none", mode |-> "none", target |-> 0]

\* CHK_assignment_item_mode_target
ItemChecked(i) ==
  \/ i.mode = "practice_days" /\ i.target \in 1..7
  \/ i.mode = "one_time" /\ i.target = 1

(***************************************************************************)
(* Calendar.                                                               *)
(***************************************************************************)

\* (practiced_at AT TIME ZONE zone)::date
LocalDate(instant, zone) == (instant + zone) \div TicksPerDay

\* Mutant: a week of eight days.
LastDayNextMonday(a) == a.start + 7

\* CHECK (end_date = start_date + 6)
LastDay(a) == a.start + 6

InWeek(a, d) == a.start <= d /\ d <= LastDay(a)

-----------------------------------------------------------------------------
(***************************************************************************)
(* Streaks.  Both queries number the distinct practice dates in order and  *)
(* group them by date minus row number, so that consecutive dates form one *)
(* island; they differ in which island counts as current.                  *)
(***************************************************************************)

PracticeDates(rows, s) == {p.date : p \in {q \in rows : q.student = s}}

RowNumber(dates, d) == Cardinality({e \in dates : e <= d})

IslandKey(dates, d) == d - RowNumber(dates, d)

Islands(dates) ==
  LET members(k) == {d \in dates : IslandKey(dates, d) = k}
  IN  { [last |-> Max(members(k)), length |-> Cardinality(members(k))] :
          k \in {IslandKey(dates, d) : d \in dates} }

\* ORDER BY last DESC LIMIT 1, COALESCE(..., 0)
LengthOfLatest(islands) ==
  IF islands = {} THEN 0
  ELSE (CHOOSE i \in islands : \A j \in islands : j.last <= i.last).length

\* The streak of the practice summary: WHERE end_date >= today - 1.
SummaryStreak(dates, today) ==
  LengthOfLatest({i \in Islands(dates) : i.last >= today - 1})

\* Mutant: yesterday's streak no longer counts.
RuleStreakToday(dates, today) ==
  LengthOfLatest({i \in Islands(dates) : i.last = today})

\* The streak of the achievement facts: WHERE last_date IN (today, today - 1).
RuleStreak(dates, today) ==
  LengthOfLatest({i \in Islands(dates) : i.last \in {today, today - 1}})

-----------------------------------------------------------------------------
(***************************************************************************)
(* Weekly figures and item progress.                                       *)
(***************************************************************************)

WeekRows(rows, a) ==
  {p \in rows : p.student = a.student /\ InWeek(a, p.date)}

WeeklySeconds(rows, a) == MapThenSumSet(LAMBDA p : p.seconds, WeekRows(rows, a))

DistinctPracticeDays(rows, a) ==
  Cardinality(PracticeDates(WeekRows(rows, a), a.student))

\* Mutant: COUNT without DISTINCT.
PractisedRows(rows, a, i) ==
  Cardinality({q \in WeekRows(rows, a) : q.item = i})

PractisedDays(rows, a, i) ==
  Cardinality({p.date : p \in {q \in WeekRows(rows, a) : q.item = i}})

\* item_progress of the summary query; done holds the items with an active
\* completion row.
ItemProgress(rows, done, a, i) ==
  LET days == PractisedDays(rows, a, i)
      ticked == i \in done
  IN  IF i.mode = "practice_days"
      THEN [current |-> Min({days, i.target}), completed |-> days >= i.target]
      ELSE [current |-> IF ticked THEN 1 ELSE 0, completed |-> ticked]

\* COALESCE(BOOL_AND(completed), false)
SummaryCompleted(rows, done, a) ==
  /\ a.items # {}
  /\ \A i \in a.items : ItemProgress(rows, done, a, i).completed

\* What GET practice-summary answers, given the XP rows it can see.
Summary(rows, done, awardDates, a, today) ==
  [ seconds   |-> WeeklySeconds(rows, a),
    days      |-> DistinctPracticeDays(rows, a),
    streak    |-> SummaryStreak(PracticeDates(rows, a.student), today),
    xp        |-> 10 * Cardinality(awardDates),
    completed |-> SummaryCompleted(rows, done, a) ]

-----------------------------------------------------------------------------
(***************************************************************************)
(* Achievement facts and rules.                                            *)
(***************************************************************************)

\* Mutant: an item stays open until its target is exceeded.
FactCompletedLate(rows, done, a) ==
  /\ \E i \in a.items : TRUE
  /\ ~ \E i \in a.items :
        \/ i.mode = "one_time" /\ i \notin done
        \/ i.mode = "practice_days" /\ PractisedDays(rows, a, i) <= i.target

\* EXISTS item AND NOT EXISTS an item that is still open
FactCompleted(rows, done, a) ==
  /\ \E i \in a.items : TRUE
  /\ ~ \E i \in a.items :
        \/ i.mode = "one_time" /\ i \notin done
        \/ i.mode = "practice_days" /\ PractisedDays(rows, a, i) < i.target

Facts(rows, assignments, cancelled, done, s, today) ==
  LET own == {a \in assignments : a.student = s}
  IN  [ hasPractice            |-> \E p \in rows : p.student = s,
        hasSixtyMinuteWeek     |-> \E a \in own : WeeklySeconds(rows, a) >= HourGoal,
        currentStreak          |-> RuleStreak(PracticeDates(rows, s), today),
        hasCompletedAssignment |-> \E a \in own \ cancelled : FactCompleted(rows, done, a) ]

AchievementKey ==
  { "first_practice", "weekly_60_minutes", "three_day_streak",
    "seven_day_streak", "first_assignment_complete" }

Qualifies(key, facts) ==
  CASE key = "first_practice"            -> facts.hasPractice
    [] key = "weekly_60_minutes"         -> facts.hasSixtyMinuteWeek
    [] key = "three_day_streak"          -> facts.currentStreak >= ShortStreak
    [] key = "seven_day_streak"          -> facts.currentStreak >= LongStreak
    [] key = "first_assignment_complete" -> facts.hasCompletedAssignment

\* evaluateAchievementRules
QualifiedKeys(facts) == {k \in AchievementKey : Qualifies(k, facts)}
=============================================================================

------------------------- MODULE PracticeRulesCheck -------------------------
(***************************************************************************)
(* The two SQL queries of the server compute streaks and completion        *)
(* independently.  Here a ledger of one student grows row by row and day   *)
(* by day, and both are compared with each other and with a definition     *)
(* that counts days one after the other.                                   *)
(***************************************************************************)
EXTENDS PracticeRules

CONSTANTS
  Student,     \* the student whose ledger it is
  Week,        \* the assignment record [student, start, items]
  MaxLogged,   \* bound on the rows of the ledger
  LastDate,    \* bound on the calendar
  Ahead        \* how far past today a row may be dated (a zone change)

ASSUME CheckAssumption ==
  /\ Week = [student |-> Student, start |-> Week.start, items |-> Week.items]
  /\ Week.start \in Int
  /\ \A i \in Week.items : ItemChecked(i)
  /\ MaxLogged \in Nat /\ LastDate \in Nat /\ Ahead \in Nat

VARIABLES
  log,      \* the rows of the ledger
  ticked,   \* the items with an active completion
  day       \* today

book == <<log, ticked, day>>

LoggedItems == Week.items \cup {NoItem}

BlankBook == log = {} /\ ticked = {} /\ day = 0

\* A session of ten minutes; zone and instant are not looked at here, and as
\* the rules see a set of rows they are added in the order of their dates.
LogSession ==
  /\ Cardinality(log) < MaxLogged
  /\ \E i \in LoggedItems, d \in 0..(day + Ahead) :
       /\ d <= LastDate
       /\ \A p \in log : p.date <= d
       /\ log' = log \cup {[id |-> Cardinality(log) + 1, student |-> Student, item |-> i,
                            seconds |-> 600, at |-> d, zone |-> 0, date |-> d]}
  /\ UNCHANGED <<ticked, day>>

TickItem ==
  /\ \E i \in {j \in Week.items : j.mode = "one_time"} : ticked' = ticked \cup {i}
  /\ UNCHANGED <<log, day>>

NextDay ==
  /\ day < LastDate
  /\ day' = day + 1
  /\ UNCHANGED <<log, ticked>>

Entry == LogSession \/ TickItem \/ NextDay

BookSpec == BlankBook /\ [][Entry]_book

-----------------------------------------------------------------------------
MyDates == PracticeDates(log, Student)

\* Days in a row up to today, or up to yesterday when today has no session.
DaysInARow ==
  LET end == IF day \in MyDates THEN day ELSE day - 1
      ends(n) == (end - n + 1) .. end \subseteq MyDates
  IN  CHOOSE n \in 0..(LastDate + 1) : ends(n) /\ ~ ends(n + 1)

\* With no date ahead of today, both island queries count the days in a row.
StreaksAgree ==
  (\A d \in MyDates : d <= day) =>
    /\ SummaryStreak(MyDates, day) = DaysInARow
    /\ RuleStreak(MyDates, day) = DaysInARow

\* The summary's flag and the achievement's fact are one predicate.
CompletionAgrees ==
  SummaryCompleted(log, ticked, Week) <=> FactCompleted(log, ticked, Week)

\* An item counts practised days up to its target, sessions of one day once
\* and days outside the week not at all; it is complete exactly at the target.
ProgressCounts ==
  \A i \in Week.items :
    LET p == ItemProgress(log, ticked, Week, i)
        days == {d \in Week.start .. Week.start + 6 :
                   \E r \in log : r.item = i /\ r.date = d}
    IN  /\ p.completed <=> p.current = i.target
        /\ i.mode = "practice_days" =>
             p.current = Min({i.target, Cardinality(days)})

\* At the seam of two weeks a session counts towards exactly one of them, in
\* the seconds as in the days.
WeeklyFigures ==
  LET following == [Week EXCEPT !.start = @ + 7]
      both == {p \in log : p.date \in Week.start .. Week.start + 13}
      this == Summary(log, ticked, MyDates, Week, day)
      next == Summary(log, ticked, MyDates, following, day)
  IN  /\ this.seconds + next.seconds = 600 * Cardinality(both)
      /\ this.days + next.days = Cardinality({p.date : p \in both})

\* The figures of a summary, by item and by week.
FiguresAddUp == ProgressCounts /\ WeeklyFigures
=============================================================================

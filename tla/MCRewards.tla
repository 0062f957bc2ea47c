----------------------------- MODULE MCRewards -----------------------------
(***************************************************************************)
(* Instances of Rewards for TLC.                                           *)
(***************************************************************************)
EXTENDS Rewards, TLC

CONSTANTS s1

MCStudents == {s1}

Piece  == [id |-> "piece",  mode |-> "practice_days", target |-> 2]
Theory == [id |-> "theory", mode |-> "one_time",      target |-> 1]

\* A week with an item to tick off.
TheoryWeek == { [student |-> s1, start |-> 0, items |-> {Theory}] }

\* Beside it, a week with an item to practise, and the same a day later.
ThreeWeeks ==
  TheoryWeek \cup { [student |-> s1, start |-> d, items |-> {Piece}] : d \in {0, 1} }

\* A week without items: only the calendar matters.
EmptyWeek == { [student |-> s1, start |-> 0, items |-> {}] }

\* A western and an eastern zone, half a day apart when a day has two ticks.
TwoZones == {0, 1}

HalfHour == {1800}

OneHour == {3600}

Symmetric == Permutations(Clients) \cup Permutations(Evaluators)

-----------------------------------------------------------------------------
(***************************************************************************)
(* Three bounds on the states that are continued: each leaves one thing    *)
(* free that the other two hold still.                                     *)
(***************************************************************************)
ClockStands ==
  /\ now = FirstInstant
  /\ \A s \in Students : zone[s] = HomeZone
  /\ \A p \in ledger : p.zone = HomeZone

\* One session, corrected or deleted, at most one week, and nothing about items.
OneSession ==
  /\ planned = drafts /\ everPlanned = planned /\ planned \subseteq TheoryWeek
  /\ Cardinality({p.id : p \in ledger}) <= 1
  /\ \A p \in ledger : p.item = NoItem
  /\ everDone = {}

\* A week, edited or replaced at most once, whose item is practised or ticked off; what is
\* paid for it is left to the other two.
OneWeek ==
  /\ Cardinality(planned) <= 1 /\ Cardinality(everPlanned) <= 2
  /\ everDone = {} \/ ledger = {}
  /\ awards = {} /\ \A c \in Clients : requests[c].step # "repaired"

OneAtATime ==
  /\ Cardinality({c \in Clients : requests[c] # Idle}) <= 1
  /\ Cardinality({e \in Evaluators : evaluations[e] # Idle}) <= 1

\* Requests and evaluations overlap, with a fault; or the clock and the zones move; or a
\* week is planned, edited, issued and cancelled, and its item practised or completed.
Bounded ==
  \/ ClockStands /\ OneSession
  \/ OneSession /\ OneAtATime /\ faults = 0
  \/ ClockStands /\ OneWeek /\ OneAtATime /\ faults = 0
=============================================================================

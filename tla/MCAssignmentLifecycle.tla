------------------------ MODULE MCAssignmentLifecycle ------------------------
(***************************************************************************)
(* Instances of AssignmentLifecycle for TLC.                               *)
(***************************************************************************)
EXTENDS AssignmentLifecycle, FiniteSets, TLC

CONSTANT first

Symmetric == Permutations(Clients) \cup Permutations(Assignments)

\* Two bounds on the states that are continued: one assignment of sections alone, or
\* copies of assignments that have one place for each kind of row, where a third INSERT
\* is followed by one request at a time.
OneWeek ==
  /\ Cardinality({a \in Assignments : rows[a] # Unborn}) <= 1
  /\ \A a \in Assignments : Exists(a) => rows[a].notices = {}

OnePlace ==
  /\ \A a \in Assignments : Exists(a) =>
       rows[a].details = first /\ \A s \in rows[a].sections : s.position = 0
  /\ batches <= 2 \/ \E c \in Clients : requests[c] = Idle

Bounded == OneWeek \/ OnePlace
=============================================================================

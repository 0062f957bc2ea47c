SPECIFICATION Spec
CONSTANTS
  TicksPerDay = 2
  s1 = s1
  Students <- MCStudents
  SessionIds = {p1, p2}
  Clients = {c1, c2}
  Evaluators = {e1, e2}
  Assignments <- ThreeWeeks
  Zones <- TwoZones
  HomeZone = 1
  Durations <- HalfHour
  FirstInstant = 1
  LastInstant = 3
  MaxRows = 2
  MaxFaults = 1
SYMMETRY Symmetric
CONSTRAINT Bounded
INVARIANTS TypeOK AwardsJustified NoticeOnce SummaryReconciles UnlockedIsEarned
PROPERTIES ImplementsLedger
CHECK_DEADLOCK FALSE

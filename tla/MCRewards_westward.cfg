SPECIFICATION Spec
CONSTANTS
  TicksPerDay = 2
  s1 = s1
  Students <- MCStudents
  SessionIds = {p1, p2, p3}
  Clients = {c1}
  Evaluators = {e1}
  Assignments <- EmptyWeek
  Zones <- TwoZones
  HomeZone = 1
  Durations <- HalfHour
  FirstInstant = 5
  LastInstant = 5
  MaxRows = 3
  MaxFaults = 0
SYMMETRY Symmetric
INVARIANTS StreakShownIsRewarded
CHECK_DEADLOCK FALSE

SPECIFICATION CalmSpec
CONSTANTS
  TicksPerDay = 1
  s1 = s1
  Students <- MCStudents
  SessionIds = {p1, p2, p3}
  Clients = {c1}
  Evaluators = {e1}
  Assignments <- TheoryWeek
  Zones <- TwoZones
  HomeZone = 0
  Durations <- OneHour
  FirstInstant = 2
  LastInstant = 2
  MaxRows = 3
  MaxFaults = 0
PROPERTIES PromisesArrive
CHECK_DEADLOCK FALSE

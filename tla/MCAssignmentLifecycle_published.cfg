SPECIFICATION Spec
CONSTANTS
  first = first
  Assignments = {week}
  Clients = {c1, c2}
  Details = {first, second}
  Positions = {0}
  NoticePlaces = {0}
  MaxBatches = 3
PROPERTIES PublishedContentIsImmutable
CHECK_DEADLOCK FALSE

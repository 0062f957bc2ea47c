SPECIFICATION Spec
CONSTANTS
  first = first
  Assignments = {week, next}
  Clients = {c1, c2}
  Details = {first, second}
  Positions = {0, 1}
  NoticePlaces = {0}
  MaxBatches = 3
SYMMETRY Symmetric
CONSTRAINT Bounded
INVARIANTS TypeOK RowsConsistent NothingShared
PROPERTIES IllegalNeedsRace
CHECK_DEADLOCK FALSE

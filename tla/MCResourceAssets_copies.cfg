SPECIFICATION Spec
CONSTANTS
  Keys = {k1}
  Clients = {c1, c2}
  MaxIds = 2
INVARIANTS ReferencedObjectsExist
CHECK_DEADLOCK FALSE

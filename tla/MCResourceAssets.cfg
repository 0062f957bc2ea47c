SPECIFICATION Spec
CONSTANTS
  Keys = {k1, k2}
  Clients = {c1, c2, c3}
  MaxIds = 2
SYMMETRY Symmetric
INVARIANTS UploadedRowsReadable NothingLeaks
CHECK_DEADLOCK FALSE

SPECIFICATION Spec
CONSTANTS
  NrIoQueues = 2
  Reqs = {r1, r2}
  MaxReconnects = 2
INVARIANTS
  DeleteSerialized
SYMMETRY Symmetry
CHECK_DEADLOCK FALSE

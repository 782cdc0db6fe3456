SPECIFICATION Spec
CONSTANTS
  Tags = {t1, t2}
  Cpus = {c1}
  Kinds <- ReadWriteKinds
  NULL = NULL
  Agg <- MCAgg
  Capacity <- MCCapacity
  HdrLen = 1
  PageLen = 2
  InlinePages = 1
  BigPages = 2
  SndBuf = 12
  DataDigest = FALSE
  Preemptible = FALSE
  ParamWrites = FALSE
  Faults = FALSE
INVARIANTS
  StreamWellFormed
SYMMETRY Symmetry
CHECK_DEADLOCK FALSE

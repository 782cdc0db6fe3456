SPECIFICATION Spec
CONSTANTS
  Tags = {t1}
  Cpus = {c1}
  Kinds <- WithBigWrites
  NULL = NULL
  Agg <- MCAgg
  Capacity <- MCCapacity
  HdrLen = 1
  PageLen = 2
  InlinePages = 1
  BigPages = 2
  SndBuf = 12
  DataDigest = TRUE
  Preemptible = FALSE
  ParamWrites = TRUE
  Faults = TRUE
INVARIANTS
  CaravanBounds
  SingleOwner
CHECK_DEADLOCK FALSE

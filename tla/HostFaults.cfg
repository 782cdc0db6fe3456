SPECIFICATION Spec
CONSTANTS
  Tags = {t1, t2}
  Cpus = {c1, c2}
  Kinds <- R2tKinds
  NULL = NULL
  Agg <- MCAgg
  Capacity <- MCCapacity
  HdrLen = 1
  PageLen = 2
  InlinePages = 1
  BigPages = 2
  SndBuf = 12
  DataDigest = FALSE
  Preemptible = TRUE
  ParamWrites = FALSE
  Faults = TRUE
INVARIANTS
  TypeOK
  SingleOwner
  CaravanOwnsRequests
  
SYMMETRY Symmetry2
CHECK_DEADLOCK FALSE

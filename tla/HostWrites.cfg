SPECIFICATION Spec
CONSTANTS
  Tags = {t1, t2, t3}
  Cpus = {c1}
  Kinds <- WriteKinds
  NULL = NULL
  Agg <- MCAgg
  Capacity <- MCCapacity
  HdrLen = 1
  PageLen = 2
  InlinePages = 1
  BigPages = 2
  SndBuf = 12
  DataDigest = FALSE
  Preemptible = FALSE
  ParamWrites = FALSE
  Faults = FALSE
INVARIANTS
  CaravanBounds
  PduNeverOverrun
  StreamWellFormed
  CaravanContiguous
  
SYMMETRY Symmetry

SPECIFICATION Spec
CONSTANTS
  Tags = {t1, t2}
  Cmds = {q1, q2}
  Kinds <- BigReadKinds
  FailKinds <- NoKinds
  NULL = NULL
  RecvBudget = 2
  SendBudget = 2
  Capacity <- MCCapacity
  HdrLen = 1
  PageLen = 2
  InlinePages = 1
  SndBuf = 10
  DataDigest = FALSE
  IsAdmin = FALSE
  Faults = FALSE
INVARIANTS
  StreamWellFormed
SYMMETRY Symmetry
CHECK_DEADLOCK FALSE

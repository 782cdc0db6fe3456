SPECIFICATION Spec
CONSTANTS
  Tags = {t1, t2}
  Cmds = {q1, q2}
  Kinds <- BigReadKinds
  FailKinds <- BigFailKinds
  NULL = NULL
  RecvBudget = 2
  SendBudget = 2
  Capacity <- MCCapacity
  HdrLen = 1
  PageLen = 2
  InlinePages = 1
  SndBuf = 9
  DataDigest = FALSE
  IsAdmin = FALSE
  Faults = FALSE
INVARIANTS
  CaravanBounds
  OneOwner
  CaravanHoldsCmds
  
  NeverOutOfCommands
  ExecutesCompleteWrites
  AnsweredOnce
  CaravanContiguous
SYMMETRY Symmetry
CHECK_DEADLOCK FALSE

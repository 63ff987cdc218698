CONSTANTS
  a = a
  b = b
  c = c
  d = d
  m = m
  n = n
  Thread = {a, b, c}
  MutexId = {m, n}
  None = None
  MINPRI = 3
  BasePri <- DistinctPri
  MaxDepth <- OneTwice
  Interruptible = {}
  Killable = {}
  Repri = {}
SPECIFICATION FairSpec
CHECK_DEADLOCK FALSE
INVARIANTS
  MutexBooksRight
  NoDeadlock
  BoostEnds
PROPERTIES
  BoostReachesBlockers
  LockTerminates

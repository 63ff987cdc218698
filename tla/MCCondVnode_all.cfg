CONSTANTS
  a = a
  b = b
  cv = cv
  CondId = {cv}
  m1 = m1
  m2 = m2
  d1 = d1
  d2 = d2
  t1 = t1
  t2 = t2
  t3 = t3
  Thread = {a, b}
  MutexId = {m1, m2}
  None = None
  MINPRI = 3
  BasePri <- DistinctPri
  MaxDepth <- OneTwice
  Interruptible = {a, b}
  Killable = {a}
  Repri = {a, b}
  FsThread = {t1, t2, t3}
  VnodeId = {d1, d2}
  rootvp = rootvp
  NoVnode = None
  NoThread = None
  ParentOf <- MCParentOf
  Directory = {"/", "d"}
  Asked = {"f", "g"}
  MaxOpen = 1
SYMMETRY ServerThreads
SPECIFICATION BothSpec
CHECK_DEADLOCK FALSE
INVARIANTS
  NeverBelowBase
  OneSleepQueue
  VnodesCounted

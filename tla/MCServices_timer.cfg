CONSTANTS
  t1 = t1
  t2 = t2
  t3 = t3
  m1 = m1
  m2 = m2
  v1 = v1
  k1 = k1
  k2 = k2
  d1 = d1
  d2 = d2
  CondId = {v1}
  Thread = {t1, t2, t3}
  MutexId = {m1}
  None = None
  MINPRI = 3
  BasePri <- ServicePri
  MaxDepth <- LockedTwice
  Interruptible = {}
  Killable = {}
  Repri = {}
  Callout = {t1, t2}
  Periodic = {t3}
  IsrTimer = {t2}
  MaxDelay = 2
  Wrap = 6
  TimerOps = {"again"}
  Vector = {v1}
  MaxReq = 2
  Dpc = {d1, d2}
  TaskId = {k1, k2}
  TaskThread = {t1, t2, t3}
  NoTask = None
  MAXTHREADS = 2
  MaxSuspend = 2
  ExcThread = {t1, t2}
  ExcNo = {1, 2}
  DevId = {d1, d2}
  DevName = {m1, m2}
  DevThread = {t1, t2, t3}
  NoDev = None
  Usable <- MCUsable
  Reserved <- MCReserved
  MaxPages = 2
  MapId = {k1, k2}
  MaxRef = 2
  MaxSegs = 2
  PageUnits = 6
  MinBlock = 2
  KmemSizes = {2, 3}
  Reader = {t1, t2}
  Writer = {t3}
  PIPE_BUF = 2
  MaxWrite = 3
  Blocks = 6
  SeqNumbers = 4
  MaxLine = 2
  Slot = {t1, t2}
  initproc = m1
  NoProc = None
  PID_MAX = 4
SPECIFICATION TimersSpec
CHECK_DEADLOCK FALSE
INVARIANTS
  TimerListSorted

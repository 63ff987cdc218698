CONSTANTS
  a = a
  b = b
  c = c
  d = d
  m = m
  n = n
  Thread = {a, b, c}
  MutexId = {m}
  None = None
  MINPRI = 3
  BasePri <- EqualPri
  MaxDepth <- AllOnce
  Interruptible = {}
  Killable = {}
  Repri = {}
SPECIFICATION Spec
CHECK_DEADLOCK FALSE
INVARIANTS
  HolderIsAwake

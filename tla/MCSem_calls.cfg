CONSTANTS
  a = a
  b = b
  c = c
  d = d
  Thread = {a, b, c, d}
  Owner = {a, c}
  Priority <- MCPriority
  MAXSEMVAL = 2
  InitVals = {0, 1}
  Interruptible = {a, c}
  Killable = {a, b}
  MaxDestroy = 1
SPECIFICATION FairSpec
CHECK_DEADLOCK FALSE
INVARIANTS
  ReferencesAreCounted
  NoLostWakeup
PROPERTIES
  ImplementsSemaphore

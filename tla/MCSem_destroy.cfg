CONSTANTS
  a = a
  b = b
  c = c
  d = d
  Thread = {a, b, c}
  Owner = {a}
  Priority <- MCPriority
  MAXSEMVAL = 2
  InitVals = {0, 1}
  Interruptible = {}
  Killable = {}
  MaxDestroy = 2
SPECIFICATION Spec
CHECK_DEADLOCK FALSE
INVARIANTS
  NoUseAfterFree

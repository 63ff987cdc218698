CONSTANTS
  a = a
  b = b
  s1 = s1
  s2 = s2
  o1 = o1
  o2 = o2
  Thread = {a, b, s1}
  Server = {s1}
  Client = {a, b}
  Object = {o1}
  None = None
  Priority <- MCPriority
  Interruptible = {a}
  Killable = {}
  Ops = {}
SPECIFICATION Spec
CHECK_DEADLOCK FALSE
INVARIANTS
  SuccessMeansReplied

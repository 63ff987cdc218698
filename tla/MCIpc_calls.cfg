CONSTANTS
  a = a
  b = b
  s1 = s1
  s2 = s2
  o1 = o1
  o2 = o2
  Thread = {a, b, s1, s2}
  Server = {s1, s2}
  Client = {a, b, s1}
  Object = {o1, o2}
  None = None
  Priority <- MCPriority
  Interruptible = {}
  Killable = {}
  Ops = {}
SPECIFICATION FairSpec
CHECK_DEADLOCK FALSE
INVARIANTS
  PartnersMatch
  NoIdleReceiver
  LinksIntact
PROPERTIES
  SendReturns

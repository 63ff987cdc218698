CONSTANTS
  idle = idle
  a = a
  b = b
  c = c
  Thread = {idle, a, b}
  Idle = idle
  Event = {"e"}
  MINPRI = 2
  QUANTUM = 2
  MaxLocks = 2
  Ops = {"start", "stop", "sleep", "tsleep", "wakeup", "wakeone", "unsleep", "suspend", "resume", "setpri", "setpolicy", "yield", "tick", "intr"}
  Created <- AnyAttributes
SPECIFICATION Spec
SYMMETRY Symmetry
INVARIANTS
  QueuesMatchStates
  MaxpriIsBest
  PriorityScheduling

CONSTANTS
  idle = idle
  a = a
  b = b
  c = c
  Thread = {idle, a, b, c}
  Idle = idle
  Event = {"e"}
  MINPRI = 2
  QUANTUM = 1
  MaxLocks = 1
  Ops = {"start", "sleep", "wakeone", "wakeup", "resume", "suspend", "tick", "intr"}
  Created <- OneBetter
SPECIFICATION FairSpec
PROPERTIES
  PreemptedStaysFirst
  RoundRobin
  WakeupsTakeEffect

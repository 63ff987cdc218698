----------------------------- MODULE MCServices -----------------------------
(***************************************************************************)
(* Small instances of the components that share no state with each other,  *)
(* checked in one run: which of them runs is chosen at the start, and the  *)
(* others stay as they are.                                                *)
(***************************************************************************)
EXTENDS Cond, Timer, Deferred, Task, Exception, Device, Kmem, Vm, Fifo, Xmodem,
  Proc

CONSTANTS t1, t2, t3, m1, m2, v1, k1, k2, d1, d2

VARIABLE service

\* t1 before t2 before t3, and a mutex that is locked twice.
ServicePri == [t \in Thread |-> IF t = t1 THEN 0 ELSE IF t = t2 THEN 1 ELSE 2]
LockedTwice == [x \in MutexId |-> 2]

\* Pages 1 and 3 to 4, the page between them is reserved.
MCUsable == <<[at |-> 3, size |-> 2], [at |-> 1, size |-> 2]>>
MCReserved == <<[at |-> 2, size |-> 1]>>

Services == {"cond", "timer", "deferred", "task", "exception", "device", "kmem",
             "vm", "fifo", "xmodem", "proc"}

OthersThan(name) == Services \ {name}
Still(name) ==
  CASE name = "cond" -> UNCHANGED cvars
    [] name = "timer" -> UNCHANGED timerVars
    [] name = "deferred" -> UNCHANGED deferredVars
    [] name = "task" -> UNCHANGED taskVars
    [] name = "exception" -> UNCHANGED excVars
    [] name = "device" -> UNCHANGED deviceVars
    [] name = "kmem" -> UNCHANGED <<kblocks, nallocs, kfree, kowned>>
    [] name = "vm" -> UNCHANGED vmVars
    [] name = "fifo" -> UNCHANGED fifoVars
    [] name = "xmodem" -> UNCHANGED xmodemVars
    [] name = "proc" -> UNCHANGED procVars

\* Only the component of this name runs.
OthersStill(name) ==
  /\ \A other \in OthersThan(name) : Still(other)
  /\ name \notin {"kmem", "vm"} => UNCHANGED pageVars

ServicesInit ==
  /\ service \in Services
  /\ CondInit /\ TimerInit /\ DeferredInit /\ TaskInit /\ ExceptionInit
  /\ DeviceInit /\ KmemInit /\ VmInit /\ FifoInit /\ XmodemInit
  /\ ProcInit

ServicesNext ==
  /\ UNCHANGED service
  /\ \/ service = "cond" /\ CondNext /\ OthersStill("cond")
     \/ service = "timer" /\ TimerNext /\ OthersStill("timer")
     \/ service = "deferred" /\ DeferredNext /\ OthersStill("deferred")
     \/ service = "task" /\ TaskNext /\ OthersStill("task")
     \/ service = "exception" /\ ExceptionNext /\ OthersStill("exception")
     \/ service = "device" /\ DeviceNext /\ OthersStill("device")
     \/ service = "kmem" /\ KmemNext /\ OthersStill("kmem")
     \/ service = "vm" /\ VmNext /\ OthersStill("vm")
     \/ service = "fifo" /\ FifoNext /\ OthersStill("fifo")
     \/ service = "xmodem" /\ XmodemNext /\ OthersStill("xmodem")
     \/ service = "proc" /\ ProcNext /\ OthersStill("proc")

serviceVars == <<service, cvars, timerVars, deferredVars, taskVars, excVars,
                 deviceVars, kmemVars, vmVars, fifoVars, xmodemVars, procVars>>

ServicesSpec == ServicesInit /\ [][ServicesNext]_serviceVars /\ CondFairness

\* The timers alone.
TimersSpec == ServicesInit /\ service = "timer" /\ [][ServicesNext]_serviceVars
=============================================================================

------------------------------- MODULE Deferred -------------------------------
(***************************************************************************)
(* Work that an interrupt leaves to a thread: the interrupt service thread *)
(* (IST) of each attached vector, sys/kern/irq.c, and the deferred         *)
(* procedure calls (DPC) of sys/kern/sched.c.                              *)
(*                                                                         *)
(* These kernel threads disable interrupts except while they sleep and     *)
(* while they call a function, so each runs from one of those points to    *)
(* the next in one step, and an interrupt comes before or after.           *)
(***************************************************************************)
EXTENDS Integers, PrexQueue

CONSTANTS
  Vector,  \* interrupt vectors whose ISR asks for its IST
  MaxReq,  \* bound on the requests an IST is behind
  Dpc      \* structures for sched_dpc()

ASSUME DeferredAssumption ==
  MaxReq \in Nat /\ Dpc \cap {"boot", "asleep", "ready"} = {}

VARIABLES
  istreq,  \* irq->istreq
  ist,     \* the thread of a vector: "none", not "started", "asleep" in
           \* sched_sleep(), "woken" from it, "running" the IST
  dpcq,    \* the DPC queue
  dpend,   \* the DPCs in DPC_PENDING
  dthread, \* the DPC thread: "boot" before its first sleep, "asleep", "ready"
           \* to look at the queue, or the DPC it is about to call
  dowed,   \* history: DPCs that were asked for and not called since
  dboot    \* history: the DPC thread was never woken

deferredVars == <<istreq, ist, dpcq, dpend, dthread, dowed, dboot>>
istVars == <<istreq, ist>>
dpcVars == <<dpcq, dpend, dthread, dowed, dboot>>

DeferredInit ==
  /\ istreq = [v \in Vector |-> 0] /\ ist = [v \in Vector |-> "none"]
  /\ dpcq = <<>> /\ dpend = {} /\ dowed = {} /\ dthread = "boot" /\ dboot = TRUE
-----------------------------------------------------------------------------
\* irq_attach(): the thread is there before the vector is unmasked.
IrqAttach(v) ==
  /\ ist[v] = "none"
  /\ ist' = [ist EXCEPT ![v] = "started"]
  /\ istreq' = [istreq EXCEPT ![v] = 0]
  /\ UNCHANGED dpcVars

\* irq_detach() ends the thread, whatever it does.
IrqDetach(v) ==
  /\ ist[v] # "none"
  /\ ist' = [ist EXCEPT ![v] = "none"]
  /\ istreq' = [istreq EXCEPT ![v] = 0]
  /\ UNCHANGED dpcVars

\* irq_handler() for an ISR that returns INT_CONTINUE.
IrqHandler(v) ==
  /\ ist[v] # "none" /\ istreq[v] < MaxReq
  /\ istreq' = [istreq EXCEPT ![v] = @ + 1]
  /\ ist' = [ist EXCEPT ![v] = IF @ = "asleep" THEN "woken" ELSE @]
  /\ UNCHANGED dpcVars

IrqThreadSleeps(v) ==                                               \* mutant
  /\ ist[v] \in {"started", "woken", "running"}
  /\ ist' = [ist EXCEPT ![v] = IF @ = "woken" THEN "running" ELSE "asleep"]
  /\ istreq' = [istreq EXCEPT ![v] = IF ist[v] = "woken" THEN @ - 1 ELSE @]
  /\ UNCHANGED dpcVars

\* irq_thread(): once it was woken, or finds a request, it runs the IST; a
\* request that comes meanwhile is found when the IST returns.
IrqThread(v) ==
  /\ ist[v] \in {"started", "woken", "running"}
  /\ IF ist[v] # "woken" /\ istreq[v] <= 0
     THEN ist' = [ist EXCEPT ![v] = "asleep"] /\ UNCHANGED istreq
     ELSE ist' = [ist EXCEPT ![v] = "running"] /\ istreq' = [istreq EXCEPT ![v] = @ - 1]
  /\ UNCHANGED dpcVars
-----------------------------------------------------------------------------
\* sched_dpc(), from a thread or an ISR.
SchedDpc(d) ==
  /\ dpcq' = IF d \in dpend THEN dpcq ELSE Append(dpcq, d)
  /\ dpend' = dpend \cup {d}
  /\ dthread' = IF dthread = "asleep" THEN "ready" ELSE dthread
  /\ dboot' = (dboot /\ dthread # "asleep")
  /\ dowed' = dowed \cup {d}
  /\ UNCHANGED istVars

\* dpc_thread() sleeps before it first looks at the queue.
DpcFirstSleep ==
  /\ dthread = "boot"
  /\ dthread' = "asleep"
  /\ UNCHANGED <<istVars, dpcq, dpend, dowed, dboot>>

DpcThreadKeepsState ==                                              \* mutant
  /\ dthread = "ready"
  /\ IF dpcq = <<>> THEN dthread' = "asleep" /\ UNCHANGED dpcq
     ELSE dthread' = Head(dpcq) /\ dpcq' = Tail(dpcq)
  /\ UNCHANGED <<istVars, dpend, dowed, dboot>>

\* dpc_thread() takes the next DPC, which may be asked for again from then on.
DpcThread ==
  /\ dthread = "ready"
  /\ IF dpcq = <<>> THEN dthread' = "asleep" /\ UNCHANGED <<dpcq, dpend>>
     ELSE dthread' = Head(dpcq) /\ dpcq' = Tail(dpcq) /\ dpend' = dpend \ {Head(dpcq)}
  /\ UNCHANGED <<istVars, dowed, dboot>>

\* The call, of the function that was given last.
DpcCall ==
  /\ dthread \in Dpc
  /\ dowed' = dowed \ {dthread}
  /\ dthread' = "ready"
  /\ UNCHANGED <<istVars, dpcq, dpend, dboot>>

DeferredNext ==
  \/ \E v \in Vector : IrqAttach(v) \/ IrqDetach(v) \/ IrqHandler(v) \/ IrqThread(v)
  \/ \E d \in Dpc : SchedDpc(d)
  \/ DpcFirstSleep \/ DpcThread \/ DpcCall

DeferredSpec == DeferredInit /\ [][DeferredNext]_deferredVars
-----------------------------------------------------------------------------
\* "We don't lose any IST requests" (irq_thread()): the thread sleeps only
\* when no request is left, and is woken only by one, so that its count never
\* falls below zero, which irq_thread() asserts.
IstRequestsKept ==
  \A v \in Vector : /\ istreq[v] >= 0
                    /\ ist[v] = "asleep" => istreq[v] = 0
                    /\ ist[v] = "woken" => istreq[v] > 0

\* A DPC that was asked for, even while it runs, is in the queue, once, or
\* about to be called, and the thread sleeps beside no such DPC once it was
\* woken for the first time.  (What is asked for before its first sleep waits
\* for the next sched_dpc().)
DpcsKept ==
  /\ \A d \in dowed : InQueue(d, dpcq) \/ dthread = d
  /\ Distinct(dpcq)
  /\ dthread = "asleep" /\ ~dboot => dpcq = <<>>
=============================================================================

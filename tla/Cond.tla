-------------------------------- MODULE Cond --------------------------------
(***************************************************************************)
(* Condition variables, sys/sync/cond.c, on top of the mutexes of module   *)
(* Mutex: cond_wait() gives a mutex up, sleeps on the condition variable,  *)
(* and calls mutex_lock() when it is woken.                                *)
(*                                                                         *)
(* cond_wait() holds the scheduler lock from mutex_unlock() to its sleep,  *)
(* so that is one step; mutex_lock() comes after sched_unlock() and is a   *)
(* call as any other.  An exception ends the sleep: cond_wait() returns    *)
(* EINTR at once, without the mutex, and touches nothing on its way out.   *)
(***************************************************************************)
EXTENDS Mutex

CONSTANT CondId  \* addresses of struct cond

ASSUME CondAssumption == CondId \cap (Thread \cup MutexId \cup {None}) = {}

VARIABLES
  cvalid,   \* initialised condition variables
  csleepq,  \* c->event.sleepq
  cwait     \* the mutex of t's call of cond_wait(), None outside of one

cvars == <<vars, cvalid, csleepq, cwait>>
conds == <<cvalid, csleepq, cwait>>

CondInit ==
  /\ Init
  /\ cvalid = {}
  /\ csleepq = [c \in CondId |-> <<>>]
  /\ cwait = [t \in Thread |-> None]

\* t sleeps on a condition variable.
Blocked(t) == \E c \in CondId : InQueue(t, csleepq[c])

\* t calls into the kernel, outside of cond_wait().
CallsCond(t) == Calls(t) /\ cwait[t] = None
-----------------------------------------------------------------------------
\* cond_init() by any thread of the task.
CondCreate(t, c) ==
  /\ CallsCond(t) /\ c \notin cvalid
  /\ cvalid' = cvalid \cup {c}
  /\ csleepq' = [csleepq EXCEPT ![c] = <<>>]
  /\ UNCHANGED <<vars, cwait>>

\* cond_destroy(): EBUSY while a thread sleeps on it.
CondDestroy(t, c) ==
  /\ CallsCond(t) /\ c \in cvalid
  /\ csleepq[c] = <<>>
  /\ cvalid' = cvalid \ {c}
  /\ UNCHANGED <<vars, csleepq, cwait>>

\* cond_wait() up to its sleep.  A mutex that is locked twice stays locked.
CondWait(t, c, m) ==
  /\ CallsCond(t) /\ c \in cvalid
  /\ UnlockInner(t, m) \/ UnlockLast(t, m)
  /\ csleepq' = [csleepq EXCEPT ![c] = Append(@, t)]
  /\ cwait' = [cwait EXCEPT ![t] = m]
  /\ UNCHANGED cvalid

\* cond_signal(): sched_wakeone().
CondSignal(t, c) ==
  /\ CallsCond(t) /\ c \in cvalid
  /\ csleepq[c] # <<>>
  /\ csleepq' = [csleepq EXCEPT ![c] = Without(@, WokenBy(@))]
  /\ UNCHANGED <<vars, cvalid, cwait>>

\* cond_broadcast(): sched_wakeup().
CondBroadcast(t, c) ==
  /\ CallsCond(t) /\ c \in cvalid
  /\ csleepq[c] # <<>>
  /\ csleepq' = [csleepq EXCEPT ![c] = <<>>]
  /\ UNCHANGED <<vars, cvalid, cwait>>

\* The call of mutex_lock() that ends cond_wait(): it returns with the mutex,
\* or refused (EDEADLK, or EINVAL for a mutex destroyed meanwhile), or sleeps.
Relocking(t) == cwait[t] # None /\ ~Blocked(t) /\ Calls(t)

RelockTaken(t) ==
  /\ Relocking(t)
  /\ LockFree(t, cwait[t]) \/ LockAgain(t, cwait[t])
  /\ cwait' = [cwait EXCEPT ![t] = None]
  /\ UNCHANGED <<cvalid, csleepq>>

RelockWait(t) ==
  /\ Relocking(t)
  /\ LockWait(t, cwait[t])
  /\ cwait' = [cwait EXCEPT ![t] = IF pc'[t] = "asleep" THEN @ ELSE None]
  /\ UNCHANGED <<cvalid, csleepq>>

RelockInvalid(t) ==
  /\ Relocking(t)
  /\ cwait[t] \notin valid
  /\ cwait' = [cwait EXCEPT ![t] = None]
  /\ UNCHANGED <<vars, cvalid, csleepq>>

\* The rest of mutex_lock() after its sleep, for its callers and for cond_wait(),
\* which returns what it returns.
LockReturns(t) ==
  /\ LockReturn(t)
  /\ cwait' = [cwait EXCEPT ![t] = None]
  /\ UNCHANGED <<cvalid, csleepq>>
-----------------------------------------------------------------------------
\* The mutex operations of threads outside of cond_wait().
MutexCall(t, m) ==
  /\ cwait[t] = None
  /\ \/ MutexInit(t, m) \/ MutexDestroy(t, m) \/ UnlockInner(t, m)
     \/ UnlockLast(t, m) \/ LockWait(t, m) \/ LockFree(t, m)
     \/ TrylockFree(t, m) \/ LockAgain(t, m)
  /\ UNCHANGED conds

\* An exception, as in module Mutex, and one for a thread in cond_wait().
MutexInterrupt(t) == Interrupt(t) /\ UNCHANGED conds

CondInterrupt(t) ==
  /\ t \in Interruptible /\ Blocked(t) /\ broken = {}
  /\ csleepq' = [c \in CondId |-> Without(csleepq[c], t)]
  /\ cwait' = [cwait EXCEPT ![t] = None]
  /\ UNCHANGED <<vars, cvalid>>

KillLeavesBlocked(t) ==                                             \* mutant
  /\ Kill(t)
  /\ cwait' = [cwait EXCEPT ![t] = None]
  /\ UNCHANGED <<cvalid, csleepq>>

\* thread_terminate(t): sched_stop() takes t off the queue it sleeps in.
CondKill(t) ==
  /\ Kill(t)
  /\ csleepq' = [c \in CondId |-> Without(csleepq[c], t)]
  /\ cwait' = [cwait EXCEPT ![t] = None]
  /\ UNCHANGED cvalid

CondSetpri(t, p) == Setpri(t, p) /\ UNCHANGED conds
-----------------------------------------------------------------------------
CondNext ==
  \E t \in Thread :
    \/ \E c \in CondId :
         \/ CondCreate(t, c) \/ CondDestroy(t, c)
         \/ CondSignal(t, c) \/ CondBroadcast(t, c)
         \/ \E m \in MutexId : CondWait(t, c, m)
    \/ \E m \in MutexId : MutexCall(t, m)
    \/ RelockTaken(t) \/ RelockWait(t) \/ RelockInvalid(t) \/ LockReturns(t)
    \/ MutexInterrupt(t) \/ CondInterrupt(t) \/ CondKill(t)
    \/ \E p \in 0..(MINPRI - 1) : CondSetpri(t, p)

CondSpec == CondInit /\ [][CondNext]_cvars
-----------------------------------------------------------------------------
\* A thread has one sched_link: it sleeps on one mutex or condition variable
\* at most, once, a dead thread on none, on a mutex only inside mutex_lock() for
\* it and on a condition variable only inside cond_wait(), whatever woke,
\* interrupted or killed the others; and nobody sleeps on a condition variable
\* that was destroyed.
OneSleepQueue ==
  /\ \A m \in MutexId :
       /\ Distinct(sleepq[m])
       /\ Items(sleepq[m]) = {t \in Thread : pc[t] = "asleep" /\ target[t] = m}
  /\ \A c \in CondId : csleepq[c] # <<>> => c \in cvalid /\ Distinct(csleepq[c])
  /\ \A c, d \in CondId : c # d => Items(csleepq[c]) \cap Items(csleepq[d]) = {}
  /\ \A t \in Thread :
       /\ Blocked(t) => cwait[t] # None /\ pc[t] = "user"
       /\ Blocked(t) => \A m \in MutexId : ~InQueue(t, sleepq[m])

\* Holders give mutexes back, woken threads run.
CondFairness ==
  \A t \in Thread :
    /\ WF_cvars(LockReturns(t))
    /\ WF_cvars(RelockTaken(t) \/ RelockWait(t) \/ RelockInvalid(t))
    /\ \A m \in MutexId :
         /\ SF_cvars(UnlockLast(t, m) /\ MutexCall(t, m))
         /\ SF_cvars(UnlockInner(t, m) /\ MutexCall(t, m))

FairCondSpec == CondSpec /\ CondFairness

\* A thread of the best priority that was signalled gets its mutex again,
\* unless a thread keeps another mutex locked while it sleeps in cond_wait().
SignalReturns ==
  \A t \in Thread : IsBest(t) =>
    (Relocking(t) ~> \/ cwait[t] = None \/ astray
                     \/ \E u \in Thread : Blocked(u) /\ mutexes[u] # {})
=============================================================================

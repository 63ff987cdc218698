-------------------------------- MODULE Sem --------------------------------
(***************************************************************************)
(* A counting semaphore of the Prex kernel, sys/sync/sem.c: one struct     *)
(* sem, created by the threads of its owner task and used by threads of    *)
(* any task.                                                               *)
(*                                                                         *)
(* The system calls hold the scheduler lock, so a call is one step up to   *)
(* its sched_tsleep() and one step from there on.  sched_wakeone() is that *)
(* of module Sched; the value it returns is not used here.                 *)
(***************************************************************************)
EXTENDS Integers, Sequences, FiniteSets, PrexQueue

CONSTANTS
  Thread,         \* threads that use the semaphore
  Owner,          \* those of the task that created it
  Priority,       \* t->priority, smaller is better
  MAXSEMVAL,      \* largest value
  InitVals,       \* the values passed to sem_init()
  Interruptible,  \* threads that receive exceptions
  Killable,       \* threads that are terminated
  MaxDestroy      \* bound on the successful calls of sem_destroy() after a
                  \* sem_init()

ASSUME SemAssumption ==
  /\ Owner \subseteq Thread
  /\ Priority \in [Thread -> Nat]
  /\ MAXSEMVAL \in Nat \ {0}
  /\ InitVals \subseteq 0..MAXSEMVAL
  /\ Interruptible \subseteq Thread
  /\ Killable \subseteq Thread
  /\ MaxDestroy \in Nat

ASSUME SemFinite == IsFiniteSet(Thread)

VARIABLES
  valid,     \* the semaphore is on sem_list
  value,     \* s->value
  refcnt,    \* s->refcnt
  sleepq,    \* s->event.sleepq
  pc,        \* user, asleep or woken in sem_wait(), dead
  slpret,    \* t->slpret
  ownerref,  \* history: the reference of sem_init() is not yet dropped
  destroys   \* history: successful calls of sem_destroy() since sem_init()

vars == <<valid, value, refcnt, sleepq, pc, slpret, ownerref, destroys>>

TypeOK ==
  /\ valid \in BOOLEAN
  /\ value \in 0..MAXSEMVAL
  /\ refcnt \in Int
  /\ sleepq \in Seq(Thread)
  /\ pc \in [Thread -> {"user", "asleep", "woken", "dead"}]
  /\ slpret \in [Thread -> {"SUCCESS", "TIMEOUT", "INTR"}]
  /\ ownerref \in BOOLEAN
  /\ destroys \in Nat

Init ==
  /\ valid = FALSE
  /\ value = 0
  /\ refcnt = 0
  /\ sleepq = <<>>
  /\ pc = [t \in Thread |-> "user"]
  /\ slpret = [t \in Thread |-> "SUCCESS"]
  /\ ownerref = FALSE
  /\ destroys = 0

\* A "mutant" is a wrong version of the definition after it, used nowhere else.

Calls(t) == pc[t] = "user" /\ valid

\* The threads inside sem_wait(): each took a reference on its way in.
Inside == {t \in Thread : pc[t] \in {"asleep", "woken"}}

\* Those that have been woken and have not looked at the value yet.
Woken == {t \in Thread : pc[t] = "woken" /\ slpret[t] = "SUCCESS"}
-----------------------------------------------------------------------------
\* sem_release(): the last reference takes the semaphore off the list.
Release ==
  /\ refcnt' = refcnt - 1
  /\ valid' = (refcnt - 1 > 0)

\* sem_init() of a new semaphore.  (A structure freed under a thread that is
\* still inside sem_wait() is not allocated again in this model.)
SemCreate(t, v) ==
  /\ pc[t] = "user" /\ t \in Owner /\ ~valid
  /\ Inside = {}
  /\ valid' = TRUE
  /\ value' = v
  /\ refcnt' = 1
  /\ ownerref' = TRUE
  /\ sleepq' = <<>>
  /\ destroys' = 0
  /\ UNCHANGED <<pc, slpret>>

\* sem_init() of an existing semaphore: EBUSY while a thread sleeps on it.
SemReset(t, v) ==
  /\ Calls(t) /\ t \in Owner
  /\ sleepq = <<>>
  /\ value' = v
  /\ UNCHANGED <<valid, refcnt, sleepq, pc, slpret, ownerref, destroys>>

\* sem_destroy(): EBUSY while a thread sleeps on it or its value is 0.
SemDestroy(t) ==
  /\ Calls(t) /\ t \in Owner
  /\ sleepq = <<>> /\ value # 0
  /\ destroys < MaxDestroy
  /\ Release
  /\ ownerref' = FALSE
  /\ destroys' = destroys + 1
  /\ UNCHANGED <<value, sleepq, pc, slpret>>

SemTakeAny(t) ==                                                    \* mutant
  /\ Calls(t)
  /\ value' = value - 1
  /\ UNCHANGED <<valid, refcnt, sleepq, pc, slpret, ownerref, destroys>>

\* sem_wait() of a positive value, and sem_trywait(): neither leaves a
\* reference behind.
SemTake(t) ==
  /\ Calls(t) /\ value > 0
  /\ value' = value - 1
  /\ UNCHANGED <<valid, refcnt, sleepq, pc, slpret, ownerref, destroys>>

\* sem_wait() of value 0, up to sched_tsleep().
SemSleep(t) ==
  /\ Calls(t) /\ value = 0
  /\ refcnt' = refcnt + 1
  /\ sleepq' = Append(sleepq, t)
  /\ pc' = [pc EXCEPT ![t] = "asleep"]
  /\ UNCHANGED <<valid, value, slpret, ownerref, destroys>>

\* The loop of sem_wait() after a wakeup: take the value, or sleep again when
\* another thread was faster.
SemRetry(t) ==
  /\ t \in Woken
  /\ IF value = 0
     THEN /\ sleepq' = Append(sleepq, t)
          /\ pc' = [pc EXCEPT ![t] = "asleep"]
          /\ UNCHANGED <<valid, value, refcnt>>
     ELSE /\ value' = value - 1
          /\ pc' = [pc EXCEPT ![t] = "user"]
          /\ Release
          /\ UNCHANGED sleepq
  /\ UNCHANGED <<slpret, ownerref, destroys>>

SemFailKeepsRef(t) ==                                               \* mutant
  /\ pc[t] = "woken" /\ slpret[t] # "SUCCESS"
  /\ pc' = [pc EXCEPT ![t] = "user"]
  /\ UNCHANGED <<valid, refcnt, value, sleepq, slpret, ownerref, destroys>>

\* sem_wait() returns ETIMEDOUT or EINTR.
SemFail(t) ==
  /\ pc[t] = "woken" /\ slpret[t] # "SUCCESS"
  /\ pc' = [pc EXCEPT ![t] = "user"]
  /\ Release
  /\ UNCHANGED <<value, sleepq, slpret, ownerref, destroys>>

PostWakesAtZero == sleepq # <<>> /\ value = 0                       \* mutant

\* sched_wakeone() finds somebody to wake.
PostWakes == sleepq # <<>>

\* sem_post(): ERANGE at the largest value.
SemPost(t) ==
  /\ Calls(t) /\ value < MAXSEMVAL
  /\ value' = value + 1
  /\ IF ~PostWakes
     THEN UNCHANGED <<sleepq, pc, slpret>>
     ELSE LET top == FirstBest(sleepq, Priority)
          IN  /\ sleepq' = Without(sleepq, top)
              /\ pc' = [pc EXCEPT ![top] = "woken"]
              /\ slpret' = [slpret EXCEPT ![top] = "SUCCESS"]
  /\ UNCHANGED <<valid, refcnt, ownerref, destroys>>
-----------------------------------------------------------------------------
\* sched_unsleep(t, r) by sleep_timeout() or exception_post().  Both run in
\* threads, when no woken thread is left with TS_SLEEP set (Sched).
Unsleep(t, r) ==
  /\ pc[t] = "asleep"
  /\ r = "INTR" => t \in Interruptible
  /\ pc' = [pc EXCEPT ![t] = "woken"]
  /\ slpret' = [slpret EXCEPT ![t] = r]
  /\ sleepq' = Without(sleepq, t)
  /\ UNCHANGED <<valid, value, refcnt, ownerref, destroys>>

\* thread_terminate(t): thread_destroy() does nothing about semaphores, and
\* sched_stop() takes t off its queue.
Kill(t) ==
  /\ t \in Killable /\ pc[t] # "dead"
  /\ pc' = [pc EXCEPT ![t] = "dead"]
  /\ sleepq' = Without(sleepq, t)
  /\ UNCHANGED <<valid, value, refcnt, slpret, ownerref, destroys>>
-----------------------------------------------------------------------------
Next ==
  \E t \in Thread :
    \/ \E v \in InitVals : SemCreate(t, v) \/ SemReset(t, v)
    \/ SemDestroy(t) \/ SemTake(t) \/ SemSleep(t) \/ SemRetry(t) \/ SemFail(t)
    \/ SemPost(t) \/ Kill(t)
    \/ \E r \in {"TIMEOUT", "INTR"} : Unsleep(t, r)

Spec == Init /\ [][Next]_vars

\* A woken thread gets to run.
FairSpec == Spec /\ \A t \in Thread : WF_vars(SemRetry(t)) /\ WF_vars(SemFail(t))
-----------------------------------------------------------------------------
\* The sleep queue holds the threads asleep in sem_wait(), once each.
QueueIsSleepers ==
  Distinct(sleepq) /\ Items(sleepq) = {t \in Thread : pc[t] = "asleep"}

Dead == {t \in Thread : pc[t] = "dead"}

\* Every reference is the owner's or that of a thread inside sem_wait(); one
\* that a thread terminated inside sem_wait() had is left for ever.
ReferencesAreCounted ==
  valid => refcnt - Cardinality(Inside) - (IF ownerref THEN 1 ELSE 0)
             \in 0..Cardinality(Dead)

\* The semaphore is not freed under a thread inside sem_wait().
NoUseAfterFree == Inside # {} => valid

\* No wakeup is lost: while threads sleep, every unit of the value has a
\* thread on its way to take it; a thread terminated on its way leaves one
\* unit behind at most.
NoLostWakeup == sleepq # <<>> => value <= Cardinality(Woken) + Cardinality(Dead)

\* Sem is a semaphore for its users: whatever the queue, the wakeups and the
\* exceptions, a sem_wait() that succeeds has taken a unit that was posted, and
\* a unit does not stay while threads wait.
Abstract == INSTANCE Semaphore WITH waiters <- Inside, dead <- Dead

ImplementsSemaphore == Abstract!FairSpec
=============================================================================

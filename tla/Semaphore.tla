----------------------------- MODULE Semaphore -----------------------------
(***************************************************************************)
(* What a counting semaphore promises to its users: the value is a number  *)
(* of units, posted one by one, and a thread that waits takes one of them  *)
(* or gives up.  There is no queue here, no wakeup and no reference; Sem   *)
(* implements it with all three.                                           *)
(***************************************************************************)
EXTENDS Integers, FiniteSets

CONSTANTS
  Thread,     \* threads that use the semaphore
  MAXSEMVAL,  \* largest value
  InitVals    \* the values it is set to by sem_init()

VARIABLES
  value,    \* units to take
  waiters,  \* threads inside sem_wait()
  dead      \* threads that were terminated

semvars == <<value, waiters, dead>>

Init == value = 0 /\ waiters = {} /\ dead = {}

\* sem_init().
Set(v) == value' = v /\ UNCHANGED <<waiters, dead>>

\* sem_wait() or sem_trywait() that finds a unit, by a thread or by a waiter.
Take(t) ==
  /\ value > 0
  /\ value' = value - 1
  /\ waiters' = waiters \ {t}
  /\ UNCHANGED dead

\* sem_wait() that finds none, and one that gives up.
Wait(t) == value = 0 /\ waiters' = waiters \cup {t} /\ UNCHANGED <<value, dead>>
GiveUp(t) == t \in waiters /\ waiters' = waiters \ {t} /\ UNCHANGED <<value, dead>>

\* sem_post().
Post == value < MAXSEMVAL /\ value' = value + 1 /\ UNCHANGED <<waiters, dead>>

\* A thread is terminated, inside sem_wait() or elsewhere.
Die(t) ==
  /\ dead' = dead \cup {t}
  /\ waiters' = waiters \ {t}
  /\ UNCHANGED value

Next == \/ \E v \in InitVals : Set(v)
        \/ Post
        \/ \E t \in Thread \ dead : Take(t) \/ Wait(t) \/ GiveUp(t) \/ Die(t)

Spec == Init /\ [][Next]_semvars

\* A waiter takes a unit.
Serve == \E t \in waiters : Take(t)

\* Units do not stay beside waiters, but for one that each terminated thread
\* may have left behind.
FairSpec == Spec /\ WF_semvars(value > Cardinality(dead) /\ Serve)
=============================================================================

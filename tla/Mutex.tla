------------------------------- MODULE Mutex -------------------------------
(***************************************************************************)
(* Mutexes with priority inheritance, sys/sync/mutex.c, for the threads of *)
(* one task.                                                               *)
(*                                                                         *)
(* A system call holds the scheduler lock, so what it does between its     *)
(* sched_lock() and its sched_sleep() or sched_unlock() is one step; the   *)
(* rest of mutex_lock() after the sleep is a step of its own.  Any thread  *)
(* that can run may run next: better threads may be suspended or asleep    *)
(* elsewhere.  Sleeping and waking are those of module Sched.              *)
(*                                                                         *)
(* What other code does to the threads is bounded by three constants: the  *)
(* threads that exceptions reach (exception_post() cancels their sleep),   *)
(* those that are terminated, and those whose priority is changed.         *)
(***************************************************************************)
EXTENDS Integers, Sequences, FiniteSets, PrexQueue

CONSTANTS
  Thread,         \* threads of the task
  MutexId,        \* addresses of struct mutex
  None,           \* the NULL pointer
  MINPRI,         \* worst priority, 0 is the best
  BasePri,        \* the base priority of every thread at the start
  MaxDepth,       \* bound on the recursive locking of every mutex
  Interruptible,  \* threads that receive exceptions
  Killable,       \* threads that are terminated
  Repri           \* threads whose priority is changed by system call

ASSUME MutexAssumption ==
  /\ None \notin Thread \cup MutexId
  /\ MINPRI \in Nat \ {0}
  /\ BasePri \in [Thread -> 0..(MINPRI - 1)]
  /\ MaxDepth \in [MutexId -> Nat \ {0}]
  /\ Interruptible \subseteq Thread
  /\ Killable \subseteq Thread
  /\ Repri \subseteq Thread

ASSUME MutexFinite == IsFiniteSet(Thread) /\ IsFiniteSet(MutexId)

Pri == 0..MINPRI

VARIABLES
  valid,      \* initialised mutexes
  holder,     \* m->holder
  locks,      \* m->locks
  mpriority,  \* m->priority
  sleepq,     \* m->event.sleepq
  waiting,    \* t->mutex_waiting
  mutexes,    \* t->mutexes, as a set
  priority,   \* t->priority
  basepri,    \* t->basepri
  pc,         \* user, asleep or woken in mutex_lock(), dead
  target,     \* the mutex of t's call of mutex_lock()
  slpret,     \* t->slpret
  depth,      \* history: depth[t][m], the locks of m that t was granted
  astray,     \* history: sched_wakeone() has returned another thread than the
              \* one it woke, and a mutex went to it
  broken      \* history: "link" once a list link was inserted while in a list
              \* or removed while in none, "null" once prio_inherit() followed
              \* a NULL holder, "loop" once it went round in a circle; the
              \* kernel's memory is garbage, or it hangs, from then on

vars == <<valid, holder, locks, mpriority, sleepq, waiting, mutexes, priority,
          basepri, pc, target, slpret, depth, astray, broken>>

object == <<holder, locks, mpriority>>
prios == <<priority, basepri>>
call == <<pc, target, slpret, sleepq>>

TypeOK ==
  /\ valid \in SUBSET MutexId
  /\ holder \in [MutexId -> Thread \cup {None}]
  /\ locks \in [MutexId -> Nat]
  /\ mpriority \in [MutexId -> Pri]
  /\ sleepq \in [MutexId -> Seq(Thread)]
  /\ waiting \in [Thread -> MutexId \cup {None}]
  /\ mutexes \in [Thread -> SUBSET MutexId]
  /\ priority \in [Thread -> Pri]
  /\ basepri \in [Thread -> Pri]
  /\ pc \in [Thread -> {"user", "asleep", "woken", "dead"}]
  /\ target \in [Thread -> MutexId \cup {None}]
  /\ slpret \in [Thread -> {"SUCCESS", "INTR"}]
  /\ depth \in [Thread -> [MutexId -> Nat]]
  /\ astray \in BOOLEAN
  /\ broken \in SUBSET {"link", "null", "loop"}

Init ==
  /\ valid = {}
  /\ holder = [m \in MutexId |-> None]
  /\ locks = [m \in MutexId |-> 0]
  /\ mpriority = [m \in MutexId |-> MINPRI]
  /\ sleepq = [m \in MutexId |-> <<>>]
  /\ waiting = [t \in Thread |-> None]
  /\ mutexes = [t \in Thread |-> {}]
  /\ priority = BasePri
  /\ basepri = BasePri
  /\ pc = [t \in Thread |-> "user"]
  /\ target = [t \in Thread |-> None]
  /\ slpret = [t \in Thread |-> "SUCCESS"]
  /\ depth = [t \in Thread |-> [m \in MutexId |-> 0]]
  /\ astray = FALSE
  /\ broken = {}
-----------------------------------------------------------------------------
\* A "mutant" is a wrong version of the definition after it, used nowhere else.

WokenByLast(q) == q[Len(q)]                                         \* mutant

\* sched_wakeone() on a queue: it wakes the first of the best sleepers ...
WokenBy(q) == FirstBest(q, priority)

\* ... and returns the last thread its scan has looked at.
ReturnedBy(q) == IF q = <<>> THEN None ELSE q[Len(q)]

\* The two differ.
GoesAstray(q) == q # <<>> /\ ReturnedBy(q) # WokenBy(q)

\* The i-th mutex that prio_inherit(w) looks at, from m: the mutex for which
\* the holder of the one before waits, until a holder is w, is NULL or waits
\* for nothing.  MAXINHERIT does not bound i: its counter stays 0.
Hop(w, m, i) ==
  LET hop[j \in 0..i] ==
        IF j = 0 THEN m
        ELSE LET p == hop[j - 1]
             IN  IF p = None \/ holder[p] \in {None, w} THEN None
                 ELSE waiting[holder[p]]
  IN  hop[i]

\* The mutexes it looks at.
Chain(w, m) == {Hop(w, m, i) : i \in 0..Cardinality(MutexId)} \ {None}

\* It has looked at more mutexes than there are: it goes round for ever.
Circles(w, m) == Hop(w, m, Cardinality(MutexId)) # None

\* prio_inherit(w) for a waiter w: raise every holder on the chain.
Boosted(w, m) == {holder[n] : n \in Chain(w, m)} \ {w, None}

NoInheritance(w, m) == priority                                     \* mutant

InheritPriority(w, m) ==
  [t \in Thread |-> IF t \in Boosted(w, m) /\ priority[t] > priority[w]
                    THEN priority[w] ELSE priority[t]]
InheritMpriority(w, m) ==
  [n \in MutexId |-> IF /\ n \in Chain(w, m) /\ holder[n] \notin {w, None}
                        /\ priority[holder[n]] > priority[w]
                     THEN priority[w] ELSE mpriority[n]]

FindsDeadlockAtOnce(w, m) == holder[m] = w                          \* mutant

\* prio_inherit() finds the waiter among the holders.
FindsDeadlock(w, m) == \E n \in Chain(w, m) : holder[n] = w

\* It follows a NULL m->holder.
FollowsNull(w, m) == \E n \in Chain(w, m) : holder[n] = None

\* What prio_inherit(w) breaks.
Inherits(w, m) == broken' = broken \cup (IF FollowsNull(w, m) THEN {"null"} ELSE {})
                                  \cup (IF Circles(w, m) THEN {"loop"} ELSE {})

NeverUninherited(t, held) == priority[t]                            \* mutant

UninheritedToMutex(t, held) ==                                      \* mutant
  IF held = {} THEN basepri[t]
  ELSE LET ps == {mpriority[m] : m \in held}
       IN  CHOOSE p \in ps : \A o \in ps : p <= o

\* prio_uninherit(t): the base priority, or the best m->priority of the
\* mutexes that t still holds.
Uninherited(t, held) ==
  IF priority[t] = basepri[t] THEN priority[t]
  ELSE LET ps == {basepri[t]} \cup {mpriority[m] : m \in held}
       IN  CHOOSE p \in ps : \A o \in ps : p <= o

\* holder->mutex_waiting = NULL for the new holders.
NoLongerWaiting(heirs) == [w \in Thread |-> IF w \in heirs THEN None ELSE waiting[w]]

\* t calls into the kernel, whose memory is sound.
Calls(t) == pc[t] = "user" /\ broken = {}

Linked(m) == \E t \in Thread : m \in mutexes[t]
-----------------------------------------------------------------------------
\* mutex_init(): a new mutex for the task.
MutexInit(t, m) ==
  /\ Calls(t) /\ m \notin valid
  /\ valid' = valid \cup {m}
  /\ holder' = [holder EXCEPT ![m] = None]
  /\ mpriority' = [mpriority EXCEPT ![m] = MINPRI]
  /\ UNCHANGED <<locks, call, waiting, mutexes, prios, depth, astray,
                 broken>>

\* mutex_destroy(): refused while the mutex is held or slept on.
MutexDestroy(t, m) ==
  /\ Calls(t) /\ m \in valid
  /\ holder[m] = None /\ sleepq[m] = <<>>
  /\ valid' = valid \ {m}
  /\ UNCHANGED <<object, call, waiting, mutexes, prios, depth, astray,
                 broken>>

\* mutex_lock() or mutex_trylock() by the holder.
LockAgain(t, m) ==
  /\ Calls(t) /\ m \in valid
  /\ holder[m] = t /\ locks[m] < MaxDepth[m]
  /\ locks' = [locks EXCEPT ![m] = @ + 1]
  /\ depth' = [depth EXCEPT ![t][m] = @ + 1]
  /\ UNCHANGED <<valid, holder, mpriority, call, waiting, mutexes, prios,
                 astray, broken>>

AcquireUnlisted(t, m) ==                                            \* mutant
  /\ locks' = [locks EXCEPT ![m] = 1]
  /\ holder' = [holder EXCEPT ![m] = t]
  /\ depth' = [depth EXCEPT ![t][m] = @ + 1]
  /\ UNCHANGED <<mutexes, broken>>

\* The end of mutex_lock(): t becomes the holder, the link joins its list.
Acquire(t, m) ==
  /\ locks' = [locks EXCEPT ![m] = 1]
  /\ holder' = [holder EXCEPT ![m] = t]
  /\ mutexes' = [mutexes EXCEPT ![t] = @ \cup {m}]
  /\ broken' = IF Linked(m) THEN broken \cup {"link"} ELSE broken
  /\ depth' = [depth EXCEPT ![t][m] = @ + 1]

\* mutex_lock() of a free mutex.
LockFree(t, m) ==
  /\ Calls(t) /\ m \in valid /\ holder[m] = None
  /\ Acquire(t, m)
  /\ mpriority' = [mpriority EXCEPT ![m] = priority[t]]
  /\ UNCHANGED <<valid, call, waiting, prios, astray>>

\* mutex_trylock() of a free mutex: m->priority stays as it is.
TrylockFree(t, m) ==
  /\ Calls(t) /\ m \in valid /\ holder[m] = None
  /\ Acquire(t, m)
  /\ UNCHANGED <<valid, mpriority, call, waiting, prios, astray>>

\* mutex_lock() of a mutex held by another thread, up to sched_sleep().  On
\* EDEADLK the call returns, with the priorities on the chain raised.
LockWait(t, m) ==
  /\ Calls(t) /\ m \in valid
  /\ holder[m] \notin {None, t}
  /\ priority' = InheritPriority(t, m)
  /\ mpriority' = InheritMpriority(t, m)
  /\ IF FindsDeadlock(t, m)
     THEN UNCHANGED <<waiting, call>>
     ELSE /\ waiting' = [waiting EXCEPT ![t] = m]
          /\ target' = [target EXCEPT ![t] = m]
          /\ pc' = [pc EXCEPT ![t] = "asleep"]
          /\ sleepq' = [sleepq EXCEPT ![m] = Append(@, t)]
          /\ UNCHANGED slpret
  /\ Inherits(t, m)
  /\ UNCHANGED <<valid, holder, locks, mutexes, basepri, depth, astray>>

\* The rest of mutex_lock(), when the sleep has ended.
LockReturn(t) ==
  /\ pc[t] = "woken" /\ broken = {}
  /\ pc' = [pc EXCEPT ![t] = "user"]
  /\ target' = [target EXCEPT ![t] = None]
  /\ waiting' = [waiting EXCEPT ![t] = None]
  /\ IF slpret[t] = "INTR"
     THEN UNCHANGED <<locks, holder, mutexes, broken, depth>>
     ELSE Acquire(t, target[t])
  /\ UNCHANGED <<valid, mpriority, sleepq, slpret, prios, astray>>

\* mutex_unlock() that leaves the mutex locked.
UnlockInner(t, m) ==
  /\ Calls(t) /\ m \in valid
  /\ holder[m] = t /\ locks[m] > 1
  /\ locks' = [locks EXCEPT ![m] = @ - 1]
  /\ depth' = [depth EXCEPT ![t][m] = IF @ = 0 THEN 0 ELSE @ - 1]
  /\ UNCHANGED <<valid, holder, mpriority, call, waiting, mutexes, prios,
                 astray, broken>>

\* mutex_unlock() that releases the mutex: drop an inherited priority, wake
\* one waiter and make what sched_wakeone() returns the holder.
UnlockLast(t, m) ==
  /\ Calls(t) /\ m \in valid
  /\ holder[m] = t /\ locks[m] = 1
  /\ locks' = [locks EXCEPT ![m] = 0]
  /\ astray' = (astray \/ GoesAstray(sleepq[m]))
  /\ depth' = [depth EXCEPT ![t][m] = 0]
  /\ mutexes' = [mutexes EXCEPT ![t] = @ \ {m}]
  /\ broken' = IF m \in mutexes[t] THEN broken ELSE broken \cup {"link"}
  /\ priority' = [priority EXCEPT ![t] = Uninherited(t, mutexes[t] \ {m})]
  /\ LET q == sleepq[m]
         h == ReturnedBy(q)
     IN  /\ holder' = [holder EXCEPT ![m] = h]
         /\ mpriority' = [mpriority EXCEPT ![m] =
                            IF h = None THEN MINPRI ELSE priority[h]]
         /\ waiting' = NoLongerWaiting({h})
         /\ IF h = None THEN UNCHANGED call
            ELSE /\ sleepq' = [sleepq EXCEPT ![m] = Without(@, WokenBy(q))]
                 /\ pc' = [pc EXCEPT ![WokenBy(q)] = "woken"]
                 /\ slpret' = [slpret EXCEPT ![WokenBy(q)] = "SUCCESS"]
                 /\ UNCHANGED target
  /\ UNCHANGED <<valid, basepri>>
-----------------------------------------------------------------------------
\* exception_post() to a thread asleep in mutex_lock(): sched_unsleep(t,
\* SLP_INTR).  Exceptions are posted by threads, never by interrupt handlers,
\* and a woken thread has left TS_SLEEP when another thread runs (Sched).
Interrupt(t) ==
  /\ t \in Interruptible
  /\ pc[t] = "asleep" /\ broken = {}
  /\ pc' = [pc EXCEPT ![t] = "woken"]
  /\ slpret' = [slpret EXCEPT ![t] = "INTR"]
  /\ sleepq' = [m \in MutexId |-> Without(sleepq[m], t)]
  /\ UNCHANGED <<valid, object, waiting, mutexes, prios, target, depth, astray,
                 broken>>

\* mutex_cancel(t) for a mutex with sleep queue q: wake a sleeper and hand the
\* mutex on, again and again while it comes back to t, itself asleep in q.
Cancel(t, q) ==
  LET rest[i \in 0..(Len(q) + 1)] ==
        IF i = 0 THEN q
        ELSE LET r == rest[i - 1] IN IF r = <<>> THEN r ELSE Without(r, WokenBy(r))
      last == CHOOSE i \in 0..Len(q) :
                /\ ReturnedBy(rest[i]) # t
                /\ \A j \in 0..(i - 1) : ReturnedBy(rest[j]) = t
  IN  [heir |-> ReturnedBy(rest[last]), queue |-> rest[last + 1]]

\* thread_terminate(t): mutex_cancel() hands every mutex of t on, then
\* sched_stop() takes t off the queue it sleeps in.
Kill(t) ==
  /\ t \in Killable /\ pc[t] # "dead" /\ broken = {}
  /\ LET held == mutexes[t]
         cancelled == [m \in held |-> Cancel(t, sleepq[m])]
         next == [m \in held |-> cancelled[m].heir]
         woken == {u \in Thread \ {t} : \E m \in held :
                     InQueue(u, sleepq[m]) /\ ~InQueue(u, cancelled[m].queue)}
     IN  /\ holder' = [m \in MutexId |-> IF m \in held THEN next[m] ELSE holder[m]]
         /\ locks' = [m \in MutexId |-> IF m \notin held THEN locks[m]
                                        ELSE IF next[m] = None THEN 0 ELSE 1]
         /\ mutexes' = [u \in Thread |->
                          IF u = t THEN {}
                          ELSE mutexes[u] \cup {m \in held : next[m] = u}]
         /\ waiting' = NoLongerWaiting({next[m] : m \in held})
         /\ pc' = [u \in Thread |-> IF u = t THEN "dead"
                                    ELSE IF u \in woken THEN "woken" ELSE pc[u]]
         /\ slpret' = [u \in Thread |-> IF u \in woken THEN "SUCCESS" ELSE slpret[u]]
         /\ sleepq' = [m \in MutexId |->
                         Without(IF m \in held THEN cancelled[m].queue ELSE sleepq[m], t)]
  /\ astray' = (astray \/ \E m \in mutexes[t] : GoesAstray(sleepq[m]))
  /\ depth' = [depth EXCEPT ![t] = [m \in MutexId |-> 0]]
  /\ UNCHANGED <<valid, mpriority, prios, target, broken>>

\* thread_schedparam(t, SOP_SETPRI, p): an inherited priority is not lowered;
\* mutex_setpri() passes a better priority on along the chain with the
\* priority t has before the change.
Setpri(t, p) ==
  /\ t \in Repri /\ pc[t] # "dead" /\ broken = {}
  /\ LET pri == IF priority[t] # basepri[t] /\ p > priority[t]
                THEN priority[t] ELSE p
         pass == waiting[t] # None /\ pri < priority[t]
         inherited == IF pass THEN InheritPriority(t, waiting[t]) ELSE priority
     IN  /\ priority' = [inherited EXCEPT ![t] = pri]
         /\ mpriority' = IF pass THEN InheritMpriority(t, waiting[t]) ELSE mpriority
         /\ IF pass THEN Inherits(t, waiting[t]) ELSE UNCHANGED broken
         /\ basepri' = [basepri EXCEPT ![t] = pri]
  /\ UNCHANGED <<valid, holder, locks, call, waiting, mutexes, depth, astray>>
-----------------------------------------------------------------------------
\* The mutex calls.  Exceptions, termination and priority changes meet them in
\* module Cond, which has the other reason to sleep beside them.
Next ==
  \E t \in Thread :
    \/ \E m \in MutexId :
         \/ MutexInit(t, m) \/ MutexDestroy(t, m)
         \/ LockAgain(t, m) \/ LockFree(t, m) \/ TrylockFree(t, m)
         \/ LockWait(t, m) \/ UnlockInner(t, m) \/ UnlockLast(t, m)
    \/ LockReturn(t)

Spec == Init /\ [][Next]_vars
-----------------------------------------------------------------------------
\* A thread that was granted a mutex is its holder with the same count - so at
\* most one thread has been - and the mutex is on its list, so that unlocking,
\* thread_terminate() and prio_uninherit() find it there.
GrantsAreRecorded ==
  \A t \in Thread, m \in MutexId :
    depth[t][m] > 0 => holder[m] = t /\ locks[m] = depth[t][m] /\ m \in mutexes[t]

\* The waiters of a mutex have somebody to wait for: a live thread that holds
\* it, or one of them that was woken to take it.
WaitersHaveHolder ==
  \A m \in MutexId : sleepq[m] # <<>> =>
    \/ \E t \in Thread : depth[t][m] > 0
    \/ \E t \in Thread : pc[t] = "woken" /\ target[t] = m /\ slpret[t] = "SUCCESS"

\* What mutex_lock(), mutex_trylock(), mutex_unlock() and mutex_destroy() keep
\* for each other: every grant is in the books of the mutex and of the thread,
\* no waiter is left without a holder, no mutex is destroyed under a call in
\* progress, and t->mutex_waiting is set exactly while t waits, until
\* sched_wakeone() has returned a thread it did not wake.
MutexBooksRight ==
  /\ TypeOK
  /\ GrantsAreRecorded
  /\ WaitersHaveHolder
  /\ astray \/ \A t \in Thread : pc[t] = "asleep" <=> waiting[t] # None
  /\ \A t \in Thread : pc[t] \in {"asleep", "woken"} => target[t] \in valid

\* The holder that mutex_unlock() and mutex_cancel() record is the thread they
\* woke ("returns the thread ID of the woken thread", sched_wakeone()).
HolderIsAwake ==
  \A m \in MutexId : holder[m] # None => ~InQueue(holder[m], sleepq[m])

\* The three properties below are what the mutexes promise as long as
\* sched_wakeone() has returned the thread it woke; after that the kernel
\* takes one thread for the holder and another one acts as it.

\* Threads asleep on mutexes that wait for each other in a circle.
WaitsFor(t) == IF pc[t] # "asleep" THEN {}
               ELSE {u \in Thread : depth[u][target[t]] > 0}
Stuck(S) == S # {} /\ \A t \in S : WaitsFor(t) # {} /\ WaitsFor(t) \subseteq S

\* mutex_lock() refuses with EDEADLK the wait that would close a circle; and so
\* prio_inherit(), whose fail-safe counter is never incremented, comes to an end.
NoDeadlock ==
  /\ "loop" \notin broken
  /\ astray \/ \A S \in SUBSET Thread : ~Stuck(S)

\* A thread that no mutex has as its holder runs at its base priority.
BoostEnds ==
  \/ astray
  \/ \A t \in Thread :
       (\A m \in MutexId : holder[m] # t) /\ pc[t] # "dead" => priority[t] = basepri[t]

\* The threads t waits for, those they wait for, and so on.
Blockers(t) ==
  LET upto[i \in 0..Cardinality(Thread)] ==
        IF i = 0 THEN WaitsFor(t)
        ELSE upto[i - 1] \cup UNION {WaitsFor(u) : u \in upto[i - 1]}
  IN  upto[Cardinality(Thread)]

\* A thread that falls asleep in mutex_lock() leaves nobody it waits for with
\* a worse priority than its own, however long the chain of mutexes between
\* them ("we must ensure the higher priority thread does not wait other lower
\* priority thread", prio_inherit()).
BoostReachesBlockers ==
  [][\A t \in Thread :
       pc[t] = "user" /\ pc'[t] = "asleep" /\ ~astray =>
         \A u \in Blockers(t)' : priority'[u] <= priority'[t]]_vars

\* Priority inheritance never makes a thread worse than its base priority.
NeverBelowBase == \A t \in Thread : priority[t] <= basepri[t]

\* Holders give every mutex back, and woken threads run.
Fairness ==
  \A t \in Thread :
    /\ WF_vars(LockReturn(t))
    /\ \A m \in MutexId : SF_vars(UnlockLast(t, m)) /\ SF_vars(UnlockInner(t, m))

FairSpec == Spec /\ Fairness

\* No thread of a better base priority.
IsBest(t) == \A u \in Thread \ {t} : BasePri[t] < BasePri[u]

\* The thread with the best priority gets every mutex it waits for, when
\* holders give mutexes back; the others can be overtaken for ever.
LockTerminates ==
  \A t \in Thread : IsBest(t) =>
    (pc[t] = "asleep" ~> pc[t] # "asleep" \/ astray)
=============================================================================

------------------------------- MODULE Sched -------------------------------
(***************************************************************************)
(* The scheduler of the Prex kernel, sys/kern/sched.c, on its one CPU.     *)
(*                                                                         *)
(* Every routine of sched.c is an action of the thread that holds the CPU  *)
(* (curthread) or of the interrupt handler running on its stack.  A        *)
(* routine runs with interrupts masked or with the scheduler locked, so    *)
(* its body is one step; sched_unlock() and sched_tsleep() are split where *)
(* the code can lose the CPU or take an interrupt:                         *)
(*                                                                         *)
(*   run     ordinary kernel or user code, interrupts enabled              *)
(*   flush   in sched_unlock(), the wakeq_flush() loop, interrupts masked  *)
(*   tsleep  in sched_tsleep(), its wakeq_flush() loop, interrupts masked  *)
(*   window  in sched_unlock(), back from sched_swtch(), between splx()    *)
(*           and splhigh()                                                 *)
(*   wake    in sched_tsleep(), back from sched_swtch(), after splx()      *)
(*                                                                         *)
(* Left out: time accounting, slpevt and slpret (what a sleep is for and   *)
(* what it returns is modelled with the objects slept on), the base        *)
(* priority (only stored here; see Mutex) and the DPC queue.               *)
(***************************************************************************)
EXTENDS Integers, Sequences, PrexQueue

CONSTANTS
  Thread,     \* thread structures
  Idle,       \* the idle thread, the boot thread
  Event,      \* events that threads sleep on
  MINPRI,     \* worst priority, PRI_IDLE; 0 is the best
  QUANTUM,    \* ticks in a time slice
  MaxLocks,   \* bound on the nesting of sched_lock() by thread code
  Ops,        \* the routines that callers use in this instance
  Created     \* the <<priority, policy>> that each thread may be created with

AllOps == {"start", "stop", "sleep", "tsleep", "wakeup", "wakeone", "unsleep",
           "suspend", "resume", "setpri", "setpolicy", "yield",
           "tick", "intr"}

ASSUME SchedAssumption ==
  /\ Idle \in Thread
  /\ MINPRI \in Nat \ {0}
  /\ QUANTUM \in Nat \ {0}
  /\ MaxLocks \in Nat \ {0}
  /\ Ops \subseteq AllOps

Pri == 0..MINPRI
Policy == {"FIFO", "RR"}
Flags == {"SLEEP", "SUSP", "EXIT"}
RUN == {}                          \* TS_RUN is the empty set of flags

VARIABLES
  curthread,  \* the thread on the CPU
  isr,        \* an interrupt handler runs on curthread's stack
  pc,         \* pc[t]: where t stands (see above)
  state,      \* t->state, a set of flags
  priority,   \* t->priority
  policy,     \* t->policy
  timeleft,   \* t->timeleft
  resched,    \* t->resched
  locks,      \* t->locks
  timeout,    \* the threads whose t->timeout timer is active
  runq,       \* runq[p]: ready threads of priority p
  maxpri,     \* best priority in runq
  wakeq,      \* threads woken and not yet made ready
  sleepq      \* sleepq[e]: threads asleep on e

vars == <<curthread, isr, pc, state, priority, policy, timeleft, resched,
          locks, timeout, runq, maxpri, wakeq, sleepq>>

attrs == <<priority, policy, timeleft>>

TypeOK ==
  /\ curthread \in Thread
  /\ isr \in BOOLEAN
  /\ pc \in [Thread -> {"run", "flush", "tsleep", "window", "wake"}]
  /\ state \in [Thread -> SUBSET Flags]
  /\ priority \in [Thread -> Pri]
  /\ policy \in [Thread -> Policy]
  /\ timeleft \in [Thread -> 0..QUANTUM]
  /\ resched \in [Thread -> BOOLEAN]
  /\ locks \in [Thread -> Nat]
  /\ timeout \in SUBSET Thread
  /\ runq \in [Pri -> Seq(Thread)]
  /\ maxpri \in Pri
  /\ wakeq \in Seq(Thread)
  /\ sleepq \in [Event -> Seq(Thread)]
-----------------------------------------------------------------------------
\* A mutant (named so below too) is a wrong version of the definition that
\* follows it; no other definition uses it.

\* runq_getbest(): the best priority with a ready thread, MINPRI for none.
Best(rq) == CHOOSE p \in Pri : /\ p = MINPRI \/ rq[p] # <<>>
                               /\ \A b \in Pri : b < p => rq[b] = <<>>

RunqEnqueueStale(t, p, rq, mp) ==                                   \* mutant
  /\ runq' = [rq EXCEPT ![p] = Append(@, t)]
  /\ maxpri' = mp
  /\ UNCHANGED resched

\* runq_enqueue(t) at priority p, on the run queues rq with best priority mp.
RunqEnqueue(t, p, rq, mp) ==
  /\ runq' = [rq EXCEPT ![p] = Append(@, t)]
  /\ maxpri' = IF p < mp THEN p ELSE mp
  /\ resched' = IF p < mp THEN [resched EXCEPT ![curthread] = TRUE] ELSE resched

RunqUntouched(t) == runq                                            \* mutant

\* queue_remove(&t->sched_link) for a ready t, the first half of runq_remove().
RunqWithout(t) == [runq EXCEPT ![priority[t]] = Without(@, t)]

\* sched_setrun(t) on the wake queue wq: t joins it and its timer is stopped.
Setrun(t, wq) ==
  /\ wakeq' = Append(wq, t)
  /\ timeout' = timeout \ {t}

\* The CPU runs thread code, the scheduler is locked.
Locked == ~isr /\ pc[curthread] = "run" /\ locks[curthread] > 0

\* The same for code that an interrupt handler may run as well.
LockedOrIsr == Locked \/ isr
-----------------------------------------------------------------------------
\* thread_init() and sched_init(): the boot thread, later the idle thread,
\* runs with the scheduler locked; no other thread exists yet.
Init ==
  /\ curthread = Idle
  /\ isr = FALSE
  /\ pc = [t \in Thread |-> "run"]
  /\ state = [t \in Thread |-> IF t = Idle THEN RUN ELSE {"EXIT"}]
  /\ priority = [t \in Thread |-> MINPRI]
  /\ policy = [t \in Thread |-> "FIFO"]
  /\ timeleft = [t \in Thread |-> 0]
  /\ resched = [t \in Thread |-> t = Idle]
  /\ locks = [t \in Thread |-> IF t = Idle THEN 1 ELSE 0]
  /\ timeout = {}
  /\ runq = [p \in Pri |-> <<>>]
  /\ maxpri = MINPRI
  /\ wakeq = <<>>
  /\ sleepq = [e \in Event |-> <<>>]

\* sched_lock() by thread code.
SchedLock ==
  /\ ~isr /\ pc[curthread] = "run"
  /\ locks[curthread] < MaxLocks
  /\ locks' = [locks EXCEPT ![curthread] = @ + 1]
  /\ UNCHANGED <<curthread, isr, pc, state, attrs, resched, timeout,
                 runq, maxpri, wakeq, sleepq>>

UnlockAtOnce ==                                                     \* mutant
  /\ locks' = [locks EXCEPT ![curthread] = @ - 1]
  /\ pc' = [pc EXCEPT ![curthread] = IF @ = "wake" THEN "run" ELSE @]

\* Entry of sched_unlock(): only the outermost unlock looks at the queues.
Unlock ==
  IF locks[curthread] = 1
  THEN /\ pc' = [pc EXCEPT ![curthread] = "flush"]
       /\ UNCHANGED locks
  ELSE /\ locks' = [locks EXCEPT ![curthread] = @ - 1]
       /\ pc' = [pc EXCEPT ![curthread] = IF @ = "wake" THEN "run" ELSE @]

SchedUnlock ==
  /\ Locked
  /\ Unlock
  /\ UNCHANGED <<curthread, isr, state, attrs, resched, timeout,
                 runq, maxpri, wakeq, sleepq>>

WakeqFlushKeepsSuspended ==                                         \* mutant
  /\ pc[curthread] \in {"flush", "tsleep"}
  /\ wakeq # <<>>
  /\ LET t == Head(wakeq)
     IN  IF state[t] # {"SLEEP"}
         THEN /\ wakeq' = Append(Tail(wakeq), t)
              /\ UNCHANGED <<state, runq, maxpri, resched>>
         ELSE /\ wakeq' = Tail(wakeq)
              /\ state' = [state EXCEPT ![t] = RUN]
              /\ RunqEnqueue(t, priority[t], runq, maxpri)
  /\ UNCHANGED <<curthread, isr, pc, attrs, locks, timeout, sleepq>>

\* One round of wakeq_flush(): dequeue a woken thread and make it ready
\* unless it is suspended.
WakeqFlush ==
  /\ pc[curthread] \in {"flush", "tsleep"}
  /\ wakeq # <<>>
  /\ LET t == Head(wakeq)
         s == state[t] \ {"SLEEP"}
     IN  /\ wakeq' = Tail(wakeq)
         /\ state' = [state EXCEPT ![t] = s]
         /\ IF t # curthread /\ s = RUN
            THEN RunqEnqueue(t, priority[t], runq, maxpri)
            ELSE UNCHANGED <<runq, maxpri, resched>>
  /\ UNCHANGED <<curthread, isr, pc, attrs, locks, timeout, sleepq>>

PreemptedOrEqual(p) == p >= maxpri                                  \* mutant

\* sched_swtch() finds a better thread than one of priority p ready.
Preempted(p) == p > maxpri

\* sched_swtch(): put curthread back, at the head of its queue when it is
\* preempted, and take the first thread of the best queue.
Swtch(resumeAt) ==
  LET prev == curthread
      p == priority[prev]
      rq == IF state[prev] # RUN THEN runq
            ELSE IF Preempted(p)
                 THEN [runq EXCEPT ![p] = AtHead(prev, @)]
                 ELSE [runq EXCEPT ![p] = Append(@, prev)]
      mp == IF state[prev] = RUN /\ p < maxpri THEN p ELSE maxpri
      rest == [rq EXCEPT ![mp] = Tail(@)]
  IN  /\ rq[mp] # <<>>
      /\ curthread' = Head(rq[mp])
      /\ runq' = rest
      /\ maxpri' = IF rest[mp] = <<>> THEN Best(rest) ELSE mp
      /\ resched' = [resched EXCEPT ![prev] = FALSE]
      /\ pc' = [pc EXCEPT ![prev] = resumeAt]

\* sched_unlock() after the flush: switch, or release the last lock.
UnlockSwtch ==
  /\ pc[curthread] = "flush" /\ wakeq = <<>>
  /\ resched[curthread]
  /\ Swtch("window")
  /\ UNCHANGED <<isr, state, attrs, locks, timeout, wakeq, sleepq>>

UnlockDone ==
  /\ pc[curthread] = "flush" /\ wakeq = <<>>
  /\ ~resched[curthread]
  /\ locks' = [locks EXCEPT ![curthread] = @ - 1]
  /\ pc' = [pc EXCEPT ![curthread] = "run"]
  /\ UNCHANGED <<curthread, isr, state, attrs, resched, timeout,
                 runq, maxpri, wakeq, sleepq>>

\* Back from sched_swtch() in sched_unlock(): mask interrupts and flush again.
UnlockAgain ==
  /\ ~isr /\ pc[curthread] = "window"
  /\ pc' = [pc EXCEPT ![curthread] = "flush"]
  /\ UNCHANGED <<curthread, isr, state, attrs, resched, locks, timeout,
                 runq, maxpri, wakeq, sleepq>>

\* sched_tsleep(): join the sleep queue, program the timer when a timeout is
\* given, then flush and switch.
Tsleep(e, timed) ==
  /\ (IF timed THEN "tsleep" ELSE "sleep") \in Ops
  /\ ~isr /\ pc[curthread] = "run"
  /\ curthread # Idle /\ state[curthread] = RUN
  /\ locks[curthread] <= MaxLocks
  /\ locks' = [locks EXCEPT ![curthread] = @ + 1]
  /\ state' = [state EXCEPT ![curthread] = @ \cup {"SLEEP"}]
  /\ sleepq' = [sleepq EXCEPT ![e] = Append(@, curthread)]
  /\ timeout' = IF timed THEN timeout \cup {curthread} ELSE timeout
  /\ pc' = [pc EXCEPT ![curthread] = "tsleep"]
  /\ UNCHANGED <<curthread, isr, attrs, resched, runq, maxpri, wakeq>>

TsleepSwtch ==
  /\ pc[curthread] = "tsleep" /\ wakeq = <<>>
  /\ Swtch("wake")
  /\ UNCHANGED <<isr, state, attrs, locks, timeout, wakeq, sleepq>>

\* Woken and switched to: the sched_unlock() that ends sched_tsleep().
TsleepReturn ==
  /\ ~isr /\ pc[curthread] = "wake"
  /\ Unlock
  /\ UNCHANGED <<curthread, isr, state, attrs, resched, timeout,
                 runq, maxpri, wakeq, sleepq>>
-----------------------------------------------------------------------------
\* sched_wakeup(e): every sleeper moves to the wake queue (sched_setrun stops
\* its timer).
Wakeup(e) ==
  /\ "wakeup" \in Ops
  /\ LockedOrIsr
  /\ wakeq' = wakeq \o sleepq[e]
  /\ timeout' = timeout \ Items(sleepq[e])
  /\ sleepq' = [sleepq EXCEPT ![e] = <<>>]
  /\ UNCHANGED <<curthread, isr, pc, state, attrs, resched, locks,
                 runq, maxpri>>

\* sched_wakeone(e): the first of the best sleepers moves to the wake queue.
Wakeone(e) ==
  /\ "wakeone" \in Ops
  /\ LockedOrIsr
  /\ sleepq[e] # <<>>
  /\ LET top == FirstBest(sleepq[e], priority)
     IN  /\ sleepq' = [sleepq EXCEPT ![e] = Without(@, top)]
         /\ Setrun(top, wakeq)
  /\ UNCHANGED <<curthread, isr, pc, state, attrs, resched, locks,
                 runq, maxpri>>

\* sched_unsleep(t): t leaves whichever queue it is in, a sleep queue or
\* the wake queue, and joins the wake queue.
Unsleep(t) ==
  /\ "unsleep" \in Ops
  /\ Locked
  /\ "SLEEP" \in state[t]
  /\ sleepq' = [e \in Event |-> Without(sleepq[e], t)]
  /\ Setrun(t, Without(wakeq, t))
  /\ UNCHANGED <<curthread, isr, pc, state, attrs, resched, locks,
                 runq, maxpri>>

\* sched_yield(), between its sched_lock() and its sched_unlock().
Yield ==
  /\ "yield" \in Ops
  /\ Locked
  /\ runq[priority[curthread]] # <<>>
  /\ resched' = [resched EXCEPT ![curthread] = TRUE]
  /\ UNCHANGED <<curthread, isr, pc, state, attrs, locks, timeout,
                 runq, maxpri, wakeq, sleepq>>

\* sched_suspend(t), called with the scheduler locked.
Suspend(t) ==
  /\ "suspend" \in Ops
  /\ Locked
  /\ t # Idle /\ "EXIT" \notin state[t]
  /\ IF state[t] # RUN THEN UNCHANGED <<resched, runq, maxpri>>
     ELSE IF t = curthread
          THEN /\ resched' = [resched EXCEPT ![t] = TRUE]
               /\ UNCHANGED <<runq, maxpri>>
          ELSE /\ runq' = RunqWithout(t)
               /\ maxpri' = Best(runq')
               /\ UNCHANGED resched
  /\ state' = [state EXCEPT ![t] = @ \cup {"SUSP"}]
  /\ UNCHANGED <<curthread, isr, pc, attrs, locks, timeout, wakeq, sleepq>>

\* sched_resume(t), called with the scheduler locked for another thread
\* (the ASSERT of thread_resume()).
Resume(t) ==
  /\ "resume" \in Ops
  /\ Locked
  /\ t # curthread /\ "SUSP" \in state[t]
  /\ LET s == state[t] \ {"SUSP"}
     IN  /\ state' = [state EXCEPT ![t] = s]
         /\ IF s = RUN THEN RunqEnqueue(t, priority[t], runq, maxpri)
            ELSE UNCHANGED <<runq, maxpri, resched>>
  /\ UNCHANGED <<curthread, isr, pc, attrs, locks, timeout, wakeq, sleepq>>

\* sched_setpri(t, _, p), called with the scheduler locked; p is the value
\* thread_schedparam() or mutex.c passes, better than the idle priority.
Setpri(t, p) ==
  /\ "setpri" \in Ops
  /\ Locked
  /\ t # Idle /\ "EXIT" \notin state[t]
  /\ priority' = [priority EXCEPT ![t] = p]
  /\ IF t = curthread
     THEN /\ maxpri' = Best(runq)
          /\ resched' = IF p # Best(runq) THEN [resched EXCEPT ![t] = TRUE]
                                          ELSE resched
          /\ UNCHANGED runq
     ELSE IF state[t] = RUN
          THEN RunqEnqueue(t, p, RunqWithout(t), Best(RunqWithout(t)))
          ELSE UNCHANGED <<runq, maxpri, resched>>
  /\ UNCHANGED <<curthread, isr, pc, state, policy, timeleft, locks, timeout,
                 wakeq, sleepq>>

\* sched_setpolicy(t, pol).
Setpolicy(t, pol) ==
  /\ "setpolicy" \in Ops
  /\ Locked
  /\ t # Idle /\ "EXIT" \notin state[t]
  /\ policy' = [policy EXCEPT ![t] = pol]
  /\ timeleft' = [timeleft EXCEPT ![t] = QUANTUM]
  /\ UNCHANGED <<curthread, isr, pc, state, priority, resched, locks, timeout,
                 runq, maxpri, wakeq, sleepq>>

\* thread_create() and kthread_create() up to sched_start(t, p, pol): a fresh
\* thread structure, suspended until sched_resume().
Start(t, p, pol) ==
  /\ "start" \in Ops
  /\ Locked
  /\ t # curthread /\ state[t] = {"EXIT"} /\ <<p, pol>> \in Created[t]
  /\ state' = [state EXCEPT ![t] = {"SUSP"}]
  /\ priority' = [priority EXCEPT ![t] = p]
  /\ policy' = [policy EXCEPT ![t] = pol]
  /\ timeleft' = [timeleft EXCEPT ![t] = IF pol = "RR" THEN QUANTUM ELSE 0]
  /\ resched' = [resched EXCEPT ![t] = FALSE]
  /\ locks' = [locks EXCEPT ![t] = 0]
  /\ pc' = [pc EXCEPT ![t] = "run"]
  /\ UNCHANGED <<curthread, isr, timeout, runq, maxpri, wakeq, sleepq>>

\* sched_stop(t): t leaves its queue for good; curthread forces the switch
\* at its next sched_unlock().  The code leaves interrupts on: one that wakes t
\* before queue_remove() is one before the call, since t then leaves the wake
\* queue by the same assignments; one between these is not modelled.
Stop(t) ==
  /\ "stop" \in Ops
  /\ Locked
  /\ t # Idle /\ "EXIT" \notin state[t]
  /\ IF t = curthread
     THEN /\ locks' = [locks EXCEPT ![t] = 1]
          /\ resched' = [resched EXCEPT ![t] = TRUE]
          /\ UNCHANGED <<runq, maxpri, wakeq, sleepq>>
     ELSE /\ UNCHANGED <<locks, resched>>
          /\ IF state[t] = RUN
             THEN /\ runq' = RunqWithout(t)
                  /\ maxpri' = Best(runq')
                  /\ UNCHANGED <<wakeq, sleepq>>
             ELSE /\ wakeq' = Without(wakeq, t)
                  /\ sleepq' = [e \in Event |-> Without(sleepq[e], t)]
                  /\ UNCHANGED <<runq, maxpri>>
  /\ timeout' = timeout \ {t}
  /\ state' = [state EXCEPT ![t] = {"EXIT"}]
  /\ UNCHANGED <<curthread, isr, pc, attrs>>
-----------------------------------------------------------------------------
\* An interrupt: the entry code takes the scheduler lock.  Interrupts are
\* masked while a thread flushes the wake queue or switches.
IsrEnter ==
  /\ "intr" \in Ops
  /\ ~isr /\ pc[curthread] \in {"run", "window", "wake"}
  /\ isr' = TRUE
  /\ locks' = [locks EXCEPT ![curthread] = @ + 1]
  /\ UNCHANGED <<curthread, pc, state, attrs, resched, timeout,
                 runq, maxpri, wakeq, sleepq>>

\* What is left of the quantum after a tick: a new one follows the last tick.
TimeleftAfter(left) == IF left - 1 <= 0 THEN (left - 1) + QUANTUM ELSE left - 1

\* sched_tick(), from the clock interrupt.
Tick ==
  /\ "tick" \in Ops
  /\ isr
  /\ state[curthread] # {"EXIT"} /\ policy[curthread] = "RR"
  /\ timeleft' = [timeleft EXCEPT ![curthread] = TimeleftAfter(@)]
  /\ resched' = IF timeleft[curthread] - 1 <= 0
                THEN [resched EXCEPT ![curthread] = TRUE] ELSE resched
  /\ UNCHANGED <<curthread, isr, pc, state, priority, policy, locks, timeout,
                 runq, maxpri, wakeq, sleepq>>

\* The interrupt exit code: sched_unlock().
IsrExit ==
  /\ isr
  /\ isr' = FALSE
  /\ IF locks[curthread] = 1
     THEN /\ pc' = [pc EXCEPT ![curthread] = "flush"]
          /\ UNCHANGED locks
     ELSE /\ locks' = [locks EXCEPT ![curthread] = @ - 1]
          /\ UNCHANGED pc
  /\ UNCHANGED <<curthread, state, attrs, resched, timeout,
                 runq, maxpri, wakeq, sleepq>>
-----------------------------------------------------------------------------
Switching == WakeqFlush \/ UnlockSwtch \/ UnlockDone \/ UnlockAgain
             \/ TsleepSwtch \/ TsleepReturn

Interrupt == IsrEnter \/ Tick \/ IsrExit

Next ==
  \/ SchedLock \/ SchedUnlock \/ Switching \/ Interrupt \/ Yield
  \/ \E e \in Event : \/ \E timed \in BOOLEAN : Tsleep(e, timed)
                      \/ Wakeup(e) \/ Wakeone(e)
  \/ \E t \in Thread : \/ Unsleep(t) \/ Suspend(t) \/ Resume(t) \/ Stop(t)
                       \/ \E p \in 0..(MINPRI - 1) : Setpri(t, p)
                       \/ \E pol \in Policy : Setpolicy(t, pol)
                       \/ \E p \in 0..(MINPRI - 1), pol \in Policy :
                            Start(t, p, pol)

Spec == Init /\ [][Next]_vars
-----------------------------------------------------------------------------
Asleep == UNION {Items(sleepq[e]) : e \in Event}

\* Every thread is linked exactly where its state says, through the one
\* sched_link it has: in the run queue of its current priority when it is
\* ready, in one sleep queue or the wake queue while TS_SLEEP is set, nowhere
\* while it runs, is suspended or gone.  sched_suspend(), sched_stop(),
\* sched_setpri() and sched_unsleep() unlink a thread on the word of its state.
ReadyAreQueued ==
  \A p \in Pri :
    /\ Distinct(runq[p])
    /\ Items(runq[p]) = {t \in Thread \ {curthread} : state[t] = RUN /\ priority[t] = p}

SleepersAreQueued ==
  /\ Distinct(wakeq) /\ \A e \in Event : Distinct(sleepq[e])
  /\ \A e \in Event : Items(wakeq) \cap Items(sleepq[e]) = {}
  /\ \A d, e \in Event : d # e => Items(sleepq[d]) \cap Items(sleepq[e]) = {}
  /\ \A t \in Thread :
       "SLEEP" \in state[t] <=>
         t \in Items(wakeq) \/ \E e \in Event : t \in Items(sleepq[e])

ThreadsAreQueued == ReadyAreQueued /\ SleepersAreQueued

\* A sleep timer is active only while its thread sits in a sleep queue, so
\* sleep_timeout() cannot cut a later sleep of the same thread short.
TimeoutOnlyAsleep == timeout \subseteq Asleep

\* Queues, states and sleep timers agree, whoever sleeps, wakes, suspends and
\* stops whom.
QueuesMatchStates == ThreadsAreQueued /\ TimeoutOnlyAsleep

\* The cached maxpri is what runq_getbest() would return.
MaxpriIsBest == maxpri = Best(runq)

\* A current thread with no reschedule pending is not worse than the best
\* ready thread: the flag covers every way a better thread can appear.
ReschedCoversBetter ==
  state[curthread] = RUN /\ ~resched[curthread]
    => priority[curthread] <= maxpri

\* Once the last scheduler lock is released, by a thread or by the interrupt
\* exit code, the thread on the CPU is runnable, nobody better is ready, and
\* no woken thread is left in the wake queue.
PriorityScheduling ==
  ~isr /\ locks[curthread] = 0 =>
    /\ state[curthread] = RUN
    /\ wakeq = <<>>
    /\ \A t \in Thread : state[t] = RUN => priority[curthread] <= priority[t]

\* A thread that loses the CPU to a better one keeps its right to run next
\* among the threads of its priority (the comment above sched_swtch()).
PreemptedStaysFirst ==
  [][ /\ curthread' # curthread
      /\ state[curthread] = RUN
      /\ priority[curthread'] < priority[curthread]
      => runq'[priority[curthread]] # <<>> /\
         Head(runq'[priority[curthread]]) = curthread ]_vars

\* Kernel code releases the scheduler, interrupt handlers return and the
\* clock keeps ticking; interrupts leave the interrupted code time to advance.
Fairness ==
  /\ SF_vars(Switching)
  /\ SF_vars(SchedUnlock /\ locks[curthread] = 1)
  /\ SF_vars(IsrEnter) /\ SF_vars(Tick) /\ SF_vars(IsrExit)

FairSpec == Spec /\ Fairness

\* t is ready for ever among the best ready threads, all of them SCHED_RR.
AmongTheBest(t) ==
  /\ state[t] = RUN
  /\ \A u \in Thread : state[u] = RUN =>
       \/ priority[u] > priority[t]
       \/ priority[u] = priority[t] /\ policy[u] = "RR"

\* Round robin: such a thread gets the CPU again and again.
RoundRobin == \A t \in Thread : <>[]AmongTheBest(t) => []<>(curthread = t)

\* Every woken thread leaves the wake queue.
WakeupsTakeEffect == \A t \in Thread : InQueue(t, wakeq) ~> ~InQueue(t, wakeq)
=============================================================================

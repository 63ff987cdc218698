---------------------------- MODULE SchedProofs ----------------------------
(***************************************************************************)
(* Proofs about the scheduler (module Sched), for every set of threads,    *)
(* every set of events and every number of priorities.                     *)
(*                                                                         *)
(* The invariants build on each other: the types with the lock counts of   *)
(* the threads inside sched_unlock() and sched_tsleep(), then the queues   *)
(* with what is known of curthread, then maxpri, the reschedule flag and   *)
(* the scheduling rule.                                                    *)
(***************************************************************************)
EXTENDS Sched, PrexQueueProofs

\* A thread inside sched_unlock() or sched_tsleep() holds the scheduler lock,
\* and the interrupt handler holds it once more.
LocksHeld ==
  /\ \A t \in Thread : pc[t] # "run" => locks[t] >= 1
  /\ isr => /\ pc[curthread] \in {"run", "window", "wake"}
            /\ locks[curthread] >= 1
            /\ pc[curthread] # "run" => locks[curthread] >= 2

Typing == TypeOK /\ LocksHeld

\* runq_getbest() is the least priority with a ready thread, or MINPRI.
LEMMA BestProperties ==
  ASSUME NEW rq
  PROVE  /\ Best(rq) \in Pri
         /\ Best(rq) = MINPRI \/ rq[Best(rq)] # <<>>
         /\ \A b \in Pri : b < Best(rq) => rq[b] = <<>>
<1>. DEFINE ps == {p \in Pri : p = MINPRI \/ rq[p] # <<>>}
<1>1. MINPRI \in Nat
  BY SchedAssumption
<1>2. PICK p \in ps : \A o \in ps : p <= o
  <2>1. MINPRI \in ps /\ ps \subseteq Nat
    BY <1>1 DEF Pri
  <2>. QED
    BY <2>1, NatMinimum
<1>3. /\ p \in Pri
      /\ p = MINPRI \/ rq[p] # <<>>
      /\ \A b \in Pri : b < p => rq[b] = <<>>
  <2>1. \A b \in Pri : b < p => b \notin ps
    BY <1>1, <1>2 DEF Pri
  <2>. QED
    BY <2>1
<1>. QED
  BY <1>3 DEF Best

\* Nothing else has these properties.
LEMMA BestUnique ==
  ASSUME NEW rq, NEW p \in Pri,
         p = MINPRI \/ rq[p] # <<>>,
         \A b \in Pri : b < p => rq[b] = <<>>
  PROVE  Best(rq) = p
<1>1. /\ Best(rq) \in Pri
      /\ Best(rq) = MINPRI \/ rq[Best(rq)] # <<>>
      /\ \A b \in Pri : b < Best(rq) => rq[b] = <<>>
  BY BestProperties
<1>2. ~(p < Best(rq)) /\ ~(Best(rq) < p)
  BY <1>1, SchedAssumption DEF Pri
<1>. QED
  BY <1>1, <1>2, SchedAssumption DEF Pri

\* runq_enqueue() keeps the types of what it assigns.
LEMMA RunqEnqueueTypes ==
  ASSUME TypeOK, NEW t \in Thread, NEW p \in Pri,
         NEW rq \in [Pri -> Seq(Thread)], NEW mp \in Pri,
         RunqEnqueue(t, p, rq, mp)
  PROVE  /\ runq' \in [Pri -> Seq(Thread)]
         /\ maxpri' \in Pri
         /\ resched' \in [Thread -> BOOLEAN]
<1>1. Append(rq[p], t) \in Seq(Thread)
  BY EnqueueItems
<1>2. runq' \in [Pri -> Seq(Thread)]
  BY <1>1 DEF RunqEnqueue
<1>3. maxpri' \in Pri
  BY DEF RunqEnqueue
<1>4. resched' \in [Thread -> BOOLEAN]
  BY DEF RunqEnqueue, TypeOK
<1>. QED
  BY <1>2, <1>3, <1>4

\* sched_swtch() keeps the types of what it assigns.
LEMMA SwtchTypes ==
  ASSUME TypeOK, NEW r \in {"window", "wake"}, Swtch(r)
  PROVE  /\ curthread' \in Thread
         /\ runq' \in [Pri -> Seq(Thread)]
         /\ maxpri' \in Pri
         /\ resched' \in [Thread -> BOOLEAN]
         /\ pc' = [pc EXCEPT ![curthread] = r]
<1>. DEFINE p == priority[curthread]
            rq == IF state[curthread] # RUN THEN runq
                  ELSE IF Preempted(p)
                       THEN [runq EXCEPT ![p] = AtHead(curthread, @)]
                       ELSE [runq EXCEPT ![p] = Append(@, curthread)]
            mp == IF state[curthread] = RUN /\ p < maxpri THEN p ELSE maxpri
            rest == [rq EXCEPT ![mp] = Tail(@)]
<1>1. p \in Pri /\ mp \in Pri /\ runq[p] \in Seq(Thread) /\ curthread \in Thread
  BY DEF TypeOK
<1>2. rq \in [Pri -> Seq(Thread)]
  <2>1. AtHead(curthread, runq[p]) \in Seq(Thread)
    BY <1>1, AtHeadItems
  <2>2. Append(runq[p], curthread) \in Seq(Thread)
    BY <1>1, EnqueueItems
  <2>. QED
    BY <1>1, <2>1, <2>2 DEF TypeOK
<1>3. /\ rq[mp] # <<>>
      /\ curthread' = Head(rq[mp])
      /\ runq' = rest
      /\ maxpri' = IF rest[mp] = <<>> THEN Best(rest) ELSE mp
      /\ resched' = [resched EXCEPT ![curthread] = FALSE]
      /\ pc' = [pc EXCEPT ![curthread] = r]
  BY DEF Swtch, Preempted
<1>. HIDE DEF rq, mp
<1>4. Head(rq[mp]) \in Thread /\ Tail(rq[mp]) \in Seq(Thread)
  BY <1>1, <1>2, <1>3, HeadTailProperties
<1>5. rest \in [Pri -> Seq(Thread)]
  BY <1>2, <1>4
<1>6. Best(rest) \in Pri
  BY BestProperties
<1>7. resched' \in [Thread -> BOOLEAN]
  BY <1>3 DEF TypeOK
<1>. QED
  BY <1>1, <1>3, <1>4, <1>5, <1>6, <1>7

\* The initial state is well typed.
LEMMA TypingInit == Init => Typing
<1>. SUFFICES ASSUME Init PROVE Typing
  OBVIOUS
<1>1. Idle \in Thread /\ MINPRI \in Nat \ {0} /\ QUANTUM \in Nat \ {0}
  BY SchedAssumption
<1>2. TypeOK
  <2>1. /\ runq \in [Pri -> Seq(Thread)]
        /\ wakeq \in Seq(Thread)
        /\ sleepq \in [Event -> Seq(Thread)]
    BY EmptySeq DEF Init
  <2>2. priority \in [Thread -> Pri] /\ maxpri \in Pri
    BY <1>1 DEF Init, Pri
  <2>3. /\ state \in [Thread -> SUBSET Flags]
        /\ policy \in [Thread -> Policy]
        /\ timeout \in SUBSET Thread
    BY DEF Init, Flags, RUN, Policy
  <2>4. timeleft \in [Thread -> 0..QUANTUM] /\ locks \in [Thread -> Nat]
    BY <1>1 DEF Init
  <2>5. /\ pc \in [Thread -> {"run", "flush", "tsleep", "window", "wake"}]
        /\ curthread \in Thread
    BY <1>1 DEF Init
  <2>6. isr \in BOOLEAN /\ resched \in [Thread -> BOOLEAN]
    BY DEF Init
  <2>. QED
    BY <2>1, <2>2, <2>3, <2>4, <2>5, <2>6 DEF TypeOK
<1>3. LocksHeld
  BY <1>1 DEF Init, LocksHeld
<1>. QED
  BY <1>2, <1>3 DEF Typing

\* Taking a ready thread off its run queue keeps the types.
LEMMA RunqWithoutTypes ==
  ASSUME TypeOK, NEW t \in Thread
  PROVE  /\ RunqWithout(t) \in [Pri -> Seq(Thread)]
         /\ Best(RunqWithout(t)) \in Pri
<1>1. Without(runq[priority[t]], t) \in Seq(Thread)
  BY WithoutType DEF TypeOK
<1>2. Best(RunqWithout(t)) \in Pri
  BY BestProperties
<1>. QED
  BY <1>1, <1>2 DEF RunqWithout, TypeOK

\* sched_wakeone() wakes a thread that sleeps on the event.
LEMMA SleeperTypes ==
  ASSUME TypeOK, NEW e \in Event, sleepq[e] # <<>>
  PROVE  /\ FirstBest(sleepq[e], priority) \in Items(sleepq[e])
         /\ FirstBest(sleepq[e], priority) \in Thread
<1>1. sleepq[e] \in Seq(Thread) /\ priority \in [Thread -> Nat]
  <2>1. Pri \subseteq Nat
    BY SchedAssumption DEF Pri
  <2>. QED
    BY <2>1 DEF TypeOK
<1>2. FirstBest(sleepq[e], priority) \in Items(sleepq[e])
  BY <1>1, FirstBestItem
<1>. QED
  BY <1>1, <1>2, NoItems

\* The entry of sched_unlock() keeps the types and the lock counts.
LEMMA UnlockTypes ==
  ASSUME Typing, locks[curthread] >= 1, Unlock
  PROVE  /\ pc' \in [Thread -> {"run", "flush", "tsleep", "window", "wake"}]
         /\ locks' \in [Thread -> Nat]
         /\ \A t \in Thread : pc'[t] # "run" => locks'[t] >= 1
<1>1. curthread \in Thread /\ locks \in [Thread -> Nat]
  BY DEF Typing, TypeOK
<1>2. CASE locks[curthread] = 1
  BY <1>1, <1>2 DEF Unlock, Typing, TypeOK, LocksHeld
<1>3. CASE locks[curthread] # 1
  <2>1. locks[curthread] - 1 \in Nat /\ locks[curthread] - 1 >= 1
    BY <1>1, <1>3
  <2>2. locks' = [locks EXCEPT ![curthread] = locks[curthread] - 1]
    BY <1>3 DEF Unlock
  <2>3. pc' = [pc EXCEPT ![curthread] = IF pc[curthread] = "wake" THEN "run" ELSE pc[curthread]]
    BY <1>3 DEF Unlock
  <2>. QED
    BY <1>1, <2>1, <2>2, <2>3 DEF Typing, TypeOK, LocksHeld
<1>. QED
  BY <1>2, <1>3

\* Every step keeps the types and the lock counts.
LEMMA TypingStep == Typing /\ [Next]_vars => Typing'
<1>. SUFFICES ASSUME Typing, [Next]_vars PROVE Typing'
  OBVIOUS
<1>. USE DEF Typing
<1>1. CASE SchedLock
  <2>1. TypeOK'
    BY <1>1 DEF SchedLock, attrs, TypeOK
  <2>2. LocksHeld'
    BY <1>1 DEF SchedLock, attrs, TypeOK, LocksHeld
  <2>. QED
    BY <2>1, <2>2
<1>2. CASE SchedUnlock
  <2>1. locks[curthread] >= 1 /\ Unlock /\ ~isr
    BY <1>2 DEF SchedUnlock, Locked, TypeOK
  <2>2. TypeOK'
    BY <1>2, <2>1, UnlockTypes DEF SchedUnlock, TypeOK, attrs
  <2>3. LocksHeld'
    BY <1>2, <2>1, UnlockTypes DEF SchedUnlock, LocksHeld
  <2>. QED
    BY <2>2, <2>3
<1>3. CASE WakeqFlush
  <2>. DEFINE t == Head(wakeq)
              s == state[t] \ {"SLEEP"}
  <2>1. /\ wakeq # <<>> /\ wakeq' = Tail(wakeq)
        /\ state' = [state EXCEPT ![t] = s]
        /\ IF t # curthread /\ s = RUN
           THEN RunqEnqueue(t, priority[t], runq, maxpri)
           ELSE UNCHANGED <<runq, maxpri, resched>>
        /\ UNCHANGED <<curthread, isr, pc, attrs, locks, timeout, sleepq>>
    BY <1>3 DEF WakeqFlush
  <2>2. t \in Thread /\ wakeq' \in Seq(Thread)
    BY <2>1, HeadTailProperties DEF TypeOK
  <2>3. state' \in [Thread -> SUBSET Flags]
    BY <2>1, <2>2 DEF TypeOK
  <2>4. /\ runq' \in [Pri -> Seq(Thread)] /\ maxpri' \in Pri
        /\ resched' \in [Thread -> BOOLEAN]
    <3>1. CASE RunqEnqueue(t, priority[t], runq, maxpri)
      BY <2>2, <3>1, RunqEnqueueTypes DEF TypeOK
    <3>2. CASE UNCHANGED <<runq, maxpri, resched>>
      BY <3>2 DEF TypeOK
    <3>. QED
      BY <2>1, <3>1, <3>2
  <2>5. TypeOK'
    BY <2>1, <2>2, <2>3, <2>4 DEF TypeOK, attrs
  <2>6. LocksHeld'
    BY <2>1 DEF LocksHeld
  <2>. QED
    BY <2>5, <2>6
<1>4. CASE UnlockSwtch
  <2>1. Swtch("window") /\ UNCHANGED <<isr, state, attrs, locks, timeout, wakeq, sleepq>>
    BY <1>4 DEF UnlockSwtch
  <2>2. TypeOK'
    BY <2>1, SwtchTypes DEF TypeOK, attrs
  <2>3. pc[curthread] = "flush" /\ ~isr
    BY <1>4 DEF UnlockSwtch, LocksHeld
  <2>4. LocksHeld'
    BY <2>1, <2>3, SwtchTypes DEF TypeOK, LocksHeld
  <2>. QED
    BY <2>2, <2>4
<1>5. CASE UnlockDone
  <2>1. pc[curthread] = "flush" /\ ~isr /\ curthread \in Thread /\ locks[curthread] - 1 \in Nat
    <3>1. pc[curthread] = "flush" /\ curthread \in Thread /\ locks[curthread] \in Nat
      BY <1>5 DEF UnlockDone, TypeOK
    <3>2. locks[curthread] >= 1 /\ ~isr
      BY <3>1 DEF LocksHeld
    <3>. QED
      BY <3>1, <3>2
  <2>2. TypeOK'
    BY <1>5, <2>1 DEF UnlockDone, TypeOK, attrs
  <2>3. LocksHeld'
    BY <1>5, <2>1 DEF UnlockDone, TypeOK, LocksHeld
  <2>. QED
    BY <2>2, <2>3
<1>6. CASE UnlockAgain
  <2>1. TypeOK'
    BY <1>6 DEF UnlockAgain, attrs, TypeOK
  <2>2. LocksHeld'
    BY <1>6 DEF UnlockAgain, attrs, TypeOK, LocksHeld
  <2>. QED
    BY <2>1, <2>2
<1>7. CASE TsleepSwtch
  <2>1. Swtch("wake") /\ UNCHANGED <<isr, state, attrs, locks, timeout, wakeq, sleepq>>
    BY <1>7 DEF TsleepSwtch
  <2>2. TypeOK'
    BY <2>1, SwtchTypes DEF TypeOK, attrs
  <2>3. pc[curthread] = "tsleep" /\ ~isr
    BY <1>7 DEF TsleepSwtch, LocksHeld
  <2>4. LocksHeld'
    BY <2>1, <2>3, SwtchTypes DEF TypeOK, LocksHeld
  <2>. QED
    BY <2>2, <2>4
<1>8. CASE TsleepReturn
  <2>1. locks[curthread] >= 1 /\ Unlock /\ ~isr
    BY <1>8 DEF TsleepReturn, TypeOK, LocksHeld
  <2>2. TypeOK'
    BY <1>8, <2>1, UnlockTypes DEF TsleepReturn, TypeOK, attrs
  <2>3. LocksHeld'
    BY <1>8, <2>1, UnlockTypes DEF TsleepReturn, LocksHeld
  <2>. QED
    BY <2>2, <2>3
<1>9. CASE IsrEnter
  <2>1. TypeOK'
    BY <1>9 DEF IsrEnter, attrs, TypeOK
  <2>2. LocksHeld'
    BY <1>9 DEF IsrEnter, attrs, TypeOK, LocksHeld
  <2>. QED
    BY <2>1, <2>2
<1>10. CASE Tick
  <2>1. timeleft' \in [Thread -> 0..QUANTUM]
    <3>1. timeleft[curthread] \in 0..QUANTUM /\ QUANTUM \in Nat \ {0}
      BY SchedAssumption DEF TypeOK
    <3>2. TimeleftAfter(timeleft[curthread]) \in 0..QUANTUM
      BY <3>1 DEF TimeleftAfter
    <3>3. timeleft' = [timeleft EXCEPT ![curthread] = TimeleftAfter(timeleft[curthread])]
      BY <1>10 DEF Tick
    <3>. QED
      BY <3>2, <3>3 DEF TypeOK
  <2>2. resched' \in [Thread -> BOOLEAN]
    BY <1>10 DEF Tick, TypeOK
  <2>3. TypeOK'
    BY <1>10, <2>1, <2>2 DEF Tick, TypeOK
  <2>4. LocksHeld'
    BY <1>10 DEF Tick, TypeOK, LocksHeld
  <2>. QED
    BY <2>3, <2>4
<1>11. CASE IsrExit
  <2>1. isr /\ curthread \in Thread /\ locks[curthread] \in Nat /\ locks[curthread] >= 1
    BY <1>11 DEF IsrExit, TypeOK, LocksHeld
  <2>2. CASE locks[curthread] = 1
    <3>1. pc' = [pc EXCEPT ![curthread] = "flush"] /\ UNCHANGED locks
      BY <1>11, <2>2 DEF IsrExit
    <3>2. TypeOK'
      BY <1>11, <3>1 DEF IsrExit, TypeOK, attrs
    <3>3. LocksHeld'
      BY <1>11, <2>1, <2>2, <3>1 DEF IsrExit, TypeOK, LocksHeld
    <3>. QED
      BY <3>2, <3>3
  <2>3. CASE locks[curthread] # 1
    <3>1. locks' = [locks EXCEPT ![curthread] = @ - 1] /\ UNCHANGED pc
      BY <1>11, <2>3 DEF IsrExit
    <3>2. locks[curthread] - 1 \in Nat
      BY <2>1
    <3>3. TypeOK'
      BY <1>11, <3>1, <3>2 DEF IsrExit, TypeOK, attrs
    <3>4. LocksHeld'
      BY <1>11, <2>1, <3>1 DEF IsrExit, TypeOK, LocksHeld
    <3>. QED
      BY <3>3, <3>4
  <2>. QED
    BY <2>2, <2>3
<1>12. CASE Yield
  <2>1. TypeOK'
    BY <1>12 DEF Yield, Locked, attrs, TypeOK
  <2>2. LocksHeld'
    BY <1>12 DEF Yield, Locked, attrs, TypeOK, LocksHeld
  <2>. QED
    BY <2>1, <2>2
<1>13. ASSUME NEW e \in Event, NEW timed \in BOOLEAN, Tsleep(e, timed) PROVE Typing'
  <2>1. TypeOK'
    BY <1>13 DEF Tsleep, attrs, Flags, TypeOK
  <2>2. LocksHeld'
    BY <1>13 DEF Tsleep, attrs, Flags, TypeOK, LocksHeld
  <2>. QED
    BY <2>1, <2>2
<1>14. ASSUME NEW e \in Event, Wakeup(e) PROVE Typing'
  <2>1. wakeq' \in Seq(Thread)
    BY <1>14, ConcatItems DEF Wakeup, TypeOK
  <2>2. sleepq' \in [Event -> Seq(Thread)]
    BY <1>14, EmptySeq DEF Wakeup, TypeOK
  <2>3. TypeOK'
    BY <1>14, <2>1, <2>2 DEF Wakeup, TypeOK, attrs
  <2>4. LocksHeld'
    BY <1>14 DEF Wakeup, LocksHeld
  <2>. QED
    BY <2>3, <2>4
<1>15. ASSUME NEW e \in Event, Wakeone(e) PROVE Typing'
  <2>. DEFINE top == FirstBest(sleepq[e], priority)
  <2>1. /\ sleepq[e] # <<>>
        /\ sleepq' = [sleepq EXCEPT ![e] = Without(@, top)]
        /\ wakeq' = Append(wakeq, top)
        /\ timeout' = timeout \ {top}
        /\ UNCHANGED <<curthread, isr, pc, state, attrs, resched, locks, runq, maxpri>>
    BY <1>15 DEF Wakeone, Setrun
  <2>2. top \in Thread
    BY <2>1, SleeperTypes
  <2>3. wakeq' \in Seq(Thread)
    BY <2>1, <2>2, EnqueueItems DEF TypeOK
  <2>4. sleepq' \in [Event -> Seq(Thread)]
    BY <2>1, WithoutType DEF TypeOK
  <2>. HIDE DEF top
  <2>5. TypeOK'
    BY <2>1, <2>3, <2>4 DEF TypeOK, attrs
  <2>6. LocksHeld'
    BY <2>1 DEF LocksHeld
  <2>. QED
    BY <2>5, <2>6
<1>16. ASSUME NEW t \in Thread, Unsleep(t) PROVE Typing'
  <2>1. sleepq' \in [Event -> Seq(Thread)] /\ wakeq' \in Seq(Thread)
    <3>1. \A d \in Event : Without(sleepq[d], t) \in Seq(Thread)
      BY WithoutType DEF TypeOK
    <3>2. Append(Without(wakeq, t), t) \in Seq(Thread)
      BY WithoutType, EnqueueItems DEF TypeOK
    <3>. QED
      BY <1>16, <3>1, <3>2 DEF Unsleep, Setrun
  <2>2. TypeOK'
    BY <1>16, <2>1 DEF Unsleep, Setrun, TypeOK, attrs
  <2>3. LocksHeld'
    BY <1>16 DEF Unsleep, Setrun, LocksHeld
  <2>. QED
    BY <2>2, <2>3
<1>17. ASSUME NEW t \in Thread, Suspend(t) PROVE Typing'
  <2>1. RunqWithout(t) \in [Pri -> Seq(Thread)] /\ Best(RunqWithout(t)) \in Pri
    BY RunqWithoutTypes
  <2>2. /\ runq' \in [Pri -> Seq(Thread)] /\ maxpri' \in Pri
        /\ resched' \in [Thread -> BOOLEAN]
    <3>1. CASE UNCHANGED <<resched, runq, maxpri>>
      BY <3>1 DEF TypeOK
    <3>2. CASE resched' = [resched EXCEPT ![t] = TRUE] /\ UNCHANGED <<runq, maxpri>>
      BY <3>2 DEF TypeOK
    <3>3. CASE runq' = RunqWithout(t) /\ maxpri' = Best(runq') /\ UNCHANGED resched
      BY <2>1, <3>3 DEF TypeOK
    <3>. QED
      BY <1>17, <3>1, <3>2, <3>3 DEF Suspend
  <2>3. state' \in [Thread -> SUBSET Flags]
    BY <1>17 DEF Suspend, TypeOK, Flags
  <2>4. TypeOK'
    BY <1>17, <2>2, <2>3 DEF Suspend, TypeOK, attrs
  <2>5. LocksHeld'
    BY <1>17 DEF Suspend, LocksHeld
  <2>. QED
    BY <2>4, <2>5
<1>18. ASSUME NEW t \in Thread, Resume(t) PROVE Typing'
  <2>. DEFINE s == state[t] \ {"SUSP"}
  <2>1. /\ runq' \in [Pri -> Seq(Thread)] /\ maxpri' \in Pri
        /\ resched' \in [Thread -> BOOLEAN]
    <3>1. CASE UNCHANGED <<runq, maxpri, resched>>
      BY <3>1 DEF TypeOK
    <3>2. CASE RunqEnqueue(t, priority[t], runq, maxpri)
      BY <3>2, RunqEnqueueTypes DEF TypeOK
    <3>. QED
      BY <1>18, <3>1, <3>2 DEF Resume
  <2>2. state' \in [Thread -> SUBSET Flags]
    BY <1>18 DEF Resume, TypeOK
  <2>3. TypeOK'
    BY <1>18, <2>1, <2>2 DEF Resume, TypeOK, attrs
  <2>4. LocksHeld'
    BY <1>18 DEF Resume, LocksHeld
  <2>. QED
    BY <2>3, <2>4
<1>19. ASSUME NEW t \in Thread, Stop(t) PROVE Typing'
  <2>1. RunqWithout(t) \in [Pri -> Seq(Thread)] /\ Best(RunqWithout(t)) \in Pri
    BY RunqWithoutTypes
  <2>2. /\ Without(wakeq, t) \in Seq(Thread)
        /\ \A d \in Event : Without(sleepq[d], t) \in Seq(Thread)
    BY WithoutType DEF TypeOK
  <2>3. /\ runq' \in [Pri -> Seq(Thread)] /\ maxpri' \in Pri
        /\ wakeq' \in Seq(Thread) /\ sleepq' \in [Event -> Seq(Thread)]
    BY <1>19, <2>1, <2>2 DEF Stop, TypeOK
  <2>4. locks' = IF t = curthread THEN [locks EXCEPT ![t] = 1] ELSE locks
    BY <1>19 DEF Stop
  <2>5. locks' \in [Thread -> Nat]
    BY <2>4 DEF TypeOK
  <2>6. resched' \in [Thread -> BOOLEAN]
    BY <1>19 DEF Stop, TypeOK
  <2>7. state' \in [Thread -> SUBSET Flags]
    BY <1>19 DEF Stop, TypeOK, Flags
  <2>8. TypeOK'
    BY <1>19, <2>3, <2>5, <2>6, <2>7 DEF Stop, TypeOK, attrs
  <2>9. LocksHeld'
    <3>1. ~isr /\ isr' = isr /\ pc' = pc
      BY <1>19 DEF Stop, Locked
    <3>2. \A u \in Thread : pc[u] # "run" => locks'[u] >= 1
      BY <2>4 DEF TypeOK, LocksHeld
    <3>. QED
      BY <3>1, <3>2 DEF LocksHeld
  <2>. QED
    BY <2>8, <2>9
<1>20. ASSUME NEW t \in Thread, NEW p \in 0..(MINPRI - 1), Setpri(t, p) PROVE Typing'
  <2>1. p \in Pri
    BY SchedAssumption DEF Pri
  <2>2. RunqWithout(t) \in [Pri -> Seq(Thread)] /\ Best(RunqWithout(t)) \in Pri /\ Best(runq) \in Pri
    BY RunqWithoutTypes, BestProperties
  <2>3. /\ runq' \in [Pri -> Seq(Thread)] /\ maxpri' \in Pri
        /\ resched' \in [Thread -> BOOLEAN]
    <3>1. CASE t = curthread
      BY <1>20, <2>2, <3>1 DEF Setpri, TypeOK
    <3>2. CASE RunqEnqueue(t, p, RunqWithout(t), Best(RunqWithout(t)))
      BY <2>1, <2>2, <3>2, RunqEnqueueTypes
    <3>3. CASE UNCHANGED <<runq, maxpri, resched>>
      BY <3>3 DEF TypeOK
    <3>. QED
      BY <1>20, <3>1, <3>2, <3>3 DEF Setpri
  <2>4. priority' \in [Thread -> Pri]
    BY <1>20, <2>1 DEF Setpri, TypeOK
  <2>5. TypeOK'
    BY <1>20, <2>3, <2>4 DEF Setpri, TypeOK
  <2>6. LocksHeld'
    BY <1>20 DEF Setpri, LocksHeld
  <2>. QED
    BY <2>5, <2>6
<1>21. ASSUME NEW t \in Thread, NEW pol \in Policy, Setpolicy(t, pol) PROVE Typing'
  <2>1. QUANTUM \in 0..QUANTUM
    BY SchedAssumption
  <2>2. TypeOK'
    BY <1>21, <2>1 DEF Setpolicy, TypeOK
  <2>3. LocksHeld'
    BY <1>21 DEF Setpolicy, LocksHeld
  <2>. QED
    BY <2>2, <2>3
<1>22. ASSUME NEW t \in Thread, NEW p \in 0..(MINPRI - 1), NEW pol \in Policy,
              Start(t, p, pol)
       PROVE  Typing'
  <2>1. p \in Pri /\ QUANTUM \in 0..QUANTUM /\ 0 \in 0..QUANTUM
    BY SchedAssumption DEF Pri
  <2>2. /\ state' \in [Thread -> SUBSET Flags] /\ priority' \in [Thread -> Pri]
        /\ policy' \in [Thread -> Policy] /\ timeleft' \in [Thread -> 0..QUANTUM]
    BY <1>22, <2>1 DEF Start, TypeOK, Flags
  <2>3. /\ locks' \in [Thread -> Nat]
        /\ pc' \in [Thread -> {"run", "flush", "tsleep", "window", "wake"}]
    BY <1>22 DEF Start, TypeOK
  <2>4. resched' \in [Thread -> BOOLEAN]
    BY <1>22 DEF Start, TypeOK
  <2>5. TypeOK'
    BY <1>22, <2>2, <2>3, <2>4 DEF Start, TypeOK
  <2>6. LocksHeld'
    BY <1>22 DEF Start, TypeOK, LocksHeld
  <2>. QED
    BY <2>5, <2>6
<1>23. CASE UNCHANGED vars
  BY <1>23 DEF vars, TypeOK, LocksHeld, attrs
<1>. QED
  BY <1>1, <1>2, <1>3, <1>4, <1>5, <1>6, <1>7, <1>8, <1>9, <1>10, <1>11, <1>12,
     <1>13, <1>14, <1>15, <1>16, <1>17, <1>18, <1>19, <1>20, <1>21, <1>22, <1>23
     DEF Next, Switching, Interrupt

\* The types of the scheduler's state hold throughout: in particular the
\* cached maxpri is a priority, the nesting count t->locks never drops below
\* 0 and sched_tick() keeps t->timeleft within the quantum.
THEOREM TypeCorrect == Spec => []TypeOK
<1>1. Typing => TypeOK
  BY DEF Typing
<1>. QED
  BY <1>1, TypingInit, TypingStep, PTL DEF Spec
-----------------------------------------------------------------------------
\* The current thread carries TS_SLEEP only inside sched_tsleep(), has a
\* reschedule pending when it cannot run on, and is never in the wake queue.
CurrentThread ==
  /\ "SLEEP" \in state[curthread] => pc[curthread] = "tsleep"
  /\ state[curthread] # RUN => resched[curthread] = TRUE \/ pc[curthread] = "tsleep"
  /\ curthread \notin Items(wakeq)

Linking == ThreadsAreQueued /\ CurrentThread

\* runq_enqueue() links t in the queue of p and changes no other queue.
LEMMA RunqEnqueueItems ==
  ASSUME NEW t \in Thread, NEW p \in Pri, NEW rq \in [Pri -> Seq(Thread)], NEW mp \in Pri,
         RunqEnqueue(t, p, rq, mp)
  PROVE  \A o \in Pri :
           /\ Items(runq'[o]) = IF o = p THEN Items(rq[o]) \cup {t} ELSE Items(rq[o])
           /\ Distinct(rq[o]) /\ t \notin Items(rq[o]) => Distinct(runq'[o])
<1>1. \A o \in Pri : runq'[o] = IF o = p THEN Append(rq[p], t) ELSE rq[o]
  BY DEF RunqEnqueue
<1>2. /\ Items(Append(rq[p], t)) = Items(rq[p]) \cup {t}
      /\ Distinct(rq[p]) /\ t \notin Items(rq[p]) => Distinct(Append(rq[p], t))
  BY EnqueueItems
<1>. QED
  BY <1>1, <1>2

\* Taking t off the queue of its priority takes it off the run queues.
LEMMA RunqWithoutItems ==
  ASSUME TypeOK, ReadyAreQueued, NEW t \in Thread
  PROVE  \A o \in Pri : /\ Items(RunqWithout(t)[o]) = Items(runq[o]) \ {t}
                        /\ Distinct(RunqWithout(t)[o])
<1>1. \A o \in Pri : RunqWithout(t)[o] =
                       IF o = priority[t] THEN Without(runq[o], t) ELSE runq[o]
  BY DEF RunqWithout, TypeOK
<1>2. \A o \in Pri : o # priority[t] => t \notin Items(runq[o])
  BY DEF ReadyAreQueued
<1>3. \A o \in Pri : /\ Items(Without(runq[o], t)) = Items(runq[o]) \ {t}
                     /\ Distinct(Without(runq[o], t))
  BY WithoutItems DEF ReadyAreQueued, TypeOK
<1>. QED
  BY <1>1, <1>2, <1>3 DEF ReadyAreQueued

\* sched_swtch() gives the CPU to a ready thread of the best priority and
\* puts prev into the run queues when it still can run.
LEMMA SwtchItems ==
  ASSUME TypeOK, ReadyAreQueued, NEW r \in {"window", "wake"}, Swtch(r),
         UNCHANGED <<state, priority>>
  PROVE  /\ ReadyAreQueued'
         /\ state[curthread'] = RUN
<1>. DEFINE prev == curthread
            p == priority[prev]
            rq == IF state[prev] # RUN THEN runq
                  ELSE IF Preempted(p)
                       THEN [runq EXCEPT ![p] = AtHead(prev, @)]
                       ELSE [runq EXCEPT ![p] = Append(@, prev)]
            mp == IF state[prev] = RUN /\ p < maxpri THEN p ELSE maxpri
            rest == [rq EXCEPT ![mp] = Tail(@)]
            ready(o) == {t \in Thread : state[t] = RUN /\ priority[t] = o}
<1>1. p \in Pri /\ mp \in Pri /\ runq[p] \in Seq(Thread) /\ prev \in Thread
  BY DEF TypeOK
<1>2. /\ rq[mp] # <<>>
      /\ curthread' = Head(rq[mp])
      /\ runq' = rest
  BY DEF Swtch, Preempted
<1>3. \A o \in Pri : /\ rq[o] \in Seq(Thread)
                     /\ Distinct(rq[o])
                     /\ Items(rq[o]) = ready(o)
  <2>1. Distinct(runq[p]) /\ prev \notin Items(runq[p])
    BY <1>1 DEF ReadyAreQueued
  <2>2. CASE state[prev] # RUN
    BY <2>2 DEF ReadyAreQueued, TypeOK
  <2>3. CASE state[prev] = RUN
    <3>1. \A q \in {AtHead(prev, runq[p]), Append(runq[p], prev)} :
            q \in Seq(Thread) /\ Distinct(q) /\ Items(q) = Items(runq[p]) \cup {prev}
      <4>1. /\ AtHead(prev, runq[p]) \in Seq(Thread)
            /\ Distinct(AtHead(prev, runq[p]))
            /\ Items(AtHead(prev, runq[p])) = Items(runq[p]) \cup {prev}
        <5>1. AtHead(prev, runq[p]) \in Seq(Thread)
          BY <1>1, AtHeadItems
        <5>2. Items(AtHead(prev, runq[p])) = Items(runq[p]) \cup {prev}
          <6>1. \A q \in Seq(Thread), x \in Thread : Items(AtHead(x, q)) = Items(q) \cup {x}
            BY AtHeadItems
          <6>. QED
            BY <1>1, <6>1
        <5>3. Distinct(runq[p]) /\ prev \notin Items(runq[p])
                => Distinct(AtHead(prev, runq[p]))
          BY <1>1, AtHeadItems
        <5>. QED
          BY <2>1, <5>1, <5>2, <5>3
      <4>2. /\ Append(runq[p], prev) \in Seq(Thread)
            /\ Distinct(Append(runq[p], prev))
            /\ Items(Append(runq[p], prev)) = Items(runq[p]) \cup {prev}
        BY <1>1, <2>1, EnqueueItems
      <4>. QED
        BY <4>1, <4>2
    <3>2. \A o \in Pri : o # p => rq[o] = runq[o]
      BY <2>3 DEF TypeOK
    <3>3. rq[p] \in {AtHead(prev, runq[p]), Append(runq[p], prev)}
      BY <1>1, <2>3 DEF TypeOK
    <3>. HIDE DEF rq
    <3>4. ASSUME NEW o \in Pri, o # p
          PROVE  rq[o] \in Seq(Thread) /\ Distinct(rq[o]) /\ Items(rq[o]) = ready(o)
      <4>1. rq[o] = runq[o] /\ runq[o] \in Seq(Thread)
        BY <3>2, <3>4 DEF TypeOK
      <4>2. Distinct(runq[o]) /\ Items(runq[o]) = ready(o)
        BY <3>4 DEF ReadyAreQueued
      <4>. QED
        BY <4>1, <4>2
    <3>5. rq[p] \in Seq(Thread) /\ Distinct(rq[p]) /\ Items(rq[p]) = ready(p)
      <4>1. Items(runq[p]) \cup {prev} = ready(p)
        BY <1>1, <2>3 DEF ReadyAreQueued
      <4>. QED
        BY <3>1, <3>3, <4>1
    <3>. QED
      BY <3>4, <3>5
  <2>. QED
    BY <2>2, <2>3
<1>4. rq \in [Pri -> Seq(Thread)]
  BY <1>1, AtHeadItems, EnqueueItems DEF TypeOK
<1>. HIDE DEF rq, mp
<1>5. /\ Head(rq[mp]) \in Items(rq[mp])
      /\ Items(Tail(rq[mp])) = Items(rq[mp]) \ {Head(rq[mp])}
      /\ Distinct(Tail(rq[mp]))
  BY <1>1, <1>2, <1>3, DequeueItems
<1>6. state[curthread'] = RUN /\ priority[curthread'] = mp
  BY <1>1, <1>2, <1>3, <1>5
<1>7. \A o \in Pri : runq'[o] = IF o = mp THEN Tail(rq[mp]) ELSE rq[o]
  BY <1>1, <1>2, <1>4
<1>8. ReadyAreQueued'
  BY <1>1, <1>2, <1>3, <1>5, <1>6, <1>7 DEF ReadyAreQueued
<1>. QED
  BY <1>6, <1>8


\* What ReadyAreQueued and SleepersAreQueued depend on.
LEMMA ReadyFrame ==
  ReadyAreQueued /\ UNCHANGED <<curthread, state, priority, runq>> => ReadyAreQueued'
BY DEF ReadyAreQueued

LEMMA SleepersFrame ==
  SleepersAreQueued /\ UNCHANGED <<state, wakeq, sleepq>> => SleepersAreQueued'
BY DEF SleepersAreQueued

\* A sleeper that moves to the wake queue stays linked once.
LEMMA WokenFrame ==
  ASSUME SleepersAreQueued, NEW t \in Thread, "SLEEP" \in state[t],
         \A d \in Event : Items(sleepq'[d]) = Items(sleepq[d]) \ {t} /\ Distinct(sleepq'[d]),
         Items(wakeq') = Items(wakeq) \cup {t}, Distinct(wakeq'),
         state' = state
  PROVE  SleepersAreQueued'
BY DEF SleepersAreQueued

\* sched_stop() and sched_unsleep() find a sleeper in its queue.
LEMMA UnlinkedSleeper ==
  ASSUME TypeOK, SleepersAreQueued, NEW t
  PROVE  /\ Without(wakeq, t) \in Seq(Thread)
         /\ Items(Without(wakeq, t)) = Items(wakeq) \ {t} /\ Distinct(Without(wakeq, t))
         /\ \A d \in Event : /\ Items(Without(sleepq[d], t)) = Items(sleepq[d]) \ {t}
                             /\ Distinct(Without(sleepq[d], t))
BY WithoutItems DEF TypeOK, SleepersAreQueued

\* Thread code under the scheduler lock and interrupt handlers run while the
\* current thread is linked nowhere.
LEMMA RunningIsAwake ==
  ASSUME Typing, CurrentThread, LockedOrIsr
  PROVE  "SLEEP" \notin state[curthread]
BY DEF Typing, LocksHeld, CurrentThread, LockedOrIsr, Locked

\* The boot thread runs alone.
LEMMA LinkingInit == Init => Linking
<1>. SUFFICES ASSUME Init PROVE Linking
  OBVIOUS
<1>1. Idle \in Thread /\ Items(<<>>) = {} /\ Distinct(<<>>)
  BY SchedAssumption DEF Items, Distinct
<1>2. ReadyAreQueued
  BY <1>1 DEF Init, ReadyAreQueued, RUN
<1>3. SleepersAreQueued
  BY <1>1 DEF Init, SleepersAreQueued, RUN
<1>4. CurrentThread
  BY <1>1 DEF Init, CurrentThread, RUN
<1>. QED
  BY <1>2, <1>3, <1>4 DEF Linking, ThreadsAreQueued

\* Every step keeps the threads linked where their states say.
LEMMA LinkingStep == Typing /\ Linking /\ [Next]_vars => Linking'
<1>. SUFFICES ASSUME Typing, ReadyAreQueued, SleepersAreQueued, CurrentThread, [Next]_vars
              PROVE  ReadyAreQueued' /\ SleepersAreQueued' /\ CurrentThread'
  BY DEF Linking, ThreadsAreQueued
<1>. USE DEF Typing
<1>1. CASE SchedLock
  BY <1>1, ReadyFrame, SleepersFrame DEF SchedLock, attrs, CurrentThread
<1>2. CASE SchedUnlock
  <2>1. CurrentThread'
    BY <1>2 DEF SchedUnlock, Locked, Unlock, CurrentThread, TypeOK
  <2>. QED
    BY <1>2, <2>1, ReadyFrame, SleepersFrame DEF SchedUnlock, attrs
<1>3. CASE WakeqFlush
  <2>. DEFINE t == Head(wakeq)
              s == state[t] \ {"SLEEP"}
  <2>1. /\ wakeq # <<>> /\ wakeq' = Tail(wakeq)
        /\ state' = [state EXCEPT ![t] = s]
        /\ IF t # curthread /\ s = RUN
           THEN RunqEnqueue(t, priority[t], runq, maxpri)
           ELSE UNCHANGED <<runq, maxpri, resched>>
        /\ UNCHANGED <<curthread, isr, pc, attrs, locks, timeout, sleepq>>
    BY <1>3 DEF WakeqFlush
  <2>2. /\ t \in Items(wakeq) /\ Items(wakeq') = Items(wakeq) \ {t}
        /\ Distinct(wakeq')
    BY <2>1, DequeueItems DEF SleepersAreQueued, TypeOK
  <2>3. t \in Thread /\ t # curthread
    BY <2>2, NoItems DEF TypeOK, CurrentThread
  <2>4. "SLEEP" \in state[t] /\ state[t] # RUN
    BY <2>2, <2>3 DEF SleepersAreQueued, RUN
  <2>. HIDE DEF t
  <2>5. \A u \in Thread : state'[u] = IF u = t THEN s ELSE state[u]
    BY <2>1 DEF TypeOK
  <2>6. SleepersAreQueued'
    <3>1. \A e \in Event : Items(sleepq'[e]) = Items(sleepq[e]) /\ t \notin Items(sleepq[e])
      BY <2>1, <2>2 DEF SleepersAreQueued
    <3>2. \A u \in Thread : "SLEEP" \in state'[u] <=> u # t /\ "SLEEP" \in state[u]
      BY <2>5
    <3>3. \A u \in Thread :
            "SLEEP" \in state'[u] <=>
              u \in Items(wakeq') \/ \E e \in Event : u \in Items(sleepq'[e])
      BY <2>2, <3>1, <3>2 DEF SleepersAreQueued
    <3>4. /\ Distinct(wakeq') /\ \A e \in Event : Distinct(sleepq'[e])
          /\ \A e \in Event : Items(wakeq') \cap Items(sleepq'[e]) = {}
          /\ \A d, e \in Event : d # e => Items(sleepq'[d]) \cap Items(sleepq'[e]) = {}
      BY <2>1, <2>2 DEF SleepersAreQueued
    <3>. QED
      BY <3>3, <3>4 DEF SleepersAreQueued
  <2>7. ReadyAreQueued'
    <3>1. CASE s = RUN
      <4>1. RunqEnqueue(t, priority[t], runq, maxpri)
        BY <2>1, <2>3, <3>1
      <4>2. \A o \in Pri :
              /\ Items(runq'[o]) = IF o = priority[t] THEN Items(runq[o]) \cup {t}
                                                      ELSE Items(runq[o])
              /\ Distinct(runq[o]) /\ t \notin Items(runq[o]) => Distinct(runq'[o])
        BY <2>3, <4>1, RunqEnqueueItems DEF TypeOK
      <4>3. \A o \in Pri : t \notin Items(runq[o])
        BY <2>4 DEF ReadyAreQueued
      <4>4. priority' = priority /\ curthread' = curthread
        BY <2>1 DEF attrs
      <4>5. \A o \in Pri : {u \in Thread \ {curthread} : state'[u] = RUN /\ priority[u] = o} =
                           IF o = priority[t] THEN Items(runq[o]) \cup {t} ELSE Items(runq[o])
        BY <2>3, <2>4, <2>5, <3>1 DEF ReadyAreQueued
      <4>6. \A o \in Pri : Distinct(runq'[o])
        BY <4>2, <4>3 DEF ReadyAreQueued
      <4>. QED
        BY <4>2, <4>4, <4>5, <4>6 DEF ReadyAreQueued
    <3>2. CASE s # RUN
      BY <2>1, <2>3, <2>4, <2>5, <3>2 DEF ReadyAreQueued, attrs
    <3>. QED
      BY <3>1, <3>2
  <2>8. CurrentThread'
    <3>1. state'[curthread'] = state[curthread] /\ curthread' = curthread /\ pc' = pc
      BY <2>1, <2>3, <2>5 DEF TypeOK
    <3>2. resched[curthread] = TRUE => resched'[curthread] = TRUE
      BY <2>1 DEF RunqEnqueue, TypeOK
    <3>. QED
      BY <2>2, <3>1, <3>2 DEF CurrentThread
  <2>. QED
    BY <2>6, <2>7, <2>8
<1>4. CASE UnlockSwtch \/ TsleepSwtch
  <2>1. PICK r \in {"window", "wake"} : Swtch(r)
    BY <1>4 DEF UnlockSwtch, TsleepSwtch
  <2>2. wakeq = <<>> /\ UNCHANGED <<state, attrs, wakeq, sleepq>>
    BY <1>4 DEF UnlockSwtch, TsleepSwtch
  <2>3. ReadyAreQueued' /\ state[curthread'] = RUN
    BY <2>1, <2>2, SwtchItems DEF attrs
  <2>4. CurrentThread'
    BY <2>2, <2>3, NoItems DEF CurrentThread, RUN, TypeOK, Items
  <2>. QED
    BY <2>2, <2>3, <2>4, SleepersFrame
<1>5. CASE UnlockDone
  BY <1>5, ReadyFrame, SleepersFrame DEF UnlockDone, attrs, CurrentThread, TypeOK
<1>6. CASE UnlockAgain
  BY <1>6, ReadyFrame, SleepersFrame DEF UnlockAgain, attrs, CurrentThread, TypeOK
<1>7. CASE TsleepReturn
  <2>1. CurrentThread'
    BY <1>7 DEF TsleepReturn, Unlock, CurrentThread, TypeOK
  <2>. QED
    BY <1>7, <2>1, ReadyFrame, SleepersFrame DEF TsleepReturn, attrs
<1>8. CASE IsrEnter
  BY <1>8, ReadyFrame, SleepersFrame DEF IsrEnter, attrs, CurrentThread
<1>9. CASE Tick
  <2>1. CurrentThread'
    BY <1>9 DEF Tick, CurrentThread, TypeOK
  <2>. QED
    BY <1>9, <2>1, ReadyFrame, SleepersFrame DEF Tick
<1>10. CASE IsrExit
  <2>1. CurrentThread'
    BY <1>10 DEF IsrExit, CurrentThread, TypeOK, LocksHeld
  <2>. QED
    BY <1>10, <2>1, ReadyFrame, SleepersFrame DEF IsrExit, attrs
<1>11. CASE Yield
  <2>1. CurrentThread'
    BY <1>11 DEF Yield, CurrentThread, TypeOK
  <2>. QED
    BY <1>11, <2>1, ReadyFrame, SleepersFrame DEF Yield, attrs
<1>12. ASSUME NEW t \in Thread, NEW pol \in Policy, Setpolicy(t, pol)
       PROVE  ReadyAreQueued' /\ SleepersAreQueued' /\ CurrentThread'
  BY <1>12, ReadyFrame, SleepersFrame DEF Setpolicy, CurrentThread
<1>13. CASE UNCHANGED vars
  BY <1>13, ReadyFrame, SleepersFrame DEF vars, attrs, CurrentThread
<1>14. ASSUME NEW e \in Event, NEW timed \in BOOLEAN, Tsleep(e, timed)
       PROVE  ReadyAreQueued' /\ SleepersAreQueued' /\ CurrentThread'
  <2>1. /\ state[curthread] = RUN
        /\ state' = [state EXCEPT ![curthread] = @ \cup {"SLEEP"}]
        /\ sleepq' = [sleepq EXCEPT ![e] = Append(@, curthread)]
        /\ pc' = [pc EXCEPT ![curthread] = "tsleep"]
        /\ UNCHANGED <<curthread, priority, runq, wakeq>>
    BY <1>14 DEF Tsleep, attrs
  <2>2. curthread \in Thread /\ pc'[curthread] = "tsleep"
    BY <2>1 DEF TypeOK
  <2>3. \A u \in Thread : state'[u] = IF u = curthread THEN {"SLEEP"} ELSE state[u]
    BY <2>1 DEF TypeOK, RUN
  <2>4. curthread \notin Items(wakeq) /\ \A d \in Event : curthread \notin Items(sleepq[d])
    BY <2>1, <2>2 DEF SleepersAreQueued, RUN
  <2>5. \A d \in Event :
          /\ Items(sleepq'[d]) = IF d = e THEN Items(sleepq[d]) \cup {curthread}
                                          ELSE Items(sleepq[d])
          /\ Distinct(sleepq'[d])
    <3>1. \A d \in Event : sleepq'[d] = IF d = e THEN Append(sleepq[e], curthread) ELSE sleepq[d]
      BY <2>1 DEF TypeOK
    <3>2. /\ Items(Append(sleepq[e], curthread)) = Items(sleepq[e]) \cup {curthread}
          /\ Distinct(Append(sleepq[e], curthread))
      BY <2>2, <2>4, EnqueueItems DEF TypeOK, SleepersAreQueued
    <3>. QED
      BY <3>1, <3>2 DEF SleepersAreQueued
  <2>6. SleepersAreQueued'
    <3>1. \A d \in Event, u \in Thread :
            u \in Items(sleepq'[d]) <=> u \in Items(sleepq[d]) \/ (d = e /\ u = curthread)
      <4>1. \A d \in Event : Items(sleepq'[d]) = IF d = e THEN Items(sleepq[d]) \cup {curthread}
                                                          ELSE Items(sleepq[d])
        BY <2>5
      <4>. QED
        BY <4>1
    <3>2. \A u \in Thread : "SLEEP" \in state'[u] <=> u = curthread \/ "SLEEP" \in state[u]
      BY <2>1, <2>2, <2>3
    <3>3. \A u \in Thread :
            "SLEEP" \in state'[u] <=>
              u \in Items(wakeq') \/ \E d \in Event : u \in Items(sleepq'[d])
      BY <2>1, <3>1, <3>2 DEF SleepersAreQueued
    <3>4. ASSUME NEW d \in Event PROVE Items(wakeq) \cap Items(sleepq'[d]) = {}
      <4>1. Items(wakeq) \cap Items(sleepq[d]) = {}
        BY DEF SleepersAreQueued
      <4>2. Items(sleepq'[d]) \subseteq Items(sleepq[d]) \cup {curthread}
        BY <2>5
      <4>. QED
        BY <2>4, <4>1, <4>2
    <3>5. ASSUME NEW c \in Event, NEW d \in Event, c # d
          PROVE  Items(sleepq'[c]) \cap Items(sleepq'[d]) = {}
      <4>1. Items(sleepq[c]) \cap Items(sleepq[d]) = {}
        BY <3>5 DEF SleepersAreQueued
      <4>2. \A b \in {c, d} : Items(sleepq'[b]) = IF b = e THEN Items(sleepq[b]) \cup {curthread}
                                                           ELSE Items(sleepq[b])
        BY <2>5
      <4>3. curthread \notin Items(sleepq[c]) /\ curthread \notin Items(sleepq[d])
        BY <2>4
      <4>4. c # e \/ d # e
        BY <3>5
      <4>. QED
        BY <4>1, <4>2, <4>3, <4>4
    <3>. QED
      BY <2>1, <2>5, <3>3, <3>4, <3>5 DEF SleepersAreQueued
  <2>7. ReadyAreQueued'
    BY <2>1, <2>3 DEF ReadyAreQueued
  <2>8. CurrentThread'
    BY <2>1, <2>2, <2>4 DEF CurrentThread
  <2>. QED
    BY <2>6, <2>7, <2>8
<1>15. ASSUME NEW e \in Event, Wakeup(e)
       PROVE  ReadyAreQueued' /\ SleepersAreQueued' /\ CurrentThread'
  <2>1. /\ wakeq' = wakeq \o sleepq[e]
        /\ sleepq' = [sleepq EXCEPT ![e] = <<>>]
        /\ UNCHANGED <<curthread, pc, state, priority, resched, runq>>
    BY <1>15 DEF Wakeup, attrs
  <2>2. "SLEEP" \notin state[curthread] /\ curthread \in Thread
    BY <1>15, RunningIsAwake DEF Wakeup, TypeOK
  <2>3. Items(wakeq') = Items(wakeq) \cup Items(sleepq[e]) /\ Distinct(wakeq')
    BY <2>1, ConcatItems DEF TypeOK, SleepersAreQueued
  <2>4. \A d \in Event : /\ Items(sleepq'[d]) = IF d = e THEN {} ELSE Items(sleepq[d])
                         /\ Distinct(sleepq'[d])
    <3>1. \A d \in Event : sleepq'[d] = IF d = e THEN <<>> ELSE sleepq[d]
      BY <2>1 DEF TypeOK
    <3>2. Items(<<>>) = {} /\ Distinct(<<>>)
      BY DEF Items, Distinct
    <3>. QED
      BY <3>1, <3>2 DEF SleepersAreQueued
  <2>5. SleepersAreQueued'
    <3>1. \A u \in Thread :
            "SLEEP" \in state[u] <=>
              u \in Items(wakeq') \/ \E d \in Event : u \in Items(sleepq'[d])
      BY <2>3, <2>4 DEF SleepersAreQueued
    <3>2. \A d \in Event : Items(wakeq') \cap Items(sleepq'[d]) = {}
      BY <2>3, <2>4 DEF SleepersAreQueued
    <3>3. \A c, d \in Event : c # d => Items(sleepq'[c]) \cap Items(sleepq'[d]) = {}
      BY <2>4 DEF SleepersAreQueued
    <3>. QED
      BY <2>1, <2>3, <2>4, <3>1, <3>2, <3>3 DEF SleepersAreQueued
  <2>6. CurrentThread'
    BY <2>1, <2>2, <2>3 DEF CurrentThread, SleepersAreQueued
  <2>. QED
    BY <2>1, <2>5, <2>6, ReadyFrame
<1>16. ASSUME NEW e \in Event, Wakeone(e)
       PROVE  ReadyAreQueued' /\ SleepersAreQueued' /\ CurrentThread'
  <2>. DEFINE top == FirstBest(sleepq[e], priority)
  <2>1. /\ sleepq[e] # <<>>
        /\ sleepq' = [sleepq EXCEPT ![e] = Without(@, top)]
        /\ wakeq' = Append(wakeq, top)
        /\ UNCHANGED <<curthread, pc, state, priority, resched, runq>>
    BY <1>16 DEF Wakeone, Setrun, attrs
  <2>2. top \in Items(sleepq[e]) /\ top \in Thread
    BY <2>1, SleeperTypes
  <2>. HIDE DEF top
  <2>3. "SLEEP" \in state[top] /\ top \notin Items(wakeq)
    BY <2>2 DEF SleepersAreQueued
  <2>4. top # curthread
    BY <1>16, <2>3, RunningIsAwake DEF Wakeone, Setrun
  <2>5. \A d \in Event : Items(sleepq'[d]) = Items(sleepq[d]) \ {top} /\ Distinct(sleepq'[d])
    <3>1. \A d \in Event : sleepq'[d] = IF d = e THEN Without(sleepq[e], top) ELSE sleepq[d]
      BY <2>1 DEF TypeOK
    <3>2. \A d \in Event : d # e => top \notin Items(sleepq[d])
      BY <2>2 DEF SleepersAreQueued
    <3>3. \A d \in Event : Distinct(sleepq[d])
      BY DEF SleepersAreQueued
    <3>4. /\ Items(Without(sleepq[e], top)) = Items(sleepq[e]) \ {top}
          /\ Distinct(Without(sleepq[e], top))
      BY UnlinkedSleeper
    <3>5. ASSUME NEW d \in Event, d # e
          PROVE  Items(sleepq'[d]) = Items(sleepq[d]) \ {top} /\ Distinct(sleepq'[d])
      <4>1. sleepq'[d] = sleepq[d] /\ top \notin Items(sleepq[d])
        BY <3>1, <3>2, <3>5
      <4>. QED
        BY <3>3, <4>1
    <3>6. Items(sleepq'[e]) = Items(sleepq[e]) \ {top} /\ Distinct(sleepq'[e])
      <4>1. sleepq'[e] = Without(sleepq[e], top)
        BY <3>1
      <4>. QED
        BY <3>4, <4>1
    <3>. QED
      BY <3>5, <3>6
  <2>6. Items(wakeq') = Items(wakeq) \cup {top} /\ Distinct(wakeq')
    BY <2>1, <2>2, <2>3, EnqueueItems DEF TypeOK, SleepersAreQueued
  <2>7. SleepersAreQueued'
    BY <2>1, <2>2, <2>3, <2>5, <2>6, WokenFrame
  <2>8. CurrentThread'
    BY <2>1, <2>4, <2>6 DEF CurrentThread
  <2>. QED
    BY <2>1, <2>7, <2>8, ReadyFrame
<1>17. ASSUME NEW t \in Thread, Unsleep(t)
       PROVE  ReadyAreQueued' /\ SleepersAreQueued' /\ CurrentThread'
  <2>1. /\ "SLEEP" \in state[t]
        /\ sleepq' = [e \in Event |-> Without(sleepq[e], t)]
        /\ wakeq' = Append(Without(wakeq, t), t)
        /\ UNCHANGED <<curthread, pc, state, priority, resched, runq>>
    BY <1>17 DEF Unsleep, Setrun, attrs
  <2>2. t # curthread
    BY <1>17, <2>1, RunningIsAwake DEF Unsleep, Setrun, LockedOrIsr
  <2>3. \A d \in Event : Items(sleepq'[d]) = Items(sleepq[d]) \ {t} /\ Distinct(sleepq'[d])
    BY <2>1, UnlinkedSleeper
  <2>4. Items(wakeq') = Items(wakeq) \cup {t} /\ Distinct(wakeq')
    <3>1. /\ Without(wakeq, t) \in Seq(Thread)
          /\ Items(Without(wakeq, t)) = Items(wakeq) \ {t} /\ Distinct(Without(wakeq, t))
      BY UnlinkedSleeper
    <3>2. /\ Items(wakeq') = Items(Without(wakeq, t)) \cup {t}
          /\ Distinct(wakeq')
      BY <2>1, <3>1, EnqueueItems
    <3>. QED
      BY <3>1, <3>2
  <2>5. SleepersAreQueued'
    BY <2>1, <2>3, <2>4, WokenFrame
  <2>6. CurrentThread'
    BY <2>1, <2>2, <2>4 DEF CurrentThread
  <2>. QED
    BY <2>1, <2>5, <2>6, ReadyFrame
<1>18. ASSUME NEW t \in Thread, Suspend(t)
       PROVE  ReadyAreQueued' /\ SleepersAreQueued' /\ CurrentThread'
  <2>1. /\ state' = [state EXCEPT ![t] = @ \cup {"SUSP"}]
        /\ UNCHANGED <<curthread, pc, priority, wakeq, sleepq>>
    BY <1>18 DEF Suspend, attrs
  <2>2. \A u \in Thread : state'[u] = IF u = t THEN state[t] \cup {"SUSP"} ELSE state[u]
    BY <2>1 DEF TypeOK
  <2>3. state'[t] # RUN
    BY <2>2 DEF RUN
  <2>4. SleepersAreQueued'
    <3>1. \A u \in Thread : "SLEEP" \in state'[u] <=> "SLEEP" \in state[u]
      BY <2>2
    <3>. QED
      BY <2>1, <3>1 DEF SleepersAreQueued
  <2>5. ReadyAreQueued'
    <3>1. \A o \in Pri : Items(runq'[o]) = Items(runq[o]) \ {t} /\ Distinct(runq'[o])
      <4>1. CASE state[t] # RUN \/ t = curthread
        <5>1. runq' = runq
          BY <1>18, <4>1 DEF Suspend
        <5>. QED
          BY <4>1, <5>1 DEF ReadyAreQueued
      <4>2. CASE state[t] = RUN /\ t # curthread
        <5>1. runq' = RunqWithout(t)
          BY <1>18, <4>2 DEF Suspend
        <5>. QED
          BY <5>1, RunqWithoutItems
      <4>. QED
        BY <4>1, <4>2
    <3>. QED
      BY <2>1, <2>2, <2>3, <3>1 DEF ReadyAreQueued
  <2>6. CurrentThread'
    <3>1. CASE t = curthread
      <4>1. resched'[curthread] = TRUE \/ state[curthread] # RUN
        BY <1>18, <3>1 DEF Suspend, TypeOK
      <4>2. resched[curthread] = TRUE => resched'[curthread] = TRUE
        BY <1>18, <3>1 DEF Suspend, TypeOK
      <4>3. "SLEEP" \in state'[curthread] <=> "SLEEP" \in state[curthread]
        BY <2>2, <3>1
      <4>. QED
        BY <2>1, <4>1, <4>2, <4>3 DEF CurrentThread
    <3>2. CASE t # curthread
      <4>1. resched' = resched
        BY <1>18, <3>2 DEF Suspend
      <4>2. state'[curthread] = state[curthread]
        BY <2>2, <3>2 DEF TypeOK
      <4>. QED
        BY <2>1, <4>1, <4>2 DEF CurrentThread
    <3>. QED
      BY <3>1, <3>2
  <2>. QED
    BY <2>4, <2>5, <2>6
<1>19. ASSUME NEW t \in Thread, Resume(t)
       PROVE  ReadyAreQueued' /\ SleepersAreQueued' /\ CurrentThread'
  <2>. DEFINE s == state[t] \ {"SUSP"}
  <2>1. /\ t # curthread /\ "SUSP" \in state[t]
        /\ state' = [state EXCEPT ![t] = s]
        /\ IF s = RUN THEN RunqEnqueue(t, priority[t], runq, maxpri)
           ELSE UNCHANGED <<runq, maxpri, resched>>
        /\ UNCHANGED <<curthread, pc, priority, wakeq, sleepq>>
    BY <1>19 DEF Resume, attrs
  <2>2. \A u \in Thread : state'[u] = IF u = t THEN s ELSE state[u]
    BY <2>1 DEF TypeOK
  <2>3. state[t] # RUN
    BY <2>1 DEF RUN
  <2>4. SleepersAreQueued'
    <3>1. \A u \in Thread : "SLEEP" \in state'[u] <=> "SLEEP" \in state[u]
      BY <2>2
    <3>. QED
      BY <2>1, <3>1 DEF SleepersAreQueued
  <2>5. ReadyAreQueued'
    <3>1. CASE s = RUN
      <4>1. RunqEnqueue(t, priority[t], runq, maxpri)
        BY <2>1, <3>1
      <4>2. \A o \in Pri :
              /\ Items(runq'[o]) = IF o = priority[t] THEN Items(runq[o]) \cup {t}
                                                      ELSE Items(runq[o])
              /\ Distinct(runq[o]) /\ t \notin Items(runq[o]) => Distinct(runq'[o])
        BY <4>1, RunqEnqueueItems DEF TypeOK
      <4>3. \A o \in Pri : t \notin Items(runq[o])
        BY <2>3 DEF ReadyAreQueued
      <4>4. \A o \in Pri : {u \in Thread \ {curthread} : state'[u] = RUN /\ priority[u] = o} =
                           IF o = priority[t] THEN Items(runq[o]) \cup {t} ELSE Items(runq[o])
        BY <2>1, <2>2, <2>3, <3>1 DEF ReadyAreQueued
      <4>5. \A o \in Pri : Distinct(runq'[o])
        BY <4>2, <4>3 DEF ReadyAreQueued
      <4>. QED
        BY <2>1, <4>2, <4>4, <4>5 DEF ReadyAreQueued
    <3>2. CASE s # RUN
      BY <2>1, <2>2, <2>3, <3>2 DEF ReadyAreQueued
    <3>. QED
      BY <3>1, <3>2
  <2>6. CurrentThread'
    <3>1. resched[curthread] = TRUE => resched'[curthread] = TRUE
      BY <2>1 DEF RunqEnqueue, TypeOK
    <3>2. state'[curthread] = state[curthread]
      BY <2>1, <2>2 DEF TypeOK
    <3>. QED
      BY <2>1, <3>1, <3>2 DEF CurrentThread
  <2>. QED
    BY <2>4, <2>5, <2>6
<1>20. ASSUME NEW t \in Thread, NEW p \in 0..(MINPRI - 1), Setpri(t, p)
       PROVE  ReadyAreQueued' /\ SleepersAreQueued' /\ CurrentThread'
  <2>1. /\ priority' = [priority EXCEPT ![t] = p]
        /\ UNCHANGED <<curthread, pc, state, wakeq, sleepq>>
    BY <1>20 DEF Setpri
  <2>2. p \in Pri
    BY SchedAssumption DEF Pri
  <2>3. \A u \in Thread : priority'[u] = IF u = t THEN p ELSE priority[u]
    BY <2>1 DEF TypeOK
  <2>4. resched[curthread] = TRUE => resched'[curthread] = TRUE
    BY <1>20 DEF Setpri, RunqEnqueue, TypeOK
  <2>5. ReadyAreQueued'
    <3>1. CASE t = curthread \/ state[t] # RUN
      <4>1. runq' = runq
        BY <1>20, <3>1 DEF Setpri
      <4>. QED
        BY <2>1, <2>3, <3>1, <4>1 DEF ReadyAreQueued
    <3>2. CASE t # curthread /\ state[t] = RUN
      <4>. DEFINE rq == RunqWithout(t)
      <4>1. RunqEnqueue(t, p, rq, Best(rq))
        BY <1>20, <3>2 DEF Setpri
      <4>2. rq \in [Pri -> Seq(Thread)] /\ Best(rq) \in Pri
        BY RunqWithoutTypes
      <4>3. \A o \in Pri : Items(rq[o]) = Items(runq[o]) \ {t} /\ Distinct(rq[o])
        BY RunqWithoutItems
      <4>. HIDE DEF rq
      <4>4. \A o \in Pri :
              /\ Items(runq'[o]) = IF o = p THEN Items(rq[o]) \cup {t} ELSE Items(rq[o])
              /\ Distinct(rq[o]) /\ t \notin Items(rq[o]) => Distinct(runq'[o])
        BY <2>2, <4>1, <4>2, RunqEnqueueItems
      <4>5. \A o \in Pri :
              {u \in Thread \ {curthread} : state[u] = RUN /\ priority'[u] = o} =
              IF o = p THEN Items(rq[o]) \cup {t} ELSE Items(rq[o])
        BY <2>3, <3>2, <4>3 DEF ReadyAreQueued
      <4>6. \A o \in Pri : Distinct(runq'[o])
        BY <4>3, <4>4
      <4>. QED
        BY <2>1, <4>4, <4>5, <4>6 DEF ReadyAreQueued
    <3>. QED
      BY <3>1, <3>2
  <2>6. CurrentThread'
    BY <2>1, <2>4 DEF CurrentThread
  <2>. QED
    BY <2>1, <2>5, <2>6, SleepersFrame
<1>21. ASSUME NEW t \in Thread, NEW p \in 0..(MINPRI - 1), NEW pol \in Policy,
              Start(t, p, pol)
       PROVE  ReadyAreQueued' /\ SleepersAreQueued' /\ CurrentThread'
  <2>1. /\ t # curthread /\ state[t] = {"EXIT"}
        /\ state' = [state EXCEPT ![t] = {"SUSP"}]
        /\ priority' = [priority EXCEPT ![t] = p]
        /\ resched' = [resched EXCEPT ![t] = FALSE]
        /\ pc' = [pc EXCEPT ![t] = "run"]
        /\ UNCHANGED <<curthread, runq, wakeq, sleepq>>
    BY <1>21 DEF Start
  <2>2. \A u \in Thread : /\ state'[u] = IF u = t THEN {"SUSP"} ELSE state[u]
                          /\ u # t => priority'[u] = priority[u]
    BY <2>1 DEF TypeOK
  <2>3. state[t] # RUN /\ state'[t] # RUN
    BY <2>1, <2>2 DEF RUN
  <2>4. ReadyAreQueued'
    <3>1. \A u \in Thread, o \in Pri :
            state'[u] = RUN /\ priority'[u] = o <=> state[u] = RUN /\ priority[u] = o
      BY <2>2, <2>3
    <3>. QED
      BY <2>1, <3>1 DEF ReadyAreQueued
  <2>5. SleepersAreQueued'
    <3>1. \A u \in Thread : "SLEEP" \in state'[u] <=> "SLEEP" \in state[u]
      BY <2>1, <2>2
    <3>. QED
      BY <2>1, <3>1 DEF SleepersAreQueued
  <2>6. CurrentThread'
    BY <2>1 DEF CurrentThread, TypeOK
  <2>. QED
    BY <2>4, <2>5, <2>6
<1>22. ASSUME NEW t \in Thread, Stop(t)
       PROVE  ReadyAreQueued' /\ SleepersAreQueued' /\ CurrentThread'
  <2>1. /\ state' = [state EXCEPT ![t] = {"EXIT"}]
        /\ UNCHANGED <<curthread, pc, priority>>
    BY <1>22 DEF Stop, attrs
  <2>2. \A u \in Thread : state'[u] = IF u = t THEN {"EXIT"} ELSE state[u]
    BY <2>1 DEF TypeOK
  <2>3. state'[t] # RUN /\ "SLEEP" \notin state'[t]
    BY <2>2 DEF RUN
  <2>4. "SLEEP" \notin state[curthread]
    BY <1>22, RunningIsAwake DEF Stop, LockedOrIsr
  <2>5. ReadyAreQueued'
    <3>1. \A o \in Pri : Items(runq'[o]) = Items(runq[o]) \ {t} /\ Distinct(runq'[o])
      <4>1. CASE state[t] # RUN \/ t = curthread
        <5>1. runq' = runq
          BY <1>22, <4>1 DEF Stop
        <5>. QED
          BY <4>1, <5>1 DEF ReadyAreQueued
      <4>2. CASE state[t] = RUN /\ t # curthread
        <5>1. runq' = RunqWithout(t)
          BY <1>22, <4>2 DEF Stop
        <5>. QED
          BY <5>1, RunqWithoutItems
      <4>. QED
        BY <4>1, <4>2
    <3>. QED
      BY <2>1, <2>2, <2>3, <3>1 DEF ReadyAreQueued
  <2>6. /\ Items(wakeq') = Items(wakeq) \ {t} /\ Distinct(wakeq')
        /\ \A d \in Event : Items(sleepq'[d]) = Items(sleepq[d]) \ {t} /\ Distinct(sleepq'[d])
    <3>1. CASE t = curthread \/ state[t] = RUN
      <4>1. wakeq' = wakeq /\ sleepq' = sleepq
        BY <1>22, <3>1 DEF Stop
      <4>2. "SLEEP" \notin state[t]
        BY <2>4, <3>1 DEF RUN
      <4>3. t \notin Items(wakeq) /\ \A d \in Event : t \notin Items(sleepq[d])
        BY <4>2 DEF SleepersAreQueued
      <4>. QED
        BY <4>1, <4>3 DEF SleepersAreQueued
    <3>2. CASE t # curthread /\ state[t] # RUN
      <4>1. /\ wakeq' = Without(wakeq, t)
            /\ sleepq' = [e \in Event |-> Without(sleepq[e], t)]
        BY <1>22, <3>2 DEF Stop
      <4>. QED
        BY <4>1, UnlinkedSleeper
    <3>. QED
      BY <3>1, <3>2
  <2>7. SleepersAreQueued'
    BY <2>2, <2>3, <2>6 DEF SleepersAreQueued
  <2>8. CurrentThread'
    <3>1. CASE t = curthread
      BY <1>22, <2>3, <2>1, <2>6, <3>1 DEF Stop, CurrentThread, TypeOK
    <3>2. CASE t # curthread
      <4>1. resched' = resched /\ state'[curthread] = state[curthread]
        BY <1>22, <2>2, <3>2 DEF Stop, TypeOK
      <4>. QED
        BY <2>1, <2>6, <4>1 DEF CurrentThread
    <3>. QED
      BY <3>1, <3>2
  <2>. QED
    BY <2>5, <2>7, <2>8
<1>. QED
  BY <1>1, <1>2, <1>3, <1>4, <1>5, <1>6, <1>7, <1>8, <1>9, <1>10, <1>11, <1>12,
     <1>13, <1>14, <1>15, <1>16, <1>17, <1>18, <1>19, <1>20, <1>21, <1>22
     DEF Next, Switching, Interrupt

\* A timer stays with a sleeping thread in every step: sched_tsleep() starts it
\* after joining the sleep queue, and whoever leaves a sleep queue has his timer
\* stopped.
LEMMA TimeoutStep ==
  ASSUME Typing, Linking, TimeoutOnlyAsleep, [Next]_vars
  PROVE  TimeoutOnlyAsleep'
<1>1. ASSUME UNCHANGED <<timeout, sleepq>> PROVE TimeoutOnlyAsleep'
  BY <1>1 DEF TimeoutOnlyAsleep, Asleep
<1>2. ASSUME NEW T, timeout' \subseteq timeout \ T,
             \A d \in Event : Items(sleepq[d]) \ T \subseteq Items(sleepq'[d])
      PROVE  TimeoutOnlyAsleep'
  BY <1>2 DEF TimeoutOnlyAsleep, Asleep
<1>3. ASSUME NEW t \in Thread
      PROVE  \A d \in Event : Items(Without(sleepq[d], t)) = Items(sleepq[d]) \ {t}
  BY UnlinkedSleeper DEF Typing, Linking, ThreadsAreQueued
<1>4. ASSUME NEW e \in Event, NEW timed \in BOOLEAN, Tsleep(e, timed)
      PROVE  TimeoutOnlyAsleep'
  <2>1. /\ sleepq' = [sleepq EXCEPT ![e] = Append(@, curthread)]
        /\ timeout' \subseteq timeout \cup {curthread}
    BY <1>4 DEF Tsleep
  <2>2. /\ sleepq \in [Event -> Seq(Thread)]
        /\ Items(Append(sleepq[e], curthread)) = Items(sleepq[e]) \cup {curthread}
    BY EnqueueItems DEF Typing, TypeOK
  <2>3. /\ \A d \in Event : Items(sleepq[d]) \subseteq Items(sleepq'[d])
        /\ curthread \in Items(sleepq'[e])
    BY <2>1, <2>2
  <2>. QED
    BY <2>1, <2>3 DEF TimeoutOnlyAsleep, Asleep
<1>5. ASSUME NEW e \in Event, Wakeup(e) PROVE TimeoutOnlyAsleep'
  <2>1. /\ timeout' = timeout \ Items(sleepq[e])
        /\ sleepq' = [sleepq EXCEPT ![e] = <<>>]
    BY <1>5 DEF Wakeup
  <2>2. \A d \in Event : Items(sleepq[d]) \ Items(sleepq[e]) \subseteq Items(sleepq'[d])
    BY <2>1 DEF Typing, TypeOK
  <2>. QED
    BY <1>2, <2>1, <2>2
<1>6. ASSUME NEW e \in Event, Wakeone(e) PROVE TimeoutOnlyAsleep'
  <2>. DEFINE top == FirstBest(sleepq[e], priority)
  <2>1. /\ sleepq[e] # <<>>
        /\ timeout' = timeout \ {top}
        /\ sleepq' = [sleepq EXCEPT ![e] = Without(@, top)]
    BY <1>6 DEF Wakeone, Setrun
  <2>2. top \in Thread
    BY <2>1, SleeperTypes DEF Typing
  <2>3. \A d \in Event : Items(sleepq[d]) \ {top} \subseteq Items(sleepq'[d])
    BY <1>3, <2>1, <2>2 DEF Typing, TypeOK
  <2>. QED
    BY <1>2, <2>1, <2>3
<1>7. ASSUME NEW t \in Thread, Unsleep(t) PROVE TimeoutOnlyAsleep'
  <2>1. timeout' = timeout \ {t} /\ \A d \in Event : sleepq'[d] = Without(sleepq[d], t)
    BY <1>7 DEF Unsleep, Setrun
  <2>2. \A d \in Event : Items(sleepq[d]) \ {t} \subseteq Items(sleepq'[d])
    BY <1>3, <2>1
  <2>. QED
    BY <1>2, <2>1, <2>2
<1>8. ASSUME NEW t \in Thread, Stop(t) PROVE TimeoutOnlyAsleep'
  <2>1. /\ timeout' = timeout \ {t}
        /\ \/ sleepq' = sleepq
           \/ \A d \in Event : sleepq'[d] = Without(sleepq[d], t)
    BY <1>8 DEF Stop
  <2>2. \A d \in Event : Items(sleepq[d]) \ {t} \subseteq Items(sleepq'[d])
    BY <1>3, <2>1
  <2>. QED
    BY <1>2, <2>1, <2>2
<1>. QED
  BY <1>1, <1>4, <1>5, <1>6, <1>7, <1>8
  DEF Next, Switching, Interrupt, SchedLock, SchedUnlock, WakeqFlush, UnlockSwtch,
      UnlockDone, UnlockAgain, TsleepSwtch, TsleepReturn, IsrEnter, Tick, IsrExit,
      Yield, Suspend, Resume, Setpri, Setpolicy, Start, vars

\* The timer of a timed sleep is active only while its thread is in a sleep
\* queue: sleep_timeout() never ends a later sleep of the same thread.
THEOREM TimeoutCorrect == Spec => []TimeoutOnlyAsleep
<1>1. Init => Typing /\ Linking /\ TimeoutOnlyAsleep
  <2>1. Init => TimeoutOnlyAsleep
    BY DEF Init, TimeoutOnlyAsleep
  <2>. QED
    BY <2>1, TypingInit, LinkingInit
<1>2. Typing /\ Linking /\ TimeoutOnlyAsleep /\ [Next]_vars
        => (Typing /\ Linking /\ TimeoutOnlyAsleep)'
  BY TypingStep, LinkingStep, TimeoutStep
<1>. QED
  BY <1>1, <1>2, PTL DEF Spec

\* Every thread is linked exactly where its state says, and has its sleep timer
\* only while it sleeps: sched_suspend(), sched_stop(), sched_setpri() and
\* sched_unsleep() never unlink a thread from a queue it is not in, and no
\* ready or sleeping thread is lost.
THEOREM QueuesCorrect == Spec => []QueuesMatchStates
<1>1. Init => Typing /\ Linking
  BY TypingInit, LinkingInit
<1>2. Typing /\ Linking /\ [Next]_vars => (Typing /\ Linking)'
  BY TypingStep, LinkingStep
<1>3. Linking /\ TimeoutOnlyAsleep => QueuesMatchStates
  BY DEF Linking, QueuesMatchStates
<1>. QED
  BY <1>1, <1>2, <1>3, TimeoutCorrect, PTL DEF Spec
-----------------------------------------------------------------------------
\* The best run queue after runq_enqueue() is the better of the old one and
\* the queue of the new thread; the flag is set when the new one is better.
LEMMA RunqEnqueueBest ==
  ASSUME TypeOK, NEW t \in Thread, NEW p \in Pri, NEW rq \in [Pri -> Seq(Thread)],
         RunqEnqueue(t, p, rq, Best(rq))
  PROVE  /\ maxpri' = Best(runq')
         /\ maxpri' = Best(rq) \/ resched'[curthread] = TRUE
<1>. DEFINE mp == Best(rq)
<1>1. /\ mp \in Pri
      /\ mp = MINPRI \/ rq[mp] # <<>>
      /\ \A b \in Pri : b < mp => rq[b] = <<>>
  BY BestProperties
<1>. HIDE DEF mp
<1>2. /\ maxpri' = IF p < mp THEN p ELSE mp
      /\ \A o \in Pri : runq'[o] = IF o = p THEN Append(rq[p], t) ELSE rq[o]
      /\ resched' = IF p < mp THEN [resched EXCEPT ![curthread] = TRUE] ELSE resched
  BY DEF RunqEnqueue, mp
<1>3. Append(rq[p], t) # <<>>
  BY AppendProperties
<1>4. maxpri' \in Pri /\ (maxpri' = MINPRI \/ runq'[maxpri'] # <<>>)
  BY <1>1, <1>2, <1>3
<1>5. \A b \in Pri : b < maxpri' => runq'[b] = <<>>
  BY <1>1, <1>2, SchedAssumption DEF Pri
<1>6. maxpri' = Best(runq')
  BY <1>4, <1>5, BestUnique
<1>7. maxpri' = mp \/ resched'[curthread] = TRUE
  BY <1>2 DEF TypeOK
<1>. QED
  BY <1>6, <1>7 DEF mp

\* Taking a thread off the run queues never improves the best priority.
LEMMA RunqWithoutBest ==
  ASSUME TypeOK, ReadyAreQueued, NEW t \in Thread
  PROVE  Best(runq) <= Best(RunqWithout(t))
<1>. DEFINE rq == RunqWithout(t)
<1>1. rq \in [Pri -> Seq(Thread)]
  BY RunqWithoutTypes
<1>2. \A o \in Pri : Items(rq[o]) = Items(runq[o]) \ {t}
  BY RunqWithoutItems
<1>. HIDE DEF rq
<1>3. \A o \in Pri : runq[o] = <<>> => rq[o] = <<>>
  <2>. SUFFICES ASSUME NEW o \in Pri, runq[o] = <<>> PROVE rq[o] = <<>>
    OBVIOUS
  <2>1. Items(runq[o]) = {}
    BY NoItems DEF TypeOK
  <2>2. Items(rq[o]) = {} /\ rq[o] \in Seq(Thread)
    BY <1>1, <1>2, <2>1
  <2>. QED
    BY <2>2, NoItems
<1>4. /\ Best(runq) \in Pri /\ Best(rq) \in Pri
      /\ \A b \in Pri : b < Best(runq) => runq[b] = <<>>
      /\ Best(rq) = MINPRI \/ rq[Best(rq)] # <<>>
  BY BestProperties
<1>5. ~(Best(rq) < Best(runq))
  BY <1>3, <1>4, SchedAssumption DEF Pri
<1>. QED
  BY <1>4, <1>5, SchedAssumption DEF Pri, rq

\* When the current thread is not worse than maxpri, it is not worse than any
\* thread that can run.
LEMMA BestCovers ==
  TypeOK /\ ReadyAreQueued /\ MaxpriIsBest /\ priority[curthread] <= maxpri
    => \A t \in Thread : state[t] = RUN => priority[curthread] <= priority[t]
<1>. SUFFICES ASSUME TypeOK, ReadyAreQueued, MaxpriIsBest, priority[curthread] <= maxpri,
                     NEW t \in Thread, state[t] = RUN
              PROVE  priority[curthread] <= priority[t]
  OBVIOUS
<1>. DEFINE p == priority[t]
<1>1. p \in Pri /\ p \in Nat /\ maxpri \in Nat /\ priority[curthread] \in Nat
  BY SchedAssumption DEF TypeOK, Pri
<1>2. CASE t = curthread
  BY <1>1, <1>2
<1>3. CASE t # curthread
  <2>1. t \in Items(runq[p])
    BY <1>1, <1>3 DEF ReadyAreQueued
  <2>2. runq[p] # <<>>
    BY <1>1, <2>1, NoItems DEF TypeOK
  <2>3. ~(p < maxpri)
    BY <1>1, <2>2, BestProperties DEF MaxpriIsBest
  <2>. QED
    BY <1>1, <2>3
<1>. QED
  BY <1>2, <1>3

\* sched_swtch() leaves maxpri right and nobody better in the run queues, and
\* keeps a preempted thread at the head of its queue.
LEMMA SwtchBest ==
  ASSUME TypeOK, ReadyAreQueued, MaxpriIsBest, NEW r \in {"window", "wake"}, Swtch(r)
  PROVE  /\ maxpri' = Best(runq')
         /\ priority[curthread'] <= maxpri'
         /\ state[curthread] = RUN /\ priority[curthread'] < priority[curthread] =>
              /\ runq'[priority[curthread]] # <<>>
              /\ Head(runq'[priority[curthread]]) = curthread
<1>. DEFINE prev == curthread
            p == priority[prev]
            rq == IF state[prev] # RUN THEN runq
                  ELSE IF Preempted(p)
                       THEN [runq EXCEPT ![p] = AtHead(prev, @)]
                       ELSE [runq EXCEPT ![p] = Append(@, prev)]
            mp == IF state[prev] = RUN /\ p < maxpri THEN p ELSE maxpri
            rest == [rq EXCEPT ![mp] = Tail(@)]
<1>1. p \in Pri /\ maxpri \in Pri /\ mp \in Pri /\ runq[p] \in Seq(Thread) /\ prev \in Thread
  BY DEF TypeOK
<1>2. /\ rq[mp] # <<>>
      /\ curthread' = Head(rq[mp])
      /\ runq' = rest
      /\ maxpri' = IF rest[mp] = <<>> THEN Best(rest) ELSE mp
  BY DEF Swtch, Preempted
<1>3. /\ maxpri = MINPRI \/ runq[maxpri] # <<>>
      /\ \A b \in Pri : b < maxpri => runq[b] = <<>>
  BY BestProperties DEF MaxpriIsBest
<1>4. \A o \in Pri : o # p => rq[o] = runq[o]
  BY DEF TypeOK
<1>5. \A b \in Pri : b < mp => rq[b] = <<>>
  <2>1. CASE state[prev] # RUN
    BY <1>3, <2>1
  <2>2. CASE state[prev] = RUN
    <3>1. \A b \in Pri : b < mp => b < maxpri /\ b # p
      BY <1>1, <2>2, SchedAssumption DEF Pri
    <3>. HIDE DEF rq, mp
    <3>. QED
      BY <1>3, <1>4, <3>1
  <2>. QED
    BY <2>1, <2>2
<1>6. rq \in [Pri -> Seq(Thread)]
  <2>1. AtHead(prev, runq[p]) \in Seq(Thread) /\ Append(runq[p], prev) \in Seq(Thread)
    BY <1>1, AtHeadItems, EnqueueItems
  <2>. QED
    BY <1>1, <2>1 DEF TypeOK
<1>7. \A o \in Pri : Items(rq[o]) \subseteq {t \in Thread : priority[t] = o}
  <2>1. \A o \in Pri : Items(runq[o]) \subseteq {t \in Thread : priority[t] = o}
    BY DEF ReadyAreQueued
  <2>2. Items(rq[p]) \subseteq Items(runq[p]) \cup {prev}
    <3>1. Items(AtHead(prev, runq[p])) = Items(runq[p]) \cup {prev}
      <4>1. \A q \in Seq(Thread), x \in Thread : Items(AtHead(x, q)) = Items(q) \cup {x}
        BY AtHeadItems
      <4>. QED
        BY <1>1, <4>1
    <3>2. Items(Append(runq[p], prev)) = Items(runq[p]) \cup {prev}
      BY <1>1, EnqueueItems
    <3>3. rq[p] \in {runq[p], AtHead(prev, runq[p]), Append(runq[p], prev)}
      BY <1>1 DEF TypeOK
    <3>. HIDE DEF rq
    <3>. QED
      BY <3>1, <3>2, <3>3
  <2>. HIDE DEF rq
  <2>. QED
    BY <1>1, <1>4, <2>1, <2>2
<1>8. state[prev] = RUN /\ p > maxpri => rq[p] = AtHead(prev, runq[p])
  BY <1>1 DEF TypeOK, Preempted
<1>9. state[prev] = RUN /\ ~(p > maxpri) => mp = p
  BY <1>1, SchedAssumption DEF Pri
<1>10. state[prev] = RUN /\ p > maxpri => mp = maxpri
  BY <1>1, SchedAssumption DEF Pri
<1>. HIDE DEF rq, mp
<1>11. \A o \in Pri : runq'[o] = IF o = mp THEN Tail(rq[mp]) ELSE rq[o]
  BY <1>1, <1>2, <1>6
<1>12. \A b \in Pri : b < mp => runq'[b] = <<>>
  BY <1>1, <1>5, <1>11, SchedAssumption DEF Pri
<1>13. maxpri' = Best(runq')
  <2>1. CASE runq'[mp] = <<>>
    BY <1>2, <2>1
  <2>2. CASE runq'[mp] # <<>>
    <3>1. Best(runq') = mp
      BY <1>1, <1>12, <2>2, BestUnique
    <3>. QED
      BY <1>2, <2>2, <3>1
  <2>. QED
    BY <2>1, <2>2
<1>14. mp <= maxpri'
  <2>1. /\ Best(runq') \in Pri
        /\ Best(runq') = MINPRI \/ runq'[Best(runq')] # <<>>
    BY BestProperties
  <2>2. ~(Best(runq') < mp)
    BY <1>1, <1>12, <2>1, SchedAssumption DEF Pri
  <2>. QED
    BY <1>1, <1>13, <2>1, <2>2, SchedAssumption DEF Pri
<1>15. priority[curthread'] = mp
  <2>1. rq[mp] \in Seq(Thread) /\ rq[mp] # <<>>
    BY <1>1, <1>2, <1>6
  <2>2. Head(rq[mp]) \in Items(rq[mp])
    <3>1. Len(rq[mp]) \in Nat \ {0} /\ Head(rq[mp]) = rq[mp][1]
      BY <2>1, EmptySeq
    <3>. QED
      BY <3>1 DEF Items
  <2>. QED
    BY <1>1, <1>2, <1>7, <2>2
<1>16. ASSUME state[prev] = RUN, priority[curthread'] < p
       PROVE  runq'[p] # <<>> /\ Head(runq'[p]) = prev
  <2>1. mp < p
    BY <1>15, <1>16
  <2>2. mp # p /\ p > maxpri
    BY <1>1, <1>9, <1>16, <2>1, SchedAssumption DEF Pri
  <2>3. runq'[p] = AtHead(prev, runq[p])
    BY <1>1, <1>8, <1>11, <1>16, <2>2
  <2>. QED
    BY <1>1, <2>3, AtHeadItems
<1>. QED
  BY <1>13, <1>14, <1>15, <1>16

Choosing == MaxpriIsBest /\ ReschedCoversBetter

\* Nothing that maxpri and the reschedule flag answer for changes.
LEMMA ChoosingFrame ==
  Choosing /\ UNCHANGED <<curthread, runq, maxpri, resched, priority>>
    /\ (state'[curthread] = RUN => state[curthread] = RUN) => Choosing'
BY DEF Choosing, MaxpriIsBest, ReschedCoversBetter, Best

\* The current thread raises its own reschedule flag.
LEMMA ChoosingFlagged ==
  Choosing /\ UNCHANGED <<curthread, runq, maxpri>> /\ resched'[curthread] = TRUE => Choosing'
BY DEF Choosing, MaxpriIsBest, ReschedCoversBetter, Best

\* Every step keeps maxpri right and the flag raised for a better thread.
LEMMA ChoosingStep == Typing /\ Linking /\ Choosing /\ [Next]_vars => Choosing'
<1>. SUFFICES ASSUME Typing, ReadyAreQueued, SleepersAreQueued, CurrentThread,
                     Choosing, [Next]_vars
              PROVE  Choosing'
  BY DEF Linking, ThreadsAreQueued
<1>. USE DEF Typing
<1>1. CASE SchedLock \/ SchedUnlock \/ UnlockDone \/ UnlockAgain \/ TsleepReturn
           \/ IsrEnter \/ IsrExit
  <2>1. UNCHANGED <<curthread, state, runq, maxpri, resched, priority>>
    BY <1>1 DEF SchedLock, SchedUnlock, UnlockDone, UnlockAgain, TsleepReturn,
                IsrEnter, IsrExit, attrs
  <2>. QED
    BY <2>1, ChoosingFrame
<1>2. CASE Tick
  <2>1. UNCHANGED <<curthread, state, runq, maxpri, priority>>
    BY <1>2 DEF Tick
  <2>2. resched'[curthread] = TRUE \/ resched' = resched
    BY <1>2 DEF Tick, TypeOK
  <2>. QED
    BY <2>1, <2>2, ChoosingFrame, ChoosingFlagged
<1>3. CASE Yield
  <2>1. UNCHANGED <<curthread, runq, maxpri>> /\ resched'[curthread] = TRUE
    BY <1>3 DEF Yield, TypeOK
  <2>. QED
    BY <2>1, ChoosingFlagged
<1>4. CASE WakeqFlush
  <2>. DEFINE t == Head(wakeq)
              s == state[t] \ {"SLEEP"}
  <2>1. /\ wakeq # <<>>
        /\ state' = [state EXCEPT ![t] = s]
        /\ IF t # curthread /\ s = RUN
           THEN RunqEnqueue(t, priority[t], runq, maxpri)
           ELSE UNCHANGED <<runq, maxpri, resched>>
        /\ UNCHANGED <<curthread, priority>>
    BY <1>4 DEF WakeqFlush, attrs
  <2>2. t \in Thread /\ t # curthread
    BY <2>1, DequeueItems, NoItems DEF TypeOK, CurrentThread, SleepersAreQueued
  <2>. HIDE DEF t
  <2>3. state'[curthread] = state[curthread]
    BY <2>1, <2>2 DEF TypeOK
  <2>4. CASE s = RUN
    <3>1. RunqEnqueue(t, priority[t], runq, Best(runq))
      BY <2>1, <2>2, <2>4 DEF Choosing, MaxpriIsBest
    <3>2. maxpri' = Best(runq') /\ (maxpri' = maxpri \/ resched'[curthread] = TRUE)
      BY <2>2, <3>1, RunqEnqueueBest DEF TypeOK, Choosing, MaxpriIsBest
    <3>3. resched'[curthread] = TRUE \/ resched' = resched
      BY <3>1 DEF RunqEnqueue, TypeOK
    <3>. QED
      BY <2>1, <2>3, <3>2, <3>3 DEF Choosing, MaxpriIsBest, ReschedCoversBetter
  <2>5. CASE s # RUN
    BY <2>1, <2>3, <2>5, ChoosingFrame
  <2>. QED
    BY <2>4, <2>5
<1>5. CASE UnlockSwtch \/ TsleepSwtch
  <2>1. PICK r \in {"window", "wake"} : Swtch(r)
    BY <1>5 DEF UnlockSwtch, TsleepSwtch
  <2>2. UNCHANGED <<state, priority>>
    BY <1>5 DEF UnlockSwtch, TsleepSwtch, attrs
  <2>3. maxpri' = Best(runq') /\ priority[curthread'] <= maxpri'
    BY <2>1, SwtchBest DEF Choosing
  <2>. QED
    BY <2>2, <2>3 DEF Choosing, MaxpriIsBest, ReschedCoversBetter
<1>6. ASSUME NEW e \in Event, NEW timed \in BOOLEAN, Tsleep(e, timed) PROVE Choosing'
  BY <1>6, ChoosingFrame DEF Tsleep, attrs
<1>7. ASSUME NEW e \in Event, Wakeup(e) \/ Wakeone(e) PROVE Choosing'
  BY <1>7, ChoosingFrame DEF Wakeup, Wakeone, Setrun, attrs
<1>8. ASSUME NEW t \in Thread, Unsleep(t) PROVE Choosing'
  BY <1>8, ChoosingFrame DEF Unsleep, Setrun, attrs
<1>9. ASSUME NEW t \in Thread, NEW pol \in Policy, Setpolicy(t, pol) PROVE Choosing'
  BY <1>9, ChoosingFrame DEF Setpolicy
<1>10. ASSUME NEW t \in Thread, NEW p \in 0..(MINPRI - 1), NEW pol \in Policy,
              Start(t, p, pol)
       PROVE  Choosing'
  <2>1. /\ t # curthread
        /\ state'[curthread] = state[curthread]
        /\ priority'[curthread] = priority[curthread]
        /\ resched'[curthread] = resched[curthread]
        /\ UNCHANGED <<curthread, runq, maxpri>>
    BY <1>10 DEF Start, TypeOK
  <2>. QED
    BY <2>1 DEF Choosing, MaxpriIsBest, ReschedCoversBetter
<1>11. ASSUME NEW t \in Thread, Suspend(t) \/ Stop(t) PROVE Choosing'
  <2>1. UNCHANGED <<curthread, priority>>
    BY <1>11 DEF Suspend, Stop, attrs
  <2>2. CASE t = curthread
    <3>1. state'[curthread] # RUN
      <4>1. CASE Suspend(t)
        BY <2>2, <4>1 DEF Suspend, TypeOK, RUN
      <4>2. CASE Stop(t)
        BY <2>2, <4>2 DEF Stop, TypeOK, RUN
      <4>. QED
        BY <1>11, <4>1, <4>2
    <3>2. UNCHANGED <<runq, maxpri>>
      BY <1>11, <2>2 DEF Suspend, Stop
    <3>. QED
      BY <2>1, <3>1, <3>2 DEF Choosing, MaxpriIsBest, ReschedCoversBetter
  <2>3. CASE t # curthread /\ state[t] # RUN
    <3>1. UNCHANGED <<runq, maxpri, resched>>
      BY <1>11, <2>3 DEF Suspend, Stop
    <3>2. state'[curthread] = state[curthread]
      BY <1>11, <2>3 DEF Suspend, Stop, TypeOK
    <3>. QED
      BY <2>1, <3>1, <3>2, ChoosingFrame
  <2>4. CASE t # curthread /\ state[t] = RUN
    <3>1. runq' = RunqWithout(t) /\ maxpri' = Best(runq') /\ UNCHANGED resched
      BY <1>11, <2>4 DEF Suspend, Stop
    <3>2. state'[curthread] = state[curthread]
      BY <1>11, <2>4 DEF Suspend, Stop, TypeOK
    <3>3. maxpri <= maxpri'
      BY <3>1, RunqWithoutBest DEF Choosing, MaxpriIsBest
    <3>4. priority[curthread] \in Nat /\ maxpri \in Nat /\ maxpri' \in Nat
      BY <3>1, BestProperties, SchedAssumption DEF TypeOK, Pri
    <3>. QED
      BY <2>1, <3>1, <3>2, <3>3, <3>4 DEF Choosing, MaxpriIsBest, ReschedCoversBetter
  <2>. QED
    BY <2>2, <2>3, <2>4
<1>12. ASSUME NEW t \in Thread, Resume(t) PROVE Choosing'
  <2>. DEFINE s == state[t] \ {"SUSP"}
  <2>1. /\ t # curthread
        /\ state' = [state EXCEPT ![t] = s]
        /\ IF s = RUN THEN RunqEnqueue(t, priority[t], runq, maxpri)
           ELSE UNCHANGED <<runq, maxpri, resched>>
        /\ UNCHANGED <<curthread, priority>>
    BY <1>12 DEF Resume, attrs
  <2>2. state'[curthread] = state[curthread]
    BY <2>1 DEF TypeOK
  <2>3. CASE s = RUN
    <3>1. RunqEnqueue(t, priority[t], runq, Best(runq))
      BY <2>1, <2>3 DEF Choosing, MaxpriIsBest
    <3>2. maxpri' = Best(runq') /\ (maxpri' = maxpri \/ resched'[curthread] = TRUE)
      BY <3>1, RunqEnqueueBest DEF TypeOK, Choosing, MaxpriIsBest
    <3>3. resched'[curthread] = TRUE \/ resched' = resched
      BY <3>1 DEF RunqEnqueue, TypeOK
    <3>. QED
      BY <2>1, <2>2, <3>2, <3>3 DEF Choosing, MaxpriIsBest, ReschedCoversBetter
  <2>4. CASE s # RUN
    BY <2>1, <2>2, <2>4, ChoosingFrame
  <2>. QED
    BY <2>3, <2>4
<1>13. ASSUME NEW t \in Thread, NEW p \in 0..(MINPRI - 1), Setpri(t, p) PROVE Choosing'
  <2>1. /\ priority' = [priority EXCEPT ![t] = p]
        /\ UNCHANGED <<curthread, state>>
    BY <1>13 DEF Setpri
  <2>2. p \in Pri /\ Best(runq) \in Pri
    BY BestProperties, SchedAssumption DEF Pri
  <2>3. CASE t = curthread
    <3>1. /\ maxpri' = Best(runq) /\ runq' = runq
          /\ p = Best(runq) \/ resched'[curthread] = TRUE
      BY <1>13, <2>3 DEF Setpri, TypeOK
    <3>2. priority'[curthread] = p
      BY <2>1, <2>3 DEF TypeOK
    <3>3. Best(runq) <= Best(runq)
      BY <2>2, SchedAssumption DEF Pri
    <3>. QED
      BY <2>1, <3>1, <3>2, <3>3 DEF Choosing, MaxpriIsBest, ReschedCoversBetter
  <2>4. CASE t # curthread /\ state[t] # RUN
    <3>1. UNCHANGED <<runq, maxpri, resched>>
      BY <1>13, <2>4 DEF Setpri
    <3>2. priority'[curthread] = priority[curthread]
      BY <2>1, <2>4 DEF TypeOK
    <3>. QED
      BY <2>1, <3>1, <3>2 DEF Choosing, MaxpriIsBest, ReschedCoversBetter
  <2>5. CASE t # curthread /\ state[t] = RUN
    <3>. DEFINE rq == RunqWithout(t)
    <3>1. RunqEnqueue(t, p, rq, Best(rq))
      BY <1>13, <2>5 DEF Setpri
    <3>2. rq \in [Pri -> Seq(Thread)] /\ Best(rq) \in Pri
      BY RunqWithoutTypes
    <3>3. maxpri <= Best(rq)
      BY RunqWithoutBest DEF Choosing, MaxpriIsBest
    <3>. HIDE DEF rq
    <3>4. maxpri' = Best(runq') /\ (maxpri' = Best(rq) \/ resched'[curthread] = TRUE)
      BY <2>2, <3>1, <3>2, RunqEnqueueBest
    <3>5. resched'[curthread] = TRUE \/ resched' = resched
      BY <3>1 DEF RunqEnqueue, TypeOK
    <3>6. priority'[curthread] = priority[curthread]
      BY <2>1, <2>5 DEF TypeOK
    <3>7. priority[curthread] \in Nat /\ maxpri \in Nat /\ Best(rq) \in Nat
      BY <3>2, SchedAssumption DEF TypeOK, Pri
    <3>8. priority[curthread] <= maxpri => priority[curthread] <= Best(rq)
      BY <3>3, <3>7
    <3>. QED
      BY <2>1, <3>4, <3>5, <3>6, <3>8 DEF Choosing, MaxpriIsBest, ReschedCoversBetter
  <2>. QED
    BY <2>3, <2>4, <2>5
<1>14. CASE UNCHANGED vars
  BY <1>14, ChoosingFrame DEF vars, attrs
<1>. QED
  BY <1>1, <1>2, <1>3, <1>4, <1>5, <1>6, <1>7, <1>8, <1>9, <1>10, <1>11, <1>12,
     <1>13, <1>14 DEF Next, Switching, Interrupt

\* The scheduling invariant, from which the rules below follow.
Scheduling == Typing /\ Linking /\ Choosing /\ PriorityScheduling

LEMMA SchedulingInit == Init => Scheduling
<1>. SUFFICES ASSUME Init PROVE Scheduling
  OBVIOUS
<1>1. Typing /\ Linking
  BY TypingInit, LinkingInit
<1>2. Best(runq) = MINPRI
  <2>1. MINPRI \in Pri /\ \A b \in Pri : runq[b] = <<>>
    BY SchedAssumption DEF Init, Pri
  <2>. QED
    BY <2>1, BestUnique
<1>3. Choosing
  <2>1. curthread = Idle /\ Idle \in Thread /\ maxpri = MINPRI /\ MINPRI \in Nat
        /\ resched[Idle] = TRUE
    BY SchedAssumption DEF Init
  <2>. QED
    BY <1>2, <2>1 DEF Choosing, MaxpriIsBest, ReschedCoversBetter
<1>4. PriorityScheduling
  BY SchedAssumption DEF Init, PriorityScheduling
<1>. QED
  BY <1>1, <1>3, <1>4 DEF Scheduling

\* Only UnlockDone and a switch can let go of the last scheduler lock.
LEMMA StaysLocked ==
  ASSUME Typing, [Next]_vars, ~UnlockDone, ~UnlockSwtch, ~TsleepSwtch
  PROVE  (isr' = TRUE \/ locks'[curthread'] >= 1) \/ UNCHANGED vars
<1>. USE DEF Typing
<1>0. curthread \in Thread /\ locks \in [Thread -> Nat]
  BY DEF TypeOK
<1>1. CASE SchedLock
  BY <1>0, <1>1 DEF SchedLock
<1>2. CASE SchedUnlock
  <2>1. locks[curthread] # 1 => locks[curthread] - 1 >= 1
    BY <1>0, <1>2 DEF SchedUnlock, Locked
  <2>. QED
    BY <1>0, <1>2, <2>1 DEF SchedUnlock, Unlock
<1>3. CASE WakeqFlush
  BY <1>0, <1>3 DEF WakeqFlush, LocksHeld
<1>4. CASE UnlockAgain
  BY <1>0, <1>4 DEF UnlockAgain, LocksHeld
<1>5. CASE TsleepReturn
  <2>1. locks[curthread] >= 1
    BY <1>0, <1>5 DEF TsleepReturn, LocksHeld
  <2>2. locks[curthread] # 1 => locks[curthread] - 1 >= 1
    BY <1>0, <2>1
  <2>. QED
    BY <1>0, <1>5, <2>1, <2>2 DEF TsleepReturn, Unlock
<1>6. CASE IsrEnter
  BY <1>6 DEF IsrEnter
<1>7. CASE Tick
  BY <1>0, <1>7 DEF Tick, LocksHeld
<1>8. CASE IsrExit
  <2>1. locks[curthread] >= 1
    BY <1>8 DEF IsrExit, LocksHeld
  <2>2. locks[curthread] # 1 => locks[curthread] - 1 >= 1
    BY <1>0, <2>1
  <2>. QED
    BY <1>0, <1>8, <2>1, <2>2 DEF IsrExit
<1>9. CASE Yield
  BY <1>0, <1>9 DEF Yield, Locked
<1>10. ASSUME NEW e \in Event, NEW timed \in BOOLEAN, Tsleep(e, timed)
       PROVE  locks'[curthread'] >= 1
  BY <1>0, <1>10 DEF Tsleep
<1>11. ASSUME NEW e \in Event, Wakeup(e) \/ Wakeone(e) PROVE locks'[curthread'] >= 1
  BY <1>0, <1>11 DEF Wakeup, Wakeone, Setrun, LockedOrIsr, Locked, LocksHeld
<1>12. ASSUME NEW t \in Thread, Unsleep(t) \/ Suspend(t) \/ Resume(t)
       PROVE  locks'[curthread'] >= 1
  BY <1>0, <1>12 DEF Unsleep, Setrun, Suspend, Resume, Locked
<1>13. ASSUME NEW t \in Thread, Stop(t) PROVE locks'[curthread'] >= 1
  BY <1>0, <1>13 DEF Stop, Locked, attrs
<1>14. ASSUME NEW t \in Thread, NEW p \in 0..(MINPRI - 1), Setpri(t, p)
       PROVE  locks'[curthread'] >= 1
  BY <1>0, <1>14 DEF Setpri, Locked
<1>15. ASSUME NEW t \in Thread, NEW pol \in Policy, Setpolicy(t, pol)
       PROVE  locks'[curthread'] >= 1
  BY <1>0, <1>15 DEF Setpolicy, Locked
<1>16. ASSUME NEW t \in Thread, NEW p \in 0..(MINPRI - 1), NEW pol \in Policy,
              Start(t, p, pol)
       PROVE  locks'[curthread'] >= 1
  BY <1>0, <1>16 DEF Start, Locked
<1>. QED
  BY <1>1, <1>2, <1>3, <1>4, <1>5, <1>6, <1>7, <1>8, <1>9, <1>10, <1>11, <1>12,
     <1>13, <1>14, <1>15, <1>16 DEF Next, Switching, Interrupt

\* Every step keeps the scheduling rule.
LEMMA SchedulingStep == Scheduling /\ [Next]_vars => Scheduling'
<1>. SUFFICES ASSUME Scheduling, [Next]_vars PROVE Scheduling'
  OBVIOUS
<1>1. Typing' /\ Linking' /\ Choosing'
  BY TypingStep, LinkingStep, ChoosingStep DEF Scheduling
<1>2. CASE UnlockDone
  <2>1. wakeq' = <<>> /\ resched[curthread] # TRUE /\ pc[curthread] = "flush"
        /\ UNCHANGED <<curthread, state, priority, resched>>
    BY <1>2 DEF UnlockDone, attrs
  <2>2. state[curthread] = RUN
    BY <2>1 DEF Scheduling, Linking, CurrentThread
  <2>3. priority[curthread] <= maxpri
    BY <2>1, <2>2 DEF Scheduling, Choosing, ReschedCoversBetter
  <2>4. \A t \in Thread : state[t] = RUN => priority[curthread] <= priority[t]
    BY <2>3, BestCovers DEF Scheduling, Typing, Linking, ThreadsAreQueued, Choosing
  <2>. QED
    BY <1>1, <2>1, <2>2, <2>4 DEF Scheduling, PriorityScheduling
<1>3. CASE UnlockSwtch \/ TsleepSwtch
  <2>1. PICK r \in {"window", "wake"} : Swtch(r)
    BY <1>3 DEF UnlockSwtch, TsleepSwtch
  <2>2. wakeq' = <<>> /\ UNCHANGED <<state, priority>>
    BY <1>3 DEF UnlockSwtch, TsleepSwtch, attrs
  <2>3. state'[curthread'] = RUN
    BY <2>1, <2>2, SwtchItems DEF Scheduling, Typing, Linking, ThreadsAreQueued
  <2>4. (priority[curthread] <= maxpri)'
    BY <2>1, <2>2, SwtchBest DEF Scheduling, Typing, Linking, ThreadsAreQueued, Choosing
  <2>5. (TypeOK /\ ReadyAreQueued /\ MaxpriIsBest)'
    BY <1>1 DEF Typing, Linking, ThreadsAreQueued, Choosing
  <2>6. (\A t \in Thread : state[t] = RUN => priority[curthread] <= priority[t])'
    BY <2>4, <2>5, BestCovers, PTL
  <2>. QED
    BY <1>1, <2>2, <2>3, <2>6 DEF Scheduling, PriorityScheduling
<1>4. CASE UNCHANGED vars
  BY <1>1, <1>4 DEF vars, attrs, Scheduling, PriorityScheduling
<1>5. CASE ~UnlockDone /\ ~UnlockSwtch /\ ~TsleepSwtch /\ ~UNCHANGED vars
  <2>1. isr' = TRUE \/ locks'[curthread'] >= 1
    BY <1>5, StaysLocked DEF Scheduling
  <2>. QED
    BY <1>1, <2>1 DEF Scheduling, PriorityScheduling
<1>. QED
  BY <1>2, <1>3, <1>4, <1>5

\* The cached maxpri never differs from what runq_getbest() would find, through
\* every enqueue, removal, priority change and switch.
THEOREM MaxpriCorrect == Spec => []MaxpriIsBest
<1>1. Scheduling => MaxpriIsBest
  BY DEF Scheduling, Choosing
<1>. QED
  BY <1>1, SchedulingInit, SchedulingStep, PTL DEF Spec

\* Whenever a thread better than the current one is ready, the current thread
\* has its reschedule flag set.
THEOREM ReschedCorrect == Spec => []ReschedCoversBetter
<1>1. Scheduling => ReschedCoversBetter
  BY DEF Scheduling, Choosing
<1>. QED
  BY <1>1, SchedulingInit, SchedulingStep, PTL DEF Spec

\* The rule of the scheduler: once the last scheduler lock is released the CPU
\* runs a thread that can run, no better thread can, and no wakeup is pending.
THEOREM SchedulingCorrect == Spec => []PriorityScheduling
<1>1. Scheduling => PriorityScheduling
  BY DEF Scheduling
<1>. QED
  BY <1>1, SchedulingInit, SchedulingStep, PTL DEF Spec

\* A thread that loses the CPU to a better one is the next of its priority.
THEOREM PreemptionCorrect == Spec => PreemptedStaysFirst
<1>. DEFINE A == /\ curthread' # curthread
                 /\ state[curthread] = RUN
                 /\ priority[curthread'] < priority[curthread]
                 => /\ runq'[priority[curthread]] # <<>>
                    /\ Head(runq'[priority[curthread]]) = curthread
<1>1. Scheduling /\ [Next]_vars => [A]_vars
  <2>. SUFFICES ASSUME Scheduling, Next, curthread' # curthread PROVE A
    BY DEF vars
  <2>1. UnlockSwtch \/ TsleepSwtch
    BY DEF Next, Switching, Interrupt, SchedLock, SchedUnlock, WakeqFlush, UnlockDone,
           UnlockAgain, TsleepReturn, IsrEnter, Tick, IsrExit, Yield, Tsleep, Wakeup,
           Wakeone, Unsleep, Suspend, Resume, Stop, Setpri, Setpolicy, Start
  <2>2. PICK r \in {"window", "wake"} : Swtch(r)
    BY <2>1 DEF UnlockSwtch, TsleepSwtch
  <2>. QED
    BY <2>2, SwtchBest DEF Scheduling, Typing, Linking, ThreadsAreQueued, Choosing
<1>. QED
  BY <1>1, SchedulingInit, SchedulingStep, PTL DEF Spec, PreemptedStaysFirst
=============================================================================

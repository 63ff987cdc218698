---------------------------- MODULE MutexProofs ----------------------------
(***************************************************************************)
(* Proofs about mutexes and condition variables (modules Mutex and Cond),  *)
(* for any threads, mutexes and priorities.                                *)
(***************************************************************************)
EXTENDS Cond, PrexQueueProofs, FiniteSetTheorems

\* sched_wakeone() wakes a sleeper and returns a sleeper, which may be another.
LEMMA WakesSleeper ==
  ASSUME NEW q \in Seq(Thread), q # <<>>, priority \in [Thread -> Pri]
  PROVE  /\ WokenBy(q) \in Items(q) /\ WokenBy(q) \in Thread
         /\ ReturnedBy(q) \in Items(q) /\ ReturnedBy(q) \in Thread
<1>1. WokenBy(q) \in Items(q)
  <2>1. priority \in [Thread -> Nat]
    BY MutexAssumption DEF Pri
  <2>. QED
    BY <2>1, FirstBestItem DEF WokenBy
<1>2. ReturnedBy(q) \in Items(q)
  <2>1. Len(q) \in 1..Len(q)
    BY EmptySeq, LenProperties
  <2>. QED
    BY <2>1 DEF ReturnedBy, Items
<1>. QED
  BY <1>1, <1>2, NoItems

\* mutex_cancel() ends, and takes threads off the sleep queue, no more.
LEMMA CancelQueue ==
  ASSUME NEW t \in Thread, NEW q \in Seq(Thread), Distinct(q),
         priority \in [Thread -> Pri]
  PROVE  /\ Cancel(t, q).heir \in Thread \cup {None}
         /\ Cancel(t, q).queue \in Seq(Thread)
         /\ Distinct(Cancel(t, q).queue)
         /\ Items(Cancel(t, q).queue) \subseteq Items(q)
<1>. DEFINE G(r) == IF r = <<>> THEN r ELSE Without(r, WokenBy(r))
            Q == {r \in Seq(Thread) : Distinct(r) /\ Items(r) \subseteq Items(q)}
            g == [r \in Q |-> G(r)]
            n == Len(q) + 1
            rest[i \in 0..(Len(q) + 1)] ==
              IF i = 0 THEN q
              ELSE LET r == rest[i - 1] IN IF r = <<>> THEN r ELSE Without(r, WokenBy(r))
            last == CHOOSE i \in 0..Len(q) :
                /\ ReturnedBy(rest[i]) # t
                /\ \A j \in 0..(i - 1) : ReturnedBy(rest[j]) = t
<1>1. Len(q) \in Nat /\ n \in Nat
  BY LenProperties
<1>2. ASSUME NEW r \in Q
      PROVE  G(r) \in Q /\ (r # <<>> => Len(G(r)) = Len(r) - 1)
  <2>1. CASE r # <<>>
    <3>1. WokenBy(r) \in Items(r)
      BY <2>1, WakesSleeper
    <3>. QED
      BY <3>1, <2>1, WithoutItems, WithoutLen
  <2>. QED
    BY <2>1
<1>3. g \in [Q -> Q] /\ q \in Q
  BY <1>2
<1>4. PICK f : IsIteration(f, Q, q, g, n)
  <2>. HIDE DEF g, Q, n
  <2>. QED
    BY <1>1, <1>3, Iterated
<1>5. f = [i \in 0..n |-> IF i = 0 THEN q ELSE G(f[i - 1])]
  <2>. HIDE DEF Q, G, n
  <2>1. f \in [0..n -> Q] /\ f[0] = q /\ \A i \in 1..n : f[i] = g[f[i - 1]]
    BY <1>4 DEF IsIteration
  <2>2. \A i \in 1..n : i - 1 \in 0..n /\ f[i - 1] \in Q /\ g[f[i - 1]] = G(f[i - 1])
    BY <1>1, <2>1
  <2>3. \A i \in 0..n : i = 0 \/ i \in 1..n
    BY <1>1
  <2>4. \A i \in 0..n : f[i] = IF i = 0 THEN q ELSE G(f[i - 1])
    BY <2>1, <2>2, <2>3
  <2>. QED
    BY <2>1, <2>4
<1>6. rest = [i \in 0..n |-> IF i = 0 THEN q ELSE G(rest[i - 1])]
  <2>. DEFINE R(h) == h = [i \in 0..n |-> IF i = 0 THEN q ELSE G(h[i - 1])]
  <2>1. \E h : R(h)
    BY <1>5
  <2>2. rest = CHOOSE h : R(h)
    OBVIOUS
  <2>. HIDE DEF R, rest
  <2>3. R(CHOOSE h : R(h))
    BY <2>1
  <2>4. R(rest)
    BY <2>2, <2>3
  <2>. QED
    BY <2>4 DEF R
<1>. HIDE DEF rest
<1>7. rest[0] = q /\ \A i \in 1..n : rest[i] = G(rest[i - 1])
  <2>. HIDE DEF G, n
  <2>1. \A i \in 1..n : i \in 0..n /\ i # 0
    BY <1>1
  <2>2. 0 \in 0..n
    BY <1>1
  <2>. QED
    BY <2>1, <2>2, <1>6
<1>8. \A i \in 0..n : rest[i] \in Q /\ (i <= Len(q) => Len(rest[i]) <= Len(q) - i)
  <2>. DEFINE T == {i \in 0..n : rest[i] \in Q /\ (i <= Len(q) => Len(rest[i]) <= Len(q) - i)}
  <2>1. 0 \in T
    BY <1>1, <1>3, <1>7
  <2>2. ASSUME NEW i \in 0..(n - 1), i \in T PROVE i + 1 \in T
    <3>1. i + 1 \in 1..n /\ rest[i + 1] = G(rest[i]) /\ rest[i] \in Q
      BY <1>1, <1>7, <2>2
    <3>2. rest[i + 1] \in Q
      BY <3>1, <1>2
    <3>3. ASSUME i + 1 <= Len(q) PROVE Len(rest[i + 1]) <= Len(q) - (i + 1)
      <4>1. CASE rest[i] = <<>>
        BY <4>1, <3>1, <3>3, <1>1
      <4>2. CASE rest[i] # <<>>
        BY <4>2, <3>1, <3>3, <2>2, <1>1, <1>2, LenProperties
      <4>. QED
        BY <4>1, <4>2
    <3>. QED
      BY <3>1, <3>2, <3>3
  <2>. HIDE DEF T
  <2>3. 0..n \subseteq T
    BY <2>1, <2>2, <1>1, SetInduction
  <2>. QED
    BY <2>3 DEF T
<1>9. last \in 0..Len(q)
  <2>. DEFINE ends == {i \in 0..Len(q) : ReturnedBy(rest[i]) # t}
  <2>1. Len(q) \in ends
    <3>1. rest[Len(q)] \in Seq(Thread) /\ Len(rest[Len(q)]) <= 0
      BY <1>1, <1>8
    <3>2. rest[Len(q)] = <<>>
      BY <3>1, LenProperties, EmptySeq
    <3>. QED
      BY <3>2, <1>1, MutexAssumption DEF ReturnedBy
  <2>2. PICK i \in ends : \A j \in ends : i <= j
    <3>1. ends \subseteq Nat
      OBVIOUS
    <3>. QED
      BY <2>1, <3>1, NatMinimum
  <2>3. \A j \in 0..(i - 1) : ReturnedBy(rest[j]) = t
    BY <2>2, <1>1
  <2>. QED
    BY <2>2, <2>3
<1>10. Cancel(t, q) = [heir |-> ReturnedBy(rest[last]), queue |-> rest[last + 1]]
  BY Zenon DEF Cancel, rest
<1>. HIDE DEF last
<1>11. last \in 0..n /\ last + 1 \in 0..n
  BY <1>1, <1>9
<1>12. ReturnedBy(rest[last]) \in Thread \cup {None}
  BY <1>8, <1>11, WakesSleeper DEF ReturnedBy
<1>. QED
  BY <1>8, <1>10, <1>11, <1>12
-----------------------------------------------------------------------------
\* The sleep queue of a mutex holds the threads asleep in mutex_lock() for it,
\* once each, whatever ends their sleep.
SleepersQueued ==
  /\ \A m \in MutexId :
       /\ Distinct(sleepq[m])
       /\ Items(sleepq[m]) = {t \in Thread : pc[t] = "asleep" /\ target[t] = m}
  /\ \A t \in Thread : pc[t] \in {"asleep", "woken"} => target[t] \in MutexId

Sleeping == TypeOK /\ SleepersQueued

LEMMA SleepingInit == Init => Sleeping
<1>. SUFFICES ASSUME Init PROVE Sleeping
  OBVIOUS
<1>1. astray \in BOOLEAN
  BY Zenon DEF Init
<1>2. TypeOK
  BY <1>1, MutexAssumption, EmptySeq DEF Init, TypeOK, Pri
<1>3. Distinct(<<>>) /\ Items(<<>>) = {}
  BY DEF Distinct, Items
<1>. QED
  BY <1>2, <1>3 DEF Sleeping, SleepersQueued, Init

\* What a thread that runs is not linked in.
LEMMA AwakeUnqueued ==
  ASSUME Sleeping, NEW t \in Thread, pc[t] # "asleep", NEW m \in MutexId
  PROVE  t \notin Items(sleepq[m])
BY DEF Sleeping, SleepersQueued

\* A step that leaves the queues alone, and who is asleep where.
LEMMA SleepingSame ==
  ASSUME Sleeping, TypeOK', sleepq' = sleepq, pc' = pc, target' = target
  PROVE  Sleeping'
BY DEF Sleeping, SleepersQueued

\* A thread falls asleep in mutex_lock().
LEMMA SleepingJoin ==
  ASSUME Sleeping, TypeOK', NEW t \in Thread, NEW m \in MutexId, pc[t] # "asleep",
         sleepq' = [sleepq EXCEPT ![m] = Append(@, t)],
         pc' = [pc EXCEPT ![t] = "asleep"], target' = [target EXCEPT ![t] = m]
  PROVE  Sleeping'
<1>1. sleepq[m] \in Seq(Thread) /\ t \notin Items(sleepq[m]) /\ Distinct(sleepq[m])
  BY AwakeUnqueued DEF Sleeping, SleepersQueued, TypeOK
<1>2. Distinct(sleepq'[m]) /\ Items(sleepq'[m]) = Items(sleepq[m]) \cup {t}
  BY <1>1, EnqueueItems DEF Sleeping, TypeOK
<1>. QED
  BY <1>2, AwakeUnqueued, SMTT(30) DEF Sleeping, SleepersQueued, TypeOK

\* A sleeper is woken.
LEMMA SleepingLeave ==
  ASSUME Sleeping, TypeOK', NEW t \in Thread, pc[t] = "asleep",
         \A m \in MutexId : sleepq'[m] = Without(sleepq[m], t),
         pc' = [pc EXCEPT ![t] = "woken"], target' = target
  PROVE  Sleeping'
<1>1. \A m \in MutexId : sleepq[m] \in Seq(Thread) /\ Distinct(sleepq[m])
  BY DEF Sleeping, SleepersQueued, TypeOK
<1>2. \A m \in MutexId : Distinct(sleepq'[m]) /\ Items(sleepq'[m]) = Items(sleepq[m]) \ {t}
  BY <1>1, WithoutItems
<1>. QED
  BY <1>2 DEF Sleeping, SleepersQueued, TypeOK

\* mutex_lock() returns.
LEMMA SleepingReturn ==
  ASSUME Sleeping, TypeOK', NEW t \in Thread, pc[t] = "woken", sleepq' = sleepq,
         pc' = [pc EXCEPT ![t] = "user"], target' = [target EXCEPT ![t] = None]
  PROVE  Sleeping'
BY DEF Sleeping, SleepersQueued, TypeOK

\* The types of what inheritance and mutex_unlock() compute.
LEMMA InheritTypes ==
  ASSUME TypeOK, NEW w \in Thread, NEW m \in MutexId
  PROVE  /\ InheritPriority(w, m) \in [Thread -> Pri]
         /\ \A t \in Thread : InheritPriority(w, m)[t] <= priority[t]
         /\ InheritMpriority(w, m) \in [MutexId -> Pri]
         /\ Inherits(w, m) => broken' \in SUBSET {"link", "null", "loop"}
<1>. USE DEF TypeOK, Pri
<1>1. InheritPriority(w, m) \in [Thread -> Pri]
  BY DEF InheritPriority
<1>2. \A t \in Thread : InheritPriority(w, m)[t] <= priority[t]
  BY MutexAssumption DEF InheritPriority
<1>3. ASSUME NEW n \in MutexId PROVE InheritMpriority(w, m)[n] \in Pri
  BY DEF InheritMpriority
<1>4. InheritMpriority(w, m) \in [MutexId -> Pri]
  BY <1>3 DEF InheritMpriority
<1>5. Inherits(w, m) => broken' \in SUBSET {"link", "null", "loop"}
  BY DEF Inherits
<1>. QED
  BY <1>1, <1>2, <1>4, <1>5

LEMMA UninheritTypes ==
  ASSUME TypeOK, NEW t \in Thread, NEW held \in SUBSET MutexId, priority[t] <= basepri[t]
  PROVE  /\ Uninherited(t, held) \in Pri /\ Uninherited(t, held) <= basepri[t]
         /\ held = {} => Uninherited(t, held) = basepri[t]
<1>. DEFINE ps == {basepri[t]} \cup {mpriority[m] : m \in held}
            best == CHOOSE p \in ps : \A o \in ps : p <= o
<1>1. ps \subseteq Pri /\ Pri \subseteq Nat /\ basepri[t] \in ps
  BY MutexAssumption DEF TypeOK, Pri
<1>2. PICK p \in ps : \A o \in ps : p <= o
  BY <1>1, NatMinimum
<1>3. best \in ps /\ \A o \in ps : best <= o
  BY <1>2
<1>4. held = {} => best = basepri[t]
  BY <1>3
<1>5. Uninherited(t, held) = IF priority[t] = basepri[t] THEN priority[t] ELSE best
  BY DEF Uninherited
<1>. HIDE DEF ps, best
<1>. QED
  BY <1>1, <1>3, <1>4, <1>5 DEF TypeOK
-----------------------------------------------------------------------------
\* What every step keeps, those of exceptions, terminations and priority changes
\* included: types, sleep queues, and priorities that inheritance only improves.
Basic == Sleeping /\ NeverBelowBase

\* The operations that nobody sleeps in, is woken by or is boosted by.
LEMMA BasicQuiet ==
  ASSUME Basic, NEW t \in Thread, NEW m \in MutexId,
         \/ MutexInit(t, m) \/ MutexDestroy(t, m) \/ LockAgain(t, m)
         \/ LockFree(t, m) \/ TrylockFree(t, m) \/ UnlockInner(t, m)
  PROVE  Basic'
<1>. USE DEF Basic
<1>1. astray' = astray /\ sleepq' = sleepq /\ pc' = pc /\ target' = target
        /\ slpret' = slpret /\ priority' = priority /\ basepri' = basepri
        /\ waiting' = waiting
  BY DEF MutexInit, MutexDestroy, LockAgain, LockFree, TrylockFree, UnlockInner,
         call, prios, object
<1>2. astray' \in BOOLEAN
  BY <1>1, Zenon DEF Sleeping, TypeOK
<1>3. TypeOK'
  <2>. USE <1>1, <1>2, MutexAssumption DEF Sleeping, TypeOK, Pri, object
  <2>1. CASE MutexInit(t, m)
    BY <2>1 DEF MutexInit
  <2>2. CASE MutexDestroy(t, m)
    BY <2>2 DEF MutexDestroy
  <2>3. CASE LockAgain(t, m)
    BY <2>3, SMTT(30) DEF LockAgain
  <2>4. CASE LockFree(t, m)
    BY <2>4, SMTT(30) DEF LockFree, Acquire
  <2>5. CASE TrylockFree(t, m)
    BY <2>5, SMTT(30) DEF TrylockFree, Acquire
  <2>6. CASE UnlockInner(t, m)
    <3>1. locks[m] - 1 \in Nat /\ (IF depth[t][m] = 0 THEN 0 ELSE depth[t][m] - 1) \in Nat
      BY <2>6 DEF UnlockInner
    <3>2. locks' \in [MutexId -> Nat] /\ depth' \in [Thread -> [MutexId -> Nat]]
      BY <2>6, <3>1 DEF UnlockInner
    <3>. QED
      BY <2>6, <3>2 DEF UnlockInner
  <2>. QED
    BY <2>1, <2>2, <2>3, <2>4, <2>5, <2>6
<1>. QED
  BY <1>1, <1>3, SleepingSame DEF NeverBelowBase

\* mutex_lock() that refuses or sleeps.
LEMMA BasicLockWait ==
  ASSUME Basic, NEW t \in Thread, NEW m \in MutexId, LockWait(t, m)
  PROVE  Basic'
<1>. USE DEF Basic
<1>0. astray' \in BOOLEAN
  BY Zenon DEF Sleeping, TypeOK, LockWait
<1>1. /\ priority' \in [Thread -> Pri] /\ mpriority' \in [MutexId -> Pri]
      /\ broken' \in SUBSET {"link", "null", "loop"}
      /\ \A u \in Thread : priority'[u] <= priority[u]
  BY InheritTypes DEF LockWait, Sleeping
<1>2. NeverBelowBase'
  <2>1. \A u \in Thread : priority'[u] \in Nat /\ priority[u] \in Nat /\ basepri[u] \in Nat
    BY <1>1, MutexAssumption DEF Sleeping, TypeOK, Pri
  <2>. QED
    BY <1>1, <2>1 DEF NeverBelowBase, LockWait
<1>3. pc[t] # "asleep"
  BY DEF LockWait, Calls
<1>4. CASE FindsDeadlock(t, m)
  <2>1. UNCHANGED <<waiting, pc, target, slpret, sleepq>>
    BY <1>4 DEF LockWait, call
  <2>2. TypeOK'
    BY <1>0, <1>1, <2>1 DEF Sleeping, TypeOK, LockWait
  <2>. QED
    BY <1>2, <2>1, <2>2, SleepingSame
<1>5. CASE ~FindsDeadlock(t, m)
  <2>1. /\ waiting' = [waiting EXCEPT ![t] = m]
        /\ target' = [target EXCEPT ![t] = m]
        /\ pc' = [pc EXCEPT ![t] = "asleep"]
        /\ sleepq' = [sleepq EXCEPT ![m] = Append(@, t)]
        /\ UNCHANGED slpret
    BY <1>5 DEF LockWait
  <2>2. sleepq' \in [MutexId -> Seq(Thread)]
    BY <2>1, EnqueueItems DEF Sleeping, TypeOK
  <2>3. TypeOK'
    BY <1>0, <1>1, <2>1, <2>2 DEF Sleeping, TypeOK, LockWait
  <2>. QED
    BY <1>2, <1>3, <2>1, <2>3, SleepingJoin
<1>. QED
  BY <1>4, <1>5

\* The end of mutex_lock().
LEMMA BasicLockReturn ==
  ASSUME Basic, NEW t \in Thread, LockReturn(t)
  PROVE  Basic'
<1>. USE DEF Basic
<1>0. astray' \in BOOLEAN
  BY Zenon DEF Sleeping, TypeOK, LockReturn
<1>1. target[t] \in MutexId
  BY DEF Sleeping, SleepersQueued, LockReturn
<1>2. TypeOK'
  <2>1. CASE slpret[t] = "INTR"
    BY <2>1, <1>0 DEF Sleeping, TypeOK, LockReturn, prios
  <2>2. CASE slpret[t] # "INTR"
    <3>1. Acquire(t, target[t])
      BY <2>2 DEF LockReturn
    <3>. QED
      BY <3>1, <1>0, <1>1 DEF Sleeping, TypeOK, LockReturn, prios, Acquire
  <2>. QED
    BY <2>1, <2>2
<1>3. Sleeping'
  BY <1>2, SleepingReturn DEF LockReturn
<1>. QED
  BY <1>3 DEF NeverBelowBase, LockReturn, prios

\* mutex_unlock() that hands the mutex on, or frees it.
LEMMA BasicUnlockLast ==
  ASSUME Basic, NEW t \in Thread, NEW m \in MutexId, UnlockLast(t, m)
  PROVE  Basic'
<1>. USE DEF Basic
<1>. DEFINE q == sleepq[m]
            h == ReturnedBy(q)
            w == WokenBy(q)
<1>0. astray' \in BOOLEAN
  <2>1. astray' = (astray \/ GoesAstray(sleepq[m]))
    BY Zenon DEF UnlockLast
  <2>2. GoesAstray(sleepq[m]) \in BOOLEAN
    BY Zenon DEF GoesAstray
  <2>3. astray \in BOOLEAN
    BY Zenon DEF Sleeping, TypeOK
  <2>. QED
    BY <2>1, <2>2, <2>3, Zenon
<1>1. q \in Seq(Thread) /\ priority \in [Thread -> Pri]
  BY DEF Sleeping, TypeOK
<1>2. h \in Thread \cup {None} /\ (h = None <=> q = <<>>)
  BY <1>1, WakesSleeper, MutexAssumption DEF ReturnedBy
<1>3. /\ priority' \in [Thread -> Pri]
      /\ NeverBelowBase'
  <2>1. mutexes[t] \ {m} \in SUBSET MutexId /\ priority[t] <= basepri[t]
    BY DEF Sleeping, TypeOK, NeverBelowBase
  <2>2. Uninherited(t, mutexes[t] \ {m}) \in Pri
        /\ Uninherited(t, mutexes[t] \ {m}) <= basepri[t]
    BY <2>1, UninheritTypes DEF Sleeping
  <2>3. priority' = [priority EXCEPT ![t] = Uninherited(t, mutexes[t] \ {m})]
        /\ basepri' = basepri
    BY DEF UnlockLast
  <2>. QED
    BY <1>1, <2>2, <2>3 DEF NeverBelowBase
<1>4. mpriority' \in [MutexId -> Pri]
  <2>1. mpriority' = [mpriority EXCEPT ![m] = IF h = None THEN MINPRI ELSE priority[h]]
    BY DEF UnlockLast
  <2>. QED
    BY <2>1, <1>1, <1>2, MutexAssumption DEF Sleeping, TypeOK, Pri
<1>5. waiting' \in [Thread -> MutexId \cup {None}]
  BY DEF UnlockLast, NoLongerWaiting, Sleeping, TypeOK
<1>6. /\ valid' = valid /\ holder' = [holder EXCEPT ![m] = h]
      /\ locks' = [locks EXCEPT ![m] = 0] /\ depth' = [depth EXCEPT ![t][m] = 0]
      /\ mutexes' = [mutexes EXCEPT ![t] = @ \ {m}] /\ basepri' = basepri
      /\ broken' = IF m \in mutexes[t] THEN broken ELSE broken \cup {"link"}
  BY DEF UnlockLast
<1>7. CASE h = None
  <2>1. pc' = pc /\ target' = target /\ slpret' = slpret /\ sleepq' = sleepq
    BY <1>7 DEF UnlockLast, call
  <2>2. TypeOK'
    BY <1>0, <1>2, <1>3, <1>4, <1>5, <1>6, <2>1 DEF Sleeping, TypeOK
  <2>. QED
    BY <1>3, <2>1, <2>2, SleepingSame
<1>8. CASE h # None
  <2>1. /\ sleepq' = [sleepq EXCEPT ![m] = Without(q, w)]
        /\ pc' = [pc EXCEPT ![w] = "woken"]
        /\ slpret' = [slpret EXCEPT ![w] = "SUCCESS"]
        /\ target' = target
    BY <1>8 DEF UnlockLast
  <2>2. w \in Thread /\ w \in Items(q)
    BY <1>1, <1>2, <1>8, WakesSleeper
  <2>3. sleepq' \in [MutexId -> Seq(Thread)]
    BY <2>1, <1>1, WithoutType DEF Sleeping, TypeOK
  <2>4. TypeOK'
    BY <1>0, <1>2, <1>3, <1>4, <1>5, <1>6, <2>1, <2>2, <2>3 DEF Sleeping, TypeOK
  <2>5. pc[w] = "asleep" /\ target[w] = m
    BY <2>2 DEF Sleeping, SleepersQueued
  <2>6. \A n \in MutexId : sleepq'[n] = Without(sleepq[n], w)
    <3>1. \A n \in MutexId : n # m => w \notin Items(sleepq[n])
      BY <2>5, MutexAssumption DEF Sleeping, SleepersQueued
    <3>2. \A n \in MutexId : n # m => Without(sleepq[n], w) = sleepq[n]
      BY <3>1, InQueueItems DEF Without
    <3>. QED
      BY <2>1, <3>2 DEF Sleeping, TypeOK
  <2>. QED
    BY <1>3, <2>1, <2>2, <2>4, <2>5, <2>6, SleepingLeave
<1>. QED
  BY <1>7, <1>8

\* An exception.
LEMMA BasicInterrupt ==
  ASSUME Basic, NEW t \in Thread, Interrupt(t)
  PROVE  Basic'
<1>. USE DEF Basic
<1>0. astray' \in BOOLEAN
  BY Zenon DEF Sleeping, TypeOK, Interrupt
<1>1. sleepq' \in [MutexId -> Seq(Thread)]
  BY WithoutType DEF Interrupt, Sleeping, TypeOK
<1>2. TypeOK'
  BY <1>0, <1>1 DEF Interrupt, Sleeping, TypeOK, object, prios
<1>. QED
  BY <1>2, SleepingLeave DEF Interrupt, NeverBelowBase, prios

\* A priority change.
LEMMA BasicSetpri ==
  ASSUME Basic, NEW t \in Thread, NEW p \in 0..(MINPRI - 1), Setpri(t, p)
  PROVE  Basic'
<1>. USE DEF Basic
<1>. DEFINE pri == IF priority[t] # basepri[t] /\ p > priority[t] THEN priority[t] ELSE p
            pass == waiting[t] # None /\ pri < priority[t]
            inherited == IF pass THEN InheritPriority(t, waiting[t]) ELSE priority
<1>0. astray' \in BOOLEAN
  BY Zenon DEF Sleeping, TypeOK, Setpri
<1>1. pri \in Pri
  BY MutexAssumption DEF Sleeping, TypeOK, Pri
<1>2. /\ priority' = [inherited EXCEPT ![t] = pri]
      /\ mpriority' = IF pass THEN InheritMpriority(t, waiting[t]) ELSE mpriority
      /\ IF pass THEN Inherits(t, waiting[t]) ELSE UNCHANGED broken
      /\ basepri' = [basepri EXCEPT ![t] = pri]
      /\ UNCHANGED <<valid, holder, locks, call, waiting, mutexes, depth, astray>>
  BY DEF Setpri
<1>. HIDE DEF pri
<1>3. /\ inherited \in [Thread -> Pri]
      /\ \A u \in Thread : inherited[u] <= priority[u]
      /\ mpriority' \in [MutexId -> Pri]
      /\ broken' \in SUBSET {"link", "null", "loop"}
  <2>1. CASE pass
    <3>1. waiting[t] \in MutexId
      BY <2>1 DEF Sleeping, TypeOK
    <3>. QED
      BY <2>1, <3>1, <1>2, InheritTypes DEF Sleeping
  <2>2. CASE ~pass
    <3>1. inherited = priority /\ mpriority' = mpriority /\ broken' = broken
      BY <2>2, <1>2
    <3>2. \A u \in Thread : priority[u] \in Nat
      BY MutexAssumption DEF Sleeping, TypeOK, Pri
    <3>. HIDE DEF inherited, pass
    <3>. QED
      BY <3>1, <3>2 DEF Sleeping, TypeOK
  <2>. QED
    BY <2>1, <2>2
<1>. HIDE DEF inherited, pass
<1>4. priority' \in [Thread -> Pri] /\ basepri' \in [Thread -> Pri]
  BY <1>1, <1>2, <1>3 DEF Sleeping, TypeOK
<1>5. NeverBelowBase'
  <2>1. \A u \in Thread : inherited[u] \in Nat /\ priority[u] \in Nat /\ basepri[u] \in Nat
                          /\ pri \in Nat
    BY <1>1, <1>3, MutexAssumption DEF Sleeping, TypeOK, Pri
  <2>. QED
    BY <1>2, <1>3, <2>1 DEF NeverBelowBase, Sleeping, TypeOK
<1>6. pc' = pc /\ target' = target /\ slpret' = slpret /\ sleepq' = sleepq
  BY <1>2 DEF call
<1>7. TypeOK'
  BY <1>0, <1>2, <1>3, <1>4, <1>6 DEF Sleeping, TypeOK
<1>. QED
  BY <1>5, <1>6, <1>7, SleepingSame

\* thread_terminate(): the dead thread leaves its queue, and the mutexes it held
\* go to sleepers, which wake.
LEMMA BasicKill ==
  ASSUME Basic, NEW t \in Thread, Kill(t)
  PROVE  Basic'
<1>. USE DEF Basic
<1>. DEFINE held == mutexes[t]
            cancelled == [m \in held |-> Cancel(t, sleepq[m])]
            next == [m \in held |-> cancelled[m].heir]
            woken == {u \in Thread \ {t} : \E m \in held :
                        InQueue(u, sleepq[m]) /\ ~InQueue(u, cancelled[m].queue)}
            left == [m \in MutexId |-> IF m \in held THEN cancelled[m].queue ELSE sleepq[m]]
<1>1. /\ holder' = [m \in MutexId |-> IF m \in held THEN next[m] ELSE holder[m]]
      /\ locks' = [m \in MutexId |-> IF m \notin held THEN locks[m]
                                     ELSE IF next[m] = None THEN 0 ELSE 1]
      /\ mutexes' = [u \in Thread |->
                       IF u = t THEN {} ELSE mutexes[u] \cup {m \in held : next[m] = u}]
      /\ waiting' = NoLongerWaiting({next[m] : m \in held})
      /\ pc' = [u \in Thread |-> IF u = t THEN "dead"
                                 ELSE IF u \in woken THEN "woken" ELSE pc[u]]
      /\ slpret' = [u \in Thread |-> IF u \in woken THEN "SUCCESS" ELSE slpret[u]]
      /\ sleepq' = [m \in MutexId |-> Without(left[m], t)]
  BY DEF Kill
<1>2. astray' \in BOOLEAN
  <2>1. astray' = (astray \/ \E m \in mutexes[t] : GoesAstray(sleepq[m]))
    BY Zenon DEF Kill
  <2>2. astray \in BOOLEAN
    BY Zenon DEF Sleeping, TypeOK
  <2>. QED
    BY <2>1, <2>2, Zenon
<1>3. /\ depth' = [depth EXCEPT ![t] = [m \in MutexId |-> 0]]
      /\ UNCHANGED <<valid, mpriority, prios, target, broken>>
  BY DEF Kill
<1>4. held \subseteq MutexId
  BY DEF Sleeping, TypeOK
<1>5. ASSUME NEW m \in MutexId
      PROVE  sleepq[m] \in Seq(Thread) /\ Distinct(sleepq[m]) /\ priority \in [Thread -> Pri]
  BY DEF Sleeping, TypeOK, SleepersQueued
<1>6. ASSUME NEW m \in held
      PROVE  /\ next[m] \in Thread \cup {None}
             /\ cancelled[m].queue \in Seq(Thread)
             /\ Distinct(cancelled[m].queue)
             /\ Items(cancelled[m].queue) \subseteq Items(sleepq[m])
  <2>1. m \in MutexId /\ cancelled[m] = Cancel(t, sleepq[m])
    BY <1>4
  <2>. QED
    BY <2>1, <1>5, CancelQueue
<1>. HIDE DEF cancelled, next
<1>7. ASSUME NEW m \in MutexId
      PROVE  /\ left[m] \in Seq(Thread) /\ Distinct(left[m])
             /\ Items(left[m]) \subseteq Items(sleepq[m])
             /\ m \notin held => left[m] = sleepq[m]
  BY <1>5, <1>6
<1>8. \A u \in Thread : u \in woken <=>
        u # t /\ \E m \in MutexId : u \in Items(sleepq[m]) /\ u \notin Items(left[m])
  <2>1. \A m \in held : m \in MutexId /\ left[m] = cancelled[m].queue
    BY <1>4
  <2>2. \A m \in MutexId : m \notin held => left[m] = sleepq[m]
    OBVIOUS
  <2>. HIDE DEF held, left
  <2>3. \A u \in Thread : u \in woken <=>
        u # t /\ \E m \in held : u \in Items(sleepq[m]) /\ u \notin Items(cancelled[m].queue)
    BY InQueueItems
  <2>. HIDE DEF woken
  <2>. QED
    BY <2>1, <2>2, <2>3
<1>. HIDE DEF woken, left
<1>9. ASSUME NEW m \in MutexId
      PROVE  /\ sleepq'[m] \in Seq(Thread) /\ Distinct(sleepq'[m])
             /\ Items(sleepq'[m]) = Items(left[m]) \ {t}
  BY <1>1, <1>7, WithoutItems
<1>10. TypeOK'
  <2>1. holder' \in [MutexId -> Thread \cup {None}] /\ locks' \in [MutexId -> Nat]
    BY <1>1, <1>6 DEF Sleeping, TypeOK
  <2>2. mutexes' \in [Thread -> SUBSET MutexId] /\ waiting' \in [Thread -> MutexId \cup {None}]
    BY <1>1, <1>4 DEF Sleeping, TypeOK, NoLongerWaiting
  <2>3. /\ pc' \in [Thread -> {"user", "asleep", "woken", "dead"}]
        /\ slpret' \in [Thread -> {"SUCCESS", "INTR"}]
    BY <1>1 DEF Sleeping, TypeOK
  <2>4. sleepq' \in [MutexId -> Seq(Thread)]
    <3>1. sleepq' = [m \in MutexId |-> sleepq'[m]]
      BY <1>1
    <3>. QED
      BY <3>1, <1>9
  <2>5. depth' \in [Thread -> [MutexId -> Nat]]
    BY <1>3 DEF Sleeping, TypeOK
  <2>. QED
    BY <1>2, <1>3, <2>1, <2>2, <2>3, <2>4, <2>5 DEF Sleeping, TypeOK, prios
<1>11. SleepersQueued'
  <2>. USE <1>3
  <2>1. \A u \in Thread : /\ u = t => pc'[u] = "dead"
                          /\ u # t /\ u \in woken => pc'[u] = "woken"
                          /\ u # t /\ u \notin woken => pc'[u] = pc[u]
    BY <1>1
  <2>2. \A m \in MutexId, u \in Thread : u \in Items(sleepq[m]) <=> pc[u] = "asleep" /\ target[u] = m
    BY DEF Sleeping, SleepersQueued
  <2>3. ASSUME NEW m \in MutexId
        PROVE  Items(sleepq'[m]) = {u \in Thread : pc'[u] = "asleep" /\ target'[u] = m}
    <3>1. Items(sleepq'[m]) \subseteq Thread
      BY <1>9, NoItems
    <3>2. ASSUME NEW u \in Thread
          PROVE  u \in Items(sleepq'[m]) <=> pc'[u] = "asleep" /\ target'[u] = m
      <4>1. u \in Items(sleepq'[m]) <=> u \in Items(left[m]) /\ u # t
        BY <1>9
      <4>2. u \in Items(left[m]) => u \in Items(sleepq[m])
        BY <1>7
      <4>3. pc'[u] = "asleep" <=> pc[u] = "asleep" /\ u # t /\ u \notin woken
        BY <2>1
      <4>4. u \in Items(sleepq[m]) /\ u # t => (u \in woken <=> u \notin Items(left[m]))
        BY <1>8, <2>2
      <4>. QED
        BY <4>1, <4>2, <4>3, <4>4, <2>2
    <3>. QED
      BY <3>1, <3>2
  <2>4. ASSUME NEW u \in Thread, pc'[u] \in {"asleep", "woken"} PROVE target'[u] \in MutexId
    <3>1. pc[u] \in {"asleep", "woken"}
      BY <1>8, <2>1, <2>2, <2>4
    <3>. QED
      BY <3>1 DEF Sleeping, SleepersQueued
  <2>. QED
    BY <1>9, <2>3, <2>4 DEF SleepersQueued
<1>. QED
  BY <1>3, <1>10, <1>11 DEF NeverBelowBase, prios, Sleeping

\* A call of t leaves other threads that run alone: it wakes sleepers only.
LEMMA RunnersStay ==
  ASSUME Basic, NEW t \in Thread, NEW m \in MutexId,
         \/ MutexInit(t, m) \/ MutexDestroy(t, m) \/ LockAgain(t, m)
         \/ LockFree(t, m) \/ TrylockFree(t, m) \/ UnlockInner(t, m)
         \/ LockWait(t, m) \/ UnlockLast(t, m)
  PROVE  /\ \A u \in Thread \ {t} : pc[u] = "user" => pc'[u] = "user"
         /\ UnlockInner(t, m) \/ UnlockLast(t, m) => pc'[t] = "user"
<1>. USE DEF Basic, Sleeping, TypeOK, call
<1>1. CASE LockWait(t, m)
  BY <1>1 DEF LockWait, UnlockInner, UnlockLast
<1>2. CASE UnlockLast(t, m)
  <2>. DEFINE q == sleepq[m]
  <2>1. CASE ReturnedBy(q) = None
    BY <1>2, <2>1 DEF UnlockLast, Calls
  <2>2. CASE ReturnedBy(q) # None
    <3>1. pc' = [pc EXCEPT ![WokenBy(q)] = "woken"] /\ pc[t] = "user"
      BY <1>2, <2>2 DEF UnlockLast, Calls
    <3>2. WokenBy(q) \in Items(q)
      BY <2>2, WakesSleeper DEF ReturnedBy
    <3>3. pc[WokenBy(q)] = "asleep"
      BY <3>2 DEF SleepersQueued
    <3>. QED
      BY <3>1, <3>3
  <2>. QED
    BY <2>1, <2>2
<1>3. CASE pc' = pc
  BY <1>3 DEF UnlockInner, UnlockLast, Calls
<1>. QED
  BY <1>1, <1>2, <1>3 DEF MutexInit, MutexDestroy, LockAgain, LockFree, TrylockFree, UnlockInner

LEMMA RunnersOutliveKill ==
  ASSUME Basic, NEW t \in Thread, Kill(t)
  PROVE  \A u \in Thread \ {t} : pc[u] = "user" => pc'[u] = "user"
<1>. DEFINE cancelled == [m \in mutexes[t] |-> Cancel(t, sleepq[m])]
            woken == {u \in Thread \ {t} : \E m \in mutexes[t] :
                        InQueue(u, sleepq[m]) /\ ~InQueue(u, cancelled[m].queue)}
<1>1. pc' = [u \in Thread |-> IF u = t THEN "dead"
                              ELSE IF u \in woken THEN "woken" ELSE pc[u]]
  BY DEF Kill
<1>2. ASSUME NEW u \in woken PROVE pc[u] = "asleep"
  <2>1. PICK m \in mutexes[t] : InQueue(u, sleepq[m])
    BY <1>2
  <2>. QED
    BY <1>2, <2>1, InQueueItems DEF Basic, Sleeping, SleepersQueued, TypeOK
<1>. HIDE DEF woken
<1>. QED
  BY <1>1, <1>2

\* Who sleeps on a condition variable runs, as far as the mutexes know, is in a
\* call of cond_wait(), and sleeps on this one, once, and it is not destroyed.
CondSleeping ==
  /\ cvalid \in SUBSET CondId
  /\ csleepq \in [CondId -> Seq(Thread)]
  /\ cwait \in [Thread -> MutexId \cup {None}]
  /\ \A c \in CondId : csleepq[c] # <<>> => c \in cvalid
  /\ \A c \in CondId : Distinct(csleepq[c])
  /\ \A c, d \in CondId : c # d => Items(csleepq[c]) \cap Items(csleepq[d]) = {}
  /\ \A t \in Thread, c \in CondId : t \in Items(csleepq[c]) => cwait[t] # None /\ pc[t] = "user"

\* A step that takes threads off the sleep queues, or none.
LEMMA CondSleepingFewer ==
  ASSUME CondSleeping, NEW out \in SUBSET Thread,
         cvalid' = cvalid, cwait' \in [Thread -> MutexId \cup {None}],
         csleepq' \in [CondId -> Seq(Thread)],
         \A c \in CondId : /\ Distinct(csleepq'[c])
                           /\ Items(csleepq'[c]) \subseteq Items(csleepq[c]) \ out,
         \A u \in Thread : u \notin out /\ pc[u] = "user" /\ cwait[u] # None =>
           \/ pc'[u] = "user" /\ cwait'[u] # None
           \/ ~Blocked(u)
  PROVE  CondSleeping'
<1>1. \A c \in CondId : csleepq'[c] # <<>> => c \in cvalid'
  <2>1. \A c \in CondId : csleepq[c] = <<>> => Items(csleepq'[c]) = {}
    BY NoItems
  <2>. QED
    BY <2>1, NoItems DEF CondSleeping
<1>2. ASSUME NEW u \in Thread, NEW c \in CondId, u \in Items(csleepq'[c])
      PROVE  cwait'[u] # None /\ pc'[u] = "user"
  BY <1>2, InQueueItems DEF CondSleeping, Blocked
<1>. QED
  BY <1>1, <1>2 DEF CondSleeping

CondBasic == Basic /\ CondSleeping

LEMMA CondBasicInit == CondInit => CondBasic
<1>. SUFFICES ASSUME CondInit PROVE CondBasic
  OBVIOUS
<1>1. Sleeping
  BY SleepingInit DEF CondInit
<1>2. NeverBelowBase
  BY MutexAssumption DEF CondInit, Init, NeverBelowBase
<1>3. CondSleeping
  <2>1. Items(<<>>) = {} /\ Distinct(<<>>) /\ <<>> \in Seq(Thread)
    BY NoItems, EmptySeq
  <2>. QED
    BY <2>1 DEF CondInit, CondSleeping
<1>. QED
  BY <1>1, <1>2, <1>3 DEF CondBasic, Basic

\* A step that leaves the condition variables alone, by a thread that is in no
\* call of cond_wait() or past its sleep.
LEMMA CondSleepingSame ==
  ASSUME CondSleeping, NEW t \in Thread, cvalid' = cvalid, csleepq' = csleepq,
         cwait' \in [Thread -> MutexId \cup {None}],
         \A u \in Thread \ {t} : cwait'[u] = cwait[u],
         \A u \in Thread \ {t} : pc[u] = "user" => pc'[u] = "user",
         ~Blocked(t)
  PROVE  CondSleeping'
<1>. SUFFICES
       /\ csleepq' \in [CondId -> Seq(Thread)]
       /\ \A c \in CondId : /\ Distinct(csleepq'[c])
                            /\ Items(csleepq'[c]) \subseteq Items(csleepq[c]) \ {}
       /\ \A u \in Thread : u \notin {} /\ pc[u] = "user" /\ cwait[u] # None =>
            \/ pc'[u] = "user" /\ cwait'[u] # None
            \/ ~Blocked(u)
  BY CondSleepingFewer
<1>. QED
  BY DEF CondSleeping

LEMMA Unblocked ==
  ASSUME CondSleeping, NEW t \in Thread, cwait[t] = None \/ pc[t] # "user"
  PROVE  ~Blocked(t)
BY InQueueItems DEF CondSleeping, Blocked

LEMMA CondBasicStep == CondBasic /\ [CondNext]_cvars => CondBasic'
<1>. SUFFICES ASSUME CondBasic, [CondNext]_cvars PROVE CondBasic'
  OBVIOUS
<1>. USE DEF CondBasic
<1>t. /\ cvalid \in SUBSET CondId /\ csleepq \in [CondId -> Seq(Thread)]
      /\ cwait \in [Thread -> MutexId \cup {None}]
  BY DEF CondSleeping
<1>1. CASE UNCHANGED cvars
  <2>1. /\ UNCHANGED <<valid, holder, locks, mpriority, sleepq, waiting, mutexes, priority>>
        /\ UNCHANGED <<basepri, pc, target, slpret, depth, broken>>
        /\ UNCHANGED <<cvalid, csleepq, cwait>>
    BY <1>1 DEF cvars, vars
  <2>2. astray' = astray
    BY <1>1, Zenon DEF cvars, vars
  <2>3. TypeOK'
    <3>1. astray' \in BOOLEAN
      BY <2>2, Zenon DEF Basic, Sleeping, TypeOK
    <3>. QED
      BY <2>1, <3>1 DEF Basic, Sleeping, TypeOK
  <2>. QED
    BY <2>1, <2>3, SleepingSame DEF Basic, NeverBelowBase, CondSleeping
<1>c. ASSUME UNCHANGED vars PROVE Basic'
  <2>1. /\ UNCHANGED <<valid, holder, locks, mpriority, sleepq, waiting, mutexes, priority>>
        /\ UNCHANGED <<basepri, pc, target, slpret, depth, broken>>
    BY <1>c DEF vars
  <2>2. astray' \in BOOLEAN
    BY <1>c, Zenon DEF vars, Basic, Sleeping, TypeOK
  <2>3. TypeOK'
    BY <2>1, <2>2 DEF Basic, Sleeping, TypeOK
  <2>. QED
    BY <2>1, <2>3, SleepingSame DEF Basic, NeverBelowBase
<1>2. ASSUME NEW t \in Thread, NEW c \in CondId, CondCreate(t, c) PROVE CondBasic'
  <2>1. UNCHANGED vars /\ UNCHANGED cwait /\ pc' = pc
    BY <1>2 DEF CondCreate, vars
  <2>2. csleepq[c] = <<>> /\ csleepq' = csleepq
    BY <1>2 DEF CondCreate, CondSleeping
  <2>. QED
    BY <1>2, <1>c, <2>1, <2>2 DEF CondCreate, CondSleeping
<1>3. ASSUME NEW t \in Thread, NEW c \in CondId, CondDestroy(t, c) PROVE CondBasic'
  <2>1. UNCHANGED vars /\ UNCHANGED <<csleepq, cwait>> /\ pc' = pc
    BY <1>3 DEF CondDestroy, vars
  <2>. QED
    BY <1>3, <1>c, <2>1 DEF CondDestroy, CondSleeping
<1>4. ASSUME NEW t \in Thread, NEW c \in CondId, CondSignal(t, c) \/ CondBroadcast(t, c)
      PROVE  CondBasic'
  <2>1. UNCHANGED vars /\ UNCHANGED <<cvalid, cwait>> /\ pc' = pc
    BY <1>4 DEF CondSignal, CondBroadcast, vars
  <2>2. PICK q \in Seq(Thread) : /\ csleepq' = [csleepq EXCEPT ![c] = q] /\ Distinct(q)
                                 /\ Items(q) \subseteq Items(csleepq[c])
    <3>1. csleepq[c] \in Seq(Thread) /\ Distinct(csleepq[c])
      BY DEF CondSleeping
    <3>2. CASE CondBroadcast(t, c)
      BY <3>2, NoItems, EmptySeq DEF CondBroadcast
    <3>3. CASE CondSignal(t, c)
      BY <3>1, <3>3, WithoutItems DEF CondSignal
    <3>. QED
      BY <3>2, <3>3, <1>4
  <2>3. /\ csleepq' \in [CondId -> Seq(Thread)]
        /\ \A d \in CondId : /\ Distinct(csleepq'[d])
                             /\ Items(csleepq'[d]) \subseteq Items(csleepq[d]) \ {}
    BY <2>2 DEF CondSleeping
  <2>4. CondSleeping'
    BY <2>1, <2>3, <1>t, CondSleepingFewer
  <2>. QED
    BY <1>c, <2>1, <2>4
<1>5. ASSUME NEW t \in Thread, NEW c \in CondId, NEW m \in MutexId, CondWait(t, c, m)
      PROVE  CondBasic'
  <2>1. Basic' /\ pc'[t] = "user" /\ \A u \in Thread \ {t} : pc[u] = "user" => pc'[u] = "user"
    BY <1>5, BasicQuiet, BasicUnlockLast, RunnersStay DEF CondWait
  <2>2. /\ cwait[t] = None /\ c \in cvalid /\ cvalid' = cvalid
        /\ csleepq' = [csleepq EXCEPT ![c] = Append(@, t)]
        /\ cwait' = [cwait EXCEPT ![t] = m]
    BY <1>5 DEF CondWait, CallsCond
  <2>3. \A d \in CondId : csleepq[d] \in Seq(Thread) /\ Distinct(csleepq[d])
                          /\ t \notin Items(csleepq[d])
    BY <2>2 DEF CondSleeping
  <2>4. /\ csleepq'[c] \in Seq(Thread) /\ Distinct(csleepq'[c])
        /\ Items(csleepq'[c]) = Items(csleepq[c]) \cup {t}
    BY <2>2, <2>3, <1>t, EnqueueItems
  <2>5. \A d \in CondId : d # c => csleepq'[d] = csleepq[d]
    BY <2>2, <1>t
  <2>6. csleepq' \in [CondId -> Seq(Thread)] /\ cwait' \in [Thread -> MutexId \cup {None}]
    BY <2>2, <2>4, <1>t
  <2>7. ASSUME NEW d \in CondId, NEW e \in CondId, d # e
        PROVE  Items(csleepq'[d]) \cap Items(csleepq'[e]) = {}
    <3>1. Items(csleepq[d]) \cap Items(csleepq[e]) = {}
      BY <2>7 DEF CondSleeping
    <3>2. /\ t \notin Items(csleepq[d]) /\ t \notin Items(csleepq[e])
          /\ d # c => Items(csleepq'[d]) = Items(csleepq[d])
          /\ e # c => Items(csleepq'[e]) = Items(csleepq[e])
      BY <2>3, <2>5
    <3>. QED
      BY <2>4, <2>7, <3>1, <3>2
  <2>8. ASSUME NEW u \in Thread, NEW d \in CondId, u \in Items(csleepq'[d])
        PROVE  cwait'[u] # None /\ pc'[u] = "user"
    <3>1. CASE u = t
      BY <3>1, <2>1, <2>2, <1>t, MutexAssumption
    <3>2. CASE u # t
      <4>1. u \in Items(csleepq[d])
        BY <2>4, <2>5, <2>8, <3>2
      <4>2. cwait[u] # None /\ pc[u] = "user"
        BY <4>1 DEF CondSleeping
      <4>. QED
        BY <4>2, <3>2, <2>1, <2>2, <1>t
    <3>. QED
      BY <3>1, <3>2
  <2>9. \A d \in CondId : Distinct(csleepq'[d]) /\ (csleepq'[d] # <<>> => d \in cvalid')
    BY <2>2, <2>3, <2>4, <2>5 DEF CondSleeping
  <2>. QED
    BY <1>t, <2>1, <2>2, <2>6, <2>7, <2>8, <2>9 DEF CondSleeping
<1>6. ASSUME NEW t \in Thread, NEW m \in MutexId, MutexCall(t, m) PROVE CondBasic'
  <2>1. cwait[t] = None /\ UNCHANGED <<cvalid, csleepq, cwait>>
    BY <1>6 DEF MutexCall, conds
  <2>2. \/ MutexInit(t, m) \/ MutexDestroy(t, m) \/ LockAgain(t, m)
        \/ LockFree(t, m) \/ TrylockFree(t, m) \/ UnlockInner(t, m)
        \/ LockWait(t, m) \/ UnlockLast(t, m)
    BY <1>6 DEF MutexCall
  <2>3. Basic'
    BY <2>2, BasicQuiet, BasicLockWait, BasicUnlockLast
  <2>4. \A u \in Thread \ {t} : pc[u] = "user" => pc'[u] = "user"
    BY <2>2, RunnersStay
  <2>. QED
    BY <1>t, <2>1, <2>3, <2>4, Unblocked, CondSleepingSame
<1>7. ASSUME NEW t \in Thread, RelockTaken(t) \/ RelockWait(t) \/ RelockInvalid(t)
      PROVE  CondBasic'
  <2>. DEFINE m == cwait[t]
  <2>1. ~Blocked(t) /\ m \in MutexId /\ cvalid' = cvalid /\ csleepq' = csleepq
    BY <1>7, <1>t DEF RelockTaken, RelockWait, RelockInvalid, Relocking
  <2>2. \E x \in {None, m} : cwait' = [cwait EXCEPT ![t] = x]
    BY <1>7, <1>t DEF RelockTaken, RelockWait, RelockInvalid
  <2>3. \/ LockAgain(t, m) \/ LockFree(t, m) \/ LockWait(t, m) \/ UNCHANGED vars
    BY <1>7 DEF RelockTaken, RelockWait, RelockInvalid
  <2>4. Basic'
    BY <1>c, <2>1, <2>3, BasicQuiet, BasicLockWait
  <2>5. \A u \in Thread \ {t} : pc[u] = "user" => pc'[u] = "user"
    BY <2>1, <2>3, RunnersStay DEF vars
  <2>6. cwait' \in [Thread -> MutexId \cup {None}] /\ \A u \in Thread \ {t} : cwait'[u] = cwait[u]
    BY <1>t, <2>1, <2>2
  <2>. QED
    BY <2>1, <2>4, <2>5, <2>6, CondSleepingSame
<1>8. ASSUME NEW t \in Thread, LockReturns(t) PROVE CondBasic'
  <2>1. Basic'
    BY <1>8, BasicLockReturn DEF LockReturns
  <2>2. /\ pc[t] = "woken" /\ pc' = [pc EXCEPT ![t] = "user"]
        /\ cwait' = [cwait EXCEPT ![t] = None] /\ UNCHANGED <<cvalid, csleepq>>
    BY <1>8 DEF LockReturns, LockReturn
  <2>3. /\ \A u \in Thread \ {t} : pc'[u] = pc[u] /\ cwait'[u] = cwait[u]
        /\ cwait' \in [Thread -> MutexId \cup {None}]
    BY <2>2, <1>t DEF Basic, Sleeping, TypeOK
  <2>. QED
    BY <2>1, <2>2, <2>3, Unblocked, CondSleepingSame
<1>9. ASSUME NEW t \in Thread, MutexInterrupt(t) PROVE CondBasic'
  <2>1. Basic' /\ pc[t] = "asleep" /\ pc' = [pc EXCEPT ![t] = "woken"]
        /\ UNCHANGED <<cvalid, csleepq, cwait>>
    BY <1>9, BasicInterrupt DEF MutexInterrupt, Interrupt, conds
  <2>2. \A u \in Thread \ {t} : pc'[u] = pc[u]
    BY <2>1 DEF Basic, Sleeping, TypeOK
  <2>. QED
    BY <1>t, <2>1, <2>2, Unblocked, CondSleepingSame
<1>10. ASSUME NEW t \in Thread, CondInterrupt(t) \/ CondKill(t) PROVE CondBasic'
  <2>1. /\ csleepq' = [c \in CondId |-> Without(csleepq[c], t)]
        /\ cwait' = [cwait EXCEPT ![t] = None] /\ cvalid' = cvalid
    BY <1>10 DEF CondInterrupt, CondKill
  <2>2. Basic' /\ \A u \in Thread \ {t} : pc[u] = "user" => pc'[u] = "user"
    BY <1>10, <1>c, BasicKill, RunnersOutliveKill DEF CondInterrupt, CondKill, vars
  <2>3. ASSUME NEW c \in CondId
        PROVE  /\ csleepq'[c] \in Seq(Thread) /\ Distinct(csleepq'[c])
               /\ Items(csleepq'[c]) \subseteq Items(csleepq[c]) \ {t}
    BY <2>1, <1>t, WithoutItems DEF CondSleeping
  <2>4. csleepq' \in [CondId -> Seq(Thread)]
    <3>1. csleepq' = [c \in CondId |-> csleepq'[c]]
      BY <2>1
    <3>. QED
      BY <3>1, <2>3
  <2>5. cwait' \in [Thread -> MutexId \cup {None}] /\ \A u \in Thread \ {t} : cwait'[u] = cwait[u]
    BY <2>1, <1>t
  <2>6. \A u \in Thread : u \notin {t} /\ pc[u] = "user" /\ cwait[u] # None =>
          \/ pc'[u] = "user" /\ cwait'[u] # None
          \/ ~Blocked(u)
    BY <2>2, <2>5
  <2>7. {t} \in SUBSET Thread
    OBVIOUS
  <2>8. CondSleeping'
    BY <2>1, <2>3, <2>4, <2>5, <2>6, <2>7, CondSleepingFewer
  <2>. QED
    BY <2>2, <2>8
<1>11. ASSUME NEW t \in Thread, NEW p \in 0..(MINPRI - 1), CondSetpri(t, p) PROVE CondBasic'
  <2>1. Basic' /\ UNCHANGED <<cvalid, csleepq, cwait>> /\ pc' = pc
    BY <1>11, BasicSetpri DEF CondSetpri, Setpri, conds, call
  <2>. QED
    BY <2>1 DEF CondSleeping
<1>12. CASE CondNext
  BY <1>12, <1>2, <1>3, <1>4, <1>5, <1>6, <1>7, <1>8, <1>9, <1>10, <1>11 DEF CondNext
<1>. QED
  BY <1>1, <1>12

\* What sleeps where: a thread is in one sleep queue at most, whatever wakes,
\* interrupts or terminates threads in mutex_lock() and cond_wait().
THEOREM OneQueuePerSleeper == CondSpec => []OneSleepQueue
<1>1. CondBasic => OneSleepQueue
  <2>. SUFFICES ASSUME CondBasic PROVE OneSleepQueue
    OBVIOUS
  <2>1. ASSUME NEW t \in Thread, Blocked(t)
        PROVE  cwait[t] # None /\ pc[t] = "user" /\ \A m \in MutexId : ~InQueue(t, sleepq[m])
    BY <2>1, InQueueItems, Unblocked, AwakeUnqueued DEF CondBasic, Basic
  <2>. QED
    BY <2>1 DEF CondBasic, Basic, Sleeping, SleepersQueued, CondSleeping, OneSleepQueue
<1>. QED
  BY <1>1, CondBasicInit, CondBasicStep, PTL DEF CondSpec

\* Priority inheritance, its end in mutex_unlock() and changes of the priority in
\* between never leave a thread below its base priority.
THEOREM InheritanceOnlyRaises == CondSpec => []NeverBelowBase
<1>1. CondBasic => NeverBelowBase
  BY DEF CondBasic, Basic
<1>. QED
  BY <1>1, CondBasicInit, CondBasicStep, PTL DEF CondSpec
-----------------------------------------------------------------------------
\* The rest is about the mutex calls alone (Spec).  A mutex is idle, held by a
\* thread, or on its way to the thread that mutex_unlock() has woken; the thread
\* it names as its holder meanwhile is that one, or waits for it as well.
Idle(m) ==
  /\ holder[m] = None /\ sleepq[m] = <<>>
  /\ \A u \in Thread : depth[u][m] = 0 /\ m \notin mutexes[u] /\ target[u] # m

Held(m, t) ==
  /\ holder[m] = t /\ locks[m] > 0 /\ depth[t][m] = locks[m] /\ m \in mutexes[t]
  /\ \A u \in Thread \ {t} : depth[u][m] = 0 /\ m \notin mutexes[u]
  /\ \A u \in Thread : target[u] = m => pc[u] = "asleep"

Passing(m, w) ==
  /\ holder[m] \in Thread /\ target[holder[m]] = m
  /\ pc[w] = "woken" /\ target[w] = m
  /\ \A u \in Thread : depth[u][m] = 0 /\ m \notin mutexes[u]
  /\ \A u \in Thread \ {w} : target[u] = m => pc[u] = "asleep"
  /\ astray \/ holder[m] = w

Owned(m) == Idle(m) \/ (m \in valid /\ \E t \in Thread : Held(m, t) \/ Passing(m, t))

\* What the records of a thread say of its call.
Called(t) ==
  /\ slpret[t] = "SUCCESS" /\ pc[t] # "dead"
  /\ pc[t] = "user" => target[t] = None /\ waiting[t] = None
  /\ pc[t] # "user" => target[t] \in valid
  /\ astray \/ waiting[t] = IF pc[t] = "asleep" THEN target[t] ELSE None

Books ==
  /\ Basic
  /\ \A m \in MutexId : Owned(m)
  /\ \A t \in Thread : Called(t)

LEMMA BasicSpec == Basic /\ [Next]_vars => Basic'
<1>. SUFFICES ASSUME Basic, [Next]_vars PROVE Basic'
  OBVIOUS
<1>1. CASE UNCHANGED vars
  <2>1. /\ UNCHANGED <<valid, holder, locks, mpriority, sleepq, waiting, mutexes, priority>>
        /\ UNCHANGED <<basepri, pc, target, slpret, depth, broken>>
    BY <1>1 DEF vars
  <2>2. astray' \in BOOLEAN
    BY <1>1, Zenon DEF vars, Basic, Sleeping, TypeOK
  <2>3. TypeOK'
    BY <2>1, <2>2 DEF Basic, Sleeping, TypeOK
  <2>. QED
    BY <2>1, <2>3, SleepingSame DEF Basic, NeverBelowBase
<1>2. CASE Next
  BY <1>2, BasicQuiet, BasicLockWait, BasicUnlockLast, BasicLockReturn DEF Next
<1>. QED
  BY <1>1, <1>2

LEMMA BooksInit == Init => Books
<1>. SUFFICES ASSUME Init PROVE Books
  OBVIOUS
<1>1. Basic
  BY SleepingInit, MutexAssumption DEF Init, Basic, NeverBelowBase
<1>2. ASSUME NEW m \in MutexId PROVE Owned(m)
  BY MutexAssumption DEF Init, Owned, Idle
<1>3. ASSUME NEW t \in Thread PROVE Called(t)
  BY DEF Init, Called
<1>. QED
  BY <1>1, <1>2, <1>3 DEF Books

\* A thread that calls is not on its way out of mutex_lock().
LEMMA CallerOutside ==
  ASSUME Books, NEW t \in Thread, Calls(t)
  PROVE  pc[t] = "user" /\ target[t] = None /\ waiting[t] = None /\ broken = {}
BY DEF Books, Called, Calls

\* A mutex that a step leaves alone, and the threads in mutex_lock() for it too.
LEMMA OwnedKept ==
  ASSUME NEW n \in MutexId, Owned(n),
         holder'[n] = holder[n], locks'[n] = locks[n],
         sleepq'[n] = sleepq[n], n \in valid => n \in valid',
         \A u \in Thread : /\ depth'[u][n] = depth[u][n]
                           /\ n \in mutexes'[u] <=> n \in mutexes[u]
                           /\ target'[u] = n <=> target[u] = n
                           /\ target[u] = n => pc'[u] = pc[u],
         astray => astray'
  PROVE  Owned(n)'
<1>1. CASE Idle(n)
  BY <1>1 DEF Owned, Idle
<1>2. CASE ~Idle(n)
  <2>1. PICK t \in Thread : n \in valid' /\ (Held(n, t) \/ Passing(n, t))
    BY <1>2 DEF Owned
  <2>2. CASE Held(n, t)
    <3>1. Held(n, t)'
      BY <2>2 DEF Held
    <3>. QED
      BY <2>1, <3>1 DEF Owned
  <2>3. CASE Passing(n, t)
    <3>1. astray' \/ holder'[n] = t
      BY <2>3, Zenon DEF Passing
    <3>2. Passing(n, t)'
      BY <2>3, <3>1 DEF Passing
    <3>. QED
      BY <2>1, <3>2 DEF Owned
  <2>. QED
    BY <2>1, <2>2, <2>3
<1>. QED
  BY <1>1, <1>2

\* Who owns a mutex that a running thread is the holder of, that is on a list,
\* or that nobody is the holder of.
LEMMA OwnedBy ==
  ASSUME Books, NEW m \in MutexId
  PROVE  /\ \A t \in Thread : pc[t] = "user" /\ holder[m] = t => m \in valid /\ Held(m, t)
         /\ \A t \in Thread : m \in mutexes[t] \/ depth[t][m] > 0 => m \in valid /\ Held(m, t)
         /\ holder[m] = None => Idle(m)
         /\ holder[m] # None => m \in valid
         /\ \A t \in Thread : pc[t] = "woken" /\ target[t] = m => m \in valid /\ Passing(m, t)
<1>1. Owned(m) /\ \A t \in Thread : Called(t)
  BY DEF Books
<1>2. CASE Idle(m)
  BY <1>2, MutexAssumption DEF Idle
<1>3. CASE ~Idle(m)
  <2>1. PICK o \in Thread : m \in valid /\ (Held(m, o) \/ Passing(m, o))
    BY <1>1, <1>3 DEF Owned
  <2>2. CASE Held(m, o)
    BY <2>1, <2>2, MutexAssumption DEF Held
  <2>3. CASE Passing(m, o)
    BY <1>1, <2>1, <2>3, MutexAssumption DEF Passing, Called
  <2>. QED
    BY <2>1, <2>2, <2>3
<1>. QED
  BY <1>2, <1>3

LEMMA DepthElsewhere ==
  ASSUME TypeOK, NEW t \in Thread, NEW m \in MutexId, NEW x,
         depth' = [depth EXCEPT ![t][m] = x], NEW n \in MutexId, n # m
  PROVE  \A u \in Thread : depth'[u][n] = depth[u][n]
BY DEF TypeOK

\* Calls that no sleeper notices.
LEMMA BooksQuiet ==
  ASSUME Books, NEW t \in Thread, NEW m \in MutexId,
         \/ MutexInit(t, m) \/ MutexDestroy(t, m) \/ LockAgain(t, m)
         \/ LockFree(t, m) \/ TrylockFree(t, m) \/ UnlockInner(t, m)
  PROVE  Books'
<1>1. Basic'
  BY BasicQuiet DEF Books
<1>2. /\ pc[t] = "user" /\ target[t] = None /\ Calls(t)
      /\ pc' = pc /\ target' = target /\ slpret' = slpret /\ sleepq' = sleepq
      /\ waiting' = waiting /\ astray' = astray
  <2>1. Calls(t)
    BY DEF MutexInit, MutexDestroy, LockAgain, LockFree, TrylockFree, UnlockInner
  <2>2. astray' = astray
    BY Zenon DEF MutexInit, MutexDestroy, LockAgain, LockFree, TrylockFree, UnlockInner
  <2>. QED
    BY <2>1, <2>2, CallerOutside
       DEF MutexInit, MutexDestroy, LockAgain, LockFree, TrylockFree, UnlockInner, call
<1>3. TypeOK
  BY DEF Books, Basic, Sleeping
<1>4. ASSUME NEW n \in MutexId, n # m PROVE Owned(n)'
  <2>1. /\ holder'[n] = holder[n] /\ locks'[n] = locks[n] /\ (n \in valid => n \in valid')
        /\ \A u \in Thread : /\ depth'[u][n] = depth[u][n]
                             /\ n \in mutexes'[u] <=> n \in mutexes[u]
    <3>1. CASE LockFree(t, m) \/ TrylockFree(t, m)
      <4>1. /\ locks' = [locks EXCEPT ![m] = 1]
            /\ holder' = [holder EXCEPT ![m] = t]
            /\ mutexes' = [mutexes EXCEPT ![t] = @ \cup {m}]
            /\ depth' = [depth EXCEPT ![t][m] = depth[t][m] + 1]
            /\ valid' = valid
        BY <1>3, <3>1 DEF LockFree, TrylockFree, Acquire, TypeOK
      <4>2. \A u \in Thread : depth'[u][n] = depth[u][n]
        BY <1>3, <1>4, <4>1, DepthElsewhere
      <4>. QED
        BY <1>3, <1>4, <4>1, <4>2 DEF TypeOK
    <3>2. CASE MutexInit(t, m) \/ MutexDestroy(t, m)
      BY <1>3, <1>4, <3>2 DEF MutexInit, MutexDestroy, TypeOK, object
    <3>3. CASE LockAgain(t, m) \/ UnlockInner(t, m)
      <4>1. /\ \E x : locks' = [locks EXCEPT ![m] = x]
            /\ \E x : depth' = [depth EXCEPT ![t][m] = x]
            /\ holder' = holder /\ mutexes' = mutexes /\ valid' = valid
        <5>1. CASE LockAgain(t, m)
          BY <5>1, Zenon DEF LockAgain
        <5>2. CASE UnlockInner(t, m)
          BY <5>2, Zenon DEF UnlockInner
        <5>. QED
          BY <3>3, <5>1, <5>2
      <4>2. \A u \in Thread : depth'[u][n] = depth[u][n]
        BY <1>3, <1>4, <4>1, DepthElsewhere
      <4>. QED
        BY <1>3, <1>4, <4>1, <4>2 DEF TypeOK
    <3>. QED
      BY <3>1, <3>2, <3>3
  <2>2. Owned(n) /\ (astray => astray')
    BY <1>2, Zenon DEF Books
  <2>. QED
    BY <1>2, <2>1, <2>2, OwnedKept
<1>5. Owned(m)'
  <2>1. CASE MutexInit(t, m)
    <3>1. Idle(m)
      BY <2>1, OwnedBy DEF MutexInit
    <3>2. Idle(m)'
      BY <1>2, <1>3, <2>1, <3>1 DEF MutexInit, Idle, TypeOK
    <3>. QED
      BY <3>2 DEF Owned
  <2>2. CASE MutexDestroy(t, m)
    <3>1. Idle(m)
      BY <2>2, OwnedBy DEF MutexDestroy
    <3>2. Idle(m)'
      BY <1>2, <2>2, <3>1 DEF MutexDestroy, Idle, object
    <3>. QED
      BY <3>2 DEF Owned
  <2>3. CASE LockAgain(t, m) \/ UnlockInner(t, m)
    <3>1. Held(m, t)
      BY <1>2, <2>3, OwnedBy DEF LockAgain, UnlockInner
    <3>2. /\ locks'[m] > 0 /\ depth'[t][m] = locks'[m]
          /\ \A u \in Thread \ {t} : depth'[u][m] = depth[u][m]
      BY <1>3, <2>3, <3>1 DEF LockAgain, UnlockInner, Held, TypeOK
    <3>3. m \in valid' /\ holder' = holder /\ mutexes' = mutexes
      BY <2>3 DEF LockAgain, UnlockInner
    <3>4. Held(m, t)'
      BY <1>2, <3>1, <3>2, <3>3 DEF Held
    <3>. QED
      BY <3>3, <3>4 DEF Owned
  <2>4. CASE LockFree(t, m) \/ TrylockFree(t, m)
    <3>1. Idle(m) /\ m \in valid' /\ Acquire(t, m)
      BY <2>4, OwnedBy DEF LockFree, TrylockFree
    <3>2. Held(m, t)'
      BY <1>2, <1>3, <3>1 DEF Acquire, Held, Idle, TypeOK
    <3>. QED
      BY <3>1, <3>2 DEF Owned
  <2>. QED
    BY <2>1, <2>2, <2>3, <2>4
<1>6. ASSUME NEW u \in Thread PROVE Called(u)'
  <2>1. Called(u) /\ (astray => astray')
    BY <1>2, Zenon DEF Books
  <2>2. target[u] \in valid => target[u] \in valid'
    <3>1. CASE MutexDestroy(t, m)
      <4>1. Idle(m)
        BY <3>1, OwnedBy DEF MutexDestroy
      <4>. QED
        BY <3>1, <4>1 DEF MutexDestroy, Idle
    <3>2. CASE ~MutexDestroy(t, m)
      BY <3>2 DEF MutexInit, LockAgain, LockFree, TrylockFree, UnlockInner
    <3>. QED
      BY <3>1, <3>2
  <2>3. astray' \/ waiting'[u] = IF pc'[u] = "asleep" THEN target'[u] ELSE None
    BY <1>2, <2>1 DEF Called
  <2>4. /\ slpret'[u] = "SUCCESS" /\ pc'[u] # "dead"
        /\ pc'[u] = "user" => target'[u] = None /\ waiting'[u] = None
        /\ pc'[u] # "user" => target'[u] \in valid'
    BY <1>2, <2>1, <2>2 DEF Called
  <2>. QED
    BY <2>3, <2>4 DEF Called
<1>. QED
  BY <1>1, <1>4, <1>5, <1>6 DEF Books

\* mutex_lock() that refuses, or joins the threads asleep for the mutex.
LEMMA BooksLockWait ==
  ASSUME Books, NEW t \in Thread, NEW m \in MutexId, LockWait(t, m)
  PROVE  Books'
<1>1. Basic'
  BY BasicLockWait DEF Books
<1>2. /\ pc[t] = "user" /\ target[t] = None
      /\ holder' = holder /\ locks' = locks /\ valid' = valid /\ mutexes' = mutexes
      /\ depth' = depth
      /\ m \in valid /\ holder[m] # None
  BY CallerOutside DEF LockWait
<1>3. TypeOK
  BY DEF Books, Basic, Sleeping
<1>4. astray' = astray
  BY Zenon DEF LockWait
<1>5. CASE FindsDeadlock(t, m)
  <2>1. UNCHANGED <<waiting, pc, target, slpret, sleepq>>
    BY <1>5 DEF LockWait, call
  <2>2. ASSUME NEW n \in MutexId PROVE Owned(n)'
    <3>1. Owned(n) /\ (astray => astray')
      BY <1>4, Zenon DEF Books
    <3>. QED
      BY <1>2, <2>1, <3>1, OwnedKept
  <2>3. ASSUME NEW u \in Thread PROVE Called(u)'
    <3>1. Called(u) /\ (astray => astray')
      BY <1>4, Zenon DEF Books
    <3>2. astray' \/ waiting'[u] = IF pc'[u] = "asleep" THEN target'[u] ELSE None
      BY <2>1, <3>1 DEF Called
    <3>. QED
      BY <1>2, <2>1, <3>1, <3>2 DEF Called
  <2>. QED
    BY <1>1, <2>2, <2>3 DEF Books
<1>6. CASE ~FindsDeadlock(t, m)
  <2>1. /\ waiting' = [waiting EXCEPT ![t] = m]
        /\ target' = [target EXCEPT ![t] = m]
        /\ pc' = [pc EXCEPT ![t] = "asleep"]
        /\ sleepq' = [sleepq EXCEPT ![m] = Append(@, t)]
        /\ UNCHANGED slpret
    BY <1>6 DEF LockWait
  <2>2. \A u \in Thread \ {t} : /\ waiting'[u] = waiting[u] /\ target'[u] = target[u]
                                /\ pc'[u] = pc[u]
    BY <1>3, <2>1 DEF TypeOK
  <2>3. target'[t] = m /\ waiting'[t] = m /\ pc'[t] = "asleep"
    BY <1>3, <2>1 DEF TypeOK
  <2>4. ASSUME NEW n \in MutexId, n # m PROVE Owned(n)'
    <3>1. Owned(n) /\ (astray => astray')
      BY <1>4, Zenon DEF Books
    <3>2. sleepq'[n] = sleepq[n]
      BY <1>3, <2>1, <2>4 DEF TypeOK
    <3>3. \A u \in Thread : /\ target'[u] = n <=> target[u] = n
                            /\ target[u] = n => pc'[u] = pc[u]
      BY <1>2, <2>2, <2>3, <2>4, MutexAssumption
    <3>. QED
      BY <1>2, <3>1, <3>2, <3>3, OwnedKept
  <2>5. Owned(m)'
    <3>1. PICK o \in Thread : m \in valid /\ (Held(m, o) \/ Passing(m, o))
      BY <1>2 DEF Books, Owned, Idle
    <3>2. \A u \in Thread : target[u] = m => u # t
      BY <1>2, MutexAssumption
    <3>3. CASE Held(m, o)
      <4>1. Held(m, o)'
        BY <1>2, <2>2, <2>3, <3>3 DEF Held
      <4>. QED
        BY <1>2, <4>1 DEF Owned
    <3>4. CASE Passing(m, o)
      <4>1. astray' \/ holder'[m] = o
        BY <1>2, <1>4, <3>4, Zenon DEF Passing
      <4>2. Passing(m, o)'
        BY <1>2, <2>2, <2>3, <3>2, <3>4, <4>1 DEF Passing
      <4>. QED
        BY <1>2, <4>2 DEF Owned
    <3>. QED
      BY <3>1, <3>3, <3>4
  <2>6. ASSUME NEW u \in Thread PROVE Called(u)'
    <3>1. Called(u) /\ (astray => astray')
      BY <1>4, Zenon DEF Books
    <3>2. astray' \/ waiting'[u] = IF pc'[u] = "asleep" THEN target'[u] ELSE None
      BY <2>2, <2>3, <3>1 DEF Called
    <3>. QED
      BY <1>2, <2>1, <2>2, <2>3, <3>1, <3>2 DEF Called
  <2>. QED
    BY <1>1, <2>4, <2>5, <2>6 DEF Books
<1>. QED
  BY <1>5, <1>6

\* The end of mutex_lock(): the woken thread takes the mutex it was woken for.
LEMMA BooksLockReturn ==
  ASSUME Books, NEW t \in Thread, LockReturn(t)
  PROVE  Books'
<1>1. Basic'
  BY BasicLockReturn DEF Books
<1>3. TypeOK
  BY DEF Books, Basic, Sleeping
<1>4. astray' = astray
  BY Zenon DEF LockReturn
<1>2. PICK m \in valid :
        /\ m = target[t] /\ m \in MutexId
        /\ pc[t] = "woken" /\ slpret[t] = "SUCCESS"
        /\ Acquire(t, m)
        /\ pc' = [pc EXCEPT ![t] = "user"]
        /\ target' = [target EXCEPT ![t] = None]
        /\ waiting' = [waiting EXCEPT ![t] = None]
        /\ valid' = valid /\ sleepq' = sleepq /\ slpret' = slpret
  BY <1>3 DEF LockReturn, Books, Called, TypeOK
<1>5. Passing(m, t)
  BY <1>2, OwnedBy
<1>6. \A u \in Thread \ {t} : /\ waiting'[u] = waiting[u] /\ target'[u] = target[u]
                              /\ pc'[u] = pc[u]
  BY <1>2, <1>3 DEF TypeOK
<1>7. target'[t] = None /\ waiting'[t] = None /\ pc'[t] = "user" /\ target[t] = m
  BY <1>2, <1>3 DEF TypeOK
<1>8. ASSUME NEW n \in MutexId, n # m PROVE Owned(n)'
  <2>1. Owned(n) /\ (astray => astray')
    BY <1>4, Zenon DEF Books
  <2>2. /\ holder'[n] = holder[n] /\ locks'[n] = locks[n]
        /\ \A u \in Thread : /\ depth'[u][n] = depth[u][n]
                             /\ n \in mutexes'[u] <=> n \in mutexes[u]
    BY <1>2, <1>3, <1>8 DEF Acquire, TypeOK
  <2>3. \A u \in Thread : /\ target'[u] = n <=> target[u] = n
                          /\ target[u] = n => pc'[u] = pc[u]
    BY <1>6, <1>7, <1>8, MutexAssumption
  <2>. QED
    BY <1>2, <2>1, <2>2, <2>3, OwnedKept
<1>9. Owned(m)'
  <2>1. /\ holder'[m] = t /\ locks'[m] = 1 /\ depth'[t][m] = 1 /\ m \in mutexes'[t]
        /\ \A u \in Thread \ {t} : depth'[u][m] = 0 /\ m \notin mutexes'[u]
    BY <1>2, <1>3, <1>5 DEF Acquire, TypeOK, Passing
  <2>2. \A u \in Thread : target'[u] = m => pc'[u] = "asleep"
    BY <1>2, <1>5, <1>6, <1>7, MutexAssumption DEF Passing
  <2>3. Held(m, t)'
    BY <2>1, <2>2 DEF Held
  <2>. QED
    BY <1>2, <2>3 DEF Owned
<1>10. ASSUME NEW u \in Thread PROVE Called(u)'
  <2>1. Called(u) /\ (astray => astray')
    BY <1>4, Zenon DEF Books
  <2>2. astray' \/ waiting'[u] = IF pc'[u] = "asleep" THEN target'[u] ELSE None
    BY <1>6, <1>7, <2>1 DEF Called
  <2>. QED
    BY <1>2, <1>6, <1>7, <2>1, <2>2 DEF Called
<1>. QED
  BY <1>1, <1>8, <1>9, <1>10 DEF Books

\* mutex_unlock() that hands the mutex on, or frees it.
LEMMA BooksUnlockLast ==
  ASSUME Books, NEW t \in Thread, NEW m \in MutexId, UnlockLast(t, m)
  PROVE  Books'
<1>1. Basic'
  BY BasicUnlockLast DEF Books
<1>3. TypeOK
  BY DEF Books, Basic, Sleeping
<1>2. Held(m, t) /\ m \in valid /\ pc[t] = "user" /\ target[t] = None /\ waiting[t] = None
  BY CallerOutside, OwnedBy DEF UnlockLast
<1>4. PICK h \in Thread \cup {None} :
        /\ h = ReturnedBy(sleepq[m])
        /\ holder' = [holder EXCEPT ![m] = h]
        /\ locks' = [locks EXCEPT ![m] = 0]
        /\ depth' = [depth EXCEPT ![t][m] = 0]
        /\ mutexes' = [mutexes EXCEPT ![t] = @ \ {m}]
        /\ waiting' = NoLongerWaiting({h})
        /\ valid' = valid
  <2>1. ReturnedBy(sleepq[m]) \in Thread \cup {None}
    BY <1>3, WakesSleeper DEF ReturnedBy, TypeOK
  <2>. QED
    BY <2>1 DEF UnlockLast
<1>5. (astray => astray') /\ (GoesAstray(sleepq[m]) => astray')
  <2>1. astray' = (astray \/ GoesAstray(sleepq[m]))
    BY Zenon DEF UnlockLast
  <2>. QED
    BY <2>1, Zenon
<1>6. /\ holder'[m] = h /\ locks'[m] = 0 /\ waiting' \in [Thread -> MutexId \cup {None}]
      /\ \A u \in Thread : /\ depth'[u][m] = 0 /\ m \notin mutexes'[u]
                           /\ u = h => waiting'[u] = None
                           /\ u # h => waiting'[u] = waiting[u]
  BY <1>2, <1>3, <1>4 DEF TypeOK, Held, NoLongerWaiting
<1>7. ASSUME NEW n \in MutexId, n # m
      PROVE  /\ holder'[n] = holder[n] /\ locks'[n] = locks[n]
             /\ \A u \in Thread : /\ depth'[u][n] = depth[u][n]
                                  /\ n \in mutexes'[u] <=> n \in mutexes[u]
  <2>1. \A u \in Thread : depth'[u][n] = depth[u][n]
    BY <1>3, <1>4, <1>7, DepthElsewhere
  <2>. QED
    BY <1>3, <1>4, <1>7, <2>1 DEF TypeOK
<1>8. sleepq[m] \in Seq(Thread) /\ priority \in [Thread -> Pri]
  BY <1>3 DEF TypeOK
<1>9. CASE h = None
  <2>1. /\ pc' = pc /\ target' = target /\ slpret' = slpret /\ sleepq' = sleepq
    BY <1>4, <1>9 DEF UnlockLast, call
  <2>2. sleepq[m] = <<>>
    BY <1>4, <1>8, <1>9, WakesSleeper, MutexAssumption DEF ReturnedBy
  <2>3. waiting' = waiting
    BY <1>3, <1>6, <1>9, MutexAssumption DEF TypeOK
  <2>4. ASSUME NEW n \in MutexId, n # m PROVE Owned(n)'
    <3>1. Owned(n) /\ (astray => astray')
      BY <1>5, Zenon DEF Books
    <3>. QED
      BY <1>4, <1>7, <2>1, <2>4, <3>1, OwnedKept
  <2>5. Owned(m)'
    <3>1. \A u \in Thread : target[u] # m
      <4>1. \A u \in Thread : u \notin Items(sleepq[m])
        BY <1>8, <2>2, NoItems
      <4>2. \A u \in Thread : target[u] = m => pc[u] = "asleep"
        BY <1>2 DEF Held
      <4>. QED
        BY <4>1, <4>2 DEF Books, Basic, Sleeping, SleepersQueued
    <3>2. Idle(m)'
      BY <1>6, <1>9, <2>1, <2>2, <3>1 DEF Idle
    <3>. QED
      BY <3>2 DEF Owned
  <2>6. ASSUME NEW u \in Thread PROVE Called(u)'
    <3>1. Called(u)
      BY DEF Books
    <3>2. astray' \/ waiting'[u] = IF pc'[u] = "asleep" THEN target'[u] ELSE None
      <4>1. astray' \/ ~astray
        BY <1>5, Zenon
      <4>. QED
        BY <2>1, <2>3, <3>1, <4>1 DEF Called
    <3>. QED
      BY <1>4, <2>1, <2>3, <3>1, <3>2 DEF Called
  <2>. QED
    BY <1>1, <2>4, <2>5, <2>6 DEF Books
<1>10. CASE h # None
  <2>1. sleepq[m] # <<>>
    BY <1>4, <1>10 DEF ReturnedBy
  <2>2. PICK w \in Thread :
          /\ w = WokenBy(sleepq[m])
          /\ w \in Items(sleepq[m])
          /\ sleepq' = [sleepq EXCEPT ![m] = Without(@, w)]
          /\ pc' = [pc EXCEPT ![w] = "woken"]
          /\ slpret' = [slpret EXCEPT ![w] = "SUCCESS"]
          /\ target' = target
    BY <1>4, <1>8, <1>10, <2>1, WakesSleeper DEF UnlockLast
  <2>3. h \in Items(sleepq[m]) /\ h \in Thread
    BY <1>4, <1>8, <2>1, WakesSleeper
  <2>4. pc[w] = "asleep" /\ target[w] = m /\ pc[h] = "asleep" /\ target[h] = m
    BY <2>2, <2>3 DEF Books, Basic, Sleeping, SleepersQueued
  <2>5. astray' \/ h = w
    <3>1. ~GoesAstray(sleepq[m]) => h = w
      BY <1>4, <2>1, <2>2 DEF GoesAstray
    <3>. QED
      BY <1>5, <3>1, Zenon
  <2>6. \A u \in Thread : pc'[u] = (IF u = w THEN "woken" ELSE pc[u])
                          /\ slpret'[u] = (IF u = w THEN "SUCCESS" ELSE slpret[u])
    BY <1>3, <2>2 DEF TypeOK
  <2>7. ASSUME NEW n \in MutexId, n # m PROVE Owned(n)'
    <3>1. Owned(n) /\ (astray => astray')
      BY <1>5, Zenon DEF Books
    <3>2. sleepq'[n] = sleepq[n]
      BY <1>3, <2>2, <2>7 DEF TypeOK
    <3>3. \A u \in Thread : target[u] = n => pc'[u] = pc[u]
      BY <2>4, <2>6, <2>7
    <3>. QED
      BY <1>4, <1>7, <2>2, <2>7, <3>1, <3>2, <3>3, OwnedKept
  <2>8. Owned(m)'
    <3>1. \A u \in Thread \ {w} : target'[u] = m => pc'[u] = "asleep"
      BY <1>2, <2>2, <2>6 DEF Held
    <3>2. astray' \/ holder'[m] = w
      BY <1>6, <2>5, Zenon
    <3>3. Passing(m, w)'
      BY <1>6, <2>2, <2>3, <2>4, <2>6, <3>1, <3>2 DEF Passing
    <3>. QED
      BY <1>2, <1>4, <3>3 DEF Owned
  <2>9. ASSUME NEW u \in Thread PROVE Called(u)'
    <3>1. Called(u)
      BY DEF Books
    <3>2. astray' \/ waiting'[u] = IF pc'[u] = "asleep" THEN target'[u] ELSE None
      <4>1. astray' \/ ~astray
        BY <1>5, Zenon
      <4>. QED
        BY <1>6, <2>2, <2>4, <2>5, <2>6, <3>1, <4>1 DEF Called
    <3>3. pc'[u] = "user" => pc[u] = "user" /\ u # h /\ u # w
      BY <2>4, <2>6
    <3>4. pc[u] = "user" => u # h /\ waiting[u] = None /\ target[u] = None
      BY <2>4, <3>1 DEF Called
    <3>5. pc'[u] = "user" => target'[u] = None /\ waiting'[u] = None
      BY <1>6, <2>2, <3>3, <3>4
    <3>6. pc'[u] # "user" => target'[u] \in valid'
      BY <1>2, <1>4, <2>2, <2>4, <2>6, <3>1 DEF Called
    <3>7. slpret'[u] = "SUCCESS" /\ pc'[u] # "dead"
      BY <2>6, <3>1 DEF Called
    <3>. QED
      BY <3>2, <3>5, <3>6, <3>7 DEF Called
  <2>. QED
    BY <1>1, <2>7, <2>8, <2>9 DEF Books
<1>. QED
  BY <1>9, <1>10

LEMMA BooksStep == Books /\ [Next]_vars => Books'
<1>. SUFFICES ASSUME Books, [Next]_vars PROVE Books'
  OBVIOUS
<1>1. CASE UNCHANGED vars
  <2>1. /\ UNCHANGED <<valid, holder, locks, mpriority, sleepq, waiting, mutexes, priority>>
        /\ UNCHANGED <<basepri, pc, target, slpret, depth, broken>>
    BY <1>1 DEF vars
  <2>2. astray' = astray
    BY <1>1, Zenon DEF vars
  <2>3. Basic'
    BY BasicSpec DEF Books
  <2>4. ASSUME NEW n \in MutexId PROVE Owned(n)'
    <3>1. Owned(n) /\ (astray => astray')
      BY <2>2, Zenon DEF Books
    <3>. QED
      BY <2>1, <3>1, OwnedKept
  <2>5. ASSUME NEW u \in Thread PROVE Called(u)'
    <3>1. Called(u) /\ (astray => astray')
      BY <2>2, Zenon DEF Books
    <3>2. astray' \/ waiting'[u] = IF pc'[u] = "asleep" THEN target'[u] ELSE None
      BY <2>1, <3>1 DEF Called
    <3>. QED
      BY <2>1, <3>1, <3>2 DEF Called
  <2>. QED
    BY <2>3, <2>4, <2>5 DEF Books
<1>2. CASE Next
  BY <1>2, BooksQuiet, BooksLockWait, BooksUnlockLast, BooksLockReturn DEF Next
<1>. QED
  BY <1>1, <1>2

LEMMA BooksAlways == Spec => []Books
BY BooksInit, BooksStep, PTL DEF Spec

\* The books of the mutexes and of the threads agree after any mutex calls, also
\* when sched_wakeone() names a thread that it did not wake.
THEOREM BooksAgree == Spec => []MutexBooksRight
<1>1. Books => MutexBooksRight
  <2>. SUFFICES ASSUME Books PROVE MutexBooksRight
    OBVIOUS
  <2>1. TypeOK
    BY DEF Books, Basic, Sleeping
  <2>2. GrantsAreRecorded
    <3>1. ASSUME NEW t \in Thread, NEW m \in MutexId, depth[t][m] > 0 PROVE Held(m, t)
      BY <3>1, OwnedBy
    <3>. QED
      BY <3>1 DEF GrantsAreRecorded, Held
  <2>3. WaitersHaveHolder
    <3>. SUFFICES ASSUME NEW m \in MutexId, sleepq[m] # <<>>
                  PROVE  \/ \E t \in Thread : depth[t][m] > 0
                         \/ \E t \in Thread : /\ pc[t] = "woken" /\ target[t] = m
                                              /\ slpret[t] = "SUCCESS"
      BY DEF WaitersHaveHolder
    <3>1. PICK t \in Thread : Held(m, t) \/ Passing(m, t)
      BY DEF Books, Owned, Idle
    <3>. QED
      BY <3>1 DEF Held, Passing, Books, Called
  <2>4. astray \/ \A t \in Thread : pc[t] = "asleep" <=> waiting[t] # None
    <3>1. ASSUME NEW t \in Thread
          PROVE  astray \/ (pc[t] = "asleep" <=> waiting[t] # None)
      <4>1. Called(t) /\ None \notin valid
        BY <2>1, MutexAssumption DEF Books, TypeOK
      <4>2. pc[t] = "asleep" => target[t] # None
        BY <4>1 DEF Called
      <4>. QED
        BY <4>1, <4>2 DEF Called
    <3>. QED
      BY <3>1
  <2>5. \A t \in Thread : pc[t] \in {"asleep", "woken"} => target[t] \in valid
    BY DEF Books, Called
  <2>. QED
    BY <2>1, <2>2, <2>3, <2>4, <2>5 DEF MutexBooksRight
<1>. QED
  BY <1>1, BooksAlways, PTL
-----------------------------------------------------------------------------
\* The mutex that prio_inherit(w) looks at after p.
After(w, p) == IF p = None \/ holder[p] \in {None, w} THEN None ELSE waiting[holder[p]]

\* The mutexes that prio_inherit(w) looks at follow each other from m on.
LEMMA HopUnfolds ==
  ASSUME TypeOK, NEW w \in Thread, NEW m \in MutexId, NEW n \in Nat
  PROVE  /\ Hop(w, m, 0) = m
         /\ \A i \in 0..n : Hop(w, m, i) \in MutexId \cup {None}
         /\ \A i \in 0..(n - 1) : Hop(w, m, i + 1) = After(w, Hop(w, m, i))
<1>. DEFINE S == MutexId \cup {None}
            g == [p \in S |-> After(w, p)]
<1>1. g \in [S -> S] /\ m \in S
  <2>1. ASSUME NEW p \in S PROVE After(w, p) \in S
    <3>1. CASE p = None \/ holder[p] \in {None, w}
      BY <3>1 DEF After
    <3>2. CASE ~(p = None \/ holder[p] \in {None, w})
      BY <3>2 DEF After, TypeOK
    <3>. QED
      BY <3>1, <3>2
  <2>. QED
    BY <2>1
<1>2. PICK f : IsIteration(f, S, m, g, n)
  <2>. HIDE DEF g, S
  <2>. QED
    BY <1>1, Iterated
<1>3. f \in [0..n -> S] /\ f[0] = m /\ \A i \in 1..n : f[i] = After(w, f[i - 1])
  <2>. HIDE DEF S
  <2>1. f \in [0..n -> S] /\ f[0] = m /\ \A i \in 1..n : f[i] = g[f[i - 1]]
    BY <1>2 DEF IsIteration
  <2>2. \A i \in 1..n : i - 1 \in 0..n
    OBVIOUS
  <2>3. \A i \in 1..n : g[f[i - 1]] = After(w, f[i - 1])
    BY <2>1, <2>2
  <2>. QED
    BY <2>1, <2>3
<1>. HIDE DEF S, g
<1>4. ASSUME NEW k \in 0..n PROVE Hop(w, m, k) = f[k]
  <2>. DEFINE hop[j \in 0..k] ==
                IF j = 0 THEN m
                ELSE LET p == hop[j - 1]
                     IN  IF p = None \/ holder[p] \in {None, w} THEN None
                         ELSE waiting[holder[p]]
              R(h) == h = [j \in 0..k |-> IF j = 0 THEN m ELSE After(w, h[j - 1])]
              F == [j \in 0..k |-> f[j]]
  <2>1. Hop(w, m, k) = hop[k]
    BY Zenon DEF Hop, hop
  <2>2. hop = CHOOSE h : R(h)
    BY DEF After
  <2>3. R(F)
    <3>1. \A j \in 0..k : j \in 0..n /\ (j # 0 => j - 1 \in 0..k /\ j \in 1..n)
      OBVIOUS
    <3>2. \A j \in 0..k : f[j] = IF j = 0 THEN m ELSE After(w, F[j - 1])
      BY <1>3, <3>1
    <3>. QED
      BY <3>2
  <2>4. R(hop)
    <3>. HIDE DEF R, hop, F
    <3>. QED
      BY <2>2, <2>3
  <2>. HIDE DEF hop
  <2>5. hop[0] = m /\ \A j \in 1..k : hop[j] = After(w, hop[j - 1])
    <3>1. \A j \in 1..k : j \in 0..k /\ j # 0
      OBVIOUS
    <3>2. 0 \in 0..k
      OBVIOUS
    <3>. QED
      BY <2>4, <3>1, <3>2
  <2>. DEFINE T == {j \in 0..k : hop[j] = f[j]}
  <2>6. 0 \in T
    BY <1>3, <2>5
  <2>7. ASSUME NEW j \in 0..(k - 1), j \in T PROVE j + 1 \in T
    <3>1. j + 1 \in 1..k /\ j + 1 \in 1..n /\ j + 1 \in 0..k /\ (j + 1) - 1 = j
      OBVIOUS
    <3>. QED
      BY <1>3, <2>5, <2>7, <3>1
  <2>8. 0..k \subseteq T
    <3>. HIDE DEF T
    <3>. QED
      BY <2>6, <2>7, SetInduction
  <2>. QED
    BY <2>1, <2>8
<1>5. Hop(w, m, 0) = m
  BY <1>3, <1>4
<1>6. \A i \in 0..(n - 1) : Hop(w, m, i + 1) = After(w, Hop(w, m, i))
  <2>1. \A i \in 0..(n - 1) : i \in 0..n /\ i + 1 \in 0..n /\ i + 1 \in 1..n /\ (i + 1) - 1 = i
    OBVIOUS
  <2>. QED
    BY <1>3, <1>4, <2>1
<1>7. \A i \in 0..n : Hop(w, m, i) \in S
  BY <1>3, <1>4
<1>. QED
  BY <1>5, <1>6, <1>7 DEF S

LEMMA ChainType ==
  ASSUME TypeOK, NEW w \in Thread, NEW m \in MutexId
  PROVE  Chain(w, m) \subseteq MutexId
<1>1. Cardinality(MutexId) \in Nat
  BY MutexFinite, FS_CardinalityType
<1>. QED
  BY <1>1, HopUnfolds DEF Chain
-----------------------------------------------------------------------------
\* What becomes of the priority of a thread that is no holder after a step.
LEMMA BoostEndsKept ==
  ASSUME Books, BoostEnds, astray => astray', basepri' = basepri,
         ~astray' => \A u \in Thread :
           (\A n \in MutexId : holder'[n] # u) =>
             \/ priority'[u] = priority[u] /\ \A n \in MutexId : holder[n] # u
             \/ priority'[u] = basepri[u]
  PROVE  BoostEnds'
<1>1. \A u \in Thread : pc[u] # "dead"
  BY DEF Books, Called
<1>2. ASSUME ~astray', NEW u \in Thread, \A n \in MutexId : holder'[n] # u
      PROVE  priority'[u] = basepri'[u]
  <2>1. ~astray
    BY <1>2, Zenon
  <2>. QED
    BY <1>1, <1>2, <2>1 DEF BoostEnds
<1>. QED
  BY <1>2 DEF BoostEnds

LEMMA BoostEndsStep == Books /\ BoostEnds /\ [Next]_vars => BoostEnds'
<1>. SUFFICES ASSUME Books, BoostEnds, [Next]_vars PROVE BoostEnds'
  OBVIOUS
<1>1. CASE UNCHANGED vars
  <2>1. astray' = astray
    BY <1>1, Zenon DEF vars
  <2>2. holder' = holder /\ priority' = priority /\ basepri' = basepri
    BY <1>1 DEF vars
  <2>. QED
    BY <2>1, <2>2, BoostEndsKept
<1>2. ASSUME NEW t \in Thread, NEW m \in MutexId,
             \/ MutexInit(t, m) \/ MutexDestroy(t, m) \/ LockAgain(t, m)
             \/ LockFree(t, m) \/ TrylockFree(t, m) \/ UnlockInner(t, m)
      PROVE  BoostEnds'
  <2>1. astray' = astray
    BY <1>2, Zenon DEF MutexInit, MutexDestroy, LockAgain, LockFree, TrylockFree, UnlockInner
  <2>2. priority' = priority /\ basepri' = basepri
    BY <1>2 DEF MutexInit, MutexDestroy, LockAgain, LockFree, TrylockFree, UnlockInner, prios
  <2>3. holder' = holder \/ (holder[m] = None /\ \E h : holder' = [holder EXCEPT ![m] = h])
    <3>1. MutexInit(t, m) => holder[m] = None
      <4>1. MutexInit(t, m) => m \notin valid
        BY DEF MutexInit
      <4>. QED
        BY <4>1, OwnedBy
    <3>. QED
      BY <1>2, <3>1 DEF MutexInit, MutexDestroy, LockAgain, LockFree, TrylockFree, UnlockInner,
         Acquire, object
  <2>4. ASSUME NEW u \in Thread, \A n \in MutexId : holder'[n] # u
        PROVE  \A n \in MutexId : holder[n] # u
    BY <2>3, <2>4, MutexAssumption DEF Books, Basic, Sleeping, TypeOK
  <2>. QED
    BY <2>1, <2>2, <2>4, BoostEndsKept
<1>3. ASSUME NEW t \in Thread, NEW m \in MutexId, LockWait(t, m) PROVE BoostEnds'
  <2>1. astray' = astray
    BY <1>3, Zenon DEF LockWait
  <2>2. /\ priority' = InheritPriority(t, m) /\ basepri' = basepri /\ holder' = holder
    BY <1>3 DEF LockWait
  <2>3. ASSUME NEW u \in Thread, \A n \in MutexId : holder[n] # u
        PROVE  priority'[u] = priority[u]
    <3>1. u \notin Boosted(t, m)
      BY <2>3, ChainType DEF Boosted, Books, Basic, Sleeping
    <3>. QED
      BY <2>2, <3>1 DEF InheritPriority
  <2>. QED
    BY <2>1, <2>2, <2>3, BoostEndsKept
<1>4. ASSUME NEW t \in Thread, LockReturn(t) PROVE BoostEnds'
  <2>1. astray' = astray
    BY <1>4, Zenon DEF LockReturn
  <2>2. priority' = priority /\ basepri' = basepri
    BY <1>4 DEF LockReturn, prios
  <2>3. PICK m \in MutexId : m = target[t] /\ holder' = [holder EXCEPT ![m] = t] /\ Passing(m, t)
    <3>1. target[t] \in MutexId /\ pc[t] = "woken" /\ slpret[t] = "SUCCESS"
      BY <1>4 DEF LockReturn, Books, Called, Basic, Sleeping, TypeOK
    <3>. QED
      BY <1>4, <3>1, OwnedBy DEF LockReturn, Acquire
  <2>4. astray \/ holder' = holder
    BY <2>3 DEF Passing, Books, Basic, Sleeping, TypeOK
  <2>. QED
    BY <2>1, <2>2, <2>4, BoostEndsKept
<1>5. ASSUME NEW t \in Thread, NEW m \in MutexId, UnlockLast(t, m) PROVE BoostEnds'
  <2>1. astray => astray'
    BY <1>5, Zenon DEF UnlockLast
  <2>2. /\ priority' = [priority EXCEPT ![t] = Uninherited(t, mutexes[t] \ {m})]
        /\ holder' = [holder EXCEPT ![m] = ReturnedBy(sleepq[m])]
        /\ basepri' = basepri /\ holder[m] = t
    BY <1>5 DEF UnlockLast
  <2>3. TypeOK
    BY DEF Books, Basic, Sleeping
  <2>4. ASSUME NEW u \in Thread, \A n \in MutexId : holder'[n] # u
        PROVE  \/ priority'[u] = priority[u] /\ \A n \in MutexId : holder[n] # u
               \/ priority'[u] = basepri[u]
    <3>1. CASE u # t
      BY <2>2, <2>3, <2>4, <3>1 DEF TypeOK
    <3>2. CASE u = t
      <4>1. \A n \in mutexes[t] : n \in MutexId /\ holder[n] = t
        BY <2>3, OwnedBy DEF TypeOK, Held
      <4>2. mutexes[t] \ {m} = {}
        BY <2>2, <2>3, <2>4, <3>2, <4>1 DEF TypeOK
      <4>3. {} \in SUBSET MutexId /\ priority[t] <= basepri[t]
        BY DEF Books, Basic, NeverBelowBase
      <4>4. Uninherited(t, {}) = basepri[t]
        BY <2>3, <4>3, UninheritTypes
      <4>. QED
        BY <2>2, <2>3, <3>2, <4>2, <4>4 DEF TypeOK
    <3>. QED
      BY <3>1, <3>2
  <2>. QED
    BY <2>1, <2>2, <2>4, BoostEndsKept
<1>6. CASE Next
  BY <1>6, <1>2, <1>3, <1>4, <1>5 DEF Next
<1>. QED
  BY <1>1, <1>6

\* An inherited priority ends with the last mutex of the thread that has it.
THEOREM InheritanceEnds == Spec => []BoostEnds
<1>1. Init => BoostEnds
  BY DEF Init, BoostEnds
<1>. QED
  BY <1>1, BoostEndsStep, BooksAlways, PTL DEF Spec
-----------------------------------------------------------------------------
\* Threads whose records say that they wait for mutexes of each other.
Circle(S) == S # {} /\ \A t \in S : waiting[t] # None /\ holder[waiting[t]] \in S

\* There are none, whatever sched_wakeone() returns.
Acyclic ==
  /\ \A S \in SUBSET Thread : ~Circle(S)
  /\ \A t \in Thread : pc[t] = "user" => waiting[t] = None

\* So a chain of holders is no longer than there are mutexes.
LEMMA ChainEnds ==
  ASSUME TypeOK, Acyclic, NEW w \in Thread, NEW m \in MutexId
  PROVE  Hop(w, m, Cardinality(MutexId)) = None
<1>. DEFINE N == Cardinality(MutexId)
            H(i) == Hop(w, m, i)
<1>1. N \in Nat
  BY MutexFinite, FS_CardinalityType
<1>2. /\ H(0) = m
      /\ \A i \in 0..N : H(i) \in MutexId \cup {None}
      /\ \A i \in 0..(N - 1) : H(i + 1) = After(w, H(i))
  BY <1>1, HopUnfolds
<1>. SUFFICES ASSUME H(N) # None PROVE FALSE
  OBVIOUS
<1>. HIDE DEF H
<1>3. \A i \in 0..N : H(i) # None
  <2>. DEFINE T == {i \in 0..N : H(N - i) # None}
  <2>1. 0 \in T
    BY <1>1
  <2>2. ASSUME NEW i \in 0..(N - 1), i \in T PROVE i + 1 \in T
    <3>1. N - (i + 1) \in 0..(N - 1) /\ (N - (i + 1)) + 1 = N - i /\ i + 1 \in 0..N
      BY <1>1
    <3>2. H(N - i) = After(w, H(N - (i + 1)))
      BY <1>2, <3>1
    <3>. QED
      BY <2>2, <3>1, <3>2 DEF After
  <2>3. 0..N \subseteq T
    <3>. HIDE DEF T
    <3>. QED
      BY <1>1, <2>1, <2>2, SetInduction
  <2>4. ASSUME NEW i \in 0..N PROVE H(i) # None
    <3>1. N - i \in 0..N /\ N - (N - i) = i
      BY <1>1
    <3>. QED
      BY <2>3, <3>1
  <2>. QED
    BY <2>4
<1>4. ASSUME NEW i \in 0..(N - 1)
      PROVE  /\ holder[H(i)] \in Thread
             /\ waiting[holder[H(i)]] = H(i + 1)
  <2>1. i \in 0..N /\ i + 1 \in 0..N
    BY <1>1
  <2>2. H(i) \in MutexId /\ H(i + 1) # None
    BY <1>2, <1>3, <2>1
  <2>. QED
    BY <1>2, <2>1, <2>2 DEF After, TypeOK
<1>5. PICK i, j \in 0..N : i < j /\ H(i) = H(j)
  <2>. DEFINE f == [k \in 0..N |-> H(k)]
  <2>1. f \in [0..N -> MutexId]
    BY <1>2, <1>3
  <2>2. IsFiniteSet(0..N) /\ Cardinality(0..N) = N + 1
    BY <1>1, FS_Interval
  <2>3. Cardinality(0..N) > Cardinality(MutexId)
    BY <1>1, <2>2
  <2>4. \E x, y \in 0..N : x # y /\ f[x] = f[y]
    <3>. HIDE DEF f
    <3>. QED
      BY <2>1, <2>2, <2>3, MutexFinite, FS_PigeonHole
  <2>5. PICK x, y \in 0..N : x # y /\ H(x) = H(y)
    BY <2>4
  <2>. QED
    BY <2>5, <1>1
<1>. DEFINE S == {holder[H(k)] : k \in i..(j - 1)}
<1>6. S \in SUBSET Thread
  BY <1>1, <1>4
<1>7. ASSUME NEW t \in S PROVE waiting[t] # None /\ holder[waiting[t]] \in S
  <2>1. PICK k \in i..(j - 1) : t = holder[H(k)]
    OBVIOUS
  <2>2. k \in 0..(N - 1) /\ k + 1 \in 0..N
    BY <1>1
  <2>3. waiting[t] = H(k + 1) /\ H(k + 1) # None
    BY <1>3, <1>4, <2>1, <2>2
  <2>4. CASE k + 1 = j
    <3>1. waiting[t] = H(i) /\ i \in i..(j - 1)
      BY <1>1, <1>5, <2>3, <2>4
    <3>. QED
      BY <2>3, <3>1
  <2>5. CASE k + 1 # j
    <3>1. k + 1 \in i..(j - 1)
      BY <1>1, <2>5
    <3>. QED
      BY <2>3, <3>1
  <2>. QED
    BY <2>4, <2>5
<1>8. S # {}
  <2>1. i \in i..(j - 1)
    BY <1>1, <1>5
  <2>. QED
    BY <2>1
<1>. HIDE DEF S
<1>. QED
  BY <1>6, <1>7, <1>8 DEF Acyclic, Circle

\* No step but mutex_lock() makes a thread wait for one that waits.
LEMMA AcyclicKept ==
  ASSUME Acyclic,
         \A u \in Thread : waiting'[u] # None =>
           /\ waiting'[u] = waiting[u]
           /\ \/ holder'[waiting[u]] = holder[waiting[u]]
              \/ holder'[waiting[u]] = None
              \/ waiting'[holder'[waiting[u]]] = None,
         \A u \in Thread : pc'[u] = "user" => waiting'[u] = None
  PROVE  Acyclic'
<1>. SUFFICES ASSUME NEW S \in SUBSET Thread, Circle(S)' PROVE FALSE
  BY DEF Acyclic
<1>1. ASSUME NEW u \in S PROVE waiting[u] # None /\ holder[waiting[u]] \in S
  <2>1. waiting'[u] # None /\ holder'[waiting'[u]] \in S
    BY DEF Circle
  <2>2. waiting'[u] = waiting[u]
    BY <2>1
  <2>3. holder'[waiting[u]] # None /\ waiting'[holder'[waiting[u]]] # None
    BY <2>1, <2>2, MutexAssumption DEF Circle
  <2>. QED
    BY <2>1, <2>2, <2>3
<1>. QED
  BY <1>1 DEF Circle, Acyclic

LEMMA AcyclicStep == Books /\ Acyclic /\ [Next]_vars => Acyclic'
<1>. SUFFICES ASSUME Books, Acyclic, [Next]_vars PROVE Acyclic'
  OBVIOUS
<1>t. TypeOK /\ \A t \in Thread : Called(t)
  BY DEF Books, Basic, Sleeping
<1>b. Books'
  BY BooksStep
<1>u. \A t \in Thread : pc'[t] = "user" => waiting'[t] = None
  BY <1>b DEF Books, Called
<1>1. CASE UNCHANGED vars
  BY <1>1, <1>u, AcyclicKept DEF vars
<1>2. ASSUME NEW t \in Thread, NEW m \in MutexId,
             \/ MutexInit(t, m) \/ MutexDestroy(t, m) \/ LockAgain(t, m)
             \/ LockFree(t, m) \/ TrylockFree(t, m) \/ UnlockInner(t, m)
      PROVE  Acyclic'
  <2>1. waiting' = waiting /\ waiting[t] = None
    <3>1. Calls(t)
      BY <1>2 DEF MutexInit, MutexDestroy, LockAgain, LockFree, TrylockFree, UnlockInner
    <3>. QED
      BY <1>2, <3>1, CallerOutside
         DEF MutexInit, MutexDestroy, LockAgain, LockFree, TrylockFree, UnlockInner
  <2>2. holder' = holder \/ \E h \in {None, t} : holder' = [holder EXCEPT ![m] = h]
    BY <1>2 DEF MutexInit, MutexDestroy, LockAgain, LockFree, TrylockFree, UnlockInner,
       Acquire, object
  <2>3. ASSUME NEW u \in Thread, waiting'[u] # None
        PROVE  \/ holder'[waiting[u]] = holder[waiting[u]]
               \/ holder'[waiting[u]] = None
               \/ waiting'[holder'[waiting[u]]] = None
    BY <1>t, <2>1, <2>2, <2>3 DEF TypeOK
  <2>. QED
    BY <1>u, <2>1, <2>3, AcyclicKept
<1>3. ASSUME NEW t \in Thread, NEW m \in MutexId, LockWait(t, m) PROVE Acyclic'
  <2>1. holder' = holder /\ holder[m] \notin {None, t} /\ waiting[t] = None
    BY <1>3, CallerOutside DEF LockWait
  <2>2. CASE FindsDeadlock(t, m)
    <3>1. waiting' = waiting
      BY <1>3, <2>2 DEF LockWait
    <3>. QED
      BY <1>u, <2>1, <3>1, AcyclicKept
  <2>3. CASE ~FindsDeadlock(t, m)
    <3>1. waiting' = [waiting EXCEPT ![t] = m]
      BY <1>3, <2>3 DEF LockWait
    <3>2. waiting'[t] = m /\ \A u \in Thread \ {t} : waiting'[u] = waiting[u]
      BY <1>t, <3>1 DEF TypeOK
    <3>3. ASSUME NEW S \in SUBSET Thread, Circle(S)' PROVE FALSE
      <4>1. \A u \in S : waiting'[u] # None /\ holder[waiting'[u]] \in S
        BY <2>1, <3>3 DEF Circle
      <4>2. t \in S
        <5>1. CASE t \notin S
          <6>1. Circle(S)
            BY <3>2, <3>3, <4>1, <5>1 DEF Circle
          <6>. QED
            BY <6>1 DEF Acyclic
        <5>. QED
          BY <5>1
      <4>. DEFINE N == Cardinality(MutexId)
                  T == {i \in 0..N : Hop(t, m, i) # None /\ holder[Hop(t, m, i)] \in S}
      <4>3. N \in Nat
        BY MutexFinite, FS_CardinalityType
      <4>4. /\ Hop(t, m, 0) = m
            /\ \A i \in 0..N : Hop(t, m, i) \in MutexId \cup {None}
            /\ \A i \in 0..(N - 1) : Hop(t, m, i + 1) = After(t, Hop(t, m, i))
        BY <1>t, <4>3, HopUnfolds
      <4>5. 0 \in T
        BY <3>2, <4>1, <4>2, <4>3, <4>4, MutexAssumption
      <4>6. ASSUME NEW i \in 0..(N - 1), i \in T PROVE i + 1 \in T
        <5>1. i + 1 \in 0..N
          BY <4>3
        <5>2. PICK n \in MutexId : n = Hop(t, m, i) /\ holder[n] \in S
          BY <4>4, <4>6
        <5>3. holder[n] # t
          <6>1. n \in Chain(t, m)
            <7>1. i \in 0..Cardinality(MutexId) /\ n \notin {None}
              BY <4>3, MutexAssumption
            <7>. QED
              BY <5>2, <7>1 DEF Chain
          <6>. QED
            BY <2>3, <6>1 DEF FindsDeadlock
        <5>4. Hop(t, m, i + 1) = waiting[holder[n]]
          BY <4>4, <5>2, <5>3, MutexAssumption DEF After
        <5>. QED
          BY <3>2, <4>1, <5>1, <5>2, <5>3, <5>4
      <4>7. 0..N \subseteq T
        <5>. HIDE DEF T, N
        <5>. QED
          BY <4>3, <4>5, <4>6, SetInduction
      <4>8. Hop(t, m, N) = None
        BY <1>t, ChainEnds
      <4>. QED
        BY <4>3, <4>7, <4>8
    <3>. QED
      BY <1>u, <3>3 DEF Acyclic
  <2>. QED
    BY <2>2, <2>3
<1>4. ASSUME NEW t \in Thread, LockReturn(t) PROVE Acyclic'
  <2>1. /\ holder' = [holder EXCEPT ![target[t]] = t]
        /\ waiting' = [waiting EXCEPT ![t] = None]
    BY <1>4, <1>t DEF LockReturn, Acquire, Called
  <2>2. ASSUME NEW u \in Thread, waiting'[u] # None
        PROVE  /\ waiting'[u] = waiting[u]
               /\ \/ holder'[waiting[u]] = holder[waiting[u]]
                  \/ waiting'[holder'[waiting[u]]] = None
    BY <1>t, <2>1, <2>2 DEF TypeOK
  <2>. QED
    BY <1>u, <2>2, AcyclicKept
<1>5. ASSUME NEW t \in Thread, NEW m \in MutexId, UnlockLast(t, m) PROVE Acyclic'
  <2>1. PICK h : /\ holder' = [holder EXCEPT ![m] = h]
                 /\ waiting' = NoLongerWaiting({h})
    BY <1>5 DEF UnlockLast
  <2>2. h \in Thread \cup {None}
    BY <1>b, <1>t, <2>1 DEF Books, Basic, Sleeping, TypeOK
  <2>3. ASSUME NEW u \in Thread, waiting'[u] # None
        PROVE  /\ waiting'[u] = waiting[u]
               /\ \/ holder'[waiting[u]] = holder[waiting[u]]
                  \/ holder'[waiting[u]] = None
                  \/ waiting'[holder'[waiting[u]]] = None
    <3>1. waiting'[u] = waiting[u]
      BY <2>1, <2>3 DEF NoLongerWaiting
    <3>2. h \in Thread => waiting'[h] = None
      BY <2>1 DEF NoLongerWaiting
    <3>. QED
      BY <1>t, <2>1, <2>2, <3>1, <3>2 DEF TypeOK
  <2>. QED
    BY <1>u, <2>3, AcyclicKept
<1>6. CASE Next
  BY <1>6, <1>2, <1>3, <1>4, <1>5 DEF Next
<1>. QED
  BY <1>1, <1>6

LEMMA AcyclicAlways == Spec => []Acyclic
<1>1. Init => Acyclic
  BY DEF Init, Acyclic, Circle
<1>. QED
  BY <1>1, AcyclicStep, BooksAlways, PTL DEF Spec

\* prio_inherit() does not go round in a circle.
NoLoop == "loop" \notin broken

\* prio_inherit() comes to an end although its counter is never incremented, and
\* mutex_lock() lets no circle of waiting threads arise, however many there are.
THEOREM NoCircularWait == Spec => []NoDeadlock
<1>1. Init => NoLoop
  BY DEF Init, NoLoop
<1>2. Books /\ Acyclic /\ NoLoop /\ [Next]_vars => NoLoop'
  <2>. SUFFICES ASSUME Books, Acyclic, "loop" \notin broken, [Next]_vars
                PROVE  "loop" \notin broken'
    BY DEF NoLoop
  <2>1. ASSUME NEW t \in Thread, NEW m \in MutexId, LockWait(t, m)
        PROVE  "loop" \notin broken'
    <3>1. ~Circles(t, m)
      BY ChainEnds DEF Circles, Books, Basic, Sleeping
    <3>. QED
      BY <2>1, <3>1 DEF LockWait, Inherits
  <2>2. CASE broken' \in {broken, broken \cup {"link"}}
    BY <2>2
  <2>3. ASSUME NEW t \in Thread, NEW m \in MutexId,
               \/ MutexInit(t, m) \/ MutexDestroy(t, m) \/ LockAgain(t, m)
               \/ LockFree(t, m) \/ TrylockFree(t, m) \/ UnlockInner(t, m)
        PROVE  broken' \in {broken, broken \cup {"link"}}
    BY <2>3 DEF MutexInit, MutexDestroy, LockAgain, LockFree, TrylockFree, UnlockInner, Acquire
  <2>4. ASSUME NEW t \in Thread, NEW m \in MutexId, UnlockLast(t, m)
        PROVE  broken' \in {broken, broken \cup {"link"}}
    BY <2>4 DEF UnlockLast
  <2>5. ASSUME NEW t \in Thread, LockReturn(t)
        PROVE  broken' \in {broken, broken \cup {"link"}}
    BY <2>5 DEF LockReturn, Acquire
  <2>6. CASE UNCHANGED vars
    BY <2>6 DEF vars
  <2>7. CASE Next
    BY <2>1, <2>2, <2>3, <2>4, <2>5, <2>7 DEF Next
  <2>. QED
    BY <2>6, <2>7
<1>3. Books /\ Acyclic => astray \/ \A S \in SUBSET Thread : ~Stuck(S)
  <2>. SUFFICES ASSUME Books, Acyclic, ~astray, NEW S \in SUBSET Thread, Stuck(S)
                PROVE  FALSE
    BY Zenon
  <2>1. ASSUME NEW t \in S PROVE waiting[t] # None /\ holder[waiting[t]] \in S
    <3>1. WaitsFor(t) # {} /\ WaitsFor(t) \subseteq S
      BY DEF Stuck
    <3>2. PICK u \in S : pc[t] = "asleep" /\ depth[u][target[t]] > 0
      BY <3>1 DEF WaitsFor
    <3>3. target[t] \in MutexId /\ waiting[t] = target[t]
      BY <3>2 DEF Books, Called, Basic, Sleeping, SleepersQueued
    <3>4. holder[target[t]] = u
      BY <3>2, <3>3, OwnedBy DEF Held
    <3>. QED
      BY <3>3, <3>4, MutexAssumption
  <2>. QED
    BY <2>1 DEF Acyclic, Circle, Stuck
<1>4. Spec => []NoLoop
  BY <1>1, <1>2, BooksAlways, AcyclicAlways, PTL DEF Spec
<1>5. NoLoop /\ Books /\ Acyclic => NoDeadlock
  BY <1>3, Zenon DEF NoDeadlock, NoLoop
<1>. QED
  BY <1>4, <1>5, BooksAlways, AcyclicAlways, PTL
-----------------------------------------------------------------------------
\* A set that holds the threads t waits for after a step, and with a thread those
\* that it waits for, holds all that block t.
LEMMA BlockersWithin ==
  ASSUME NEW t \in Thread, NEW B \in SUBSET Thread, WaitsFor(t)' \subseteq B,
         \A u \in B : WaitsFor(u)' \subseteq B
  PROVE  Blockers(t)' \subseteq B
<1>. DEFINE n == Cardinality(Thread)
            S == SUBSET B
            G(X) == X \cup UNION {WaitsFor(u)' : u \in X}
            g == [X \in S |-> G(X)]
            W == WaitsFor(t)'
            upto[i \in 0..n] ==
              IF i = 0 THEN WaitsFor(t)'
              ELSE upto[i - 1] \cup UNION {WaitsFor(u)' : u \in upto[i - 1]}
            R(h) == h = [i \in 0..n |-> IF i = 0 THEN W ELSE G(h[i - 1])]
<1>1. n \in Nat
  BY MutexFinite, FS_CardinalityType
<1>2. g \in [S -> S] /\ W \in S
  BY Zenon
<1>3. PICK f : IsIteration(f, S, W, g, n)
  <2>. HIDE DEF g, S, n, W
  <2>. QED
    BY <1>1, <1>2, Iterated
<1>4. f \in [0..n -> S] /\ R(f)
  <2>. HIDE DEF S, G, n, W
  <2>1. f \in [0..n -> S] /\ f[0] = W /\ \A i \in 1..n : f[i] = g[f[i - 1]]
    BY <1>3 DEF IsIteration
  <2>2. \A i \in 1..n : i - 1 \in 0..n /\ f[i - 1] \in S /\ g[f[i - 1]] = G(f[i - 1])
    BY <1>1, <2>1
  <2>3. \A i \in 0..n : i = 0 \/ i \in 1..n
    BY <1>1
  <2>4. \A i \in 0..n : f[i] = IF i = 0 THEN W ELSE G(f[i - 1])
    BY <2>1, <2>2, <2>3
  <2>. QED
    BY <2>1, <2>4
<1>5. Blockers(t)' = upto[n]
  BY Zenon DEF Blockers, upto
<1>6. upto = CHOOSE h : R(h)
  OBVIOUS
<1>. HIDE DEF upto, G, W
<1>7. R(upto)
  <2>. HIDE DEF R
  <2>. QED
    BY <1>4, <1>6
<1>8. upto[0] = W /\ \A i \in 1..n : upto[i] = G(upto[i - 1])
  <2>1. \A i \in 1..n : i \in 0..n /\ i # 0
    BY <1>1
  <2>2. 0 \in 0..n
    BY <1>1
  <2>. HIDE DEF n
  <2>. QED
    BY <1>7, <2>1, <2>2
<1>. DEFINE T == {i \in 0..n : upto[i] \subseteq B}
<1>9. 0 \in T
  BY <1>1, <1>8 DEF W
<1>10. ASSUME NEW i \in 0..(n - 1), i \in T PROVE i + 1 \in T
  <2>1. i + 1 \in 1..n /\ i + 1 \in 0..n /\ (i + 1) - 1 = i
    BY <1>1
  <2>2. upto[i + 1] = G(upto[i]) /\ upto[i] \subseteq B
    BY <1>8, <1>10, <2>1
  <2>3. G(upto[i]) \subseteq B
    BY <2>2, Zenon DEF G
  <2>. QED
    BY <2>1, <2>2, <2>3
<1>11. 0..n \subseteq T
  <2>. HIDE DEF T, n
  <2>. QED
    BY <1>1, <1>9, <1>10, SetInduction
<1>. QED
  BY <1>1, <1>5, <1>11

\* Whom prio_inherit() raises for a thread that goes to sleep in mutex_lock():
\* all that the thread waits for.
LEMMA BoostedBlock ==
  ASSUME Books, Books', Acyclic, NEW t \in Thread, NEW m \in MutexId,
         LockWait(t, m), ~FindsDeadlock(t, m), ~astray
  PROVE  Blockers(t)' \subseteq Boosted(t, m)
<1>t. TypeOK
  BY DEF Books, Basic, Sleeping
<1>. DEFINE N == Cardinality(MutexId)
<1>1. N \in Nat
  BY MutexFinite, FS_CardinalityType
<1>2. /\ Hop(t, m, 0) = m
      /\ \A i \in 0..(N - 1) : Hop(t, m, i + 1) = After(t, Hop(t, m, i))
      /\ Hop(t, m, N) = None
  BY <1>t, <1>1, HopUnfolds, ChainEnds
<1>3. /\ holder' = holder /\ depth' = depth /\ holder[m] \notin {None, t}
      /\ waiting' = [waiting EXCEPT ![t] = m]
      /\ target' = [target EXCEPT ![t] = m]
      /\ pc' = [pc EXCEPT ![t] = "asleep"]
  BY DEF LockWait
<1>4. ASSUME NEW u \in Thread PROVE
        /\ u = t => target'[u] = m
        /\ u # t => /\ target'[u] = target[u] /\ pc'[u] = pc[u]
                    /\ pc[u] = "asleep" => target[u] = waiting[u] /\ target[u] \in MutexId
  BY <1>t, <1>3 DEF TypeOK, Books, Called, Basic, Sleeping, SleepersQueued
<1>5. ASSUME NEW v \in Thread, NEW n \in MutexId, depth[v][n] > 0 PROVE holder[n] = v
  BY <1>5, OwnedBy DEF Held
<1>6. Boosted(t, m) \in SUBSET Thread
  BY <1>t, ChainType DEF Boosted, TypeOK
<1>7. m \in Chain(t, m)
  <2>1. 0 \in 0..N
    BY <1>1
  <2>. QED
    BY <1>2, <2>1, MutexAssumption DEF Chain
<1>8. \A n \in Chain(t, m) : holder[n] # t
  BY DEF FindsDeadlock
<1>9. WaitsFor(t)' \subseteq Boosted(t, m)
  <2>1. ASSUME NEW v \in WaitsFor(t)' PROVE v \in Boosted(t, m)
    <3>1. v \in Thread /\ depth'[v][m] > 0
      BY <1>4 DEF WaitsFor
    <3>2. holder[m] = v
      BY <1>3, <1>5, <3>1
    <3>. QED
      BY <1>3, <1>7, <3>2 DEF Boosted
  <2>. QED
    BY <2>1
<1>10. ASSUME NEW u \in Boosted(t, m) PROVE WaitsFor(u)' \subseteq Boosted(t, m)
  <2>1. u \in Thread /\ u # t
    BY <1>6 DEF Boosted
  <2>2. PICK n \in Chain(t, m) : u = holder[n]
    BY DEF Boosted
  <2>3. PICK i \in 0..N : n = Hop(t, m, i) /\ n # None
    BY <2>2 DEF Chain
  <2>4. i \in 0..(N - 1) /\ i + 1 \in 0..N
    <3>1. i # N
      BY <1>2, <2>3
    <3>. QED
      BY <1>1, <3>1
  <2>5. Hop(t, m, i + 1) = waiting[u]
    BY <1>2, <2>1, <2>2, <2>3, <2>4, MutexAssumption DEF After
  <2>6. ASSUME NEW v \in WaitsFor(u)' PROVE v \in Boosted(t, m)
    <3>1. v \in Thread /\ pc[u] = "asleep" /\ depth'[v][target[u]] > 0
      BY <1>4, <2>1 DEF WaitsFor
    <3>2. target[u] = waiting[u] /\ waiting[u] \in MutexId
      BY <1>4, <2>1, <3>1
    <3>3. holder[waiting[u]] = v
      BY <1>3, <1>5, <3>1, <3>2
    <3>4. waiting[u] \in Chain(t, m)
      <4>1. i + 1 \in 0..Cardinality(MutexId) /\ waiting[u] \notin {None}
        BY <2>4, <3>2, MutexAssumption
      <4>. QED
        BY <2>5, <4>1 DEF Chain
    <3>. QED
      BY <1>8, <3>1, <3>3, <3>4, MutexAssumption DEF Boosted
  <2>. QED
    BY <2>6
<1>. QED
  BY <1>6, <1>9, <1>10, BlockersWithin

\* A thread that falls asleep in mutex_lock() has raised everybody it waits for,
\* through any number of mutexes, to its own priority at least.
THEOREM InheritanceReaches == Spec => BoostReachesBlockers
<1>. DEFINE Step == \A t \in Thread :
                      pc[t] = "user" /\ pc'[t] = "asleep" /\ ~astray =>
                        \A u \in Blockers(t)' : priority'[u] <= priority'[t]
<1>1. Books /\ Books' /\ Acyclic /\ [Next]_vars => [Step]_vars
  <2>. SUFFICES ASSUME Books, Books', Acyclic, Next, NEW t \in Thread,
                       pc[t] = "user", pc'[t] = "asleep", ~astray
                PROVE  \A u \in Blockers(t)' : priority'[u] <= priority'[t]
    OBVIOUS
  <2>t. TypeOK
    BY DEF Books, Basic, Sleeping
  <2>1. PICK m \in MutexId : LockWait(t, m) /\ ~FindsDeadlock(t, m)
    <3>1. ASSUME NEW u \in Thread, NEW m \in MutexId, LockWait(u, m)
          PROVE  u = t /\ ~FindsDeadlock(u, m)
      BY <2>t, <3>1 DEF LockWait, TypeOK, call
    <3>2. ASSUME NEW u \in Thread, NEW m \in MutexId,
                 \/ MutexInit(u, m) \/ MutexDestroy(u, m) \/ LockAgain(u, m)
                 \/ LockFree(u, m) \/ TrylockFree(u, m) \/ UnlockInner(u, m)
                 \/ UnlockLast(u, m)
          PROVE  FALSE
      BY <2>t, <3>2 DEF MutexInit, MutexDestroy, LockAgain, LockFree, TrylockFree, UnlockInner,
         UnlockLast, TypeOK, call
    <3>3. ASSUME NEW u \in Thread, LockReturn(u) PROVE FALSE
      BY <2>t, <3>3 DEF LockReturn, TypeOK
    <3>4. PICK u \in Thread, m \in MutexId : LockWait(u, m)
      BY <3>2, <3>3 DEF Next
    <3>. QED
      BY <3>1, <3>4
  <2>2. Blockers(t)' \subseteq Boosted(t, m)
    BY <2>1, BoostedBlock
  <2>3. Boosted(t, m) \subseteq Thread
    BY <2>t, ChainType DEF Boosted, TypeOK
  <2>4. ASSUME NEW u \in Boosted(t, m) PROVE priority'[u] <= priority'[t]
    <3>1. u \in Thread /\ t \notin Boosted(t, m)
      BY <2>3 DEF Boosted
    <3>2. priority' = InheritPriority(t, m)
      BY <2>1 DEF LockWait
    <3>3. priority'[t] = priority[t]
          /\ priority'[u] = IF priority[u] > priority[t] THEN priority[t] ELSE priority[u]
      BY <3>1, <3>2 DEF InheritPriority
    <3>4. priority[u] \in Nat /\ priority[t] \in Nat
      BY <2>t, <3>1, MutexAssumption DEF TypeOK, Pri
    <3>. QED
      BY <3>3, <3>4
  <2>. QED
    BY <2>2, <2>4
<1>. HIDE DEF Step
<1>2. Spec => [][Step]_vars
  BY <1>1, BooksAlways, AcyclicAlways, PTL DEF Spec
<1>. QED
  BY <1>2 DEF BoostReachesBlockers, Step
=============================================================================

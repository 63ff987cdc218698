----------------------------- MODULE SemProofs -----------------------------
(***************************************************************************)
(* Proofs about the semaphore (module Sem), for every set of threads, all  *)
(* priorities and values, with any threads interrupted and terminated.     *)
(*                                                                         *)
(* The sleep queue comes first; what is counted (units of the value and    *)
(* references) rests on it.                                                *)
(***************************************************************************)
EXTENDS Sem, PrexQueueProofs, FiniteSetTheorems

Sleeping == TypeOK /\ QueueIsSleepers

\* sem_post() wakes a thread that sleeps, and nobody else leaves the queue.
LEMMA PostWakesSleeper ==
  ASSUME Sleeping, sleepq # <<>>
  PROVE  /\ FirstBest(sleepq, Priority) \in Thread
         /\ pc[FirstBest(sleepq, Priority)] = "asleep"
<1>1. FirstBest(sleepq, Priority) \in Items(sleepq)
  BY FirstBestItem, SemAssumption DEF Sleeping, TypeOK
<1>. QED
  BY <1>1 DEF Sleeping, QueueIsSleepers

LEMMA SleepingInit == Init => Sleeping
<1>. SUFFICES ASSUME Init PROVE Sleeping
  OBVIOUS
<1>1. TypeOK
  <2>1. value \in 0..MAXSEMVAL /\ refcnt \in Int /\ destroys \in Nat
    BY SemAssumption DEF Init
  <2>2. sleepq \in Seq(Thread)
    BY EmptySeq DEF Init
  <2>3. pc \in [Thread -> {"user"}] /\ slpret \in [Thread -> {"SUCCESS"}]
    BY DEF Init
  <2>4. valid \in BOOLEAN /\ ownerref \in BOOLEAN
    BY Zenon DEF Init
  <2>. QED
    BY <2>1, <2>2, <2>3, <2>4 DEF TypeOK
<1>2. QueueIsSleepers
  <2>1. Distinct(<<>>) /\ Items(<<>>) = {}
    BY DEF Distinct, Items
  <2>. QED
    BY <2>1 DEF Init, QueueIsSleepers
<1>. QED
  BY <1>1, <1>2 DEF Sleeping

\* A step that leaves the queue and the places of the threads alone.
LEMMA SleepingSame ==
  ASSUME Sleeping, TypeOK', sleepq' = sleepq,
         \A t \in Thread : pc'[t] = "asleep" <=> pc[t] = "asleep"
  PROVE  Sleeping'
BY DEF Sleeping, QueueIsSleepers

\* A thread joins the queue.
LEMMA SleepingJoin ==
  ASSUME Sleeping, TypeOK', NEW t \in Thread, pc[t] # "asleep",
         sleepq' = Append(sleepq, t), pc' = [pc EXCEPT ![t] = "asleep"]
  PROVE  Sleeping'
<1>1. t \notin Items(sleepq) /\ sleepq \in Seq(Thread) /\ Distinct(sleepq)
  BY DEF Sleeping, TypeOK, QueueIsSleepers
<1>2. Distinct(sleepq') /\ Items(sleepq') = Items(sleepq) \cup {t}
  BY <1>1, EnqueueItems
<1>. QED
  BY <1>2 DEF Sleeping, TypeOK, QueueIsSleepers

\* A thread leaves the queue, or was in none.
LEMMA SleepingLeave ==
  ASSUME Sleeping, TypeOK', NEW t \in Thread, NEW w \in {"woken", "dead"},
         sleepq' = Without(sleepq, t), pc' = [pc EXCEPT ![t] = w]
  PROVE  Sleeping'
<1>1. Distinct(sleepq') /\ Items(sleepq') = Items(sleepq) \ {t}
  BY WithoutItems DEF Sleeping, TypeOK, QueueIsSleepers
<1>. QED
  BY <1>1 DEF Sleeping, TypeOK, QueueIsSleepers

LEMMA SleepingNext == Sleeping /\ [Next]_vars => Sleeping'
<1>. SUFFICES ASSUME Sleeping, [Next]_vars PROVE Sleeping'
  OBVIOUS
<1>. USE DEF TypeOK, Release
<1>s. TypeOK /\ QueueIsSleepers
  BY DEF Sleeping
<1>v. MAXSEMVAL \in Nat /\ InitVals \subseteq 0..MAXSEMVAL
  BY SemAssumption
<1>1. ASSUME NEW t \in Thread, NEW v \in InitVals, SemCreate(t, v) PROVE Sleeping'
  <2>1. Inside = {} /\ sleepq' = <<>> /\ pc' = pc
    BY <1>1 DEF SemCreate
  <2>2. \A u \in Thread : pc[u] # "asleep"
    BY <2>1 DEF Inside
  <2>3. Items(sleepq) = {}
    BY <1>s, <2>2 DEF QueueIsSleepers
  <2>4. sleepq' = sleepq
    BY <1>s, <2>1, <2>3, NoItems
  <2>5. TypeOK'
    BY <1>1, <1>s, <1>v DEF SemCreate
  <2>. QED
    BY <2>1, <2>4, <2>5, SleepingSame
<1>2. ASSUME NEW t \in Thread, NEW v \in InitVals, SemReset(t, v) PROVE Sleeping'
  <2>1. TypeOK'
    BY <1>2, <1>s, <1>v DEF SemReset
  <2>. QED
    BY <1>2, <2>1, SleepingSame DEF SemReset
<1>3. ASSUME NEW t \in Thread, SemDestroy(t) PROVE Sleeping'
  <2>1. valid' \in BOOLEAN /\ refcnt' \in Int /\ destroys' \in Nat
    BY <1>3, <1>s DEF SemDestroy
  <2>2. /\ UNCHANGED <<value, sleepq, pc, slpret>>
        /\ ownerref' \in BOOLEAN
    BY <1>3 DEF SemDestroy
  <2>3. TypeOK'
    BY <1>s, <2>1, <2>2
  <2>. QED
    BY <2>2, <2>3, SleepingSame
<1>4. ASSUME NEW t \in Thread, SemTake(t) PROVE Sleeping'
  <2>1. TypeOK'
    BY <1>4, <1>s, <1>v DEF SemTake
  <2>. QED
    BY <1>4, <2>1, SleepingSame DEF SemTake
<1>5. ASSUME NEW t \in Thread, SemSleep(t) PROVE Sleeping'
  <2>1. TypeOK'
    BY <1>5, <1>s, EnqueueItems DEF SemSleep
  <2>2. pc[t] # "asleep"
    BY <1>5 DEF SemSleep, Calls
  <2>. QED
    BY <1>5, <2>1, <2>2, SleepingJoin DEF SemSleep
<1>6. ASSUME NEW t \in Thread, SemRetry(t) PROVE Sleeping'
  <2>1. pc[t] = "woken"
    BY <1>6 DEF SemRetry, Woken
  <2>2. CASE value = 0
    <3>1. TypeOK'
      BY <1>6, <1>s, <2>2, EnqueueItems DEF SemRetry
    <3>. QED
      BY <1>6, <2>1, <2>2, <3>1, SleepingJoin DEF SemRetry
  <2>3. CASE value # 0
    <3>1. TypeOK'
      BY <1>6, <1>s, <1>v, <2>3 DEF SemRetry
    <3>. QED
      BY <1>6, <1>s, <2>1, <2>3, <3>1, SleepingSame DEF SemRetry
  <2>. QED
    BY <2>2, <2>3
<1>7. ASSUME NEW t \in Thread, SemFail(t) PROVE Sleeping'
  <2>1. TypeOK'
    BY <1>7, <1>s DEF SemFail
  <2>. QED
    BY <1>7, <1>s, <2>1, SleepingSame DEF SemFail
<1>8. ASSUME NEW t \in Thread, SemPost(t) PROVE Sleeping'
  <2>1. CASE sleepq = <<>>
    <3>1. TypeOK'
      BY <1>8, <1>s, <1>v, <2>1 DEF SemPost, PostWakes
    <3>. QED
      BY <1>8, <2>1, <3>1, SleepingSame DEF SemPost, PostWakes
  <2>2. CASE sleepq # <<>>
    <3>. DEFINE top == FirstBest(sleepq, Priority)
    <3>1. top \in Thread
      BY <2>2, PostWakesSleeper
    <3>2. /\ sleepq' = Without(sleepq, top)
          /\ pc' = [pc EXCEPT ![top] = "woken"]
          /\ slpret' = [slpret EXCEPT ![top] = "SUCCESS"]
          /\ value' = value + 1 /\ value < MAXSEMVAL
          /\ UNCHANGED <<valid, refcnt, ownerref, destroys>>
      BY <1>8, <2>2 DEF SemPost, PostWakes
    <3>. HIDE DEF top
    <3>3. TypeOK'
      BY <1>s, <1>v, <3>1, <3>2, WithoutType
    <3>. QED
      BY <3>1, <3>2, <3>3, SleepingLeave
  <2>. QED
    BY <2>1, <2>2
<1>9. ASSUME NEW t \in Thread, Kill(t) PROVE Sleeping'
  <2>1. TypeOK'
    BY <1>9, <1>s, WithoutType DEF Kill
  <2>. QED
    BY <1>9, <2>1, SleepingLeave DEF Kill
<1>10. ASSUME NEW t \in Thread, NEW r \in {"TIMEOUT", "INTR"}, Unsleep(t, r)
       PROVE  Sleeping'
  <2>1. TypeOK'
    BY <1>10, <1>s, WithoutType DEF Unsleep
  <2>. QED
    BY <1>10, <2>1, SleepingLeave DEF Unsleep
<1>11. CASE UNCHANGED vars
  <2>1. TypeOK'
    BY <1>11, <1>s DEF vars
  <2>. QED
    BY <1>11, <2>1, SleepingSame DEF vars
<1>. QED
  BY <1>1, <1>2, <1>3, <1>4, <1>5, <1>6, <1>7, <1>8, <1>9, <1>10, <1>11 DEF Next

LEMMA SleepingInvariant == Spec => []Sleeping
BY SleepingInit, SleepingNext, PTL DEF Spec

\* Every variable of the semaphore keeps its type; the value stays between 0
\* and MAXSEMVAL.
THEOREM TypeCorrect == Spec => []TypeOK
<1>1. Sleeping => TypeOK
  BY DEF Sleeping
<1>. QED
  BY <1>1, SleepingInvariant, PTL

\* The sleep queue holds the threads asleep in sem_wait(), whatever ends the
\* sleep: a post, a time-out, an exception or termination.
THEOREM QueueCorrect == Spec => []QueueIsSleepers
<1>1. Sleeping => QueueIsSleepers
  BY DEF Sleeping
<1>. QED
  BY <1>1, SleepingInvariant, PTL
-----------------------------------------------------------------------------
\* Sets of threads can be counted.
LEMMA CountedType ==
  ASSUME NEW S \in SUBSET Thread
  PROVE  /\ Cardinality(S) \in Nat
         /\ Cardinality(S) = 0 <=> S = {}
<1>1. IsFiniteSet(S)
  BY SemFinite, FS_Subset
<1>. QED
  BY <1>1, FS_CardinalityType, FS_EmptySet

LEMMA Counted ==
  ASSUME NEW S \in SUBSET Thread, NEW t \in Thread
  PROVE  /\ t \notin S => Cardinality(S \cup {t}) = Cardinality(S) + 1
         /\ t \in S => Cardinality(S \ {t}) = Cardinality(S) - 1
<1>1. IsFiniteSet(S)
  BY SemFinite, FS_Subset
<1>. QED
  BY <1>1, FS_AddElement, FS_RemoveElement

\* The sets of threads that are counted, after t has moved from its place to w
\* with the result r of its sleep.
LEMMA CountedMove ==
  ASSUME TypeOK, NEW t \in Thread, NEW w \in {"user", "asleep", "woken", "dead"},
         NEW r \in {"SUCCESS", "TIMEOUT", "INTR"},
         pc' = [pc EXCEPT ![t] = w], slpret' = [slpret EXCEPT ![t] = r]
  PROVE  /\ Dead' = IF w = "dead" THEN Dead \cup {t} ELSE Dead \ {t}
         /\ Woken' = IF w = "woken" /\ r = "SUCCESS" THEN Woken \cup {t}
                     ELSE Woken \ {t}
         /\ Inside' = IF w \in {"asleep", "woken"} THEN Inside \cup {t}
                      ELSE Inside \ {t}
BY DEF TypeOK, Dead, Woken, Inside

\* The same when the result is left alone.
LEMMA CountedStay ==
  ASSUME TypeOK, NEW t \in Thread, NEW w \in {"user", "asleep", "woken", "dead"},
         pc' = [pc EXCEPT ![t] = w], slpret' = slpret
  PROVE  /\ Dead' = IF w = "dead" THEN Dead \cup {t} ELSE Dead \ {t}
         /\ Woken' = IF w = "woken" /\ slpret[t] = "SUCCESS" THEN Woken \cup {t}
                     ELSE Woken \ {t}
         /\ Inside' = IF w \in {"asleep", "woken"} THEN Inside \cup {t}
                      ELSE Inside \ {t}
BY DEF TypeOK, Dead, Woken, Inside

LEMMA WakeupsInit == Init => NoLostWakeup
BY DEF Init, NoLostWakeup

LEMMA WakeupsNext == Sleeping /\ NoLostWakeup /\ [Next]_vars => NoLostWakeup'
<1>. SUFFICES ASSUME Sleeping, NoLostWakeup, [Next]_vars, sleepq' # <<>>
              PROVE  value' <= Cardinality(Woken') + Cardinality(Dead')
  BY DEF NoLostWakeup
<1>s. TypeOK /\ QueueIsSleepers
  BY DEF Sleeping
<1>v. value \in Nat
  BY <1>s, SemAssumption DEF TypeOK
<1>c. Woken \in SUBSET Thread /\ Dead \in SUBSET Thread
  BY DEF Woken, Dead
<1>n. /\ Cardinality(Woken) \in Nat /\ Cardinality(Dead) \in Nat
      /\ Cardinality(Woken') \in Nat /\ Cardinality(Dead') \in Nat
  <2>1. Woken' \in SUBSET Thread /\ Dead' \in SUBSET Thread
    BY DEF Woken, Dead
  <2>. QED
    BY <1>c, <2>1, CountedType
<1>q. sleepq # <<>> => value <= Cardinality(Woken) + Cardinality(Dead)
  BY DEF NoLostWakeup
<1>1. ASSUME NEW t \in Thread, NEW v \in InitVals, SemCreate(t, v) \/ SemReset(t, v)
      PROVE  FALSE
  BY <1>1 DEF SemCreate, SemReset
<1>2. ASSUME NEW t \in Thread, SemDestroy(t)
      PROVE  value' <= Cardinality(Woken') + Cardinality(Dead')
  BY <1>2, <1>q DEF SemDestroy, Woken, Dead
<1>3. ASSUME NEW t \in Thread, SemTake(t)
      PROVE  value' <= Cardinality(Woken') + Cardinality(Dead')
  <2>1. Woken' = Woken /\ Dead' = Dead /\ sleepq # <<>> /\ value' = value - 1
    BY <1>3 DEF SemTake, Woken, Dead
  <2>. QED
    BY <2>1, <1>q, <1>v, <1>n
<1>4. ASSUME NEW t \in Thread, SemSleep(t)
      PROVE  value' <= Cardinality(Woken') + Cardinality(Dead')
  BY <1>4, <1>n DEF SemSleep
<1>5. ASSUME NEW t \in Thread, SemRetry(t)
      PROVE  value' <= Cardinality(Woken') + Cardinality(Dead')
  <2>1. CASE value = 0
    BY <1>5, <2>1, <1>n DEF SemRetry
  <2>2. CASE value # 0
    <3>1. /\ value' = value - 1 /\ sleepq' = sleepq /\ t \in Woken
          /\ pc' = [pc EXCEPT ![t] = "user"] /\ slpret' = slpret
      BY <1>5, <2>2 DEF SemRetry
    <3>2. Woken' = Woken \ {t} /\ Dead' = Dead \ {t} /\ t \notin Dead
      BY <1>s, <3>1, CountedStay DEF Woken, Dead
    <3>3. Cardinality(Woken') = Cardinality(Woken) - 1 /\ Dead' = Dead
      BY <1>c, <3>1, <3>2, Counted
    <3>. QED
      BY <3>1, <3>3, <1>q, <1>v, <1>n
  <2>. QED
    BY <2>1, <2>2
<1>6. ASSUME NEW t \in Thread, SemFail(t)
      PROVE  value' <= Cardinality(Woken') + Cardinality(Dead')
  <2>1. /\ t \notin Woken /\ t \notin Dead
        /\ value' = value /\ sleepq' = sleepq /\ slpret' = slpret
        /\ pc' = [pc EXCEPT ![t] = "user"]
    BY <1>6 DEF SemFail, Woken, Dead
  <2>2. Woken' = Woken \ {t} /\ Dead' = Dead \ {t}
    BY <1>s, <2>1, CountedStay DEF Woken, Dead
  <2>3. Woken' = Woken /\ Dead' = Dead
    BY <2>1, <2>2
  <2>. QED
    BY <2>1, <2>3, <1>q
<1>7. ASSUME NEW t \in Thread, SemPost(t)
      PROVE  value' <= Cardinality(Woken') + Cardinality(Dead')
  <2>1. sleepq # <<>>
    BY <1>7 DEF SemPost, PostWakes
  <2>. DEFINE top == FirstBest(sleepq, Priority)
  <2>2. top \in Thread /\ pc[top] = "asleep"
    BY <2>1, PostWakesSleeper
  <2>3. /\ value' = value + 1
        /\ pc' = [pc EXCEPT ![top] = "woken"]
        /\ slpret' = [slpret EXCEPT ![top] = "SUCCESS"]
    BY <1>7, <2>1 DEF SemPost, PostWakes
  <2>. HIDE DEF top
  <2>4. Woken' = Woken \cup {top} /\ Dead' = Dead \ {top}
    BY <1>s, <2>2, <2>3, CountedMove
  <2>5. top \notin Woken /\ top \notin Dead
    BY <2>2 DEF Woken, Dead
  <2>6. Cardinality(Woken') = Cardinality(Woken) + 1 /\ Dead' = Dead
    BY <1>c, <2>2, <2>4, <2>5, Counted
  <2>. QED
    BY <2>1, <2>3, <2>6, <1>q, <1>v, <1>n
<1>8. ASSUME NEW t \in Thread, Kill(t)
      PROVE  value' <= Cardinality(Woken') + Cardinality(Dead')
  <2>1. /\ sleepq' = Without(sleepq, t) /\ value' = value /\ slpret' = slpret
        /\ pc' = [pc EXCEPT ![t] = "dead"] /\ t \notin Dead
    BY <1>8 DEF Kill, Dead
  <2>2. Woken' = Woken \ {t} /\ Dead' = Dead \cup {t}
    BY <1>s, <2>1, CountedStay
  <2>3. Cardinality(Dead') = Cardinality(Dead) + 1
    BY <1>c, <2>1, <2>2, Counted
  <2>4. Cardinality(Woken') >= Cardinality(Woken) - 1
    <3>1. CASE t \in Woken
      BY <1>c, <1>n, <2>2, <3>1, Counted
    <3>2. CASE t \notin Woken
      <4>1. Woken' = Woken
        BY <2>2, <3>2
      <4>. QED
        BY <4>1, <1>n
    <3>. QED
      BY <3>1, <3>2
  <2>5. sleepq # <<>>
    BY <2>1 DEF Without, InQueue
  <2>. QED
    BY <2>1, <2>3, <2>4, <2>5, <1>q, <1>v, <1>n
<1>9. ASSUME NEW t \in Thread, NEW r \in {"TIMEOUT", "INTR"}, Unsleep(t, r)
      PROVE  value' <= Cardinality(Woken') + Cardinality(Dead')
  <2>1. /\ sleepq' = Without(sleepq, t) /\ value' = value
        /\ slpret' = [slpret EXCEPT ![t] = r]
        /\ pc' = [pc EXCEPT ![t] = "woken"] /\ t \notin Dead /\ t \notin Woken
    BY <1>9 DEF Unsleep, Dead, Woken
  <2>2. Woken' = Woken \ {t} /\ Dead' = Dead \ {t}
    BY <1>s, <2>1, CountedMove
  <2>3. Woken' = Woken /\ Dead' = Dead
    BY <2>1, <2>2
  <2>4. sleepq # <<>>
    BY <2>1 DEF Without, InQueue
  <2>. QED
    BY <2>1, <2>3, <2>4, <1>q
<1>10. CASE UNCHANGED vars
  BY <1>10, <1>q DEF vars, Woken, Dead
<1>. QED
  BY <1>1, <1>2, <1>3, <1>4, <1>5, <1>6, <1>7, <1>8, <1>9, <1>10 DEF Next

\* No wakeup is lost, however posts, time-outs, exceptions and faster threads
\* interleave: while threads sleep, every unit of the value has a woken thread
\* on its way to it, but for one unit for each terminated thread.
THEOREM WakeupsCorrect == Spec => []NoLostWakeup
BY SleepingInvariant, WakeupsInit, WakeupsNext, PTL DEF Spec
-----------------------------------------------------------------------------
\* The reference of sem_init(), and the references beyond those accounted for.
Owned == IF ownerref THEN 1 ELSE 0
Extra == refcnt - Cardinality(Inside) - Owned

\* What is known of the references of a semaphore that is destroyed once: the
\* owner's goes with that call.
Counting ==
  /\ ReferencesAreCounted
  /\ NoUseAfterFree
  /\ valid <=> refcnt > 0
  /\ valid /\ destroys = 0 => ownerref

LEMMA CountingTypes ==
  ASSUME TypeOK
  PROVE  /\ Inside \in SUBSET Thread /\ Dead \in SUBSET Thread
         /\ Cardinality(Inside) \in Nat /\ Cardinality(Dead) \in Nat
         /\ Cardinality(Inside) = 0 <=> Inside = {}
         /\ Owned \in {0, 1} /\ Extra \in Int
<1>1. Inside \in SUBSET Thread /\ Dead \in SUBSET Thread
  BY DEF Inside, Dead
<1>2. Owned \in {0, 1}
  BY DEF Owned
<1>. QED
  BY <1>1, <1>2, CountedType DEF TypeOK, Extra

\* While the semaphore is valid after the step, and the references still add
\* up, it is not freed under a thread.
LEMMA CountingStep ==
  ASSUME TypeOK', Extra' \in 0..Cardinality(Dead'), valid' <=> refcnt' > 0,
         valid' /\ destroys' = 0 => ownerref'
  PROVE  Counting'
<1>1. /\ Cardinality(Inside') \in Nat /\ Cardinality(Dead') \in Nat
      /\ Cardinality(Inside') = 0 <=> Inside' = {}
      /\ Owned' \in {0, 1} /\ refcnt' \in Int
  <2>1. Inside' \in SUBSET Thread /\ Dead' \in SUBSET Thread
    BY DEF Inside, Dead
  <2>2. Owned' \in {0, 1}
    BY DEF Owned
  <2>. QED
    BY <2>1, <2>2, CountedType DEF TypeOK
<1>2. ReferencesAreCounted'
  BY DEF ReferencesAreCounted, Extra, Owned
<1>3. NoUseAfterFree'
  <2>1. Inside' # {} => Cardinality(Inside') >= 1
    BY <1>1
  <2>2. Inside' # {} => refcnt' > 0
    BY <1>1, <2>1 DEF Extra
  <2>. QED
    BY <2>2 DEF NoUseAfterFree
<1>. QED
  BY <1>2, <1>3 DEF Counting

LEMMA CountingInit == Init => Counting
<1>. SUFFICES ASSUME Init PROVE Counting
  OBVIOUS
<1>1. ~valid /\ Inside = {} /\ refcnt = 0
  BY DEF Init, Inside
<1>. QED
  BY <1>1 DEF Counting, ReferencesAreCounted, NoUseAfterFree

LEMMA CountingNext ==
  ASSUME MaxDestroy <= 1
  PROVE  Sleeping /\ Sleeping' /\ Counting /\ [Next]_vars => Counting'
<1>. SUFFICES ASSUME Sleeping, Sleeping', Counting, [Next]_vars PROVE Counting'
  OBVIOUS
<1>s. TypeOK /\ TypeOK' /\ MaxDestroy \in Nat
  BY SemAssumption DEF Sleeping
<1>i. /\ Inside \in SUBSET Thread /\ Dead \in SUBSET Thread
      /\ Cardinality(Inside) \in Nat /\ Cardinality(Dead) \in Nat
      /\ Cardinality(Inside) = 0 <=> Inside = {}
      /\ Owned \in {0, 1} /\ refcnt \in Int /\ destroys \in Nat
  BY <1>s, CountingTypes DEF TypeOK
<1>e. valid => Extra \in 0..Cardinality(Dead)
  BY DEF Counting, ReferencesAreCounted, Extra, Owned
<1>c. /\ valid <=> refcnt > 0
      /\ valid /\ destroys = 0 => ownerref
      /\ Inside # {} => valid
  BY DEF Counting, NoUseAfterFree
<1>1. ASSUME NEW t \in Thread, NEW v \in InitVals, SemCreate(t, v) PROVE Counting'
  <2>1. /\ Inside' = {} /\ Dead' = Dead /\ refcnt' = 1 /\ valid' /\ ownerref'
    BY <1>1 DEF SemCreate, Inside, Dead
  <2>2. Extra' = 0 /\ Owned' = 1
    BY <2>1, FS_EmptySet DEF Extra, Owned
  <2>. QED
    BY <2>1, <2>2, <1>s, <1>i, CountingStep
<1>2. ASSUME NEW t \in Thread, NEW v \in InitVals, SemReset(t, v) PROVE Counting'
  <2>1. valid /\ UNCHANGED <<valid, refcnt, pc, ownerref, destroys>>
    BY <1>2 DEF SemReset, Calls
  <2>2. Extra' = Extra /\ Dead' = Dead
    BY <2>1 DEF Extra, Owned, Inside, Dead
  <2>. QED
    BY <2>1, <2>2, <1>s, <1>e, <1>c, CountingStep
<1>3. ASSUME NEW t \in Thread, SemDestroy(t) PROVE Counting'
  <2>0. /\ valid /\ pc' = pc /\ ~ownerref'
        /\ destroys < MaxDestroy /\ destroys' = destroys + 1
        /\ refcnt' = refcnt - 1 /\ valid' = (refcnt - 1 > 0)
    BY <1>3 DEF SemDestroy, Calls, Release
  <2>1. destroys = 0
    BY <2>0, <1>s, <1>i
  <2>2. valid' <=> refcnt' > 0
    BY <2>0, <1>i
  <2>3. Owned = 1 /\ Owned' = 0
    BY <2>0, <2>1, <1>c DEF Owned
  <2>4. Inside' = Inside /\ Dead' = Dead
    BY <2>0 DEF Inside, Dead
  <2>5. Extra' = Extra
    BY <2>0, <2>3, <2>4, <1>i DEF Extra
  <2>. QED
    BY <2>0, <2>1, <2>2, <2>4, <2>5, <1>s, <1>e, <1>i, CountingStep
<1>4. ASSUME NEW t \in Thread, SemTake(t) PROVE Counting'
  <2>1. valid /\ UNCHANGED <<valid, refcnt, pc, ownerref, destroys>>
    BY <1>4 DEF SemTake, Calls
  <2>2. Extra' = Extra /\ Dead' = Dead
    BY <2>1 DEF Extra, Owned, Inside, Dead
  <2>. QED
    BY <2>1, <2>2, <1>s, <1>e, <1>c, CountingStep
<1>5. ASSUME NEW t \in Thread, SemSleep(t) PROVE Counting'
  <2>1. /\ valid /\ t \notin Inside /\ t \notin Dead
        /\ refcnt' = refcnt + 1 /\ pc' = [pc EXCEPT ![t] = "asleep"]
        /\ UNCHANGED <<valid, slpret, ownerref, destroys>>
    BY <1>5 DEF SemSleep, Calls, Inside, Dead
  <2>2. Inside' = Inside \cup {t} /\ Dead' = Dead \ {t}
    BY <2>1, <1>s, CountedStay
  <2>3. Cardinality(Inside') = Cardinality(Inside) + 1 /\ Dead' = Dead
    BY <2>1, <2>2, <1>i, Counted
  <2>4. Extra' = Extra
    BY <2>1, <2>3, <1>i DEF Extra, Owned
  <2>. QED
    BY <2>1, <2>3, <2>4, <1>s, <1>e, <1>c, <1>i, CountingStep
<1>6. ASSUME NEW t \in Thread, t \in Inside, Release, slpret' = slpret,
             pc' = [pc EXCEPT ![t] = "user"], UNCHANGED <<ownerref, destroys>>
      PROVE  Counting'
  <2>1. /\ valid /\ t \notin Dead
        /\ refcnt' = refcnt - 1 /\ (valid' <=> refcnt' > 0)
    BY <1>6, <1>c DEF Release, Inside, Dead
  <2>2. Inside' = Inside \ {t} /\ Dead' = Dead \ {t}
    BY <1>6, <1>s, CountedStay
  <2>3. Cardinality(Inside') = Cardinality(Inside) - 1 /\ Dead' = Dead
    BY <1>6, <2>1, <2>2, <1>i, Counted
  <2>4. Extra' = Extra
    BY <1>6, <2>1, <2>3, <1>i DEF Extra, Owned
  <2>. QED
    BY <1>6, <2>1, <2>3, <2>4, <1>s, <1>e, <1>c, CountingStep
<1>7. ASSUME NEW t \in Thread, NEW w \in {"asleep", "woken"},
             t \in Inside, pc' = [pc EXCEPT ![t] = w],
             UNCHANGED <<valid, refcnt, ownerref, destroys>>
      PROVE  Counting'
  <2>1. Inside' = Inside /\ Dead' = Dead
    BY <1>7, <1>s DEF TypeOK, Inside, Dead
  <2>2. Extra' = Extra /\ valid
    BY <1>7, <2>1, <1>c DEF Extra, Owned
  <2>. QED
    BY <1>7, <2>1, <2>2, <1>s, <1>e, <1>c, CountingStep
<1>8. ASSUME NEW t \in Thread, SemRetry(t) PROVE Counting'
  <2>1. t \in Inside
    BY <1>8 DEF SemRetry, Woken, Inside
  <2>2. CASE value = 0
    BY <1>7, <1>8, <2>1, <2>2 DEF SemRetry
  <2>3. CASE value # 0
    BY <1>6, <1>8, <2>1, <2>3 DEF SemRetry
  <2>. QED
    BY <2>2, <2>3
<1>9. ASSUME NEW t \in Thread, SemFail(t) PROVE Counting'
  BY <1>6, <1>9 DEF SemFail, Inside
<1>10. ASSUME NEW t \in Thread, SemPost(t) PROVE Counting'
  <2>1. /\ valid /\ UNCHANGED <<valid, refcnt, ownerref, destroys>>
    BY <1>10 DEF SemPost, Calls
  <2>2. CASE sleepq = <<>>
    <3>1. pc' = pc
      BY <1>10, <2>2 DEF SemPost, PostWakes
    <3>2. Extra' = Extra /\ Dead' = Dead
      BY <2>1, <3>1 DEF Extra, Owned, Inside, Dead
    <3>. QED
      BY <2>1, <3>2, <1>s, <1>e, <1>c, CountingStep
  <2>3. CASE sleepq # <<>>
    <3>. DEFINE top == FirstBest(sleepq, Priority)
    <3>1. top \in Thread /\ pc[top] = "asleep"
      BY <2>3, PostWakesSleeper
    <3>2. pc' = [pc EXCEPT ![top] = "woken"]
      BY <1>10, <2>3 DEF SemPost, PostWakes
    <3>. HIDE DEF top
    <3>. QED
      BY <1>7, <2>1, <3>1, <3>2 DEF Inside
  <2>. QED
    BY <2>2, <2>3
<1>11. ASSUME NEW t \in Thread, NEW r \in {"TIMEOUT", "INTR"}, Unsleep(t, r)
       PROVE  Counting'
  BY <1>7, <1>11 DEF Unsleep, Inside
<1>12. ASSUME NEW t \in Thread, Kill(t) PROVE Counting'
  <2>1. /\ t \notin Dead /\ slpret' = slpret /\ pc' = [pc EXCEPT ![t] = "dead"]
        /\ UNCHANGED <<valid, refcnt, ownerref, destroys>>
    BY <1>12 DEF Kill, Dead
  <2>2. Inside' = Inside \ {t} /\ Dead' = Dead \cup {t}
    BY <2>1, <1>s, CountedStay
  <2>3. CASE valid
    <3>1. Cardinality(Dead') = Cardinality(Dead) + 1
      BY <2>1, <2>2, <1>i, Counted
    <3>2. /\ Cardinality(Inside') <= Cardinality(Inside)
          /\ Cardinality(Inside') >= Cardinality(Inside) - 1
          /\ Cardinality(Inside') \in Nat
      <4>1. CASE t \in Inside
        BY <2>2, <4>1, <1>i, Counted, CountedType
      <4>2. CASE t \notin Inside
        <5>1. Inside' = Inside
          BY <2>2, <4>2
        <5>. QED
          BY <5>1, <1>i
      <4>. QED
        BY <4>1, <4>2
    <3>3. Extra' \in 0..Cardinality(Dead')
      BY <2>1, <2>3, <3>1, <3>2, <1>e, <1>i DEF Extra, Owned
    <3>. QED
      BY <2>1, <3>3, <1>s, <1>c, CountingStep
  <2>4. CASE ~valid
    <3>1. Inside' = {}
      BY <2>2, <2>4, <1>c
    <3>. QED
      BY <2>1, <2>4, <3>1, <1>c DEF Counting, ReferencesAreCounted, NoUseAfterFree
  <2>. QED
    BY <2>3, <2>4
<1>13. CASE UNCHANGED vars
  <2>1. Inside' = Inside /\ Dead' = Dead /\ UNCHANGED <<valid, refcnt, ownerref, destroys>>
    BY <1>13 DEF vars, Inside, Dead
  <2>. QED
    BY <2>1 DEF Counting, ReferencesAreCounted, NoUseAfterFree
<1>. QED
  BY <1>1, <1>2, <1>3, <1>4, <1>5, <1>8, <1>9, <1>10, <1>11, <1>12, <1>13 DEF Next

LEMMA CountingInvariant == MaxDestroy <= 1 /\ Spec => []Counting
<1>1. ASSUME MaxDestroy <= 1 PROVE Spec => []Counting
  <2>1. Sleeping /\ Sleeping' /\ Counting /\ [Next]_vars => Counting'
    BY <1>1, CountingNext
  <2>. QED
    BY <2>1, CountingInit, SleepingInvariant, PTL DEF Spec
<1>. QED
  BY <1>1

\* A semaphore that is destroyed once at most has the owner's reference and
\* one for each thread inside sem_wait(), whichever way the calls end; only
\* terminated threads leave theirs behind.
THEOREM ReferencesCorrect == MaxDestroy <= 1 /\ Spec => []ReferencesAreCounted
<1>1. Counting => ReferencesAreCounted
  BY DEF Counting
<1>. QED
  BY <1>1, CountingInvariant, PTL

\* A semaphore that is destroyed once at most is not freed under a thread
\* inside sem_wait(), not even under one that is woken and did not run yet,
\* which sem_destroy() does not see.
THEOREM FreeCorrect == MaxDestroy <= 1 /\ Spec => []NoUseAfterFree
<1>1. Counting => NoUseAfterFree
  BY DEF Counting
<1>. QED
  BY <1>1, CountingInvariant, PTL
-----------------------------------------------------------------------------
\* What Sem shows of a thread's step to the users of the semaphore.
LEMMA InsideJoin ==
  ASSUME TypeOK, NEW t \in Thread, pc[t] # "dead",
         pc' = [pc EXCEPT ![t] = "asleep"]
  PROVE  Inside' = Inside \cup {t} /\ Dead' = Dead
BY DEF TypeOK, Inside, Dead

LEMMA InsideLeave ==
  ASSUME TypeOK, NEW t \in Thread, pc[t] # "dead", pc' = [pc EXCEPT ![t] = "user"]
  PROVE  Inside' = Inside \ {t} /\ Dead' = Dead
BY DEF TypeOK, Inside, Dead

LEMMA InsideWoken ==
  ASSUME TypeOK, NEW t \in Thread, pc[t] = "asleep", pc' = [pc EXCEPT ![t] = "woken"]
  PROVE  Inside' = Inside /\ Dead' = Dead
BY DEF TypeOK, Inside, Dead

LEMMA InsideSame ==
  ASSUME pc' = pc
  PROVE  Inside' = Inside /\ Dead' = Dead
BY DEF Inside, Dead

LEMMA SemaphoreNext == Sleeping /\ [Next]_vars => [Abstract!Next]_(Abstract!semvars)
<1>. SUFFICES ASSUME Sleeping, [Next]_vars
              PROVE  Abstract!Next \/ UNCHANGED Abstract!semvars
  OBVIOUS
<1>. USE DEF Abstract!Next, Abstract!semvars
<1>s. TypeOK
  BY DEF Sleeping
<1>1. ASSUME NEW t \in Thread, NEW v \in InitVals, SemCreate(t, v) \/ SemReset(t, v)
      PROVE  Abstract!Next
  <2>1. Abstract!Set(v)
    BY <1>1, InsideSame DEF SemCreate, SemReset, Abstract!Set
  <2>. QED
    BY <2>1
<1>2. ASSUME NEW t \in Thread, SemDestroy(t) PROVE UNCHANGED Abstract!semvars
  BY <1>2, InsideSame DEF SemDestroy
<1>3. ASSUME NEW t \in Thread, SemTake(t) PROVE Abstract!Next
  <2>1. t \notin Inside /\ t \in Thread \ Dead /\ Inside' = Inside /\ Dead' = Dead
    BY <1>3, InsideSame DEF SemTake, Calls, Inside, Dead
  <2>2. Abstract!Take(t)
    BY <1>3, <2>1 DEF SemTake, Abstract!Take
  <2>. QED
    BY <2>1, <2>2
<1>4. ASSUME NEW t \in Thread, SemSleep(t) PROVE Abstract!Next
  <2>1. t \in Thread \ Dead /\ Inside' = Inside \cup {t} /\ Dead' = Dead
    BY <1>4, <1>s, InsideJoin DEF SemSleep, Calls, Dead
  <2>2. Abstract!Wait(t)
    BY <1>4, <2>1 DEF SemSleep, Abstract!Wait
  <2>. QED
    BY <2>1, <2>2
<1>5. ASSUME NEW t \in Thread, SemRetry(t) PROVE Abstract!Next
  <2>1. pc[t] = "woken" /\ t \in Thread \ Dead
    BY <1>5 DEF SemRetry, Woken, Dead
  <2>2. CASE value = 0
    <3>1. Inside' = Inside \cup {t} /\ Dead' = Dead /\ value' = value
      BY <1>5, <1>s, <2>1, <2>2, InsideJoin DEF SemRetry
    <3>2. Abstract!Wait(t)
      BY <2>2, <3>1 DEF Abstract!Wait
    <3>. QED
      BY <2>1, <3>2
  <2>3. CASE value # 0
    <3>1. Inside' = Inside \ {t} /\ Dead' = Dead /\ value' = value - 1
      BY <1>5, <1>s, <2>1, <2>3, InsideLeave DEF SemRetry
    <3>2. value > 0
      BY <1>s, <2>3, SemAssumption DEF TypeOK
    <3>3. Abstract!Take(t)
      BY <3>1, <3>2 DEF Abstract!Take
    <3>. QED
      BY <2>1, <3>3
  <2>. QED
    BY <2>2, <2>3
<1>6. ASSUME NEW t \in Thread, SemFail(t) PROVE Abstract!Next
  <2>1. /\ t \in Inside /\ t \in Thread \ Dead
        /\ Inside' = Inside \ {t} /\ Dead' = Dead /\ value' = value
    BY <1>6, <1>s, InsideLeave DEF SemFail, Inside, Dead
  <2>2. Abstract!GiveUp(t)
    BY <2>1 DEF Abstract!GiveUp
  <2>. QED
    BY <2>1, <2>2
<1>7. ASSUME NEW t \in Thread, SemPost(t) PROVE Abstract!Next
  <2>1. Inside' = Inside /\ Dead' = Dead
    <3>1. CASE sleepq = <<>>
      BY <1>7, <3>1, InsideSame DEF SemPost, PostWakes
    <3>2. CASE sleepq # <<>>
      <4>. DEFINE top == FirstBest(sleepq, Priority)
      <4>1. top \in Thread /\ pc[top] = "asleep"
        BY <3>2, PostWakesSleeper
      <4>2. pc' = [pc EXCEPT ![top] = "woken"]
        BY <1>7, <3>2 DEF SemPost, PostWakes
      <4>. QED
        BY <1>s, <4>1, <4>2, InsideWoken
    <3>. QED
      BY <3>1, <3>2
  <2>2. Abstract!Post
    BY <1>7, <2>1 DEF SemPost, Abstract!Post
  <2>. QED
    BY <2>2
<1>8. ASSUME NEW t \in Thread, NEW r \in {"TIMEOUT", "INTR"}, Unsleep(t, r)
      PROVE  UNCHANGED Abstract!semvars
  BY <1>8, <1>s, InsideWoken DEF Unsleep
<1>9. ASSUME NEW t \in Thread, Kill(t) PROVE Abstract!Next
  <2>1. /\ t \in Thread \ Dead /\ value' = value
        /\ Inside' = Inside \ {t} /\ Dead' = Dead \cup {t}
    BY <1>9, <1>s DEF Kill, TypeOK, Inside, Dead
  <2>2. Abstract!Die(t)
    BY <2>1 DEF Abstract!Die
  <2>. QED
    BY <2>1, <2>2
<1>10. CASE UNCHANGED vars
  BY <1>10, InsideSame DEF vars
<1>. QED
  BY <1>1, <1>2, <1>3, <1>4, <1>5, <1>6, <1>7, <1>8, <1>9, <1>10 DEF Next

\* Sem implements the abstract semaphore: with its queue and its wakeups, and
\* whatever ends a sleep, each of its steps is one that the users of a
\* semaphore expect, or is invisible to them.
THEOREM SemaphoreRefined == Spec => Abstract!Spec
<1>1. Init => Abstract!Init
  BY DEF Init, Inside, Dead, Abstract!Init
<1>. QED
  BY <1>1, SleepingInvariant, SemaphoreNext, PTL DEF Spec, Abstract!Spec
=============================================================================

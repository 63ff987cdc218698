--------------------------- MODULE ServicesProofs ---------------------------
(***************************************************************************)
(* Proofs about the smaller components of the kernel, for any tasks,       *)
(* threads, exceptions, vectors, DPCs and devices: suspension (module      *)
(* Task), exceptions (Exception), interrupt threads and DPCs (Deferred)    *)
(* and the references of devices (Device); and about memory, for any       *)
(* blocks of pages: the free list (Page), kmem (Kmem), segments (Vm).      *)
(***************************************************************************)
EXTENDS Task, Exception, Deferred, Device, Kmem, Vm, PrexQueueProofs, FiniteSetTheorems

Suspension == TaskTypeOK /\ RunsOnlyResumed

LEMMA SuspensionInit == TaskInit => Suspension
BY TaskAssumption DEF TaskInit, Suspension, TaskTypeOK, RunsOnlyResumed

\* The threads that are left when those of S are deallocated keep their counts.
LEMMA SuspensionWithout ==
  ASSUME Suspension, NEW S \in SUBSET TaskThread, Deallocate(S),
         tasks' \subseteq TaskId,
         \/ tasksuscnt' = tasksuscnt
         \/ \E k \in TaskId : /\ S = ThreadsOf(k)
                              /\ tasksuscnt' = [tasksuscnt EXCEPT ![k] = 0]
  PROVE  Suspension'
<1>1. TaskTypeOK'
  BY DEF Suspension, TaskTypeOK, Deallocate
<1>2. ASSUME NEW t \in TaskThread, taskof'[t] # NoTask
      PROVE  /\ taskof'[t] = taskof[t] /\ suscnt'[t] = suscnt[t] /\ t \notin S
             /\ taskof[t] \in TaskId
             /\ tasksuscnt'[taskof[t]] = tasksuscnt[taskof[t]]
  BY <1>2 DEF Suspension, TaskTypeOK, Deallocate, ThreadsOf
<1>3. RunsOnlyResumed'
  BY <1>2 DEF Suspension, RunsOnlyResumed, Deallocate
<1>. QED
  BY <1>1, <1>3 DEF Suspension

LEMMA SuspensionNext == Suspension /\ [TaskNext]_taskVars => Suspension'
<1>. SUFFICES ASSUME Suspension, [TaskNext]_taskVars PROVE Suspension'
  OBVIOUS
<1>. USE TaskAssumption DEF Suspension, TaskTypeOK, RunsOnlyResumed
<1>1. ASSUME NEW k \in TaskId, TaskCreate(k) PROVE Suspension'
  BY <1>1 DEF TaskCreate
<1>2. ASSUME NEW k \in TaskId, TaskTerminate(k) PROVE Suspension'
  BY <1>2, SuspensionWithout DEF TaskTerminate, ThreadsOf
<1>3. ASSUME NEW k \in TaskId, NEW t \in TaskThread, ThreadCreate(k, t)
      PROVE  Suspension'
  BY <1>3 DEF ThreadCreate
<1>4. ASSUME NEW t \in TaskThread, ThreadTerminate(t) PROVE Suspension'
  BY <1>4, SuspensionWithout DEF ThreadTerminate
<1>5. ASSUME NEW t \in TaskThread, ThreadSuspend(t) PROVE Suspension'
  BY <1>5 DEF ThreadSuspend
<1>6. ASSUME NEW t \in TaskThread, ThreadResume(t) PROVE Suspension'
  BY <1>6 DEF ThreadResume, Goes
<1>7. ASSUME NEW k \in TaskId, TaskSuspend(k) PROVE Suspension'
  BY <1>7 DEF TaskSuspend, ThreadsOf
<1>8. ASSUME NEW k \in TaskId, TaskResume(k) PROVE Suspension'
  BY <1>8 DEF TaskResume, ThreadsOf, Goes
<1>9. CASE UNCHANGED taskVars
  BY <1>9 DEF taskVars
<1>. QED
  BY <1>1, <1>2, <1>3, <1>4, <1>5, <1>6, <1>7, <1>8, <1>9 DEF TaskNext

LEMMA SuspensionInvariant == TaskSpec => []Suspension
BY SuspensionInit, SuspensionNext, PTL DEF TaskSpec

\* A thread does not run while its own suspend count or that of its task is
\* above zero, in whatever order threads and tasks are created, suspended,
\* resumed and terminated, and however often.
THEOREM SuspensionCorrect == TaskSpec => []RunsOnlyResumed
<1>1. Suspension => RunsOnlyResumed
  BY DEF Suspension
<1>. QED
  BY <1>1, SuspensionInvariant, PTL
-----------------------------------------------------------------------------
Pending ==
  /\ excbits \in [ExcThread -> SUBSET ExcNo]
  /\ trapped \in [ExcThread -> SUBSET ExcNo]
  /\ PostsNeverKill

LEMMA PendingInit == ExceptionInit => Pending
BY DEF ExceptionInit, Pending, PostsNeverKill

\* Terminating threads leaves the others as they are.
LEMMA PendingForget ==
  ASSUME Pending, NEW S, Forget(S), handler' = handler
  PROVE  Pending'
BY DEF Pending, PostsNeverKill, Forget

LEMMA PendingNext == Pending /\ [ExceptionNext]_excVars => Pending'
<1>. SUFFICES ASSUME Pending, [ExceptionNext]_excVars PROVE Pending'
  OBVIOUS
<1>1. ASSUME NEW t \in ExcThread, ExcThreadTerminate(t) PROVE Pending'
  BY <1>1, PendingForget DEF ExcThreadTerminate
<1>2. ASSUME NEW t \in ExcThread, ExcInstall(t) PROVE Pending'
  BY <1>2 DEF ExcInstall, Pending, PostsNeverKill
<1>3. ASSUME NEW t \in ExcThread, ExcRemove(t) PROVE Pending'
  BY <1>3 DEF ExcRemove, Discards, Pending, PostsNeverKill
<1>4. ASSUME NEW e \in ExcNo, ExcPost(e) PROVE Pending'
  BY <1>4 DEF ExcPost, Pending, PostsNeverKill
<1>5. ASSUME NEW t \in ExcThread, NEW e \in ExcNo, ExcMark(t, e) PROVE Pending'
  BY <1>5 DEF ExcMark, Pending, PostsNeverKill
<1>6. ASSUME NEW t \in ExcThread, ExcDeliver(t) PROVE Pending'
  <2>1. CASE excbits[t] # {} /\ ~handler
    BY <2>1, <1>6, PendingForget DEF ExcDeliver
  <2>2. CASE ~(excbits[t] # {} /\ ~handler)
    <3>1. PICK first \in SUBSET ExcNo :
            /\ excbits' = [excbits EXCEPT ![t] = @ \ first]
            /\ trapped' = [trapped EXCEPT ![t] = @ \ first]
      BY <2>2, <1>6 DEF ExcDeliver, Pending, PostsNeverKill
    <3>2. handler' = handler
      BY <1>6 DEF ExcDeliver
    <3>. QED
      BY <3>1, <3>2 DEF Pending, PostsNeverKill
  <2>. QED
    BY <2>1, <2>2
<1>7. CASE UNCHANGED <<handler, excbits, trapped>>
  BY <1>7 DEF Pending, PostsNeverKill
<1>8. ASSUME NEW t \in ExcThread,
             \/ ExcThreadCreate(t) \/ ExcWait(t) \/ ExcWaitSleep(t)
             \/ ExcWaitReturn(t) \/ ExcSleep(t) \/ ExcWake(t)
      PROVE  Pending'
  <2>1. UNCHANGED <<handler, excbits, trapped>>
    BY <1>8 DEF ExcThreadCreate, ExcWait, ExcWaitSleep, ExcWaitReturn, ExcSleep, ExcWake
  <2>. QED
    BY <2>1, <1>7
<1>9. CASE UNCHANGED excVars
  BY <1>9, <1>7 DEF excVars
<1>. QED
  BY <1>1, <1>2, <1>3, <1>4, <1>5, <1>6, <1>8, <1>9 DEF ExceptionNext

LEMMA PendingInvariant == ExceptionSpec => []Pending
BY PendingInit, PendingNext, PTL DEF ExceptionSpec

\* No exception that another thread posted is left when the handler is removed,
\* or comes after, so none of them makes exception_deliver() terminate the task.
THEOREM PostsCorrect == ExceptionSpec => []PostsNeverKill
<1>1. Pending => PostsNeverKill
  BY DEF Pending
<1>. QED
  BY <1>1, PendingInvariant, PTL
-----------------------------------------------------------------------------
Requests ==
  /\ istreq \in [Vector -> Int]
  /\ ist \in [Vector -> {"none", "started", "asleep", "woken", "running"}]
  /\ IstRequestsKept

LEMMA RequestsInit == DeferredInit => Requests
BY DEF DeferredInit, Requests, IstRequestsKept

LEMMA RequestsNext == Requests /\ [DeferredNext]_deferredVars => Requests'
<1>. SUFFICES ASSUME Requests, [DeferredNext]_deferredVars PROVE Requests'
  OBVIOUS
<1>. USE DeferredAssumption DEF Requests, IstRequestsKept
<1>1. ASSUME NEW v \in Vector, IrqAttach(v) PROVE Requests'
  BY <1>1 DEF IrqAttach
<1>2. ASSUME NEW v \in Vector, IrqDetach(v) PROVE Requests'
  BY <1>2 DEF IrqDetach
<1>3. ASSUME NEW v \in Vector, IrqHandler(v) PROVE Requests'
  BY <1>3 DEF IrqHandler
<1>4. ASSUME NEW v \in Vector, IrqThread(v) PROVE Requests'
  BY <1>4 DEF IrqThread
<1>5. CASE UNCHANGED istVars
  BY <1>5 DEF istVars
<1>6. CASE \/ \E d \in Dpc : SchedDpc(d)
           \/ DpcFirstSleep \/ DpcThread \/ DpcCall
  BY <1>6, <1>5 DEF SchedDpc, DpcFirstSleep, DpcThread, DpcCall
<1>7. CASE UNCHANGED deferredVars
  BY <1>7, <1>5 DEF deferredVars, istVars
<1>. QED
  BY <1>1, <1>2, <1>3, <1>4, <1>6, <1>7 DEF DeferredNext

LEMMA RequestsInvariant == DeferredSpec => []Requests
BY RequestsInit, RequestsNext, PTL DEF DeferredSpec

\* irq_handler() and irq_thread() lose no request for an IST and make none up:
\* the thread is asleep only without requests, and awake from its sleep only
\* with one.
THEOREM RequestsCorrect == DeferredSpec => []IstRequestsKept
<1>1. Requests => IstRequestsKept
  BY DEF Requests
<1>. QED
  BY <1>1, RequestsInvariant, PTL
-----------------------------------------------------------------------------
\* The DPCs in the queue are those in DPC_PENDING: this is how sched_dpc() knows
\* that it need not link one again.
Queued ==
  /\ dpcq \in Seq(Dpc) /\ dowed \subseteq Dpc
  /\ dthread \in {"boot", "asleep", "ready"} \cup Dpc
  /\ Items(dpcq) = dpend
  /\ dthread = "boot" => dboot
  /\ DpcsKept

LEMMA QueuedInit == DeferredInit => Queued
<1>. SUFFICES ASSUME DeferredInit PROVE Queued
  OBVIOUS
<1>1. <<>> \in Seq(Dpc) /\ Items(<<>>) = {} /\ Distinct(<<>>)
  BY DEF Items, Distinct
<1>. QED
  BY <1>1, DeferredAssumption DEF DeferredInit, Queued, DpcsKept

LEMMA QueuedNext == Queued /\ [DeferredNext]_deferredVars => Queued'
<1>. SUFFICES ASSUME Queued, [DeferredNext]_deferredVars PROVE Queued'
  OBVIOUS
<1>. USE DeferredAssumption, InQueueItems DEF Queued, DpcsKept
<1>1. ASSUME NEW d \in Dpc, SchedDpc(d) PROVE Queued'
  <2>1. CASE d \in dpend
    BY <2>1, <1>1 DEF SchedDpc
  <2>2. CASE d \notin dpend
    <3>1. /\ dpcq' \in Seq(Dpc) /\ Distinct(dpcq')
          /\ Items(dpcq') = Items(dpcq) \cup {d}
      BY <2>2, <1>1, EnqueueItems DEF SchedDpc
    <3>. QED
      BY <3>1, <1>1 DEF SchedDpc
  <2>. QED
    BY <2>1, <2>2
<1>2. CASE DpcFirstSleep
  BY <1>2 DEF DpcFirstSleep
<1>3. CASE DpcThread
  <2>1. CASE dpcq = <<>>
    BY <2>1, <1>3 DEF DpcThread
  <2>2. CASE dpcq # <<>>
    <3>0. Head(dpcq) \in Dpc
      BY <2>2
    <3>1. /\ Head(dpcq) \in Items(dpcq)
          /\ Tail(dpcq) \in Seq(Dpc) /\ Distinct(Tail(dpcq))
          /\ Items(Tail(dpcq)) = Items(dpcq) \ {Head(dpcq)}
      BY <2>2, DequeueItems
    <3>2. /\ dpcq' = Tail(dpcq) /\ dthread' = Head(dpcq)
          /\ dpend' = dpend \ {Head(dpcq)} /\ UNCHANGED <<dowed, dboot>>
      BY <2>2, <1>3 DEF DpcThread
    <3>3. dthread' \in Dpc /\ dthread' # "boot" /\ dthread' # "asleep"
      BY <3>0, <3>2
    <3>4. \A d \in dowed' : InQueue(d, dpcq') \/ dthread' = d
      <4>1. \A d \in dowed : d \in Items(dpcq) \/ dthread = d
        OBVIOUS
      <4>2. dthread = "ready"
        BY <1>3 DEF DpcThread
      <4>3. \A d \in dowed : d \in Items(dpcq)
        BY <4>1, <4>2
      <4>. QED
        BY <3>1, <3>2, <4>3
    <3>. QED
      BY <3>1, <3>2, <3>3, <3>4
  <2>. QED
    BY <2>1, <2>2
<1>4. CASE DpcCall
  BY <1>4 DEF DpcCall
<1>5. CASE UNCHANGED dpcVars
  BY <1>5 DEF dpcVars
<1>6. CASE \E v \in Vector : IrqAttach(v) \/ IrqDetach(v) \/ IrqHandler(v) \/ IrqThread(v)
  BY <1>6, <1>5 DEF IrqAttach, IrqDetach, IrqHandler, IrqThread
<1>7. CASE UNCHANGED deferredVars
  BY <1>7, <1>5 DEF deferredVars, dpcVars
<1>. QED
  BY <1>1, <1>2, <1>3, <1>4, <1>6, <1>7 DEF DeferredNext

LEMMA QueuedInvariant == DeferredSpec => []Queued
BY QueuedInit, QueuedNext, PTL DEF DeferredSpec

\* No DPC is lost or linked twice, although interrupts ask for it again while
\* dpc_thread() takes it off the queue and calls it, and the thread does not
\* sleep beside one.
THEOREM DpcsCorrect == DeferredSpec => []DpcsKept
<1>1. Queued => DpcsKept
  BY DEF Queued
<1>. QED
  BY <1>1, QueuedInvariant, PTL
-----------------------------------------------------------------------------
Held == DeviceTypeOK /\ DeviceHeld

\* Threads can be counted, and one more or less.
LEMMA InsideCounted ==
  ASSUME NEW S \in SUBSET DevThread
  PROVE  /\ Cardinality(S) \in Nat
         /\ Cardinality(S) > 0 <=> S # {}
         /\ \A t \in DevThread : t \notin S => Cardinality(S \cup {t}) = Cardinality(S) + 1
         /\ \A t \in S : Cardinality(S \ {t}) = Cardinality(S) - 1
<1>1. IsFiniteSet(S)
  BY DeviceFinite, FS_Subset
<1>. QED
  BY <1>1, FS_CardinalityType, FS_EmptySet, FS_AddElement, FS_RemoveElement

\* The reference of device_create(), while the device is active.
Own(d) == IF d \in active THEN 1 ELSE 0
Users(d) == Cardinality(InsideDriver(d)) + Own(d)

LEMMA UsersType ==
  ASSUME NEW d \in DevId
  PROVE  /\ Cardinality(InsideDriver(d)) \in Nat /\ Own(d) \in {0, 1}
         /\ InsideDriver(d) \in SUBSET DevThread
BY InsideCounted DEF InsideDriver, Own

LEMMA HeldInit == DeviceInit => Held
<1>. SUFFICES ASSUME DeviceInit PROVE Held
  OBVIOUS
<1>1. DeviceTypeOK
  BY DEF DeviceInit, DeviceTypeOK
<1>2. ASSUME NEW d \in DevId PROVE Cardinality(InsideDriver(d)) = 0
  <2>1. InsideDriver(d) = {}
    BY DeviceAssumption DEF DeviceInit, InsideDriver
  <2>. QED
    BY <2>1, FS_EmptySet
<1>3. DeviceHeld
  BY <1>2 DEF DeviceInit, DeviceHeld, OnList
<1>. QED
  BY <1>1, <1>3 DEF Held

\* One device has its references and its users changed alike.
LEMMA HeldStep ==
  ASSUME Held, DeviceTypeOK', NEW d \in DevId,
         \A e \in DevId \ {d} : /\ devname'[e] = devname[e] /\ devref'[e] = devref[e]
                                /\ InsideDriver(e)' = InsideDriver(e)
                                /\ e \in active' <=> e \in active,
         devname'[d] # NoDev <=> Users(d)' > 0,
         devname'[d] # NoDev => devref'[d] = Users(d)'
  PROVE  Held'
<1>. SUFFICES ASSUME NEW e \in DevId
              PROVE  /\ devname'[e] # NoDev <=> Users(e)' > 0
                     /\ devname'[e] # NoDev => devref'[e] = Users(e)'
  BY DEF Held, DeviceHeld, OnList, Users, Own
<1>1. CASE e = d
  BY <1>1
<1>2. CASE e # d
  BY <1>2 DEF Held, DeviceHeld, OnList, Users, Own
<1>. QED
  BY <1>1, <1>2

LEMMA HeldNext == Held /\ [DeviceNext]_deviceVars => Held'
<1>. SUFFICES ASSUME Held, [DeviceNext]_deviceVars PROVE Held'
  OBVIOUS
<1>t. DeviceTypeOK /\ NoDev \notin DevId /\ NoDev \notin DevName
  BY DeviceAssumption DEF Held
<1>h. ASSUME NEW d \in DevId
      PROVE  /\ devname[d] # NoDev <=> Users(d) > 0
             /\ devname[d] # NoDev => devref[d] = Users(d)
             /\ Cardinality(InsideDriver(d)) \in Nat /\ Own(d) \in {0, 1}
             /\ Users(d) = Cardinality(InsideDriver(d)) + Own(d)
             /\ devref[d] \in Nat
  BY <1>t, UsersType DEF Held, DeviceHeld, OnList, Users, Own, DeviceTypeOK
<1>1. ASSUME NEW d \in DevId, NEW n \in DevName, DeviceCreate(d, n) PROVE Held'
  <2>1. /\ devname[d] = NoDev /\ devname'[d] = n /\ n # NoDev /\ devref'[d] = 1
        /\ d \in active' /\ \A e \in DevId : InsideDriver(e)' = InsideDriver(e)
    BY <1>1, <1>t DEF DeviceCreate, OnList, InsideDriver, DeviceTypeOK
  <2>2. Cardinality(InsideDriver(d)) = 0
    BY <2>1, <1>h
  <2>3. Users(d)' = 1
    BY <2>1, <2>2 DEF Users, Own
  <2>4. DeviceTypeOK'
    BY <1>1, <1>t DEF DeviceCreate, DeviceTypeOK
  <2>5. \A e \in DevId \ {d} : /\ devname'[e] = devname[e] /\ devref'[e] = devref[e]
                               /\ e \in active' <=> e \in active
    BY <1>1, <1>t DEF DeviceCreate, DeviceTypeOK
  <2>. QED
    BY <2>1, <2>3, <2>4, <2>5, HeldStep
<1>2. ASSUME NEW d \in DevId, DeviceDestroy(d) PROVE Held'
  <2>1. /\ devname[d] # NoDev /\ d \in active /\ d \notin active'
        /\ devref'[d] = devref[d] - 1
        /\ devname'[d] # NoDev <=> devref[d] > 1
        /\ \A e \in DevId : InsideDriver(e)' = InsideDriver(e)
    BY <1>2, <1>t DEF DeviceDestroy, Release, OnList, InsideDriver, DeviceTypeOK
  <2>2. Own(d) = 1 /\ Users(d)' = Cardinality(InsideDriver(d))
    BY <2>1, <1>h DEF Users, Own
  <2>3. devref[d] = Cardinality(InsideDriver(d)) + 1
    BY <2>1, <2>2, <1>h
  <2>4. DeviceTypeOK'
    <3>1. devref' \in [DevId -> Nat]
      BY <1>2, <1>t, <2>3, <1>h DEF DeviceDestroy, Release, DeviceTypeOK
    <3>. QED
      BY <3>1, <1>2, <1>t DEF DeviceDestroy, Release, DeviceTypeOK
  <2>5. \A e \in DevId \ {d} : /\ devname'[e] = devname[e] /\ devref'[e] = devref[e]
                               /\ e \in active' <=> e \in active
    BY <1>2, <1>t DEF DeviceDestroy, Release, DeviceTypeOK
  <2>6. devname'[d] # NoDev <=> Users(d)' > 0
    BY <2>1, <2>2, <2>3, <1>h
  <2>7. devref'[d] = Users(d)'
    BY <2>1, <2>2, <2>3, <1>h
  <2>. QED
    BY <2>1, <2>4, <2>5, <2>6, <2>7, HeldStep
<1>3. ASSUME NEW t \in DevThread, NEW d \in DevId, incall[t] = NoDev, EnterDriver(t, d)
      PROVE  Held'
  <2>1. /\ devname[d] # NoDev /\ d \in active /\ devref'[d] = devref[d] + 1
        /\ devname' = devname /\ active' = active
        /\ InsideDriver(d)' = InsideDriver(d) \cup {t} /\ t \notin InsideDriver(d)
        /\ \A e \in DevId \ {d} : /\ InsideDriver(e)' = InsideDriver(e)
                                  /\ devref'[e] = devref[e]
    BY <1>3, <1>t DEF EnterDriver, OnList, InsideDriver, DeviceTypeOK
  <2>2. Cardinality(InsideDriver(d)') = Cardinality(InsideDriver(d)) + 1
    BY <2>1, InsideCounted, UsersType
  <2>3. Users(d)' = Users(d) + 1
    BY <2>1, <2>2, <1>h DEF Users, Own
  <2>4. DeviceTypeOK'
    BY <1>3, <1>t DEF EnterDriver, DeviceTypeOK
  <2>. QED
    BY <2>1, <2>3, <2>4, <1>h, HeldStep
<1>4. ASSUME NEW t \in DevThread, DeviceReturn(t) PROVE Held'
  <2>0. PICK d \in DevId : d = incall[t]
    BY <1>4, <1>t DEF DeviceReturn, DeviceTypeOK
  <2>1. /\ devref'[d] = devref[d] - 1
        /\ devname'[d] # NoDev <=> devname[d] # NoDev /\ devref[d] > 1
        /\ active' = active
        /\ InsideDriver(d)' = InsideDriver(d) \ {t} /\ t \in InsideDriver(d)
        /\ \A e \in DevId \ {d} : /\ InsideDriver(e)' = InsideDriver(e)
                                  /\ devname'[e] = devname[e] /\ devref'[e] = devref[e]
    BY <1>4, <1>t, <2>0 DEF DeviceReturn, Release, InsideDriver, DeviceTypeOK
  <2>2. Cardinality(InsideDriver(d)') = Cardinality(InsideDriver(d)) - 1
    BY <2>1, InsideCounted, UsersType
  <2>3. Cardinality(InsideDriver(d)) > 0
    BY <2>1, InsideCounted, UsersType
  <2>4. devname[d] # NoDev /\ devref[d] = Users(d) /\ Users(d)' = Users(d) - 1
    BY <2>1, <2>2, <2>3, <1>h DEF Users, Own
  <2>5. DeviceTypeOK'
    <3>1. devref' \in [DevId -> Nat]
      BY <1>4, <1>t, <2>0, <2>1, <2>3, <2>4, <1>h DEF DeviceReturn, Release, DeviceTypeOK
    <3>. QED
      BY <3>1, <1>4, <1>t DEF DeviceReturn, Release, DeviceTypeOK
  <2>6. devname'[d] # NoDev <=> Users(d)' > 0
    BY <2>1, <2>4, <1>h
  <2>7. devref'[d] = Users(d)'
    BY <2>1, <2>4
  <2>. QED
    BY <2>1, <2>5, <2>6, <2>7, HeldStep
<1>5. ASSUME NEW t \in DevThread, DeviceKill(t) PROVE Held'
  BY <1>5, <1>t DEF DeviceKill, Held, DeviceTypeOK, DeviceHeld, OnList, InsideDriver
<1>6. CASE UNCHANGED deviceVars
  BY <1>6, <1>t DEF deviceVars, Held, DeviceTypeOK, DeviceHeld, OnList, InsideDriver
<1>. QED
  BY <1>1, <1>2, <1>3, <1>4, <1>5, <1>6 DEF DeviceNext, DeviceOpen, DeviceCall, CallsDevice

LEMMA HeldInvariant == DeviceSpec => []Held
BY HeldInit, HeldNext, PTL DEF DeviceSpec

\* A device is neither freed under a call into its driver nor kept after the
\* last one, whenever it is destroyed and whoever dies in a call.
THEOREM DevicesCorrect == DeviceSpec => []DeviceHeld
<1>1. Held => DeviceHeld
  BY DEF Held
<1>. QED
  BY <1>1, HeldInvariant, PTL
-----------------------------------------------------------------------------
\* The pages of a list of blocks.
ListPages(l) == UNION {PagesOf(l[i]) : i \in 1..Len(l)}

\* A list in the order of the addresses, in which the blocks at the positions of
\* A may adjoin the next one, and no others.
Ascending(l, A) ==
  /\ l \in Seq(Block)
  /\ \A i, j \in 1..Len(l) : i < j =>
       /\ EndOf(l[i]) <= l[j].at
       /\ EndOf(l[i]) = l[j].at => j = i + 1 /\ i \in A

LEMMA BlockFacts ==
  ASSUME NEW b \in Block
  PROVE  /\ b.at \in Nat \ {0} /\ b.size \in Nat \ {0} /\ EndOf(b) = b.at + b.size
         /\ EndOf(b) \in Nat /\ b.at < EndOf(b)
         /\ \A x : x \in PagesOf(b) <=> x \in Int /\ b.at <= x /\ x < EndOf(b)
BY DEF Block, PagesOf, EndOf

\* m is l with the element c of S put in at i.
PutIn(m, S, l, i, c) ==
  /\ m \in Seq(S) /\ Len(m) = Len(l) + 1
  /\ \A j \in 1..(Len(l) + 1) : m[j] = IF j < i THEN l[j] ELSE IF j = i THEN c ELSE l[j - 1]

LEMMA InsertAtFacts ==
  ASSUME NEW S, NEW l \in Seq(S), NEW i \in 1..(Len(l) + 1), NEW c \in S
  PROVE  PutIn(InsertAt(l, i, c), S, l, i, c)
<1>. DEFINE p == SubSeq(l, 1, i - 1)
            r == SubSeq(l, i, Len(l))
            pc1 == p \o <<c>>
<1>1. p \in Seq(S) /\ Len(p) = i - 1 /\ \A j \in 1..(i - 1) : p[j] = l[j]
  OBVIOUS
<1>2. r \in Seq(S) /\ Len(r) = Len(l) - i + 1 /\ \A j \in 1..(Len(l) - i + 1) : r[j] = l[i + j - 1]
  OBVIOUS
<1>. HIDE DEF p, r
<1>3. pc1 \in Seq(S) /\ Len(pc1) = i /\ \A j \in 1..(i - 1) : pc1[j] = l[j]
  BY <1>1
<1>4. pc1[i] = c
  BY <1>1
<1>. HIDE DEF pc1
<1>5. InsertAt(l, i, c) = pc1 \o r
  BY DEF InsertAt, pc1, p, r
<1>6. pc1 \o r \in Seq(S) /\ Len(pc1 \o r) = Len(l) + 1
  <2>1. pc1 \o r \in Seq(S) /\ Len(pc1 \o r) = Len(pc1) + Len(r)
    BY <1>2, <1>3, ConcatProperties
  <2>2. Len(l) \in Nat
    OBVIOUS
  <2>. QED
    BY <1>2, <1>3, <2>1, <2>2
<1>7. ASSUME NEW j \in 1..(Len(l) + 1)
      PROVE  (pc1 \o r)[j] = IF j < i THEN l[j] ELSE IF j = i THEN c ELSE l[j - 1]
  <2>1. CASE j < i
    BY <1>2, <1>3, <2>1
  <2>2. CASE j = i
    BY <1>2, <1>3, <1>4, <2>2
  <2>3. CASE j > i
    <3>1. (pc1 \o r)[j] = r[j - i]
      BY <1>2, <1>3, <2>3
    <3>2. j - i \in 1..(Len(l) - i + 1) /\ i + (j - i) - 1 = j - 1
      BY <2>3
    <3>. QED
      BY <1>2, <2>3, <3>1, <3>2
  <2>4. j < i \/ j = i \/ j > i
    OBVIOUS
  <2>. QED
    BY <2>1, <2>2, <2>3, <2>4
<1>. QED
  BY <1>5, <1>6, <1>7 DEF PutIn

LEMMA RemoveAtFacts ==
  ASSUME NEW S, NEW l \in Seq(S), NEW i \in 1..Len(l)
  PROVE  /\ RemoveAt(l, i) \in Seq(S) /\ Len(RemoveAt(l, i)) = Len(l) - 1
         /\ \A j \in 1..(Len(l) - 1) : RemoveAt(l, i)[j] = IF j < i THEN l[j] ELSE l[j + 1]
<1>. DEFINE p == SubSeq(l, 1, i - 1)
            r == SubSeq(l, i + 1, Len(l))
<1>1. p \in Seq(S) /\ Len(p) = i - 1 /\ \A j \in 1..(i - 1) : p[j] = l[j]
  OBVIOUS
<1>2. r \in Seq(S) /\ Len(r) = Len(l) - i /\ \A j \in 1..(Len(l) - i) : r[j] = l[i + j]
  OBVIOUS
<1>. HIDE DEF p, r
<1>3. RemoveAt(l, i) = p \o r
  BY DEF RemoveAt, p, r
<1>4. p \o r \in Seq(S) /\ Len(p \o r) = Len(l) - 1
  BY <1>1, <1>2
<1>5. ASSUME NEW j \in 1..(Len(l) - 1)
      PROVE  (p \o r)[j] = IF j < i THEN l[j] ELSE l[j + 1]
  <2>1. CASE j < i
    BY <1>1, <1>2, <2>1
  <2>2. CASE j >= i
    <3>1. (p \o r)[j] = r[j - (i - 1)]
      BY <1>1, <1>2, <2>2
    <3>2. j - (i - 1) \in 1..(Len(l) - i) /\ i + (j - (i - 1)) = j + 1
      BY <2>2
    <3>. QED
      BY <1>2, <2>2, <3>1, <3>2
  <2>4. j < i \/ j >= i
    OBVIOUS
  <2>. QED
    BY <2>1, <2>2, <2>4
<1>. QED
  BY <1>3, <1>4, <1>5

LEMMA BlocksOf ==
  ASSUME NEW A, NEW l, Ascending(l, A)
  PROVE  /\ Len(l) \in Nat /\ l \in Seq(Block)
         /\ \A i \in 1..Len(l) : l[i] \in Block
         /\ \A i, j \in 1..Len(l) : i # j => PagesOf(l[i]) \cap PagesOf(l[j]) = {}
<1>1. Len(l) \in Nat /\ l \in Seq(Block) /\ \A i \in 1..Len(l) : l[i] \in Block
  BY ElementOfSeq DEF Ascending
<1>2. ASSUME NEW i \in 1..Len(l), NEW j \in 1..Len(l), i < j
      PROVE  PagesOf(l[i]) \cap PagesOf(l[j]) = {}
  <2>1. l[i] \in Block /\ l[j] \in Block /\ EndOf(l[i]) <= l[j].at
    BY <1>1, <1>2 DEF Ascending
  <2>2. /\ EndOf(l[i]) \in Nat /\ l[j].at \in Nat
        /\ \A x : x \in PagesOf(l[i]) => x \in Int /\ x < EndOf(l[i])
        /\ \A x : x \in PagesOf(l[j]) => x \in Int /\ l[j].at <= x
    BY <2>1, BlockFacts
  <2>. QED
    BY <2>1, <2>2
<1>3. ASSUME NEW i \in 1..Len(l), NEW j \in 1..Len(l), i # j
      PROVE  PagesOf(l[i]) \cap PagesOf(l[j]) = {}
  <2>1. i < j \/ j < i
    BY <1>1, <1>3
  <2>. QED
    BY <1>2, <2>1
<1>. QED
  BY <1>1, <1>3

\* The block c is not in the way of those in front of the position i and from
\* there on.
FitsAt(l, i, c, A) ==
  /\ \A j \in 1..(i - 1) : /\ EndOf(l[j]) <= c.at
                           /\ EndOf(l[j]) = c.at => j = i - 1 /\ j \in A
  /\ \A j \in i..Len(l) : /\ EndOf(c) <= l[j].at
                          /\ EndOf(c) = l[j].at => j = i /\ i \in A

LEMMA InsertAscending ==
  ASSUME NEW A, NEW l, Ascending(l, {}), NEW i \in 1..(Len(l) + 1), NEW c \in Block,
         FitsAt(l, i, c, A)
  PROVE  /\ Ascending(InsertAt(l, i, c), A)
         /\ ListPages(InsertAt(l, i, c)) = ListPages(l) \cup PagesOf(c)
<1>. DEFINE m == InsertAt(l, i, c)
<1>1. Len(l) \in Nat /\ l \in Seq(Block)
  BY BlocksOf
<1>2. /\ m \in Seq(Block) /\ Len(m) = Len(l) + 1
      /\ \A j \in 1..(Len(l) + 1) : m[j] = IF j < i THEN l[j] ELSE IF j = i THEN c ELSE l[j - 1]
  <2>1. PutIn(m, Block, l, i, c)
    BY <1>1, InsertAtFacts
  <2>. QED
    BY <2>1 DEF PutIn
<1>. HIDE DEF m
<1>3. ASSUME NEW j \in 1..Len(m), NEW k \in 1..Len(m), j < k
      PROVE  /\ EndOf(m[j]) <= m[k].at
             /\ EndOf(m[j]) = m[k].at => k = j + 1 /\ j \in A
  <2>1. CASE k < i
    <3>1. j \in 1..Len(l) /\ k \in 1..Len(l) /\ m[j] = l[j] /\ m[k] = l[k]
      BY <1>1, <1>2, <1>3, <2>1
    <3>. QED
      BY <1>3, <3>1 DEF Ascending
  <2>2. CASE k = i
    <3>1. j \in 1..(i - 1) /\ m[j] = l[j] /\ m[k] = c
      BY <1>1, <1>2, <1>3, <2>2
    <3>2. EndOf(l[j]) <= c.at /\ (EndOf(l[j]) = c.at => j = i - 1 /\ j \in A)
      BY <3>1 DEF FitsAt
    <3>3. j = i - 1 => k = j + 1
      BY <2>2
    <3>. QED
      BY <3>1, <3>2, <3>3
  <2>3. CASE k > i /\ j = i
    <3>1. k - 1 \in i..Len(l) /\ m[j] = c /\ m[k] = l[k - 1]
      BY <1>1, <1>2, <1>3, <2>3
    <3>2. EndOf(c) <= l[k - 1].at /\ (EndOf(c) = l[k - 1].at => k - 1 = i /\ i \in A)
      BY <3>1 DEF FitsAt
    <3>3. k - 1 = i => k = j + 1
      BY <2>3
    <3>. QED
      BY <2>3, <3>1, <3>2, <3>3
  <2>4. CASE k > i /\ j < i
    <3>1. j \in 1..Len(l) /\ k - 1 \in 1..Len(l) /\ m[j] = l[j] /\ m[k] = l[k - 1] /\ j < k - 1
      <4>1. j \in 1..Len(l) /\ m[j] = l[j]
        BY <1>1, <1>2, <2>4
      <4>2. k - 1 \in 1..Len(l) /\ m[k] = l[k - 1]
        BY <1>1, <1>2, <2>4
      <4>3. j < k - 1
        BY <1>1, <1>2, <2>4
      <4>. QED
        BY <4>1, <4>2, <4>3
    <3>2. EndOf(l[j]) <= l[k - 1].at /\ EndOf(l[j]) # l[k - 1].at
      BY <3>1 DEF Ascending
    <3>. QED
      BY <3>1, <3>2
  <2>5. CASE j > i
    <3>1. j - 1 \in 1..Len(l) /\ k - 1 \in 1..Len(l) /\ m[j] = l[j - 1] /\ m[k] = l[k - 1] /\ j - 1 < k - 1
      <4>1. m[j] = l[j - 1] /\ j - 1 \in 1..Len(l)
        BY <1>1, <1>2, <2>5
      <4>2. m[k] = l[k - 1] /\ k - 1 \in 1..Len(l)
        BY <1>1, <1>2, <1>3, <2>5
      <4>3. j - 1 < k - 1
        BY <1>2, <1>3
      <4>. QED
        BY <4>1, <4>2, <4>3
    <3>2. EndOf(l[j - 1]) <= l[k - 1].at /\ EndOf(l[j - 1]) # l[k - 1].at
      BY <3>1 DEF Ascending
    <3>. QED
      BY <3>1, <3>2
  <2>6. k < i \/ k = i \/ (k > i /\ j = i) \/ (k > i /\ j < i) \/ j > i
    BY <1>1, <1>2, <1>3
  <2>. QED
    BY <2>1, <2>2, <2>3, <2>4, <2>5, <2>6
<1>4. ListPages(m) = ListPages(l) \cup PagesOf(c)
  <2>1. ASSUME NEW j \in 1..Len(m) PROVE m[j] = c \/ \E k \in 1..Len(l) : m[j] = l[k]
    <3>1. (j < i => j \in 1..Len(l)) /\ (j > i => j - 1 \in 1..Len(l)) /\ (j < i \/ j = i \/ j > i)
      BY <1>1, <1>2
    <3>. QED
      BY <1>2, <3>1
  <2>2. ASSUME NEW k \in 1..Len(l) PROVE \E j \in 1..Len(m) : m[j] = l[k]
    <3>1. CASE k < i
      BY <1>1, <1>2, <3>1
    <3>2. CASE k >= i
      <4>1. k + 1 \in 1..Len(m) /\ m[k + 1] = l[k]
        BY <1>1, <1>2, <3>2
      <4>. QED
        BY <4>1
    <3>3. k < i \/ k >= i
      BY <1>1
    <3>. QED
      BY <3>1, <3>2, <3>3
  <2>3. i \in 1..Len(m) /\ m[i] = c
    BY <1>1, <1>2
  <2>. QED
    BY <2>1, <2>2, <2>3 DEF ListPages
<1>5. Ascending(m, A)
  BY <1>2, <1>3 DEF Ascending
<1>. QED
  BY <1>4, <1>5 DEF m

LEMMA RemoveAscending ==
  ASSUME NEW l, Ascending(l, {}), NEW i \in 1..Len(l)
  PROVE  /\ Ascending(RemoveAt(l, i), {})
         /\ ListPages(RemoveAt(l, i)) = ListPages(l) \ PagesOf(l[i])
<1>. DEFINE m == RemoveAt(l, i)
<1>1. /\ Len(l) \in Nat /\ l \in Seq(Block)
      /\ \A j, k \in 1..Len(l) : j # k => PagesOf(l[j]) \cap PagesOf(l[k]) = {}
  BY BlocksOf
<1>2. /\ m \in Seq(Block) /\ Len(m) = Len(l) - 1
      /\ \A j \in 1..(Len(l) - 1) : m[j] = IF j < i THEN l[j] ELSE l[j + 1]
  BY <1>1, RemoveAtFacts
<1>. HIDE DEF m
<1>3. ASSUME NEW j \in 1..Len(m), NEW k \in 1..Len(m), j < k
      PROVE  EndOf(m[j]) <= m[k].at /\ EndOf(m[j]) # m[k].at
  <2>1. \E u, w \in 1..Len(l) : u < w /\ m[j] = l[u] /\ m[k] = l[w]
    <3>1. CASE k < i
      <4>1. j \in 1..Len(l) /\ k \in 1..Len(l) /\ m[j] = l[j] /\ m[k] = l[k]
        BY <1>1, <1>2, <1>3, <3>1
      <4>. QED
        BY <1>3, <4>1
    <3>2. CASE k >= i /\ j < i
      <4>1. j \in 1..Len(l) /\ k + 1 \in 1..Len(l) /\ j < k + 1 /\ m[j] = l[j] /\ m[k] = l[k + 1]
        BY <1>1, <1>2, <1>3, <3>2
      <4>. QED
        BY <4>1
    <3>3. CASE k >= i /\ j >= i
      <4>1. j + 1 \in 1..Len(l) /\ k + 1 \in 1..Len(l) /\ j + 1 < k + 1 /\ m[j] = l[j + 1] /\ m[k] = l[k + 1]
        BY <1>1, <1>2, <1>3, <3>3
      <4>. QED
        BY <4>1
    <3>4. k < i \/ (k >= i /\ j < i) \/ (k >= i /\ j >= i)
      BY <1>1, <1>2
    <3>. QED
      BY <3>1, <3>2, <3>3, <3>4
  <2>. QED
    BY <2>1 DEF Ascending
<1>4. \A x : x \in ListPages(m) <=> \E k \in 1..Len(l) : k # i /\ x \in PagesOf(l[k])
  <2>1. ASSUME NEW j \in 1..Len(m) PROVE \E k \in 1..Len(l) : k # i /\ m[j] = l[k]
    <3>1. CASE j < i
      <4>1. m[j] = l[j] /\ j \in 1..Len(l) /\ j # i
        BY <1>1, <1>2, <3>1
      <4>. QED
        BY <4>1
    <3>2. CASE j >= i
      <4>1. j + 1 \in 1..Len(l) /\ j + 1 # i /\ m[j] = l[j + 1]
        BY <1>1, <1>2, <3>2
      <4>. QED
        BY <4>1
    <3>3. j < i \/ j >= i
      BY <1>1, <1>2
    <3>. QED
      BY <3>1, <3>2, <3>3
  <2>2. ASSUME NEW k \in 1..Len(l), k # i PROVE \E j \in 1..Len(m) : m[j] = l[k]
    <3>1. CASE k < i
      <4>1. k \in 1..(Len(l) - 1)
        BY <1>1, <3>1
      <4>. QED
        BY <1>2, <3>1, <4>1
    <3>2. CASE k > i
      <4>1. k - 1 \in 1..Len(m) /\ m[k - 1] = l[k]
        BY <1>1, <1>2, <3>2
      <4>. QED
        BY <4>1
    <3>3. k < i \/ k > i
      BY <1>1, <2>2
    <3>. QED
      BY <3>1, <3>2, <3>3
  <2>. QED
    BY <2>1, <2>2 DEF ListPages
<1>5. ListPages(m) = ListPages(l) \ PagesOf(l[i])
  <2>1. \A x : x \in ListPages(l) <=> \E k \in 1..Len(l) : x \in PagesOf(l[k])
    BY DEF ListPages
  <2>2. ASSUME NEW x PROVE x \in ListPages(m) <=> x \in ListPages(l) \ PagesOf(l[i])
    BY <1>1, <1>4, <2>1
  <2>. QED
    BY <2>2
<1>. QED
  BY <1>2, <1>3, <1>5 DEF m, Ascending

LEMMA ReplaceAscending ==
  ASSUME NEW l, Ascending(l, {}), NEW i \in 1..Len(l), NEW c \in Block, Includes(l[i], c)
  PROVE  /\ Ascending(ReplaceAt(l, i, c), {})
         /\ ListPages(ReplaceAt(l, i, c)) = (ListPages(l) \ PagesOf(l[i])) \cup PagesOf(c)
<1>. DEFINE m == ReplaceAt(l, i, c)
<1>1. /\ Len(l) \in Nat /\ l \in Seq(Block) /\ \A j \in 1..Len(l) : l[j] \in Block
      /\ \A j, k \in 1..Len(l) : j # k => PagesOf(l[j]) \cap PagesOf(l[k]) = {}
  BY BlocksOf
<1>2. /\ m \in Seq(Block) /\ Len(m) = Len(l)
      /\ \A j \in 1..Len(l) : m[j] = IF j = i THEN c ELSE l[j]
  BY <1>1 DEF ReplaceAt
<1>. HIDE DEF m
<1>3. \A j \in 1..Len(l) : /\ m[j].at \in Nat /\ EndOf(m[j]) \in Nat /\ l[j].at \in Nat /\ EndOf(l[j]) \in Nat
                           /\ l[j].at <= m[j].at /\ EndOf(m[j]) <= EndOf(l[j])
  <2>1. ASSUME NEW j \in 1..Len(l)
        PROVE  /\ m[j].at \in Nat /\ EndOf(m[j]) \in Nat /\ l[j].at \in Nat /\ EndOf(l[j]) \in Nat
               /\ l[j].at <= m[j].at /\ EndOf(m[j]) <= EndOf(l[j])
    <3>1. l[j].at \in Nat /\ EndOf(l[j]) \in Nat /\ c.at \in Nat /\ EndOf(c) \in Nat
      BY <1>1, BlockFacts
    <3>2. CASE j = i
      BY <1>2, <3>1, <3>2 DEF Includes
    <3>3. CASE j # i
      BY <1>2, <3>1, <3>3
    <3>. QED
      BY <3>2, <3>3
  <2>. QED
    BY <2>1
<1>4. ASSUME NEW j \in 1..Len(m), NEW k \in 1..Len(m), j < k
      PROVE  EndOf(m[j]) <= m[k].at /\ EndOf(m[j]) # m[k].at
  <2>1. EndOf(l[j]) <= l[k].at /\ EndOf(l[j]) # l[k].at
    BY <1>2, <1>4 DEF Ascending
  <2>. QED
    BY <1>2, <1>3, <2>1
<1>5. ListPages(m) = (ListPages(l) \ PagesOf(l[i])) \cup PagesOf(c)
  BY <1>1, <1>2 DEF ListPages
<1>. QED
  BY <1>2, <1>4, <1>5 DEF m, Ascending

\* The block at i may adjoin the next one: they are joined.
LEMMA JoinAscending ==
  ASSUME NEW i \in Nat, NEW A, A \subseteq 0..(i - 1), NEW l, Ascending(l, A \cup {i})
  PROVE  Ascending(Joined(l, i), A) /\ ListPages(Joined(l, i)) = ListPages(l)
<1>1. Len(l) \in Nat /\ l \in Seq(Block) /\ \A j \in 1..Len(l) : l[j] \in Block
  BY BlocksOf
<1>2. CASE i \in 1..(Len(l) - 1) /\ EndOf(l[i]) = l[i + 1].at
  <2>. DEFINE c == [l[i] EXCEPT !.size = @ + l[i + 1].size]
              n == RemoveAt(l, i + 1)
              m == ReplaceAt(n, i, c)
  <2>1. i \in 1..Len(l) /\ i + 1 \in 1..Len(l) /\ l[i] \in Block /\ l[i + 1] \in Block
    BY <1>1, <1>2
  <2>2. /\ c \in Block /\ c.at = l[i].at /\ EndOf(c) = EndOf(l[i + 1])
        /\ PagesOf(c) = PagesOf(l[i]) \cup PagesOf(l[i + 1])
    <3>1. /\ l[i] = [at |-> l[i].at, size |-> l[i].size]
          /\ l[i].at \in Nat \ {0} /\ l[i].size \in Nat \ {0}
          /\ l[i + 1].at \in Nat \ {0} /\ l[i + 1].size \in Nat \ {0}
      BY <2>1 DEF Block
    <3>2. c = [at |-> l[i].at, size |-> l[i].size + l[i + 1].size]
      BY <3>1
    <3>. HIDE DEF c
    <3>3. c.at = l[i].at /\ c.size = l[i].size + l[i + 1].size /\ c \in Block
      BY <3>1, <3>2 DEF Block
    <3>4. l[i].at + l[i].size = l[i + 1].at
      BY <1>2 DEF EndOf
    <3>5. EndOf(c) = EndOf(l[i + 1])
      BY <3>1, <3>3, <3>4 DEF EndOf
    <3>6. PagesOf(c) = PagesOf(l[i]) \cup PagesOf(l[i + 1])
      BY <3>1, <3>3, <3>4 DEF PagesOf
    <3>. QED
      BY <3>3, <3>5, <3>6
  <2>. HIDE DEF c
  <2>3. /\ n \in Seq(Block) /\ Len(n) = Len(l) - 1
        /\ \A j \in 1..(Len(l) - 1) : n[j] = IF j < i + 1 THEN l[j] ELSE l[j + 1]
    BY <1>1, <2>1, RemoveAtFacts
  <2>. HIDE DEF n
  <2>4. i \in 1..Len(n)
    BY <1>2, <2>3
  <2>5. /\ m \in Seq(Block) /\ Len(m) = Len(n)
        /\ \A j \in 1..Len(n) : m[j] = IF j = i THEN c ELSE n[j]
    BY <2>2, <2>3, <2>4 DEF ReplaceAt
  <2>. HIDE DEF m
  <2>6. /\ m \in Seq(Block) /\ Len(m) = Len(l) - 1
        /\ \A j \in 1..Len(m) : /\ j < i => m[j] = l[j] /\ j \in 1..Len(l)
                                /\ j = i => m[j] = c
                                /\ j > i => m[j] = l[j + 1] /\ j + 1 \in 1..Len(l)
    <3>1. ASSUME NEW j \in 1..Len(m)
          PROVE  /\ j < i => m[j] = l[j] /\ j \in 1..Len(l)
                 /\ j = i => m[j] = c
                 /\ j > i => m[j] = l[j + 1] /\ j + 1 \in 1..Len(l)
      BY <1>1, <2>1, <2>3, <2>5
    <3>. QED
      BY <2>3, <2>5, <3>1
  <2>7. ASSUME NEW j \in 1..Len(m), NEW k \in 1..Len(m), j < k
        PROVE  /\ EndOf(m[j]) <= m[k].at
               /\ EndOf(m[j]) = m[k].at => k = j + 1 /\ j \in A
    <3>1. \E u, w \in 1..Len(l) :
            /\ u < w /\ EndOf(m[j]) = EndOf(l[u]) /\ m[k].at = l[w].at
            /\ w = u + 1 => k = j + 1
            /\ u \in A => j \in A
            /\ u # i
      <4>1. CASE k <= i
        <5>1. m[j] = l[j] /\ m[k].at = l[k].at /\ j \in 1..Len(l) /\ k \in 1..Len(l) /\ j # i
          <6>1. j < i /\ (k < i \/ k = i) /\ j \in 1..Len(m) /\ k \in 1..Len(m)
            BY <1>1, <2>7, <4>1
          <6>2. m[k].at = l[k].at /\ k \in 1..Len(l)
            BY <2>1, <2>2, <2>6, <6>1
          <6>. QED
            BY <2>6, <6>1, <6>2
        <5>. QED
          BY <2>7, <5>1
      <4>2. CASE k > i /\ j < i
        <5>1. /\ m[j] = l[j] /\ m[k] = l[k + 1] /\ j \in 1..Len(l) /\ k + 1 \in 1..Len(l) /\ j < k + 1
              /\ k + 1 # j + 1 /\ j # i
          <6>1. m[j] = l[j] /\ j \in 1..Len(l) /\ j # i
            BY <2>2, <2>6, <2>7, <4>2
          <6>2. m[k] = l[k + 1] /\ k + 1 \in 1..Len(l)
            BY <2>2, <2>6, <2>7, <4>2
          <6>3. j < k + 1 /\ k + 1 # j + 1
            BY <2>2, <2>7, <4>2
          <6>. QED
            BY <6>1, <6>2, <6>3
        <5>. QED
          BY <2>7, <5>1
      <4>3. CASE j = i
        <5>1. /\ EndOf(m[j]) = EndOf(l[i + 1]) /\ m[k] = l[k + 1] /\ i + 1 \in 1..Len(l)
              /\ k + 1 \in 1..Len(l) /\ i + 1 < k + 1 /\ i + 1 # i /\ i + 1 \notin A
              /\ (k + 1 = (i + 1) + 1 => k = j + 1)
          BY <1>1, <2>1, <2>2, <2>6, <2>7, <4>3
        <5>. QED
          BY <5>1
      <4>4. CASE j > i
        <5>1. /\ m[j] = l[j + 1] /\ m[k] = l[k + 1] /\ j + 1 \in 1..Len(l)
              /\ k + 1 \in 1..Len(l) /\ j + 1 < k + 1 /\ j + 1 # i /\ j + 1 \notin A
              /\ (k + 1 = (j + 1) + 1 => k = j + 1)
          BY <1>1, <2>1, <2>2, <2>6, <2>7, <4>4
        <5>. QED
          BY <5>1
      <4>5. k <= i \/ (k > i /\ j < i) \/ j = i \/ j > i
        BY <1>1, <2>6
      <4>. QED
        BY <4>1, <4>2, <4>3, <4>4, <4>5
    <3>. QED
      BY <3>1 DEF Ascending
  <2>8. ListPages(m) = ListPages(l)
    <3>1. ASSUME NEW x, x \in ListPages(m) PROVE x \in ListPages(l)
      <4>1. PICK j \in 1..Len(m) : x \in PagesOf(m[j])
        BY <3>1 DEF ListPages
      <4>2. j < i \/ j = i \/ j > i
        BY <1>1, <2>6
      <4>3. \E k \in 1..Len(l) : x \in PagesOf(l[k])
        BY <2>1, <2>2, <2>6, <4>1, <4>2
      <4>. QED
        BY <4>3 DEF ListPages
    <3>2. ASSUME NEW x, x \in ListPages(l) PROVE x \in ListPages(m)
      <4>1. PICK k \in 1..Len(l) : x \in PagesOf(l[k])
        BY <3>2 DEF ListPages
      <4>2. CASE k = i \/ k = i + 1
        <5>1. i \in 1..Len(m) /\ m[i] = c
          BY <1>1, <1>2, <2>6
        <5>. QED
          BY <2>2, <4>1, <4>2, <5>1 DEF ListPages
      <4>3. CASE k < i
        <5>1. k \in 1..Len(m) /\ m[k] = l[k]
          BY <1>1, <1>2, <2>6, <4>3
        <5>. QED
          BY <4>1, <5>1 DEF ListPages
      <4>4. CASE k > i + 1
        <5>1. k - 1 \in 1..Len(m) /\ k - 1 > i /\ (k - 1) + 1 = k
          BY <1>1, <1>2, <2>6, <4>4
        <5>2. m[k - 1] = l[k]
          BY <2>6, <5>1
        <5>. QED
          BY <4>1, <5>1, <5>2 DEF ListPages
      <4>5. (k = i \/ k = i + 1) \/ k < i \/ k > i + 1
        BY <1>1
      <4>. QED
        BY <4>2, <4>3, <4>4, <4>5
    <3>. QED
      BY <3>1, <3>2
  <2>9. Ascending(m, A)
    BY <2>6, <2>7 DEF Ascending
  <2>10. Joined(l, i) = m
    BY <1>2 DEF Joined, m, n, c
  <2>. QED
    BY <2>8, <2>9, <2>10
<1>3. CASE ~(i \in 1..(Len(l) - 1) /\ EndOf(l[i]) = l[i + 1].at)
  <2>1. Joined(l, i) = l
    BY <1>3 DEF Joined
  <2>2. ASSUME NEW j \in 1..Len(l), NEW k \in 1..Len(l), j < k, EndOf(l[j]) = l[k].at
        PROVE  k = j + 1 /\ j \in A
    <3>1. k = j + 1 /\ j \in A \cup {i}
      BY <2>2 DEF Ascending
    <3>2. j \in 1..(Len(l) - 1)
      BY <1>1, <3>1
    <3>. QED
      BY <1>3, <2>2, <3>1, <3>2
  <2>3. Ascending(l, A)
    BY <2>2 DEF Ascending
  <2>. QED
    BY <2>1, <2>3
<1>. QED
  BY <1>2, <1>3

\* The loop of page_free() finds a place.
LEMMA PlaceFound ==
  ASSUME NEW l, Ascending(l, {}), NEW at \in Nat
  PROVE  /\ Place(l, at) \in 1..(Len(l) + 1)
         /\ \A j \in 1..(Place(l, at) - 1) : l[j].at < at
         /\ \A j \in Place(l, at)..Len(l) : l[j].at >= at
<1>1. Len(l) \in Nat /\ l \in Seq(Block) /\ \A j \in 1..Len(l) : l[j].at \in Nat
  BY BlocksOf, BlockFacts
<1>2. DOMAIN l = 1..Len(l)
  BY <1>1
<1>. DEFINE P(i) == /\ \A j \in 1..(i - 1) : l[j].at < at
                    /\ i \in DOMAIN l => l[i].at >= at
            T == {i \in 1..(Len(l) + 1) : i \in DOMAIN l => l[i].at >= at}
<1>3. PICK i \in T : \A k \in T : i <= k
  <2>1. T \subseteq Nat /\ Len(l) + 1 \in T
    BY <1>1, <1>2
  <2>. QED
    BY <2>1, NatMinimum
<1>4. P(i)
  <2>1. ASSUME NEW j \in 1..(i - 1) PROVE l[j].at < at
    <3>1. j \in 1..Len(l) /\ j \in 1..(Len(l) + 1) /\ j < i
      BY <1>1, <1>3
    <3>2. j \notin T
      BY <1>1, <1>3, <3>1
    <3>. QED
      BY <1>1, <1>2, <3>1, <3>2
  <2>. QED
    BY <1>3, <2>1
<1>5. Place(l, at) = CHOOSE i_1 \in 1..(Len(l) + 1) : P(i_1)
  BY DEF Place
<1>6. Place(l, at) \in 1..(Len(l) + 1) /\ P(Place(l, at))
  <2>. HIDE DEF P
  <2>. QED
    BY <1>3, <1>4, <1>5
<1>. DEFINE p == Place(l, at)
<1>7. p \in 1..(Len(l) + 1) /\ P(p)
  BY <1>6
<1>. HIDE DEF p
<1>8. ASSUME NEW j \in p..Len(l) PROVE l[j].at >= at
  <2>1. p \in 1..Len(l) /\ j \in 1..Len(l) /\ (p = j \/ p < j)
    BY <1>1, <1>7
  <2>2. l[p].at >= at /\ l[p].at \in Nat /\ l[j].at \in Nat
    BY <1>1, <1>2, <1>7, <2>1
  <2>3. p < j => l[p].at <= l[j].at
    <3>1. l[p] \in Block
      BY <1>1, <2>1, ElementOfSeq
    <3>2. l[p].at < EndOf(l[p]) /\ EndOf(l[p]) \in Nat
      BY <3>1, BlockFacts
    <3>3. p < j => EndOf(l[p]) <= l[j].at
      BY <2>1 DEF Ascending
    <3>. QED
      BY <2>2, <3>2, <3>3
  <2>. QED
    BY <2>1, <2>2, <2>3
<1>9. /\ p \in 1..(Len(l) + 1)
      /\ \A j \in 1..(p - 1) : l[j].at < at
      /\ \A j \in p..Len(l) : l[j].at >= at
  BY <1>7, <1>8
<1>. QED
  BY <1>9 DEF p

\* page_free() keeps the list in order, joins what adjoins, and frees exactly
\* the pages of the block.
LEMMA FreedAscending ==
  ASSUME NEW l, Ascending(l, {}), NEW b \in Block, PagesOf(b) \cap ListPages(l) = {}
  PROVE  /\ Ascending(PageFreed(l, b), {})
         /\ ListPages(PageFreed(l, b)) = ListPages(l) \cup PagesOf(b)
<1>1. PICK i : i = Place(l, b.at)
  OBVIOUS
<1>2. b.at \in Nat /\ Len(l) \in Nat /\ \A j \in 1..Len(l) : l[j] \in Block
  BY BlockFacts, BlocksOf
<1>3. /\ i \in 1..(Len(l) + 1)
      /\ \A j \in 1..(i - 1) : l[j].at < b.at
      /\ \A j \in i..Len(l) : l[j].at >= b.at
  BY <1>1, <1>2, PlaceFound
<1>4. ASSUME NEW j \in 1..Len(l)
      PROVE  /\ l[j].at \in Nat /\ EndOf(l[j]) \in Nat /\ EndOf(b) \in Nat
             /\ l[j].at < b.at => EndOf(l[j]) <= b.at
             /\ l[j].at >= b.at => EndOf(b) <= l[j].at
  <2>1. /\ l[j].at \in Nat /\ EndOf(l[j]) \in Nat
        /\ b.at < EndOf(b) /\ EndOf(b) \in Nat /\ l[j].at < EndOf(l[j])
        /\ \A x : x \in PagesOf(l[j]) <=> x \in Int /\ l[j].at <= x /\ x < EndOf(l[j])
        /\ \A x : x \in PagesOf(b) <=> x \in Int /\ b.at <= x /\ x < EndOf(b)
    BY <1>2, BlockFacts
  <2>2. \A x \in PagesOf(l[j]) : x \notin PagesOf(b)
    BY DEF ListPages
  <2>3. l[j].at < b.at => EndOf(l[j]) <= b.at
    BY <1>2, <2>1, <2>2
  <2>4. l[j].at >= b.at => EndOf(b) <= l[j].at
    BY <1>2, <2>1, <2>2
  <2>. QED
    BY <2>1, <2>3, <2>4
<1>. DEFINE m == InsertAt(l, i, b)
<1>5. Ascending(m, {i - 1} \cup {i}) /\ ListPages(m) = ListPages(l) \cup PagesOf(b)
  <2>1. ASSUME NEW j \in 1..(i - 1)
        PROVE  EndOf(l[j]) <= b.at /\ (EndOf(l[j]) = b.at => j = i - 1)
    <3>1. j \in 1..Len(l) /\ l[j].at < b.at
      BY <1>2, <1>3
    <3>2. EndOf(l[j]) <= b.at /\ EndOf(l[j]) \in Nat
      BY <1>4, <3>1
    <3>3. CASE j < i - 1
      <4>1. i - 1 \in 1..Len(l) /\ i - 1 \in 1..(i - 1)
        BY <1>2, <1>3, <3>3
      <4>2. EndOf(l[j]) <= l[i - 1].at /\ l[i - 1].at < b.at /\ l[i - 1].at \in Nat
        BY <1>3, <1>4, <3>1, <3>3, <4>1 DEF Ascending
      <4>. QED
        BY <1>2, <3>2, <4>2
    <3>4. j < i - 1 \/ j = i - 1
      BY <1>3
    <3>. QED
      BY <3>2, <3>3, <3>4
  <2>2. ASSUME NEW j \in i..Len(l)
        PROVE  EndOf(b) <= l[j].at /\ (EndOf(b) = l[j].at => j = i)
    <3>1. j \in 1..Len(l) /\ l[j].at >= b.at
      BY <1>2, <1>3
    <3>2. EndOf(b) <= l[j].at /\ l[j].at \in Nat /\ EndOf(b) \in Nat
      BY <1>4, <3>1
    <3>3. CASE j > i
      <4>1. i \in 1..Len(l) /\ i \in i..Len(l)
        BY <1>2, <1>3, <3>3
      <4>2. EndOf(b) <= l[i].at /\ l[i].at < EndOf(l[i]) /\ EndOf(l[i]) <= l[j].at
            /\ l[i].at \in Nat /\ EndOf(l[i]) \in Nat
        <5>1. EndOf(l[i]) <= l[j].at
          BY <3>1, <3>3, <4>1 DEF Ascending
        <5>2. l[i].at < EndOf(l[i])
          BY <1>2, <4>1, BlockFacts
        <5>. QED
          BY <1>3, <1>4, <4>1, <5>1, <5>2
      <4>. QED
        BY <3>2, <4>2
    <3>4. j > i \/ j = i
      BY <1>3
    <3>. QED
      BY <3>2, <3>3, <3>4
  <2>3. \A j \in 1..(i - 1) : EndOf(l[j]) <= b.at /\ (EndOf(l[j]) = b.at => j = i - 1 /\ j \in {i - 1} \cup {i})
    BY <2>1
  <2>4. \A j \in i..Len(l) : EndOf(b) <= l[j].at /\ (EndOf(b) = l[j].at => j = i /\ i \in {i - 1} \cup {i})
    BY <2>2
  <2>. DEFINE A == {i - 1} \cup {i}
  <2>. HIDE DEF A
  <2>5. FitsAt(l, i, b, A)
    BY <2>3, <2>4 DEF A, FitsAt
  <2>6. /\ Ascending(InsertAt(l, i, b), A)
        /\ ListPages(InsertAt(l, i, b)) = ListPages(l) \cup PagesOf(b)
    BY <1>3, <2>5, InsertAscending
  <2>. QED
    BY <2>6 DEF A
<1>. HIDE DEF m
<1>6. PICK n : n = Joined(m, i)
  OBVIOUS
<1>7. Ascending(n, {i - 1}) /\ ListPages(n) = ListPages(m)
  <2>1. i \in Nat /\ {i - 1} \subseteq 0..(i - 1)
    BY <1>3
  <2>. QED
    BY <1>5, <1>6, <2>1, JoinAscending
<1>8. Ascending(Joined(n, i - 1), {}) /\ ListPages(Joined(n, i - 1)) = ListPages(n)
  <2>1. i - 1 \in Nat /\ {} \subseteq 0..((i - 1) - 1) /\ {} \cup {i - 1} = {i - 1}
    BY <1>3
  <2>2. Ascending(n, {} \cup {i - 1})
    BY <1>7, <2>1
  <2>. QED
    BY <2>1, <2>2, JoinAscending
<1>9. PageFreed(l, b) = Joined(n, i - 1)
  BY <1>1, <1>6 DEF PageFreed, m
<1>. QED
  BY <1>5, <1>7, <1>8, <1>9

\* A block of pages of the list is in one block of it.
LEMMA OneBlockIncludes ==
  ASSUME NEW l, Ascending(l, {}), NEW b \in Block, PagesOf(b) \subseteq ListPages(l)
  PROVE  Including(l, b) # {}
<1>1. l \in Seq(Block) /\ Len(l) \in Nat /\ DOMAIN l = 1..Len(l) /\ \A j \in 1..Len(l) : l[j] \in Block
  BY BlocksOf
<1>2. /\ b.at \in Nat /\ EndOf(b) \in Nat /\ b.at < EndOf(b)
      /\ \A x : x \in PagesOf(b) <=> x \in Int /\ b.at <= x /\ x < EndOf(b)
  BY BlockFacts
<1>3. PICK i \in 1..Len(l) : b.at \in PagesOf(l[i])
  BY <1>2 DEF ListPages
<1>4. /\ l[i].at \in Nat /\ EndOf(l[i]) \in Nat
      /\ l[i].at <= b.at /\ b.at < EndOf(l[i])
  BY <1>1, <1>3, BlockFacts
<1>5. EndOf(b) <= EndOf(l[i])
  <2>. SUFFICES ASSUME EndOf(l[i]) < EndOf(b) PROVE FALSE
    BY <1>2, <1>4
  <2>1. PICK j \in 1..Len(l) : EndOf(l[i]) \in PagesOf(l[j])
    BY <1>2, <1>4 DEF ListPages
  <2>2. /\ l[j].at \in Nat /\ EndOf(l[j]) \in Nat
        /\ l[j].at <= EndOf(l[i]) /\ EndOf(l[i]) < EndOf(l[j])
    BY <1>1, <2>1, BlockFacts
  <2>3. i # j
    BY <2>2
  <2>4. CASE i < j
    BY <1>4, <2>2, <2>4 DEF Ascending
  <2>5. CASE j < i
    BY <1>2, <1>4, <2>2, <2>5 DEF Ascending
  <2>. QED
    BY <1>1, <2>3, <2>4, <2>5
<1>. QED
  BY <1>1, <1>4, <1>5 DEF Including, Includes

\* A block that is cut into what is in front of b and what is after it.
LEMMA CutBlock ==
  ASSUME NEW c \in Block, NEW b \in Block, Includes(c, b),
         NEW before, before = [at |-> c.at, size |-> b.at - c.at],
         NEW after, after = [at |-> EndOf(b), size |-> EndOf(c) - EndOf(b)]
  PROVE  /\ before.size \in Nat /\ after.size \in Nat
         /\ before.size # 0 =>
              /\ before \in Block /\ Includes(c, before) /\ EndOf(before) < EndOf(b) /\ EndOf(before) = b.at
              /\ PagesOf(before) = {x \in PagesOf(c) : x < b.at}
         /\ after.size # 0 =>
              /\ after \in Block /\ Includes(c, after) /\ after.at = EndOf(b) /\ EndOf(after) = EndOf(c)
              /\ PagesOf(after) = {x \in PagesOf(c) : x >= EndOf(b)}
         /\ before.size = 0 => c.at = b.at
         /\ after.size = 0 => EndOf(c) = EndOf(b)
         /\ PagesOf(b) = {x \in PagesOf(c) : b.at <= x /\ x < EndOf(b)}
<1>1. /\ c.at \in Nat \ {0} /\ EndOf(c) \in Nat /\ c.at < EndOf(c)
      /\ b.at \in Nat \ {0} /\ EndOf(b) \in Nat /\ b.at < EndOf(b)
      /\ c.at <= b.at /\ EndOf(b) <= EndOf(c)
      /\ \A x : x \in PagesOf(c) <=> x \in Int /\ c.at <= x /\ x < EndOf(c)
      /\ \A x : x \in PagesOf(b) <=> x \in Int /\ b.at <= x /\ x < EndOf(b)
  BY BlockFacts DEF Includes
<1>2. /\ before.at = c.at /\ before.size = b.at - c.at /\ after.at = EndOf(b)
      /\ after.size = EndOf(c) - EndOf(b)
  OBVIOUS
<1>3. before.size \in Nat /\ after.size \in Nat
  BY <1>1, <1>2
<1>4. ASSUME before.size # 0
      PROVE  /\ before \in Block /\ Includes(c, before) /\ EndOf(before) < EndOf(b) /\ EndOf(before) = b.at
             /\ PagesOf(before) = {x \in PagesOf(c) : x < b.at}
  <2>1. before \in Block
    BY <1>1, <1>2, <1>3, <1>4 DEF Block
  <2>2. EndOf(before) = b.at
    BY <1>1, <1>2 DEF EndOf
  <2>3. \A x : x \in PagesOf(before) <=> x \in Int /\ c.at <= x /\ x < b.at
    BY <1>2, <2>1, <2>2, BlockFacts
  <2>4. PagesOf(before) = {x \in PagesOf(c) : x < b.at}
    BY <1>1, <2>3
  <2>. QED
    BY <1>1, <1>2, <2>1, <2>2, <2>4 DEF Includes
<1>5. ASSUME after.size # 0
      PROVE  /\ after \in Block /\ Includes(c, after) /\ after.at = EndOf(b) /\ EndOf(after) = EndOf(c)
             /\ PagesOf(after) = {x \in PagesOf(c) : x >= EndOf(b)}
  <2>1. after \in Block
    BY <1>1, <1>2, <1>3, <1>5 DEF Block
  <2>2. EndOf(after) = EndOf(c)
    <3>1. after.at + after.size = EndOf(c)
      BY <1>1, <1>2
    <3>. QED
      BY <3>1 DEF EndOf
  <2>3. \A x : x \in PagesOf(after) <=> x \in Int /\ EndOf(b) <= x /\ x < EndOf(c)
    BY <1>2, <2>1, <2>2, BlockFacts
  <2>4. PagesOf(after) = {x \in PagesOf(c) : x >= EndOf(b)}
    BY <1>1, <2>3
  <2>. QED
    BY <1>1, <1>2, <2>1, <2>2, <2>4 DEF Includes
<1>6. before.size = 0 => c.at = b.at
  BY <1>1, <1>2
<1>7. after.size = 0 => EndOf(c) = EndOf(b)
  BY <1>1, <1>2
<1>8. PagesOf(b) = {x \in PagesOf(c) : b.at <= x /\ x < EndOf(b)}
  BY <1>1
<1>. QED
  BY <1>3, <1>4, <1>5, <1>6, <1>7, <1>8

\* page_reserve() keeps the list in order and takes exactly the pages of the
\* block.
LEMMA ReservedAscending ==
  ASSUME NEW l, Ascending(l, {}), NEW b \in Block, Including(l, b) # {}
  PROVE  /\ Ascending(PageReserved(l, b), {})
         /\ PagesOf(b) \subseteq ListPages(l)
         /\ ListPages(PageReserved(l, b)) = ListPages(l) \ PagesOf(b)
<1>1. PICK i : i = CHOOSE j \in Including(l, b) : TRUE
  OBVIOUS
<1>2. l \in Seq(Block) /\ Len(l) \in Nat /\ DOMAIN l = 1..Len(l) /\ \A j \in 1..Len(l) : l[j] \in Block
  BY BlocksOf
<1>3. i \in 1..Len(l) /\ l[i] \in Block /\ Includes(l[i], b)
  BY <1>1, <1>2 DEF Including
<1>4. PICK before, after : /\ before = [at |-> l[i].at, size |-> b.at - l[i].at]
                           /\ after = [at |-> EndOf(b), size |-> EndOf(l[i]) - EndOf(b)]
  OBVIOUS
<1>5. PageReserved(l, b) =
        IF before.size = 0 /\ after.size = 0 THEN RemoveAt(l, i)
        ELSE IF before.size = 0 THEN ReplaceAt(l, i, after)
        ELSE IF after.size = 0 THEN ReplaceAt(l, i, before)
        ELSE InsertAt(ReplaceAt(l, i, before), i + 1, after)
  BY <1>1, <1>4 DEF PageReserved
<1>6. /\ before.size \in Nat /\ after.size \in Nat
      /\ before.size # 0 =>
           /\ before \in Block /\ Includes(l[i], before) /\ EndOf(before) < EndOf(b) /\ EndOf(before) = b.at
           /\ PagesOf(before) = {x \in PagesOf(l[i]) : x < b.at}
      /\ after.size # 0 =>
           /\ after \in Block /\ Includes(l[i], after) /\ after.at = EndOf(b) /\ EndOf(after) = EndOf(l[i])
           /\ PagesOf(after) = {x \in PagesOf(l[i]) : x >= EndOf(b)}
      /\ before.size = 0 => l[i].at = b.at
      /\ after.size = 0 => EndOf(l[i]) = EndOf(b)
      /\ PagesOf(b) = {x \in PagesOf(l[i]) : b.at <= x /\ x < EndOf(b)}
  BY <1>3, <1>4, CutBlock
<1>7. /\ l[i].at \in Nat /\ EndOf(l[i]) \in Nat /\ b.at \in Nat /\ EndOf(b) \in Nat /\ b.at < EndOf(b)
      /\ \A x : x \in PagesOf(l[i]) <=> x \in Int /\ l[i].at <= x /\ x < EndOf(l[i])
  BY <1>3, BlockFacts
<1>8. PagesOf(l[i]) \subseteq ListPages(l)
  BY <1>3 DEF ListPages
<1>9. PagesOf(b) \subseteq ListPages(l)
  BY <1>6, <1>8
<1>10. CASE before.size = 0 /\ after.size = 0
  <2>1. PagesOf(b) = PagesOf(l[i])
    BY <1>6, <1>7, <1>10
  <2>. QED
    BY <1>3, <1>5, <1>9, <1>10, <2>1, RemoveAscending
<1>11. CASE before.size = 0 /\ after.size # 0
  <2>1. /\ Ascending(ReplaceAt(l, i, after), {})
        /\ ListPages(ReplaceAt(l, i, after)) = (ListPages(l) \ PagesOf(l[i])) \cup PagesOf(after)
    BY <1>3, <1>6, <1>11, ReplaceAscending
  <2>2. PagesOf(after) = PagesOf(l[i]) \ PagesOf(b)
    BY <1>6, <1>7, <1>11
  <2>3. (ListPages(l) \ PagesOf(l[i])) \cup PagesOf(after) = ListPages(l) \ PagesOf(b)
    BY <1>6, <1>8, <2>2
  <2>. QED
    BY <1>5, <1>9, <1>11, <2>1, <2>3
<1>12. CASE before.size # 0 /\ after.size = 0
  <2>1. /\ Ascending(ReplaceAt(l, i, before), {})
        /\ ListPages(ReplaceAt(l, i, before)) = (ListPages(l) \ PagesOf(l[i])) \cup PagesOf(before)
    BY <1>3, <1>6, <1>12, ReplaceAscending
  <2>2. PagesOf(before) = PagesOf(l[i]) \ PagesOf(b)
    BY <1>6, <1>7, <1>12
  <2>3. (ListPages(l) \ PagesOf(l[i])) \cup PagesOf(before) = ListPages(l) \ PagesOf(b)
    BY <1>6, <1>8, <2>2
  <2>. QED
    BY <1>5, <1>9, <1>12, <2>1, <2>3
<1>13. CASE before.size # 0 /\ after.size # 0
  <2>. DEFINE m == ReplaceAt(l, i, before)
  <2>1. /\ Ascending(m, {})
        /\ ListPages(m) = (ListPages(l) \ PagesOf(l[i])) \cup PagesOf(before)
    BY <1>3, <1>6, <1>13, ReplaceAscending
  <2>2. /\ Len(m) = Len(l)
        /\ \A j \in 1..Len(l) : m[j] = IF j = i THEN before ELSE l[j]
    BY <1>2, <1>3 DEF ReplaceAt
  <2>. HIDE DEF m
  <2>3. /\ before \in Block /\ EndOf(before) = b.at /\ after \in Block /\ after.at = EndOf(b)
        /\ EndOf(after) = EndOf(l[i])
    BY <1>6, <1>13
  <2>4. ASSUME NEW j \in 1..((i + 1) - 1)
        PROVE  EndOf(m[j]) <= after.at /\ EndOf(m[j]) # after.at
    <3>1. CASE j = i
      BY <1>3, <1>7, <2>2, <2>3, <3>1
    <3>2. CASE j < i
      <4>1. j \in 1..Len(l) /\ m[j] = l[j] /\ EndOf(l[j]) <= l[i].at /\ EndOf(l[j]) \in Nat
        BY <1>2, <1>3, <2>2, <3>2, BlockFacts DEF Ascending
      <4>2. l[i].at <= b.at
        BY <1>3 DEF Includes
      <4>. QED
        BY <1>7, <2>3, <4>1, <4>2
    <3>3. j = i \/ j < i
      BY <1>3
    <3>. QED
      BY <3>1, <3>2, <3>3
  <2>5. ASSUME NEW j \in (i + 1)..Len(m)
        PROVE  EndOf(after) <= m[j].at /\ EndOf(after) # m[j].at
    <3>1. j \in 1..Len(l) /\ i < j /\ j # i
      BY <1>2, <1>3, <2>2
    <3>2. m[j] = l[j] /\ EndOf(l[i]) <= l[j].at /\ EndOf(l[i]) # l[j].at
      BY <1>3, <2>2, <3>1 DEF Ascending
    <3>. QED
      BY <2>3, <3>2
  <2>6. i + 1 \in 1..(Len(m) + 1)
    BY <1>2, <1>3, <2>2
  <2>7. PICK k : k = i + 1
    OBVIOUS
  <2>8. k \in 1..(Len(m) + 1) /\ FitsAt(m, k, after, {})
    BY <2>4, <2>5, <2>6, <2>7 DEF FitsAt
  <2>9. /\ Ascending(InsertAt(m, k, after), {})
        /\ ListPages(InsertAt(m, k, after)) = ListPages(m) \cup PagesOf(after)
    BY <2>1, <2>3, <2>8, InsertAscending
  <2>10. PagesOf(before) \cup PagesOf(after) = PagesOf(l[i]) \ PagesOf(b)
    BY <1>6, <1>7, <1>13
  <2>11. ListPages(m) \cup PagesOf(after) = ListPages(l) \ PagesOf(b)
    BY <1>6, <1>8, <2>1, <2>10
  <2>12. PageReserved(l, b) = InsertAt(m, k, after)
    BY <1>5, <1>13, <2>7 DEF m
  <2>. QED
    BY <1>9, <2>9, <2>11, <2>12
<1>. QED
  BY <1>10, <1>11, <1>12, <1>13
-----------------------------------------------------------------------------
\* f[i] is the list when page_init() has worked on i blocks.
BootRun(f, n) == f = [i \in 0..n |-> IF i = 0 THEN <<>> ELSE BootStep(f[i - 1], i)]

LEMMA BootRuns ==
  ASSUME NEW n \in Nat
  PROVE  \E f : BootRun(f, n)
<1>. DEFINE T == {k \in 0..n : \E f : BootRun(f, k)}
<1>1. 0 \in T
  <2>. DEFINE f == [i \in 0..0 |-> <<>>]
  <2>1. \A i \in 0..0 : i = 0
    OBVIOUS
  <2>2. [i \in 0..0 |-> IF i = 0 THEN <<>> ELSE BootStep(f[i - 1], i)] = [i \in 0..0 |-> <<>>]
    BY <2>1
  <2>3. BootRun(f, 0)
    BY <2>2 DEF BootRun
  <2>. QED
    BY <2>3
<1>2. ASSUME NEW k \in 0..(n - 1), k \in T PROVE k + 1 \in T
  <2>1. PICK f : BootRun(f, k)
    BY <1>2
  <2>2. f = [i \in 0..k |-> IF i = 0 THEN <<>> ELSE BootStep(f[i - 1], i)]
    BY <2>1 DEF BootRun
  <2>. DEFINE step(g, i) == IF i = 0 THEN <<>> ELSE BootStep(g[i - 1], i)
              last == BootStep(f[k], k + 1)
              g == [i \in 0..(k + 1) |-> IF i = k + 1 THEN last ELSE f[i]]
  <2>3. \A i \in 0..k : f[i] = step(f, i)
    BY <2>2
  <2>4. \A i \in 0..(k + 1) : g[i] = step(g, i)
    <3>1. ASSUME NEW i \in 0..k PROVE g[i] = step(g, i)
      <4>1. i \in 0..(k + 1) /\ i # k + 1 /\ (i # 0 => i - 1 \in 0..(k + 1) /\ i - 1 # k + 1)
        OBVIOUS
      <4>2. g[i] = f[i] /\ (i # 0 => g[i - 1] = f[i - 1])
        BY <4>1
      <4>. HIDE DEF g
      <4>. QED
        BY <2>3, <4>2
    <3>2. g[k + 1] = step(g, k + 1)
      <4>1. k \in 0..(k + 1) /\ k # k + 1 /\ k + 1 \in 0..(k + 1) /\ k + 1 # 0 /\ (k + 1) - 1 = k
        OBVIOUS
      <4>2. g[k + 1] = last /\ g[k] = f[k]
        BY <4>1
      <4>. HIDE DEF g
      <4>. QED
        BY <4>1, <4>2
    <3>. HIDE DEF g, step
    <3>. QED
      BY <3>1, <3>2
  <2>5. g = [i \in 0..(k + 1) |-> g[i]]
    OBVIOUS
  <2>6. g = [i \in 0..(k + 1) |-> step(g, i)]
    <3>. HIDE DEF g, step
    <3>. QED
      BY <2>4, <2>5
  <2>7. BootRun(g, k + 1)
    BY <2>6 DEF BootRun
  <2>. QED
    BY <2>7
<1>3. 0..n \subseteq T
  <2>. HIDE DEF T
  <2>. QED
    BY <1>1, <1>2, SetInduction
<1>. QED
  BY <1>3

\* The recursion of page_init(), unfolded.
LEMMA BootUnfolds ==
  /\ BootList[0] = <<>>
  /\ \A i \in 1..(Len(Usable) + Len(Reserved)) : BootList[i] = BootStep(BootList[i - 1], i)
<1>. DEFINE n == Len(Usable) + Len(Reserved)
            R(f) == f = [i \in 0..n |-> IF i = 0 THEN <<>> ELSE BootStep(f[i - 1], i)]
<1>1. n \in Nat
  BY PageAssumption
<1>2. BootList = CHOOSE f : R(f)
  BY DEF BootList
<1>3. \E f : R(f)
  <2>1. PICK f : BootRun(f, n)
    BY <1>1, BootRuns
  <2>2. R(f)
    BY <2>1 DEF BootRun
  <2>. QED
    BY <2>2
<1>4. R(BootList)
  <2>. HIDE DEF R
  <2>. QED
    BY <1>2, <1>3
<1>5. 0 \in 0..n /\ \A i \in 1..n : i \in 0..n /\ i # 0
  BY <1>1
<1>. QED
  BY <1>4, <1>5

\* The pages of the first k blocks of q.
FirstPages(q, k) == UNION {PagesOf(q[i]) : i \in 1..k}

LEMMA FirstPagesGrow ==
  ASSUME NEW q \in Seq(Block), BlocksApart(q), NEW k \in 1..Len(q)
  PROVE  /\ FirstPages(q, k) = FirstPages(q, k - 1) \cup PagesOf(q[k])
         /\ FirstPages(q, k - 1) \cap PagesOf(q[k]) = {}
         /\ q[k] \in Block
<1>1. \A i : i \in 1..k <=> i \in 1..(k - 1) \/ i = k
  OBVIOUS
<1>2. \A i \in 1..(k - 1) : i \in DOMAIN q /\ k \in DOMAIN q /\ i # k
  OBVIOUS
<1>3. FirstPages(q, k) = FirstPages(q, k - 1) \cup PagesOf(q[k])
  BY <1>1 DEF FirstPages
<1>4. \A i \in 1..(k - 1) : PagesOf(q[i]) \cap PagesOf(q[k]) = {}
  BY <1>2 DEF BlocksApart
<1>. QED
  BY <1>3, <1>4 DEF FirstPages

\* What is free when page_init() has worked on n blocks.
BootPages(n) ==
  IF n <= Len(Usable) THEN FirstPages(Usable, n)
  ELSE UsablePages \ FirstPages(Reserved, n - Len(Usable))

LEMMA BootRight ==
  /\ Ascending(BootList[Len(Usable) + Len(Reserved)], {})
  /\ ListPages(BootList[Len(Usable) + Len(Reserved)]) = UsablePages \ ReservedPages
<1>. DEFINE u == Len(Usable)
            n == u + Len(Reserved)
            Right(k) == Ascending(BootList[k], {}) /\ ListPages(BootList[k]) = BootPages(k)
            T == {k \in 0..n : Right(k)}
<1>1. u \in Nat /\ Len(Reserved) \in Nat /\ n \in Nat
  BY PageAssumption
<1>2. UsablePages = FirstPages(Usable, u) /\ ReservedPages = FirstPages(Reserved, n - u)
  <2>1. DOMAIN Usable = 1..u /\ DOMAIN Reserved = 1..(n - u)
    BY <1>1, PageAssumption
  <2>. QED
    BY <2>1 DEF UsablePages, ReservedPages, FirstPages, ToSet
<1>3. Right(0)
  <2>1. BootList[0] = <<>>
    BY BootUnfolds
  <2>2. Ascending(<<>>, {})
    BY DEF Ascending
  <2>3. ListPages(<<>>) = {} /\ BootPages(0) = {}
    BY <1>1 DEF ListPages, BootPages, FirstPages
  <2>. QED
    BY <2>1, <2>2, <2>3
<1>4. ASSUME NEW k \in 0..(n - 1), Right(k) PROVE Right(k + 1)
  <2>1. PICK l : l = BootList[k] /\ Ascending(l, {}) /\ ListPages(l) = BootPages(k)
    BY <1>4
  <2>2. BootList[k + 1] = BootStep(l, k + 1)
    <3>1. k + 1 \in 1..n /\ (k + 1) - 1 = k
      BY <1>1
    <3>. QED
      BY <2>1, <3>1, BootUnfolds
  <2>3. CASE k + 1 <= u
    <3>1. k + 1 \in 1..u /\ (k + 1) - 1 = k /\ k <= u
      BY <1>1, <2>3
    <3>2. PICK b : b = Usable[k + 1]
      OBVIOUS
    <3>3. /\ FirstPages(Usable, k + 1) = FirstPages(Usable, k) \cup PagesOf(b)
          /\ FirstPages(Usable, k) \cap PagesOf(b) = {}
          /\ b \in Block
      BY <3>1, <3>2, FirstPagesGrow, PageAssumption
    <3>4. BootPages(k) = FirstPages(Usable, k) /\ BootPages(k + 1) = FirstPages(Usable, k + 1)
      BY <2>3, <3>1 DEF BootPages
    <3>5. Ascending(PageFreed(l, b), {}) /\ ListPages(PageFreed(l, b)) = ListPages(l) \cup PagesOf(b)
      BY <2>1, <3>3, <3>4, FreedAscending
    <3>6. BootList[k + 1] = PageFreed(l, b)
      BY <2>2, <2>3, <3>2 DEF BootStep
    <3>. QED
      BY <2>1, <3>3, <3>4, <3>5, <3>6
  <2>4. CASE ~(k + 1 <= u)
    <3>. DEFINE j == k + 1 - u
    <3>1. j \in 1..Len(Reserved) /\ j - 1 = k - u
      BY <1>1, <2>4
    <3>2. PICK b : b = Reserved[j]
      OBVIOUS
    <3>3. /\ FirstPages(Reserved, j) = FirstPages(Reserved, j - 1) \cup PagesOf(b)
          /\ FirstPages(Reserved, j - 1) \cap PagesOf(b) = {}
          /\ b \in Block
      BY <3>1, <3>2, FirstPagesGrow, PageAssumption
    <3>4. BootPages(k) = UsablePages \ FirstPages(Reserved, j - 1)
      <4>1. CASE k <= u
        <5>1. k = u /\ j - 1 = 0
          BY <1>1, <2>4, <4>1
        <5>2. FirstPages(Reserved, 0) = {}
          BY DEF FirstPages
        <5>. QED
          BY <1>2, <4>1, <5>1, <5>2 DEF BootPages
      <4>2. CASE ~(k <= u)
        BY <3>1, <4>2 DEF BootPages
      <4>. QED
        BY <4>1, <4>2
    <3>5. BootPages(k + 1) = UsablePages \ FirstPages(Reserved, j)
      BY <2>4 DEF BootPages
    <3>6. PagesOf(b) \subseteq UsablePages
      <4>1. j \in DOMAIN Reserved
        BY <3>1, PageAssumption
      <4>2. PagesOf(b) \subseteq ReservedPages
        BY <3>2, <4>1 DEF ReservedPages, ToSet
      <4>. QED
        BY <4>2, PageAssumption
    <3>. HIDE DEF j
    <3>7. PagesOf(b) \subseteq ListPages(l)
      BY <2>1, <3>3, <3>4, <3>6
    <3>8. Including(l, b) # {}
      BY <2>1, <3>3, <3>7, OneBlockIncludes
    <3>9. Ascending(PageReserved(l, b), {}) /\ ListPages(PageReserved(l, b)) = ListPages(l) \ PagesOf(b)
      BY <2>1, <3>3, <3>8, ReservedAscending
    <3>10. BootList[k + 1] = PageReserved(l, b)
      BY <2>2, <2>4, <3>2 DEF BootStep, j
    <3>11. ListPages(l) \ PagesOf(b) = BootPages(k + 1)
      BY <2>1, <3>3, <3>4, <3>5
    <3>. QED
      BY <3>9, <3>10, <3>11
  <2>. QED
    BY <2>3, <2>4
<1>5. Right(n)
  <2>1. 0 \in T
    BY <1>1, <1>3
  <2>2. \A k \in 0..(n - 1) : k \in T => k + 1 \in T
    <3>1. \A k \in 0..(n - 1) : k + 1 \in 0..n
      BY <1>1
    <3>. HIDE DEF Right
    <3>. QED
      BY <1>4, <3>1
  <2>3. 0..n \subseteq T
    <3>. HIDE DEF T, n
    <3>. QED
      BY <1>1, <2>1, <2>2, SetInduction
  <2>4. n \in 0..n
    BY <1>1
  <2>. HIDE DEF Right, n
  <2>. QED
    BY <2>3, <2>4
<1>6. BootPages(n) = UsablePages \ ReservedPages
  <2>1. CASE n <= u
    <3>1. n = u /\ n - u = 0
      BY <1>1, <2>1
    <3>2. FirstPages(Reserved, 0) = {}
      BY DEF FirstPages
    <3>. QED
      BY <1>2, <2>1, <3>1, <3>2 DEF BootPages
  <2>2. CASE ~(n <= u)
    BY <1>2, <2>2 DEF BootPages
  <2>. QED
    BY <2>1, <2>2
<1>. QED
  BY <1>5, <1>6
-----------------------------------------------------------------------------
OwnedPages == UNION {PagesOf(b) : b \in powned}

\* Free and owned blocks are disjoint and hold all pages that may be given away;
\* the list is in order; and what is owned is what was counted.
PageInv ==
  /\ Ascending(plist, {})
  /\ powned \subseteq Block
  /\ \A b, c \in powned : b # c => PagesOf(b) \cap PagesOf(c) = {}
  /\ ListPages(plist) \cap OwnedPages = {}
  /\ ListPages(plist) \cup OwnedPages = UsablePages \ ReservedPages
  /\ IsFiniteSet(OwnedPages) /\ used_size = Cardinality(OwnedPages)

LEMMA BlockCount ==
  ASSUME NEW b \in Block
  PROVE  IsFiniteSet(PagesOf(b)) /\ Cardinality(PagesOf(b)) = b.size
<1>1. b.at \in Nat \ {0} /\ b.size \in Nat \ {0}
  BY DEF Block
<1>2. PICK a, z \in Int : a = b.at /\ z = b.at + b.size - 1
  BY <1>1
<1>3. IsFiniteSet(a..z) /\ Cardinality(a..z) = IF a > z THEN 0 ELSE z - a + 1
  BY FS_Interval
<1>4. PagesOf(b) = a..z /\ b.size = z - a + 1 /\ ~(a > z)
  BY <1>1, <1>2 DEF PagesOf
<1>. QED
  BY <1>3, <1>4

LEMMA PageInvInit == PageInit => PageInv
<1>. SUFFICES ASSUME PageInit PROVE PageInv
  OBVIOUS
<1>1. plist = BootList[Len(Usable) + Len(Reserved)] /\ used_size = 0 /\ powned = {}
  BY DEF PageInit
<1>2. OwnedPages = {}
  BY <1>1 DEF OwnedPages
<1>3. IsFiniteSet({}) /\ Cardinality({}) = 0
  BY FS_EmptySet
<1>. QED
  BY <1>1, <1>2, <1>3, BootRight DEF PageInv

\* A block of free pages is given away.
LEMMA GivenAway ==
  ASSUME PageInv, NEW b \in Block, PagesOf(b) \subseteq ListPages(plist),
         Ascending(plist', {}), ListPages(plist') = ListPages(plist) \ PagesOf(b),
         powned' = powned \cup {b}, used_size' = used_size + b.size
  PROVE  PageInv'
<1>1. OwnedPages' = OwnedPages \cup PagesOf(b)
  BY DEF OwnedPages
<1>2. OwnedPages \cap PagesOf(b) = {}
  BY DEF PageInv
<1>3. \A c \in powned : PagesOf(c) \cap PagesOf(b) = {}
  BY <1>2 DEF OwnedPages
<1>4. IsFiniteSet(OwnedPages') /\ used_size' = Cardinality(OwnedPages')
  <2>1. IsFiniteSet(PagesOf(b)) /\ Cardinality(PagesOf(b)) = b.size
    BY BlockCount
  <2>2. IsFiniteSet(OwnedPages) /\ used_size = Cardinality(OwnedPages)
    BY DEF PageInv
  <2>3. /\ IsFiniteSet(OwnedPages \cup PagesOf(b))
        /\ Cardinality(OwnedPages \cup PagesOf(b))
             = Cardinality(OwnedPages) + Cardinality(PagesOf(b)) - Cardinality(OwnedPages \cap PagesOf(b))
    BY <2>1, <2>2, FS_Union
  <2>4. Cardinality(OwnedPages \cap PagesOf(b)) = 0
    BY <1>2, FS_EmptySet
  <2>5. Cardinality(OwnedPages) \in Nat /\ b.size \in Nat
    BY <2>2, FS_CardinalityType DEF Block
  <2>. QED
    BY <1>1, <2>1, <2>2, <2>3, <2>4, <2>5
<1>. QED
  BY <1>1, <1>3, <1>4 DEF PageInv

LEMMA PageInvAlloc ==
  ASSUME PageInv, NEW n \in Nat \ {0}, PageAlloc(n)
  PROVE  PageInv' /\ TakenBlock(n) \in Block /\ PagesOf(TakenBlock(n)) \subseteq ListPages(plist)
<1>1. Ascending(plist, {}) /\ Fitting(n) # {}
  BY DEF PageInv, PageAlloc
<1>2. plist \in Seq(Block) /\ DOMAIN plist = 1..Len(plist) /\ Len(plist) \in Nat
      /\ \A j \in 1..Len(plist) : plist[j] \in Block
  BY <1>1, BlocksOf
<1>3. PICK i : i = FirstFitting(n)
  OBVIOUS
<1>4. i \in Fitting(n)
  <2>1. Fitting(n) \subseteq Nat
    BY <1>2 DEF Fitting
  <2>2. \E k \in Fitting(n) : \A j \in Fitting(n) : k <= j
    BY <1>1, <2>1, NatMinimum
  <2>. QED
    BY <1>3, <2>2 DEF FirstFitting
<1>5. i \in 1..Len(plist) /\ plist[i] \in Block /\ plist[i].size >= n
  BY <1>2, <1>4 DEF Fitting
<1>6. PICK b : b = TakenBlock(n)
  OBVIOUS
<1>7. b = [at |-> plist[i].at, size |-> n]
  BY <1>3, <1>6 DEF TakenBlock
<1>8. /\ plist[i].at \in Nat \ {0} /\ plist[i].size \in Nat \ {0}
      /\ plist[i] = [at |-> plist[i].at, size |-> plist[i].size]
      /\ EndOf(plist[i]) = plist[i].at + plist[i].size
      /\ \A x : x \in PagesOf(plist[i]) <=> x \in Int /\ plist[i].at <= x /\ x < EndOf(plist[i])
  BY <1>5, BlockFacts DEF Block
<1>9. /\ b \in Block /\ b.size = n /\ EndOf(b) = plist[i].at + n /\ b.at = plist[i].at
      /\ \A x : x \in PagesOf(b) <=> x \in Int /\ plist[i].at <= x /\ x < plist[i].at + n
  <2>1. b \in Block /\ b.at = plist[i].at /\ b.size = n
    BY <1>7, <1>8 DEF Block
  <2>. QED
    BY <2>1, BlockFacts
<1>10. PagesOf(b) \subseteq PagesOf(plist[i]) /\ PagesOf(plist[i]) \subseteq ListPages(plist)
  <2>1. PagesOf(b) \subseteq PagesOf(plist[i])
    BY <1>5, <1>8, <1>9
  <2>. QED
    BY <1>5, <2>1 DEF ListPages
<1>11. powned' = powned \cup {b} /\ used_size' = used_size + b.size /\ plist' = WithoutTaken(n)
  BY <1>6, <1>9 DEF PageAlloc
<1>12. Ascending(plist', {}) /\ ListPages(plist') = ListPages(plist) \ PagesOf(b)
  <2>1. CASE plist[i].size = n
    <3>1. plist' = RemoveAt(plist, i)
      BY <1>3, <1>11, <2>1 DEF WithoutTaken
    <3>2. PagesOf(b) = PagesOf(plist[i])
      BY <1>8, <1>9, <2>1
    <3>. QED
      BY <1>1, <1>5, <3>1, <3>2, RemoveAscending
  <2>2. CASE plist[i].size # n
    <3>1. PICK c : c = [at |-> plist[i].at + n, size |-> plist[i].size - n]
      OBVIOUS
    <3>2. plist' = ReplaceAt(plist, i, c)
      BY <1>3, <1>11, <2>2, <3>1 DEF WithoutTaken
    <3>3. c \in Block /\ c.at = plist[i].at + n /\ EndOf(c) = EndOf(plist[i])
      <4>1. plist[i].at + n \in Nat \ {0} /\ plist[i].size - n \in Nat \ {0}
        BY <1>5, <1>8, <2>2
      <4>2. c \in Block /\ c.at = plist[i].at + n /\ c.size = plist[i].size - n
        BY <3>1, <4>1 DEF Block
      <4>. QED
        BY <1>8, <4>2 DEF EndOf
    <3>4. Includes(plist[i], c)
      BY <1>8, <3>3 DEF Includes
    <3>5. \A x : x \in PagesOf(c) <=> x \in Int /\ plist[i].at + n <= x /\ x < EndOf(plist[i])
      BY <3>3, BlockFacts
    <3>6. PagesOf(c) = PagesOf(plist[i]) \ PagesOf(b)
      BY <1>8, <1>9, <3>5
    <3>7. /\ Ascending(ReplaceAt(plist, i, c), {})
          /\ ListPages(ReplaceAt(plist, i, c)) = (ListPages(plist) \ PagesOf(plist[i])) \cup PagesOf(c)
      BY <1>1, <1>5, <3>3, <3>4, ReplaceAscending
    <3>. QED
      BY <1>10, <3>2, <3>6, <3>7
  <2>. QED
    BY <2>1, <2>2
<1>13. PageInv'
  BY <1>9, <1>10, <1>11, <1>12, GivenAway
<1>. QED
  BY <1>6, <1>9, <1>10, <1>13

LEMMA PageInvReserve ==
  ASSUME PageInv, NEW b \in Block, PageReserve(b)
  PROVE  PageInv'
<1>1. Ascending(plist, {}) /\ Including(plist, b) # {}
  BY DEF PageInv, PageReserve
<1>2. /\ Ascending(PageReserved(plist, b), {}) /\ PagesOf(b) \subseteq ListPages(plist)
      /\ ListPages(PageReserved(plist, b)) = ListPages(plist) \ PagesOf(b)
  BY <1>1, ReservedAscending
<1>3. /\ plist' = PageReserved(plist, b) /\ powned' = powned \cup {b}
      /\ used_size' = used_size + b.size
  BY DEF PageReserve
<1>. QED
  BY <1>2, <1>3, GivenAway

\* What PageInv says, of any list of free blocks, owned blocks and count.
Holding(l, o, n) ==
  /\ Ascending(l, {})
  /\ o \subseteq Block
  /\ \A b, c \in o : b # c => PagesOf(b) \cap PagesOf(c) = {}
  /\ ListPages(l) \cap UNION {PagesOf(b) : b \in o} = {}
  /\ ListPages(l) \cup UNION {PagesOf(b) : b \in o} = UsablePages \ ReservedPages
  /\ IsFiniteSet(UNION {PagesOf(b) : b \in o}) /\ n = Cardinality(UNION {PagesOf(b) : b \in o})

LEMMA PageInvHolds == PageInv <=> Holding(plist, powned, used_size)
BY DEF PageInv, Holding, OwnedPages

LEMMA HoldingFree ==
  ASSUME NEW l, NEW o, NEW n, Holding(l, o, n), NEW b \in o
  PROVE  Holding(PageFreed(l, b), o \ {b}, n - b.size)
<1>. DEFINE P(s) == UNION {PagesOf(c) : c \in s}
<1>1. /\ b \in Block /\ PagesOf(b) \subseteq P(o)
      /\ \A c \in o \ {b} : PagesOf(c) \cap PagesOf(b) = {}
  BY DEF Holding
<1>2. Ascending(PageFreed(l, b), {}) /\ ListPages(PageFreed(l, b)) = ListPages(l) \cup PagesOf(b)
  <2>1. PagesOf(b) \cap ListPages(l) = {} /\ Ascending(l, {})
    BY <1>1 DEF Holding
  <2>. QED
    BY <1>1, <2>1, FreedAscending
<1>3. P(o \ {b}) = P(o) \ PagesOf(b)
  <2>1. ASSUME NEW x PROVE x \in P(o \ {b}) <=> x \in P(o) \ PagesOf(b)
    BY <1>1
  <2>. QED
    BY <2>1
<1>4. IsFiniteSet(P(o) \ PagesOf(b)) /\ n - b.size = Cardinality(P(o) \ PagesOf(b))
  <2>1. IsFiniteSet(PagesOf(b)) /\ Cardinality(PagesOf(b)) = b.size
    BY <1>1, BlockCount
  <2>2. IsFiniteSet(P(o)) /\ n = Cardinality(P(o))
    BY DEF Holding
  <2>3. /\ IsFiniteSet(P(o) \ PagesOf(b))
        /\ Cardinality(P(o) \ PagesOf(b)) = Cardinality(P(o)) - Cardinality(P(o) \cap PagesOf(b))
    BY <2>2, FS_Difference
  <2>4. P(o) \cap PagesOf(b) = PagesOf(b)
    BY <1>1
  <2>. QED
    BY <2>1, <2>2, <2>3, <2>4
<1>5. /\ (ListPages(l) \cup PagesOf(b)) \cap (P(o) \ PagesOf(b)) = {}
      /\ (ListPages(l) \cup PagesOf(b)) \cup (P(o) \ PagesOf(b)) = UsablePages \ ReservedPages
  BY <1>1 DEF Holding
<1>6. o \ {b} \subseteq Block /\ \A c, d \in o \ {b} : c # d => PagesOf(c) \cap PagesOf(d) = {}
  BY DEF Holding
<1>. QED
  BY <1>2, <1>3, <1>4, <1>5, <1>6 DEF Holding

LEMMA PageInvFree ==
  ASSUME PageInv, NEW b \in powned, PageFree(b)
  PROVE  PageInv'
<1>1. Holding(plist', powned', used_size')
  <2>1. /\ plist' = PageFreed(plist, b) /\ powned' = powned \ {b}
        /\ used_size' = used_size - b.size
    BY DEF PageFree
  <2>2. Holding(PageFreed(plist, b), powned \ {b}, used_size - b.size)
    BY PageInvHolds, HoldingFree
  <2>. QED
    BY <2>1, <2>2
<1>. QED
  BY <1>1 DEF PageInv, Holding, OwnedPages

LEMMA PageInvNext == PageInv /\ [PageNext]_pageVars => PageInv'
<1>. SUFFICES ASSUME PageInv, [PageNext]_pageVars PROVE PageInv'
  OBVIOUS
<1>1. ASSUME NEW n \in Nat \ {0}, PageAlloc(n) PROVE PageInv'
  BY <1>1, PageInvAlloc
<1>2. ASSUME NEW b \in powned, PageFree(b) PROVE PageInv'
  BY <1>2, PageInvFree
<1>3. ASSUME NEW b \in Block, PageReserve(b) PROVE PageInv'
  BY <1>3, PageInvReserve
<1>4. CASE UNCHANGED pageVars
  BY <1>4 DEF pageVars, PageInv, OwnedPages
<1>. QED
  BY <1>1, <1>2, <1>3, <1>4 DEF PageNext

LEMMA PageInvShares == PageInv => PagesSharedOut
<1>. SUFFICES ASSUME PageInv PROVE PagesSharedOut
  OBVIOUS
<1>1. /\ Ascending(plist, {}) /\ Len(plist) \in Nat /\ DOMAIN plist = 1..Len(plist)
      /\ \A i, j \in 1..Len(plist) : i # j => PagesOf(plist[i]) \cap PagesOf(plist[j]) = {}
  BY BlocksOf DEF PageInv
<1>. DEFINE blocks == ToSet(plist) \cup powned
<1>2. \A b : b \in ToSet(plist) <=> \E i \in 1..Len(plist) : b = plist[i]
  BY <1>1 DEF ToSet
<1>3. UNION {PagesOf(b) : b \in blocks} = UsablePages \ ReservedPages
  <2>1. UNION {PagesOf(b) : b \in blocks} = ListPages(plist) \cup OwnedPages
    BY <1>2 DEF ListPages, OwnedPages
  <2>. QED
    BY <2>1 DEF PageInv
<1>4. ASSUME NEW b \in blocks, NEW c \in blocks, b # c
      PROVE  PagesOf(b) \cap PagesOf(c) = {}
  <2>1. CASE b \in ToSet(plist) /\ c \in ToSet(plist)
    BY <1>1, <1>2, <1>4, <2>1
  <2>2. CASE b \in powned /\ c \in powned
    BY <1>4, <2>2 DEF PageInv
  <2>3. ASSUME NEW d \in ToSet(plist), NEW e \in powned
        PROVE  PagesOf(d) \cap PagesOf(e) = {}
    <3>1. PagesOf(d) \subseteq ListPages(plist) /\ PagesOf(e) \subseteq OwnedPages
      BY <1>2, <2>3 DEF ListPages, OwnedPages
    <3>. QED
      BY <3>1 DEF PageInv
  <2>. QED
    BY <2>1, <2>2, <2>3
<1>5. ASSUME NEW i \in 1..(Len(plist) - 1) PROVE EndOf(plist[i]) < plist[i + 1].at
  <2>1. i \in 1..Len(plist) /\ i + 1 \in 1..Len(plist) /\ i < i + 1
    BY <1>1
  <2>2. EndOf(plist[i]) <= plist[i + 1].at /\ EndOf(plist[i]) # plist[i + 1].at
    BY <1>1, <2>1 DEF Ascending
  <2>3. EndOf(plist[i]) \in Nat /\ plist[i + 1].at \in Nat
    BY <1>1, <2>1, BlocksOf, BlockFacts
  <2>. QED
    BY <2>2, <2>3
<1>6. used_size = Cardinality(UNION {PagesOf(b) : b \in powned})
  BY DEF PageInv, OwnedPages
<1>. QED
  BY <1>3, <1>4, <1>5, <1>6 DEF PagesSharedOut

\* Whatever is allocated, reserved and freed: no page is in two blocks or lost,
\* the free list of page.c stays in the order of the addresses, what adjoins has
\* been joined, and used_size is the number of pages that are given away.
THEOREM PagesRight == PageSpec => []PagesSharedOut
<1>. QED
  BY PageInvInit, PageInvNext, PageInvShares, PTL DEF PageSpec

\* The kernel memory allocator uses pages like anybody else.
LEMMA KmemUsesPages == [KmemNext]_kmemVars => [PageNext]_pageVars
<1>. SUFFICES ASSUME [KmemNext]_kmemVars PROVE [PageNext]_pageVars
  OBVIOUS
<1>1. 1 \in Nat \ {0} /\ 1..MaxPages \subseteq Nat \ {0}
  BY PageAssumption
<1>2. ASSUME NEW s \in KmemSizes, KmemAlloc(s) PROVE UNCHANGED pageVars
  BY <1>2 DEF KmemAlloc
<1>3. ASSUME NEW s \in KmemSizes, KmemAllocPage(s) PROVE PageNext
  BY <1>1, <1>3 DEF KmemAllocPage, PageNext
<1>4. ASSUME NEW b \in kowned, KmemFree(b) PROVE PageNext \/ UNCHANGED pageVars
  <2>1. CASE nallocs[b.page] > 1
    BY <1>4, <2>1 DEF KmemFree
  <2>2. CASE ~(nallocs[b.page] > 1)
    <3>1. PageFree(KPage(b.page))
      BY <1>4, <2>2 DEF KmemFree
    <3>2. KPage(b.page) \in powned
      BY <3>1 DEF PageFree
    <3>. QED
      BY <3>1, <3>2 DEF PageNext
  <2>. QED
    BY <2>1, <2>2
<1>5. CASE PagesElsewhere
  BY <1>1, <1>5 DEF PagesElsewhere, PageNext
<1>6. CASE UNCHANGED kmemVars
  BY <1>6 DEF kmemVars
<1>. QED
  BY <1>2, <1>3, <1>4, <1>5, <1>6 DEF KmemNext

THEOREM KmemPagesRight == KmemSpec => []PagesSharedOut
<1>1. KmemInit => PageInit
  BY DEF KmemInit
<1>2. KmemSpec => PageSpec
  BY <1>1, KmemUsesPages, PTL DEF KmemSpec, PageSpec
<1>. QED
  BY <1>2, PagesRight, PTL
-----------------------------------------------------------------------------
KBlock == [page : Nat, at : Nat, size : Nat \ {0}]
Past(b) == b.at + b.size

\* The blocks of the page p, in order and without a gap.
Chain(c, p) ==
  /\ c \in Seq(KBlock) /\ c # <<>>
  /\ \A i \in 1..Len(c) :
       /\ c[i].page = p
       /\ Past(c[i]) = IF i = Len(c) THEN PageUnits ELSE c[i + 1].at
  /\ \A i, j \in 1..Len(c) : i < j => Past(c[i]) <= c[j].at

LEMMA ChainFacts ==
  ASSUME NEW c, NEW p, Chain(c, p)
  PROVE  /\ Len(c) \in Nat \ {0} /\ Distinct(c) /\ DOMAIN c = 1..Len(c)
         /\ \A i \in 1..Len(c) : /\ c[i] \in KBlock /\ c[i].page = p
                                 /\ c[i].at \in Nat /\ c[i].size \in Nat \ {0} /\ Past(c[i]) \in Nat
                                 /\ Past(c[i]) = c[i].at + c[i].size /\ c[i].size \in 1..PageUnits
         /\ \A i, j \in 1..Len(c) : c[i].at = c[j].at => i = j
<1>1. Len(c) \in Nat \ {0} /\ DOMAIN c = 1..Len(c)
  BY EmptySeq DEF Chain
<1>2. PageUnits \in Nat
  BY KmemAssumption
<1>3. ASSUME NEW i \in 1..Len(c)
      PROVE  /\ c[i] \in KBlock /\ c[i].page = p /\ c[i].at \in Nat /\ c[i].size \in Nat \ {0}
             /\ Past(c[i]) \in Nat /\ Past(c[i]) = c[i].at + c[i].size
  <2>1. c[i] \in KBlock /\ c[i].page = p
    BY ElementOfSeq DEF Chain
  <2>. QED
    BY <2>1 DEF KBlock, Past
<1>4. ASSUME NEW i \in 1..Len(c), NEW j \in 1..Len(c), i < j PROVE c[i].at < c[j].at
  <2>1. Past(c[i]) <= c[j].at
    BY <1>4 DEF Chain
  <2>. QED
    BY <1>3, <2>1
<1>5. ASSUME NEW i \in 1..Len(c), NEW j \in 1..Len(c), c[i].at = c[j].at PROVE i = j
  <2>1. i < j \/ j < i \/ i = j
    BY <1>1
  <2>2. c[i].at \in Nat /\ c[j].at \in Nat
    BY <1>3
  <2>. QED
    BY <1>4, <1>5, <2>1, <2>2
<1>6. Distinct(c)
  BY <1>5 DEF Distinct
<1>7. ASSUME NEW i \in 1..Len(c) PROVE c[i].size \in 1..PageUnits
  <2>0. Len(c) \in Nat \ {0}
    BY <1>1
  <2>1. Len(c) \in 1..Len(c) /\ (i < Len(c) \/ i = Len(c))
    BY <2>0
  <2>2. Past(c[Len(c)]) = PageUnits
    BY <2>1 DEF Chain
  <2>3. Past(c[i]) <= PageUnits
    <3>1. CASE i = Len(c)
      BY <1>2, <2>2, <3>1
    <3>2. CASE i < Len(c)
      <4>1. Past(c[i]) <= c[Len(c)].at
        BY <2>1, <3>2 DEF Chain
      <4>. QED
        BY <1>2, <1>3, <2>1, <2>2, <4>1
    <3>. QED
      BY <2>1, <3>1, <3>2
  <2>4. /\ c[i].at \in Nat /\ c[i].size \in Nat \ {0}
        /\ c[i].at + c[i].size <= PageUnits
    BY <1>3, <2>3
  <2>. QED
    BY <1>2, <2>4
<1>. QED
  BY <1>1, <1>3, <1>5, <1>6, <1>7

LEMMA PageChain ==
  ASSUME NEW p \in Nat
  PROVE  LET b == [page |-> p, at |-> 0, size |-> PageUnits]
         IN  b \in KBlock /\ Chain(<<b>>, p) /\ Items(<<b>>) = {b}
<1>. DEFINE b == [page |-> p, at |-> 0, size |-> PageUnits]
            c == <<b>>
<1>1. PageUnits \in Nat \ {0}
  BY KmemAssumption
<1>2. b \in KBlock /\ b.page = p /\ Past(b) = PageUnits
  BY <1>1 DEF KBlock, Past
<1>. HIDE DEF b
<1>3. c \in Seq(KBlock) /\ Len(c) = 1 /\ c[1] = b /\ c # <<>>
  BY <1>2
<1>4. 1..1 = {1}
  OBVIOUS
<1>. HIDE DEF c
<1>5. \A i \in 1..Len(c) : i = 1 /\ i = Len(c)
  BY <1>3, <1>4
<1>6. Chain(c, p)
  BY <1>2, <1>3, <1>5 DEF Chain
<1>7. Items(c) = {b}
  BY <1>3, <1>4 DEF Items
<1>8. b \in KBlock /\ Chain(c, p) /\ Items(c) = {b}
  BY <1>2, <1>6, <1>7
<1>. QED
  BY <1>8 DEF b, c

\* A block is split: the page is still filled, by the same blocks and the two.
LEMMA ChainSplit ==
  ASSUME NEW c, NEW p, Chain(c, p), NEW b \in Items(c), NEW s \in 1..(b.size - 1),
         NEW first, first = [b EXCEPT !.size = s],
         NEW rest, rest = [b EXCEPT !.at = @ + s, !.size = @ - s]
  PROVE  /\ Chain(Split(c, b, s), p)
         /\ Items(Split(c, b, s)) = (Items(c) \ {b}) \cup {first, rest}
         /\ first \notin Items(c) /\ rest \notin Items(c) /\ first # rest
         /\ first.page = p /\ rest.page = p /\ first.size = s /\ rest.size = b.size - s
<1>1. /\ Len(c) \in Nat \ {0} /\ Distinct(c) /\ DOMAIN c = 1..Len(c) /\ c \in Seq(KBlock)
      /\ \A i \in 1..Len(c) : /\ c[i] \in KBlock /\ c[i].page = p
                              /\ c[i].at \in Nat /\ c[i].size \in Nat \ {0} /\ Past(c[i]) \in Nat
                              /\ Past(c[i]) = c[i].at + c[i].size
      /\ \A i, j \in 1..Len(c) : c[i].at = c[j].at => i = j
  BY ChainFacts DEF Chain
<1>2. PICK k : k = CHOOSE j \in DOMAIN c : c[j] = b
  OBVIOUS
<1>3. k \in 1..Len(c) /\ c[k] = b
  BY <1>1, <1>2 DEF Items
<1>4. /\ b \in KBlock /\ b.page = p /\ b.page \in Nat /\ b.at \in Nat /\ b.size \in Nat \ {0}
      /\ Past(b) = b.at + b.size /\ b = [page |-> b.page, at |-> b.at, size |-> b.size]
  <2>1. b \in KBlock /\ b.page = p
    BY <1>1, <1>3
  <2>. QED
    BY <2>1 DEF KBlock, Past
<1>5. /\ first = [page |-> b.page, at |-> b.at, size |-> s]
      /\ rest = [page |-> b.page, at |-> b.at + s, size |-> b.size - s]
  BY <1>4
<1>6. /\ first \in KBlock /\ first.page = p /\ first.at = b.at /\ first.size = s /\ Past(first) = b.at + s
      /\ rest \in KBlock /\ rest.page = p /\ rest.at = b.at + s /\ rest.size = b.size - s
      /\ Past(rest) = b.at + b.size
  <2>1. /\ first.page = p /\ first.at = b.at /\ first.size = s
        /\ rest.page = p /\ rest.at = b.at + s /\ rest.size = b.size - s
    BY <1>4, <1>5
  <2>2. s \in Nat \ {0} /\ b.at + s \in Nat /\ b.size - s \in Nat \ {0}
        /\ (b.at + s) + (b.size - s) = b.at + b.size
    BY <1>4
  <2>3. first \in KBlock /\ rest \in KBlock
    BY <1>4, <1>5, <2>2 DEF KBlock
  <2>. QED
    BY <2>1, <2>2, <2>3 DEF Past
<1>. DEFINE n == ReplaceAt(c, k, first)
            m == InsertAt(n, k + 1, rest)
<1>7. /\ n \in Seq(KBlock) /\ Len(n) = Len(c)
      /\ \A j \in 1..Len(c) : n[j] = IF j = k THEN first ELSE c[j]
  BY <1>1, <1>3, <1>6 DEF ReplaceAt
<1>8. Split(c, b, s) = m
  BY <1>2 DEF Split, n, m
<1>. HIDE DEF n
<1>9. k + 1 \in 1..(Len(n) + 1)
  BY <1>1, <1>3, <1>7
<1>10. /\ m \in Seq(KBlock) /\ Len(m) = Len(n) + 1
       /\ \A j \in 1..(Len(n) + 1) : m[j] = IF j < k + 1 THEN n[j] ELSE IF j = k + 1 THEN rest ELSE n[j - 1]
  <2>1. PutIn(m, KBlock, n, k + 1, rest)
    BY <1>6, <1>7, <1>9, InsertAtFacts
  <2>. QED
    BY <2>1 DEF PutIn
<1>. HIDE DEF m
<1>11. /\ m \in Seq(KBlock) /\ Len(m) = Len(c) + 1
       /\ \A j \in 1..(Len(c) + 1) :
            /\ j < k => m[j] = c[j] /\ j \in 1..Len(c)
            /\ j = k => m[j] = first
            /\ j = k + 1 => m[j] = rest
            /\ j > k + 1 => m[j] = c[j - 1] /\ j - 1 \in 1..Len(c) /\ j - 1 > k
  <2>1. ASSUME NEW j \in 1..(Len(c) + 1)
        PROVE  /\ j < k => m[j] = c[j] /\ j \in 1..Len(c)
               /\ j = k => m[j] = first
               /\ j = k + 1 => m[j] = rest
               /\ j > k + 1 => m[j] = c[j - 1] /\ j - 1 \in 1..Len(c) /\ j - 1 > k
    <3>0. m[j] = IF j < k + 1 THEN n[j] ELSE IF j = k + 1 THEN rest ELSE n[j - 1]
      BY <1>7, <1>10
    <3>1. CASE j < k
      <4>1. j \in 1..Len(c) /\ j < k + 1 /\ j # k /\ j # k + 1 /\ ~(j > k + 1)
        BY <1>1, <1>3, <3>1
      <4>. QED
        BY <1>7, <3>0, <4>1
    <3>2. CASE j = k
      <4>1. j < k + 1 /\ ~(j < k) /\ j # k + 1 /\ ~(j > k + 1)
        BY <1>3, <3>2
      <4>. QED
        BY <1>3, <1>7, <3>0, <3>2, <4>1
    <3>3. CASE j = k + 1
      <4>1. ~(j < k + 1) /\ ~(j < k) /\ j # k /\ ~(j > k + 1)
        BY <1>3, <3>3
      <4>. QED
        BY <3>0, <3>3, <4>1
    <3>4. CASE j > k + 1
      <4>1. /\ ~(j < k + 1) /\ ~(j < k) /\ j # k /\ j # k + 1
            /\ j - 1 \in 1..Len(c) /\ j - 1 > k /\ j - 1 # k
        BY <1>1, <1>3, <3>4
      <4>. QED
        BY <1>7, <3>0, <4>1
    <3>5. j < k \/ j = k \/ j = k + 1 \/ j > k + 1
      BY <1>1, <1>3
    <3>. QED
      BY <3>1, <3>2, <3>3, <3>4, <3>5
  <2>. QED
    BY <1>7, <1>10, <2>1
<1>12. \A j \in 1..(Len(c) + 1) : j < k \/ j = k \/ j = k + 1 \/ j > k + 1
  BY <1>1, <1>3
<1>13. ASSUME NEW i \in 1..Len(m)
       PROVE  m[i].page = p /\ Past(m[i]) = IF i = Len(m) THEN PageUnits ELSE m[i + 1].at
  <2>0. i \in 1..(Len(c) + 1) /\ (i # Len(m) => i + 1 \in 1..(Len(c) + 1))
    BY <1>1, <1>11
  <2>1. CASE i < k
    <3>1. /\ m[i] = c[i] /\ i \in 1..Len(c) /\ i # Len(m) /\ i # Len(c)
          /\ (i + 1 = k \/ i + 1 < k)
      BY <1>1, <1>3, <1>11, <2>0, <2>1
    <3>2. m[i + 1].at = c[i + 1].at
      BY <1>3, <1>6, <1>11, <2>0, <3>1
    <3>3. c[i].page = p /\ Past(c[i]) = c[i + 1].at
      BY <3>1 DEF Chain
    <3>. QED
      BY <3>1, <3>2, <3>3
  <2>2. CASE i = k
    <3>1. i # Len(m) /\ m[i] = first /\ m[i + 1] = rest
      BY <1>1, <1>3, <1>11, <2>0, <2>2
    <3>. QED
      BY <1>6, <3>1
  <2>3. CASE i = k + 1
    <3>1. m[i] = rest /\ Past(rest) = Past(c[k])
      BY <1>3, <1>4, <1>6, <1>11, <2>0, <2>3
    <3>2. i = Len(m) <=> k = Len(c)
      BY <1>1, <1>3, <1>11, <2>3
    <3>3. i # Len(m) => m[i + 1] = c[k + 1]
      <4>1. i + 1 > k + 1 /\ (i + 1) - 1 = k + 1
        BY <1>3, <2>3
      <4>. QED
        BY <1>11, <2>0, <4>1
    <3>4. Past(c[k]) = IF k = Len(c) THEN PageUnits ELSE c[k + 1].at
      BY <1>3 DEF Chain
    <3>. QED
      BY <1>6, <3>1, <3>2, <3>3, <3>4
  <2>4. CASE i > k + 1
    <3>1. m[i] = c[i - 1] /\ i - 1 \in 1..Len(c) /\ (i = Len(m) <=> i - 1 = Len(c)) /\ (i - 1) + 1 = i
      BY <1>1, <1>3, <1>11, <2>0, <2>4
    <3>2. i # Len(m) => m[i + 1] = c[i]
      <4>1. i + 1 > k + 1 /\ (i + 1) - 1 = i
        BY <1>3, <2>4
      <4>. QED
        BY <1>11, <2>0, <4>1
    <3>3. c[i - 1].page = p /\ Past(c[i - 1]) = IF i - 1 = Len(c) THEN PageUnits ELSE c[(i - 1) + 1].at
      BY <3>1 DEF Chain
    <3>. QED
      BY <3>1, <3>2, <3>3
  <2>. QED
    BY <1>12, <2>0, <2>1, <2>2, <2>3, <2>4
<1>14. ASSUME NEW i \in 1..Len(m), NEW j \in 1..Len(m), i < j
       PROVE  Past(m[i]) <= m[j].at
  <2>0. i \in 1..(Len(c) + 1) /\ j \in 1..(Len(c) + 1)
    BY <1>11
  <2>1. PICK u \in 1..Len(c) :
          /\ m[i] = c[u] \/ (u = k /\ (m[i] = first \/ (m[i] = rest /\ i = k + 1)))
          /\ i < k => u = i
          /\ i = k \/ i = k + 1 => u = k
          /\ i > k + 1 => u = i - 1
    BY <1>3, <1>11, <1>12, <2>0
  <2>2. PICK w \in 1..Len(c) :
          /\ m[j] = c[w] \/ (w = k /\ ((m[j] = first /\ j = k) \/ m[j] = rest))
          /\ j < k => w = j
          /\ j = k \/ j = k + 1 => w = k
          /\ j > k + 1 => w = j - 1
    BY <1>3, <1>11, <1>12, <2>0
  <2>3. u < w \/ (i = k /\ j = k + 1)
    BY <1>3, <1>12, <1>14, <2>0, <2>1, <2>2
  <2>4. CASE u < w
    <3>1. Past(m[i]) <= Past(c[u]) /\ Past(m[i]) \in Nat
      <4>1. CASE m[i] = c[u]
        BY <1>1, <4>1
      <4>2. CASE u = k /\ (m[i] = first \/ m[i] = rest)
        <5>1. /\ Past(c[u]) = b.at + b.size
              /\ Past(m[i]) = b.at + s \/ Past(m[i]) = b.at + b.size
          BY <1>3, <1>4, <1>6, <4>2
        <5>. QED
          BY <1>4, <5>1
      <4>. QED
        BY <2>1, <4>1, <4>2
    <3>2. c[w].at <= m[j].at /\ m[j].at \in Nat
      <4>1. CASE m[j] = c[w]
        BY <1>1, <4>1
      <4>2. CASE w = k /\ (m[j] = first \/ m[j] = rest)
        <5>1. c[w].at = b.at /\ (m[j].at = b.at \/ m[j].at = b.at + s)
          BY <1>3, <1>6, <4>2
        <5>. QED
          BY <1>4, <5>1
      <4>. QED
        BY <2>2, <4>1, <4>2
    <3>3. Past(c[u]) <= c[w].at /\ Past(c[u]) \in Nat /\ c[w].at \in Nat
      BY <1>1, <2>4 DEF Chain
    <3>. QED
      BY <3>1, <3>2, <3>3
  <2>5. CASE i = k /\ j = k + 1
    <3>1. m[i] = first /\ m[j] = rest
      BY <1>11, <2>0, <2>5
    <3>2. Past(m[i]) = b.at + s /\ m[j].at = b.at + s
      BY <1>6, <3>1
    <3>. QED
      BY <1>4, <3>2
  <2>. QED
    BY <2>3, <2>4, <2>5
<1>15. Chain(m, p)
  <2>1. m # <<>>
    BY <1>1, <1>11
  <2>. QED
    BY <1>11, <1>13, <1>14, <2>1 DEF Chain
<1>16. Items(m) = (Items(c) \ {b}) \cup {first, rest}
  <2>1. ASSUME NEW j \in 1..Len(m) PROVE m[j] \in (Items(c) \ {b}) \cup {first, rest}
    <3>1. j \in 1..(Len(c) + 1)
      BY <1>11
    <3>2. m[j] = first \/ m[j] = rest \/ \E i \in 1..Len(c) : i # k /\ m[j] = c[i]
      BY <1>1, <1>3, <1>11, <1>12, <3>1
    <3>3. \A i \in 1..Len(c) : i # k => c[i] # b
      BY <1>1, <1>3 DEF Distinct
    <3>. QED
      BY <3>2, <3>3 DEF Items
  <2>2. ASSUME NEW i \in 1..Len(c), i # k PROVE \E j \in 1..Len(m) : m[j] = c[i]
    <3>1. CASE i < k
      BY <1>1, <1>3, <1>11, <3>1
    <3>2. CASE i > k
      <4>1. i + 1 \in 1..(Len(c) + 1) /\ i + 1 > k + 1 /\ (i + 1) - 1 = i
        BY <1>1, <1>3, <3>2
      <4>2. m[i + 1] = c[i]
        BY <1>11, <4>1
      <4>. QED
        BY <1>11, <4>1, <4>2
    <3>3. i < k \/ i > k
      BY <1>1, <1>3, <2>2
    <3>. QED
      BY <3>1, <3>2, <3>3
  <2>3. k \in 1..Len(m) /\ m[k] = first /\ k + 1 \in 1..Len(m) /\ m[k + 1] = rest
    BY <1>1, <1>3, <1>11
  <2>4. ASSUME NEW x \in Items(c), x # b PROVE x \in Items(m)
    <3>1. PICK i \in 1..Len(c) : c[i] = x
      BY DEF Items
    <3>2. i # k
      BY <1>3, <2>4, <3>1
    <3>. QED
      BY <2>2, <3>1, <3>2 DEF Items
  <2>5. first \in Items(m) /\ rest \in Items(m)
    BY <2>3 DEF Items
  <2>6. \A x \in Items(m) : x \in (Items(c) \ {b}) \cup {first, rest}
    BY <2>1 DEF Items
  <2>. QED
    BY <2>4, <2>5, <2>6
<1>17. first \notin Items(c)
  <2>1. ASSUME NEW i \in 1..Len(c) PROVE c[i] # first
    <3>1. CASE i = k
      <4>1. s # b.size
        BY <1>4
      <4>. QED
        BY <1>3, <1>6, <3>1, <4>1
    <3>2. CASE i # k
      <4>1. c[i].at # b.at
        BY <1>1, <1>3, <3>2
      <4>. QED
        BY <1>6, <4>1
    <3>. QED
      BY <3>1, <3>2
  <2>. QED
    BY <2>1 DEF Items
<1>18. rest \notin Items(c)
  <2>1. ASSUME NEW i \in 1..Len(c) PROVE c[i] # rest
    <3>1. CASE i = k
      <4>1. b.at + s # b.at
        BY <1>4
      <4>. QED
        BY <1>3, <1>6, <3>1, <4>1
    <3>2. CASE i < k
      <4>1. Past(c[i]) <= b.at
        BY <1>3, <3>2 DEF Chain
      <4>2. c[i].at < Past(c[i]) /\ c[i].at \in Nat /\ Past(c[i]) \in Nat
        BY <1>1
      <4>. QED
        BY <1>4, <1>6, <4>1, <4>2
    <3>3. CASE i > k
      <4>1. Past(b) <= c[i].at /\ c[i].at \in Nat
        BY <1>1, <1>3, <3>3 DEF Chain
      <4>2. b.at + s < b.at + b.size
        BY <1>4
      <4>3. c[i].at # rest.at
        BY <1>4, <1>6, <4>1, <4>2
      <4>. QED
        BY <4>3
    <3>4. i = k \/ i < k \/ i > k
      BY <1>1, <1>3
    <3>. QED
      BY <3>1, <3>2, <3>3, <3>4
  <2>. QED
    BY <2>1 DEF Items
<1>19. first # rest
  <2>1. b.at + s # b.at
    BY <1>4
  <2>. QED
    BY <1>6, <2>1
<1>. QED
  BY <1>6, <1>8, <1>15, <1>16, <1>17, <1>18, <1>19
-----------------------------------------------------------------------------
FreeBlocks(kf) == UNION {Items(kf[s]) : s \in 1..PageUnits}
AllBlocks(kb) == UNION {Items(kb[p]) : p \in DOMAIN kb}

\* The books of kmem with the chains kb, the counts na, the free lists kf, the
\* owned blocks ko and the blocks O that are on their way from one to another.
Cut(kb) == \A p \in DOMAIN kb : p \in Nat /\ Chain(kb[p], p)
BySize(kf) ==
  /\ kf \in [1..PageUnits -> Seq(KBlock)]
  /\ \A s \in 1..PageUnits : Distinct(kf[s]) /\ \A b \in Items(kf[s]) : b.size = s
Counted(kb, na, ko) ==
  /\ DOMAIN na = DOMAIN kb
  /\ \A p \in DOMAIN kb : na[p] = Cardinality(Items(kb[p]) \cap ko)
Shared(kb, kf, ko, O) ==
  /\ FreeBlocks(kf) \cap ko = {} /\ O \cap (FreeBlocks(kf) \cup ko) = {}
  /\ FreeBlocks(kf) \cup ko \cup O = AllBlocks(kb)
Books(kb, na, kf, ko, O) ==
  Cut(kb) /\ BySize(kf) /\ Counted(kb, na, ko) /\ Shared(kb, kf, ko, O)

LEMMA CutFacts ==
  ASSUME NEW kb, Cut(kb)
  PROVE  /\ \A p \in DOMAIN kb : /\ p \in Nat /\ IsFiniteSet(Items(kb[p])) /\ Items(kb[p]) \subseteq AllBlocks(kb)
                                 /\ \A b \in Items(kb[p]) : b.page = p
         /\ \A b \in AllBlocks(kb) : /\ b \in KBlock /\ b.size \in 1..PageUnits
                                     /\ b.page \in DOMAIN kb /\ b \in Items(kb[b.page])
<1>1. ASSUME NEW p \in DOMAIN kb
      PROVE  /\ p \in Nat /\ IsFiniteSet(Items(kb[p])) /\ Items(kb[p]) \subseteq AllBlocks(kb)
             /\ \A b \in Items(kb[p]) : b \in KBlock /\ b.page = p /\ b.size \in 1..PageUnits
  <2>1. p \in Nat /\ Chain(kb[p], p)
    BY DEF Cut
  <2>2. /\ Distinct(kb[p]) /\ kb[p] \in Seq(KBlock)
        /\ \A i \in 1..Len(kb[p]) : /\ kb[p][i] \in KBlock /\ kb[p][i].page = p
                                    /\ kb[p][i].size \in 1..PageUnits
    BY <2>1, ChainFacts DEF Chain
  <2>3. IsFiniteSet(Items(kb[p]))
    BY <2>2, ItemsCount
  <2>4. \A b \in Items(kb[p]) : b \in KBlock /\ b.page = p /\ b.size \in 1..PageUnits
    BY <2>2 DEF Items
  <2>5. Items(kb[p]) \subseteq AllBlocks(kb)
    BY DEF AllBlocks
  <2>. QED
    BY <2>1, <2>3, <2>4, <2>5
<1>2. ASSUME NEW b \in AllBlocks(kb)
      PROVE  b \in KBlock /\ b.size \in 1..PageUnits /\ b.page \in DOMAIN kb /\ b \in Items(kb[b.page])
  <2>1. PICK p \in DOMAIN kb : b \in Items(kb[p])
    BY DEF AllBlocks
  <2>. QED
    BY <1>1, <2>1
<1>. QED
  BY <1>1, <1>2

LEMMA FreeIs ==
  ASSUME NEW kf, BySize(kf)
  PROVE  \A b : b \in FreeBlocks(kf) <=> b.size \in 1..PageUnits /\ b \in Items(kf[b.size])
BY DEF FreeBlocks, BySize

\* A block leaves its free list.
LEMMA BooksUnlisted ==
  ASSUME NEW kb, NEW na, NEW kf, NEW ko, NEW O, Books(kb, na, kf, ko, O),
         NEW b \in FreeBlocks(kf)
  PROVE  Books(kb, na, Unlisted(kf, b), ko, O \cup {b})
<1>1. BySize(kf) /\ Shared(kb, kf, ko, O) /\ Cut(kb) /\ Counted(kb, na, ko)
  BY DEF Books
<1>2. b.size \in 1..PageUnits /\ b \in Items(kf[b.size])
  BY <1>1, FreeIs
<1>. DEFINE l == Unlisted(kf, b)
<1>3. /\ DOMAIN l = 1..PageUnits /\ l = [s \in 1..PageUnits |-> l[s]]
      /\ \A s \in 1..PageUnits : l[s] = IF s = b.size THEN Without(kf[s], b) ELSE kf[s]
  BY <1>1 DEF BySize, Unlisted
<1>. HIDE DEF l
<1>4. ASSUME NEW s \in 1..PageUnits
      PROVE  l[s] \in Seq(KBlock) /\ Distinct(l[s]) /\ Items(l[s]) = Items(kf[s]) \ {b}
  <2>1. kf[s] \in Seq(KBlock) /\ Distinct(kf[s]) /\ \A c \in Items(kf[s]) : c.size = s
    BY <1>1 DEF BySize
  <2>2. /\ Without(kf[s], b) \in Seq(KBlock) /\ Distinct(Without(kf[s], b))
        /\ Items(Without(kf[s], b)) = Items(kf[s]) \ {b}
    BY <2>1, WithoutItems
  <2>3. s # b.size => b \notin Items(kf[s])
    BY <2>1
  <2>. QED
    BY <1>3, <2>1, <2>2, <2>3
<1>5. BySize(l)
  <2>1. l \in [1..PageUnits -> Seq(KBlock)]
    BY <1>3, <1>4
  <2>. QED
    BY <1>1, <1>4, <2>1 DEF BySize
<1>6. FreeBlocks(l) = FreeBlocks(kf) \ {b}
  <2>1. \A c : c \in FreeBlocks(l) <=> \E s \in 1..PageUnits : c \in Items(l[s])
    BY DEF FreeBlocks
  <2>2. \A c : c \in FreeBlocks(kf) <=> \E s \in 1..PageUnits : c \in Items(kf[s])
    BY DEF FreeBlocks
  <2>3. \A s \in 1..PageUnits : \A c : c \in Items(l[s]) <=> c \in Items(kf[s]) /\ c # b
    BY <1>4
  <2>4. ASSUME NEW c PROVE c \in FreeBlocks(l) <=> c \in FreeBlocks(kf) \ {b}
    BY <2>1, <2>2, <2>3
  <2>. QED
    BY <2>4
<1>7. Shared(kb, l, ko, O \cup {b})
  BY <1>1, <1>6 DEF Shared
<1>. QED
  BY <1>1, <1>5, <1>7 DEF Books, l

\* A block gets into its free list.
LEMMA BooksListed ==
  ASSUME NEW kb, NEW na, NEW kf, NEW ko, NEW O, Books(kb, na, kf, ko, O),
         NEW b \in O
  PROVE  Books(kb, na, Listed(kf, b), ko, O \ {b})
<1>1. BySize(kf) /\ Shared(kb, kf, ko, O) /\ Cut(kb) /\ Counted(kb, na, ko)
  BY DEF Books
<1>2. b \in KBlock /\ b.size \in 1..PageUnits /\ b \notin FreeBlocks(kf)
  <2>1. b \in AllBlocks(kb) /\ b \notin FreeBlocks(kf)
    BY <1>1 DEF Shared
  <2>. QED
    BY <1>1, <2>1, CutFacts
<1>. DEFINE l == Listed(kf, b)
<1>3. /\ DOMAIN l = 1..PageUnits /\ l = [s \in 1..PageUnits |-> l[s]]
      /\ \A s \in 1..PageUnits : l[s] = IF s = b.size THEN AtHead(b, kf[s]) ELSE kf[s]
  BY <1>1 DEF BySize, Listed
<1>. HIDE DEF l
<1>4. ASSUME NEW s \in 1..PageUnits
      PROVE  /\ l[s] \in Seq(KBlock) /\ Distinct(l[s]) /\ \A c \in Items(l[s]) : c.size = s
             /\ Items(l[s]) = IF s = b.size THEN Items(kf[s]) \cup {b} ELSE Items(kf[s])
  <2>1. /\ kf[s] \in Seq(KBlock) /\ Distinct(kf[s]) /\ \A c \in Items(kf[s]) : c.size = s
        /\ b \notin Items(kf[s])
    BY <1>1, <1>2 DEF BySize, FreeBlocks
  <2>2. /\ AtHead(b, kf[s]) \in Seq(KBlock) /\ Distinct(AtHead(b, kf[s]))
        /\ Items(AtHead(b, kf[s])) = Items(kf[s]) \cup {b}
    BY <1>2, <2>1, AtHeadItems
  <2>. QED
    BY <1>3, <2>1, <2>2
<1>5. BySize(l)
  <2>1. l \in [1..PageUnits -> Seq(KBlock)]
    BY <1>3, <1>4
  <2>. QED
    BY <1>4, <2>1 DEF BySize
<1>6. FreeBlocks(l) = FreeBlocks(kf) \cup {b}
  <2>1. \A c : c \in FreeBlocks(l) <=> \E s \in 1..PageUnits : c \in Items(l[s])
    BY DEF FreeBlocks
  <2>2. \A c : c \in FreeBlocks(kf) <=> \E s \in 1..PageUnits : c \in Items(kf[s])
    BY DEF FreeBlocks
  <2>3. ASSUME NEW c PROVE c \in FreeBlocks(l) <=> c \in FreeBlocks(kf) \cup {b}
    BY <1>2, <1>4, <2>1, <2>2
  <2>. QED
    BY <2>3
<1>7. Shared(kb, l, ko, O \ {b})
  BY <1>1, <1>6 DEF Shared
<1>. QED
  BY <1>1, <1>5, <1>7 DEF Books, l

\* A block is returned to a caller.
LEMMA BooksOwned ==
  ASSUME NEW kb, NEW na, NEW kf, NEW ko, NEW O, Books(kb, na, kf, ko, O),
         NEW b \in O
  PROVE  Books(kb, With(na, b.page, na[b.page] + 1), kf, ko \cup {b}, O \ {b})
<1>1. BySize(kf) /\ Shared(kb, kf, ko, O) /\ Cut(kb) /\ Counted(kb, na, ko)
  BY DEF Books
<1>2. b \in AllBlocks(kb) /\ b \notin ko
  BY <1>1 DEF Shared
<1>3. b.page \in DOMAIN kb /\ b \in Items(kb[b.page])
  BY <1>1, <1>2, CutFacts
<1>. DEFINE n == With(na, b.page, na[b.page] + 1)
<1>4. /\ DOMAIN n = DOMAIN kb
      /\ \A p \in DOMAIN kb : n[p] = IF p = b.page THEN na[b.page] + 1 ELSE na[p]
  BY <1>1, <1>3 DEF Counted, With
<1>. HIDE DEF n
<1>5. ASSUME NEW p \in DOMAIN kb PROVE n[p] = Cardinality(Items(kb[p]) \cap (ko \cup {b}))
  <2>1. IsFiniteSet(Items(kb[p]) \cap ko) /\ na[p] = Cardinality(Items(kb[p]) \cap ko)
    BY <1>1, CutFacts, FS_Subset DEF Counted
  <2>2. CASE p = b.page
    <3>1. Items(kb[p]) \cap (ko \cup {b}) = (Items(kb[p]) \cap ko) \cup {b}
      BY <1>3, <2>2
    <3>2. b \notin Items(kb[p]) \cap ko
      BY <1>2
    <3>3. Cardinality((Items(kb[p]) \cap ko) \cup {b}) = Cardinality(Items(kb[p]) \cap ko) + 1
      BY <2>1, <3>2, FS_AddElement
    <3>. QED
      BY <1>4, <2>1, <2>2, <3>1, <3>3
  <2>3. CASE p # b.page
    <3>1. Items(kb[p]) \cap (ko \cup {b}) = Items(kb[p]) \cap ko
      BY <1>1, <2>3, CutFacts
    <3>. QED
      BY <1>4, <2>1, <2>3, <3>1
  <2>. QED
    BY <2>2, <2>3
<1>6. Counted(kb, n, ko \cup {b})
  BY <1>4, <1>5 DEF Counted
<1>7. Shared(kb, kf, ko \cup {b}, O \ {b})
  BY <1>1 DEF Shared
<1>. QED
  BY <1>1, <1>6, <1>7 DEF Books, n

\* A block is given back by a caller.
LEMMA BooksDisowned ==
  ASSUME NEW kb, NEW na, NEW kf, NEW ko, NEW O, Books(kb, na, kf, ko, O),
         NEW b \in ko
  PROVE  /\ Books(kb, [na EXCEPT ![b.page] = @ - 1], kf, ko \ {b}, O \cup {b})
         /\ b.page \in DOMAIN kb /\ na[b.page] \in Nat \ {0}
<1>1. BySize(kf) /\ Shared(kb, kf, ko, O) /\ Cut(kb) /\ Counted(kb, na, ko)
  BY DEF Books
<1>2. b \in AllBlocks(kb)
  BY <1>1 DEF Shared
<1>3. b.page \in DOMAIN kb /\ b \in Items(kb[b.page])
  BY <1>1, <1>2, CutFacts
<1>. DEFINE n == [na EXCEPT ![b.page] = @ - 1]
<1>4. /\ DOMAIN n = DOMAIN kb
      /\ \A p \in DOMAIN kb : n[p] = IF p = b.page THEN na[b.page] - 1 ELSE na[p]
  BY <1>1, <1>3 DEF Counted
<1>. HIDE DEF n
<1>5. ASSUME NEW p \in DOMAIN kb
      PROVE  /\ n[p] = Cardinality(Items(kb[p]) \cap (ko \ {b}))
             /\ p = b.page => na[p] \in Nat \ {0}
  <2>1. IsFiniteSet(Items(kb[p]) \cap ko) /\ na[p] = Cardinality(Items(kb[p]) \cap ko)
    BY <1>1, CutFacts, FS_Subset DEF Counted
  <2>2. CASE p = b.page
    <3>1. Items(kb[p]) \cap (ko \ {b}) = (Items(kb[p]) \cap ko) \ {b}
      OBVIOUS
    <3>2. b \in Items(kb[p]) \cap ko
      BY <1>3, <2>2
    <3>3. Cardinality((Items(kb[p]) \cap ko) \ {b}) = Cardinality(Items(kb[p]) \cap ko) - 1
      BY <2>1, <3>2, FS_RemoveElement
    <3>4. Cardinality(Items(kb[p]) \cap ko) \in Nat /\ Cardinality(Items(kb[p]) \cap ko) # 0
      BY <2>1, <3>2, FS_CardinalityType, FS_EmptySet
    <3>. QED
      BY <1>4, <2>1, <2>2, <3>1, <3>3, <3>4
  <2>3. CASE p # b.page
    <3>1. Items(kb[p]) \cap (ko \ {b}) = Items(kb[p]) \cap ko
      BY <1>1, <2>3, CutFacts
    <3>. QED
      BY <1>4, <2>1, <2>3, <3>1
  <2>. QED
    BY <2>2, <2>3
<1>6. Counted(kb, n, ko \ {b})
  BY <1>4, <1>5 DEF Counted
<1>7. Shared(kb, kf, ko \ {b}, O \cup {b})
  BY <1>1 DEF Shared
<1>8. b.page \in DOMAIN kb /\ na[b.page] \in Nat \ {0}
  BY <1>3, <1>5
<1>9. Books(kb, n, kf, ko \ {b}, O \cup {b})
  BY <1>1, <1>6, <1>7 DEF Books
<1>. QED
  BY <1>8, <1>9 DEF n

\* The two blocks that b is cut into.
Halves(b, s, first, rest) ==
  /\ s \in 1..(b.size - 1)
  /\ first = [b EXCEPT !.size = s] /\ rest = [b EXCEPT !.at = @ + s, !.size = @ - s]

\* A block of b's page is split while it is in nobody's hands.
LEMMA BooksSplit ==
  ASSUME NEW kb, NEW na, NEW kf, NEW ko, NEW O, Books(kb, na, kf, ko, O),
         NEW b \in O, NEW s, NEW first, NEW rest, Halves(b, s, first, rest),
         NEW P, P = (O \ {b}) \cup {first, rest},
         NEW cut, cut = With(kb, b.page, Split(kb[b.page], b, s))
  PROVE  /\ Books(cut, na, kf, ko, P)
         /\ first # rest /\ first.page = b.page
<1>1. BySize(kf) /\ Shared(kb, kf, ko, O) /\ Cut(kb) /\ Counted(kb, na, ko)
  BY DEF Books
<1>2. b \in AllBlocks(kb) /\ b \notin ko /\ b \notin FreeBlocks(kf)
  BY <1>1 DEF Shared
<1>3. b.page \in DOMAIN kb /\ b \in Items(kb[b.page]) /\ b.page \in Nat
  BY <1>1, <1>2, CutFacts
<1>4. Chain(kb[b.page], b.page)
  BY <1>1, <1>3 DEF Cut
<1>. DEFINE c == kb[b.page]
            m == Split(c, b, s)
<1>5. /\ Chain(m, b.page) /\ Items(m) = (Items(c) \ {b}) \cup {first, rest}
      /\ first \notin Items(c) /\ rest \notin Items(c) /\ first # rest
      /\ first.page = b.page /\ rest.page = b.page
  BY <1>3, <1>4, ChainSplit DEF Halves
<1>. HIDE DEF m
<1>. DEFINE k == With(kb, b.page, m)
<1>6. /\ DOMAIN k = DOMAIN kb
      /\ \A p \in DOMAIN kb : k[p] = IF p = b.page THEN m ELSE kb[p]
  BY <1>3 DEF With
<1>. HIDE DEF k
<1>7. Cut(k)
  BY <1>1, <1>5, <1>6 DEF Cut
<1>8. first \notin AllBlocks(kb) /\ rest \notin AllBlocks(kb)
  <2>1. \A x \in AllBlocks(kb) : x \in Items(kb[x.page])
    BY <1>1, CutFacts
  <2>. QED
    BY <1>5, <2>1
<1>9. AllBlocks(k) = (AllBlocks(kb) \ {b}) \cup {first, rest}
  <2>1. \A x : x \in AllBlocks(kb) <=> \E p \in DOMAIN kb : x \in Items(kb[p])
    BY DEF AllBlocks
  <2>2. \A x : x \in AllBlocks(k) <=> \E p \in DOMAIN kb : x \in Items(k[p])
    BY <1>6 DEF AllBlocks
  <2>3. \A p \in DOMAIN kb : p # b.page => b \notin Items(kb[p])
    BY <1>1, CutFacts
  <2>4. ASSUME NEW x PROVE x \in AllBlocks(k) <=> x \in (AllBlocks(kb) \ {b}) \cup {first, rest}
    <3>1. ASSUME NEW p \in DOMAIN kb, x \in Items(k[p])
          PROVE  x \in (AllBlocks(kb) \ {b}) \cup {first, rest}
      <4>1. CASE p = b.page
        BY <1>3, <1>5, <1>6, <2>1, <3>1, <4>1
      <4>2. CASE p # b.page
        BY <1>6, <2>1, <2>3, <3>1, <4>2
      <4>. QED
        BY <4>1, <4>2
    <3>2. ASSUME NEW p \in DOMAIN kb, x \in Items(kb[p]), x # b
          PROVE  x \in Items(k[p])
      BY <1>5, <1>6, <3>2
    <3>3. {first, rest} \subseteq Items(k[b.page])
      BY <1>3, <1>5, <1>6
    <3>. QED
      BY <1>3, <2>1, <2>2, <3>1, <3>2, <3>3
  <2>. QED
    BY <2>4
<1>10. Shared(k, kf, ko, (O \ {b}) \cup {first, rest})
  BY <1>1, <1>2, <1>8, <1>9 DEF Shared
<1>11. Counted(k, na, ko)
  <2>1. ko \subseteq AllBlocks(kb)
    BY <1>1 DEF Shared
  <2>2. ASSUME NEW p \in DOMAIN kb PROVE Items(k[p]) \cap ko = Items(kb[p]) \cap ko
    <3>1. CASE p = b.page
      BY <1>2, <1>5, <1>6, <1>8, <2>1, <3>1
    <3>2. CASE p # b.page
      BY <1>6, <3>2
    <3>. QED
      BY <3>1, <3>2
  <2>. QED
    BY <1>1, <1>6, <2>2 DEF Counted
<1>12. Books(k, na, kf, ko, (O \ {b}) \cup {first, rest})
  BY <1>1, <1>7, <1>10, <1>11 DEF Books
<1>. QED
  BY <1>5, <1>12 DEF k, m, c

\* The chain of a page is written back as it is.
LEMMA BooksKept ==
  ASSUME NEW kb, NEW na, NEW kf, NEW ko, NEW O, Books(kb, na, kf, ko, O),
         NEW p \in DOMAIN kb
  PROVE  Books(With(kb, p, kb[p]), na, kf, ko, O)
<1>. DEFINE k == With(kb, p, kb[p])
<1>1. DOMAIN k = DOMAIN kb /\ \A q \in DOMAIN kb : k[q] = kb[q]
  BY DEF With
<1>. HIDE DEF k
<1>2. AllBlocks(k) = AllBlocks(kb)
  BY <1>1 DEF AllBlocks
<1>3. Books(k, na, kf, ko, O)
  BY <1>1, <1>2 DEF Books, Cut, Counted, Shared
<1>. QED
  BY <1>3 DEF k

\* A page comes, as one block.
LEMMA BooksNewPage ==
  ASSUME NEW kb, NEW na, NEW kf, NEW ko, NEW O, Books(kb, na, kf, ko, O),
         NEW p \in Nat, p \notin DOMAIN kb,
         NEW b, b = [page |-> p, at |-> 0, size |-> PageUnits]
  PROVE  Books(With(kb, p, <<b>>), With(na, p, 0), kf, ko, O \cup {b})
<1>1. BySize(kf) /\ Shared(kb, kf, ko, O) /\ Cut(kb) /\ Counted(kb, na, ko)
  BY DEF Books
<1>. DEFINE c == <<b>>
            k == With(kb, p, c)
            n == With(na, p, 0)
<1>2. b \in KBlock /\ Chain(c, p) /\ Items(c) = {b} /\ b.page = p
  BY PageChain
<1>. HIDE DEF c
<1>3. /\ DOMAIN k = DOMAIN kb \cup {p} /\ DOMAIN n = DOMAIN kb \cup {p}
      /\ k[p] = c /\ n[p] = 0
      /\ \A q \in DOMAIN kb : k[q] = kb[q] /\ n[q] = na[q]
  BY <1>1 DEF With, Counted
<1>. HIDE DEF k, n
<1>4. Cut(k)
  BY <1>1, <1>2, <1>3 DEF Cut
<1>5. b \notin AllBlocks(kb)
  BY <1>1, <1>2, CutFacts
<1>6. AllBlocks(k) = AllBlocks(kb) \cup {b}
  <2>1. \A x : x \in AllBlocks(kb) <=> \E q \in DOMAIN kb : x \in Items(kb[q])
    BY DEF AllBlocks
  <2>2. \A x : x \in AllBlocks(k) <=> \E q \in DOMAIN kb \cup {p} : x \in Items(k[q])
    BY <1>3 DEF AllBlocks
  <2>3. ASSUME NEW x PROVE x \in AllBlocks(k) <=> x \in AllBlocks(kb) \cup {b}
    BY <1>2, <1>3, <2>1, <2>2
  <2>. QED
    BY <2>3
<1>7. Shared(k, kf, ko, O \cup {b})
  BY <1>1, <1>5, <1>6 DEF Shared
<1>8. Counted(k, n, ko)
  <2>1. ko \subseteq AllBlocks(kb)
    BY <1>1 DEF Shared
  <2>2. Items(k[p]) \cap ko = {}
    BY <1>2, <1>3, <1>5, <2>1
  <2>3. n[p] = Cardinality(Items(k[p]) \cap ko)
    BY <1>3, <2>2, FS_EmptySet
  <2>. QED
    BY <1>1, <1>3, <2>3 DEF Counted
<1>9. Books(k, n, kf, ko, O \cup {b})
  BY <1>1, <1>4, <1>7, <1>8 DEF Books
<1>. QED
  BY <1>9 DEF k, n, c

\* A page goes when all its blocks have left the free lists.
LEMMA BooksDropped ==
  ASSUME NEW kb, NEW na, NEW kf, NEW ko, NEW p \in DOMAIN kb, Books(kb, na, kf, ko, Items(kb[p]))
  PROVE  Books(Dropped(kb, p), Dropped(na, p), kf, ko, {})
<1>1. BySize(kf) /\ Shared(kb, kf, ko, Items(kb[p])) /\ Cut(kb) /\ Counted(kb, na, ko)
  BY DEF Books
<1>. DEFINE k == Dropped(kb, p)
            n == Dropped(na, p)
<1>2. /\ DOMAIN k = DOMAIN kb \ {p} /\ DOMAIN n = DOMAIN kb \ {p}
      /\ \A q \in DOMAIN kb \ {p} : k[q] = kb[q] /\ n[q] = na[q]
  BY <1>1 DEF Dropped, Counted
<1>. HIDE DEF k, n
<1>3. Cut(k) /\ Counted(k, n, ko)
  BY <1>1, <1>2 DEF Cut, Counted
<1>4. AllBlocks(k) = AllBlocks(kb) \ Items(kb[p])
  <2>1. \A x : x \in AllBlocks(kb) <=> \E q \in DOMAIN kb : x \in Items(kb[q])
    BY DEF AllBlocks
  <2>2. \A x : x \in AllBlocks(k) <=> \E q \in DOMAIN kb \ {p} : x \in Items(kb[q])
    BY <1>2 DEF AllBlocks
  <2>3. \A q \in DOMAIN kb \ {p} : Items(kb[q]) \cap Items(kb[p]) = {}
    BY <1>1, CutFacts
  <2>4. ASSUME NEW x PROVE x \in AllBlocks(k) <=> x \in AllBlocks(kb) \ Items(kb[p])
    BY <2>1, <2>2, <2>3
  <2>. QED
    BY <2>4
<1>5. Shared(k, kf, ko, {})
  BY <1>1, <1>4 DEF Shared
<1>6. Books(k, n, kf, ko, {})
  BY <1>1, <1>3, <1>5 DEF Books
<1>. QED
  BY <1>6 DEF k, n

\* What UnlistAll does, step by step.
Unlists(f, l, c, n) == f = [i \in 0..n |-> IF i = 0 THEN l ELSE Unlisted(f[i - 1], c[i])]

LEMMA UnlistsExist ==
  ASSUME NEW l, NEW c, NEW n \in Nat
  PROVE  \E f : Unlists(f, l, c, n)
<1>. DEFINE T == {k \in 0..n : \E f : Unlists(f, l, c, k)}
<1>1. 0 \in T
  <2>. DEFINE f == [i \in 0..0 |-> l]
  <2>1. \A i \in 0..0 : i = 0
    OBVIOUS
  <2>2. [i \in 0..0 |-> IF i = 0 THEN l ELSE Unlisted(f[i - 1], c[i])] = [i \in 0..0 |-> l]
    BY <2>1
  <2>3. Unlists(f, l, c, 0)
    BY <2>2 DEF Unlists
  <2>. QED
    BY <2>3
<1>2. ASSUME NEW k \in 0..(n - 1), k \in T PROVE k + 1 \in T
  <2>1. PICK f : Unlists(f, l, c, k)
    BY <1>2
  <2>2. f = [i \in 0..k |-> IF i = 0 THEN l ELSE Unlisted(f[i - 1], c[i])]
    BY <2>1 DEF Unlists
  <2>. DEFINE step(g, i) == IF i = 0 THEN l ELSE Unlisted(g[i - 1], c[i])
              last == Unlisted(f[k], c[k + 1])
              g == [i \in 0..(k + 1) |-> IF i = k + 1 THEN last ELSE f[i]]
  <2>3. \A i \in 0..k : f[i] = step(f, i)
    BY <2>2
  <2>4. \A i \in 0..(k + 1) : g[i] = step(g, i)
    <3>1. ASSUME NEW i \in 0..k PROVE g[i] = step(g, i)
      <4>1. i \in 0..(k + 1) /\ i # k + 1 /\ (i # 0 => i - 1 \in 0..(k + 1) /\ i - 1 # k + 1)
        OBVIOUS
      <4>2. g[i] = f[i] /\ (i # 0 => g[i - 1] = f[i - 1])
        BY <4>1
      <4>. HIDE DEF g
      <4>. QED
        BY <2>3, <4>2
    <3>2. g[k + 1] = step(g, k + 1)
      <4>1. k \in 0..(k + 1) /\ k # k + 1 /\ k + 1 \in 0..(k + 1) /\ k + 1 # 0 /\ (k + 1) - 1 = k
        OBVIOUS
      <4>2. g[k + 1] = last /\ g[k] = f[k]
        BY <4>1
      <4>. HIDE DEF g
      <4>. QED
        BY <4>1, <4>2
    <3>. HIDE DEF g, step
    <3>. QED
      BY <3>1, <3>2
  <2>5. g = [i \in 0..(k + 1) |-> g[i]]
    OBVIOUS
  <2>6. g = [i \in 0..(k + 1) |-> step(g, i)]
    <3>. HIDE DEF g, step
    <3>. QED
      BY <2>4, <2>5
  <2>7. Unlists(g, l, c, k + 1)
    BY <2>6 DEF Unlists
  <2>. QED
    BY <2>7
<1>3. 0..n \subseteq T
  <2>. HIDE DEF T
  <2>. QED
    BY <1>1, <1>2, SetInduction
<1>. QED
  BY <1>3

UnlistsAll(f, l, c) ==
  /\ f[0] = l /\ UnlistAll(l, c) = f[Len(c)]
  /\ \A i \in 1..Len(c) : f[i] = Unlisted(f[i - 1], c[i])

LEMMA UnlistAllIs ==
  ASSUME NEW l, NEW c, Len(c) \in Nat
  PROVE  \E f : UnlistsAll(f, l, c)
<1>. DEFINE R(f) == f = [i \in 0..Len(c) |-> IF i = 0 THEN l ELSE Unlisted(f[i - 1], c[i])]
            left == CHOOSE f : R(f)
<1>1. UnlistAll(l, c) = left[Len(c)]
  BY DEF UnlistAll
<1>2. \E f : R(f)
  <2>1. PICK f : Unlists(f, l, c, Len(c))
    BY UnlistsExist
  <2>2. R(f)
    BY <2>1 DEF Unlists
  <2>. QED
    BY <2>2
<1>3. R(left)
  <2>. HIDE DEF R
  <2>. QED
    BY <1>2
<1>. HIDE DEF left
<1>4. 0 \in 0..Len(c) /\ \A i \in 1..Len(c) : i \in 0..Len(c) /\ i # 0
  OBVIOUS
<1>5. left[0] = l /\ \A i \in 1..Len(c) : left[i] = Unlisted(left[i - 1], c[i])
  BY <1>3, <1>4
<1>. QED
  BY <1>1, <1>5 DEF UnlistsAll

\* All blocks of a page leave the free lists.
LEMMA BooksUnlistedAll ==
  ASSUME NEW kb, NEW na, NEW kf, NEW ko, Books(kb, na, kf, ko, {}),
         NEW p \in DOMAIN kb, Items(kb[p]) \subseteq FreeBlocks(kf)
  PROVE  Books(kb, na, UnlistAll(kf, kb[p]), ko, Items(kb[p]))
<1>. DEFINE c == kb[p]
            n == Len(c)
            Done(i) == {c[j] : j \in 1..i}
<1>1. n \in Nat /\ Distinct(c)
  <2>1. Chain(c, p)
    BY DEF Books, Cut
  <2>. QED
    BY <2>1, ChainFacts
<1>. HIDE DEF c
<1>2. PICK f : /\ f[0] = kf /\ UnlistAll(kf, c) = f[n]
               /\ \A i \in 1..n : f[i] = Unlisted(f[i - 1], c[i])
  <2>1. PICK f : UnlistsAll(f, kf, c)
    BY <1>1, UnlistAllIs
  <2>. QED
    BY <2>1 DEF UnlistsAll
<1>. DEFINE Good(i) == /\ Books(kb, na, f[i], ko, Done(i))
                       /\ FreeBlocks(f[i]) = FreeBlocks(kf) \ Done(i)
            T == {i \in 0..n : Good(i)}
<1>3. 0 \in T
  <2>1. Done(0) = {}
    OBVIOUS
  <2>. HIDE DEF Done
  <2>2. Books(kb, na, f[0], ko, Done(0)) /\ FreeBlocks(f[0]) = FreeBlocks(kf) \ Done(0)
    BY <1>2, <2>1
  <2>3. 0 \in 0..n
    BY <1>1
  <2>. QED
    BY <2>2, <2>3
<1>4. ASSUME NEW i \in 0..(n - 1), i \in T PROVE i + 1 \in T
  <2>1. i \in 0..n /\ i + 1 \in 1..n /\ i + 1 \in 0..n /\ (i + 1) - 1 = i
    BY <1>1
  <2>2. Done(i + 1) = Done(i) \cup {c[i + 1]}
    <3>1. \A j \in 1..(i + 1) : j \in 1..i \/ j = i + 1
      BY <2>1
    <3>2. i + 1 \in 1..(i + 1) /\ 1..i \subseteq 1..(i + 1)
      BY <2>1
    <3>. QED
      BY <3>1, <3>2
  <2>3. c[i + 1] \notin Done(i)
    BY <1>1, <2>1 DEF Distinct
  <2>4. c[i + 1] \in FreeBlocks(kf)
    BY <2>1 DEF Items, c
  <2>5. f[i + 1] = Unlisted(f[i], c[i + 1])
    BY <1>2, <2>1
  <2>6. Books(kb, na, f[i], ko, Done(i)) /\ FreeBlocks(f[i]) = FreeBlocks(kf) \ Done(i)
    BY <1>4
  <2>. HIDE DEF Done
  <2>7. c[i + 1] \in FreeBlocks(f[i])
    BY <2>3, <2>4, <2>6
  <2>8. Books(kb, na, f[i + 1], ko, Done(i + 1))
    BY <2>2, <2>5, <2>6, <2>7, BooksUnlisted
  <2>9. FreeBlocks(f[i + 1]) = FreeBlocks(kf) \ Done(i + 1)
    <3>1. /\ FreeBlocks(f[i]) \cap ko = {} /\ Done(i) \cap (FreeBlocks(f[i]) \cup ko) = {}
          /\ FreeBlocks(f[i]) \cup ko \cup Done(i) = AllBlocks(kb)
      BY <2>6 DEF Books, Shared
    <3>2. /\ FreeBlocks(f[i + 1]) \cap ko = {} /\ Done(i + 1) \cap (FreeBlocks(f[i + 1]) \cup ko) = {}
          /\ FreeBlocks(f[i + 1]) \cup ko \cup Done(i + 1) = AllBlocks(kb)
      BY <2>8 DEF Books, Shared
    <3>. QED
      BY <2>2, <2>4, <2>6, <2>7, <3>1, <3>2
  <2>. QED
    BY <2>1, <2>8, <2>9
<1>5. n \in T
  <2>1. 0..n \subseteq T
    <3>. HIDE DEF T
    <3>. QED
      BY <1>1, <1>3, <1>4, SetInduction
  <2>2. n \in 0..n
    BY <1>1
  <2>. HIDE DEF T
  <2>. QED
    BY <2>1, <2>2
<1>6. Done(n) = Items(c)
  BY DEF Items
<1>. QED
  BY <1>2, <1>5, <1>6 DEF c
-----------------------------------------------------------------------------
\* The books are right, and every page of kmem has a block that somebody owns and
\* is given to kmem.
KmemInv ==
  /\ PageInv
  /\ Books(kblocks, nallocs, kfree, kowned, {})
  /\ \A p \in DOMAIN kblocks : nallocs[p] > 0 /\ KPage(p) \in powned

LEMMA KmemInvInit == KmemInit => KmemInv
<1>. SUFFICES ASSUME KmemInit PROVE KmemInv
  OBVIOUS
<1>1. /\ PageInit /\ kblocks = <<>> /\ nallocs = <<>> /\ kowned = {}
      /\ kfree = [s \in 1..PageUnits |-> <<>>]
  BY DEF KmemInit
<1>2. DOMAIN kblocks = {} /\ DOMAIN nallocs = {}
  BY <1>1
<1>3. AllBlocks(kblocks) = {}
  BY <1>2 DEF AllBlocks
<1>4. /\ \A s \in 1..PageUnits : kfree[s] = <<>>
      /\ Items(<<>>) = {} /\ Distinct(<<>>) /\ <<>> \in Seq(KBlock)
  BY <1>1 DEF Items, Distinct
<1>5. BySize(kfree)
  <2>1. kfree \in [1..PageUnits -> Seq(KBlock)]
    BY <1>1
  <2>. QED
    BY <1>4, <2>1 DEF BySize
<1>6. FreeBlocks(kfree) = {}
  BY <1>4 DEF FreeBlocks
<1>7. Books(kblocks, nallocs, kfree, kowned, {})
  BY <1>1, <1>2, <1>3, <1>5, <1>6 DEF Books, Cut, Counted, Shared
<1>. QED
  BY <1>1, <1>2, <1>7, PageInvInit DEF KmemInv

LEMMA CountsNatural ==
  ASSUME NEW kb, NEW na, NEW kf, NEW ko, NEW O, Books(kb, na, kf, ko, O)
  PROVE  DOMAIN na = DOMAIN kb /\ \A p \in DOMAIN kb : na[p] \in Nat
<1>1. Cut(kb) /\ Counted(kb, na, ko)
  BY DEF Books
<1>2. ASSUME NEW p \in DOMAIN kb PROVE na[p] \in Nat
  <2>1. IsFiniteSet(Items(kb[p]) \cap ko) /\ na[p] = Cardinality(Items(kb[p]) \cap ko)
    BY <1>1, CutFacts, FS_Subset DEF Counted
  <2>. QED
    BY <2>1, FS_CardinalityType
<1>. QED
  BY <1>1, <1>2 DEF Counted

\* kmem_alloc() once it has a block b in its hands.
LEMMA BooksTaken ==
  ASSUME NEW kb, NEW na, NEW l, NEW ko, NEW b, Books(kb, na, l, ko, {b}),
         NEW s \in KmemSizes, s <= b.size,
         NEW first, first = [b EXCEPT !.size = s],
         NEW rest, rest = [b EXCEPT !.at = @ + s, !.size = @ - s],
         NEW splits, splits <=> b.size - s >= MinBlock
  PROVE  Books(With(kb, b.page, IF splits THEN Split(kb[b.page], b, s) ELSE kb[b.page]),
               With(na, b.page, na[b.page] + 1),
               IF splits THEN Listed(l, rest) ELSE l,
               ko \cup {IF splits THEN first ELSE b}, {})
<1>1. Cut(kb) /\ Shared(kb, l, ko, {b})
  BY DEF Books
<1>2. b \in AllBlocks(kb)
  BY <1>1 DEF Shared
<1>3. b.page \in DOMAIN kb /\ b.size \in 1..PageUnits
  BY <1>1, <1>2, CutFacts
<1>4. s \in Nat \ {0} /\ MinBlock \in Nat \ {0}
  BY KmemAssumption
<1>5. CASE splits
  <2>1. Halves(b, s, first, rest)
    <3>1. s \in 1..(b.size - 1)
      BY <1>3, <1>4, <1>5
    <3>. QED
      BY <3>1 DEF Halves
  <2>2. PICK O, P, k : /\ O = {b} /\ P = (O \ {b}) \cup {first, rest}
                       /\ k = With(kb, b.page, Split(kb[b.page], b, s))
    OBVIOUS
  <2>3. Books(k, na, l, ko, P) /\ first # rest /\ first.page = b.page
    <3>1. Books(kb, na, l, ko, O) /\ b \in O
      BY <2>2
    <3>. QED
      BY <2>1, <2>2, <3>1, BooksSplit
  <2>4. rest \in P /\ P \ {rest} = {first}
    BY <2>2, <2>3
  <2>5. Books(k, na, Listed(l, rest), ko, P \ {rest})
    BY <2>3, <2>4, BooksListed
  <2>6. Books(k, na, Listed(l, rest), ko, {first})
    BY <2>4, <2>5
  <2>7. Books(k, With(na, first.page, na[first.page] + 1), Listed(l, rest), ko \cup {first}, {first} \ {first})
    BY <2>6, BooksOwned
  <2>8. {first} \ {first} = {}
    OBVIOUS
  <2>. QED
    BY <1>5, <2>2, <2>3, <2>7, <2>8
<1>6. CASE ~splits
  <2>1. Books(With(kb, b.page, kb[b.page]), na, l, ko, {b})
    BY <1>3, BooksKept
  <2>2. Books(With(kb, b.page, kb[b.page]), With(na, b.page, na[b.page] + 1), l, ko \cup {b}, {b} \ {b})
    BY <2>1, BooksOwned
  <2>3. {b} \ {b} = {}
    OBVIOUS
  <2>. QED
    BY <1>6, <2>2, <2>3
<1>. QED
  BY <1>5, <1>6

LEMMA KmemInvAlloc ==
  ASSUME KmemInv, NEW s \in KmemSizes, KmemAlloc(s), PageInv'
  PROVE  KmemInv'
<1>1. /\ Books(kblocks, nallocs, kfree, kowned, {}) /\ BySize(kfree) /\ Shared(kblocks, kfree, kowned, {})
      /\ Cut(kblocks)
      /\ \A p \in DOMAIN kblocks : nallocs[p] > 0 /\ KPage(p) \in powned
  BY DEF KmemInv, Books
<1>2. s \in Nat /\ PageUnits \in Nat
  BY KmemAssumption
<1>3. PICK i : i = Smallest(Sizes(s))
  OBVIOUS
<1>4. i \in s..PageUnits /\ i \in 1..PageUnits /\ kfree[i] # <<>>
  <2>1. Sizes(s) # {} /\ Sizes(s) \subseteq Nat
    BY <1>2 DEF KmemAlloc, Sizes
  <2>2. \E k \in Sizes(s) : \A j \in Sizes(s) : k <= j
    BY <2>1, NatMinimum
  <2>3. i \in Sizes(s)
    BY <1>3, <2>2 DEF Smallest
  <2>4. i \in s..PageUnits /\ kfree[i] # <<>> /\ s >= 1
    BY <2>3, KmemAssumption DEF Sizes
  <2>. QED
    BY <1>2, <2>4
<1>5. PICK b : b = Head(kfree[i])
  OBVIOUS
<1>6. b \in FreeBlocks(kfree) /\ b.size = i
  <2>1. kfree[i] \in Seq(KBlock) /\ Distinct(kfree[i]) /\ \A c \in Items(kfree[i]) : c.size = i
    BY <1>1, <1>4 DEF BySize
  <2>2. b \in Items(kfree[i])
    BY <1>4, <1>5, <2>1, DequeueItems
  <2>. QED
    BY <1>4, <2>1, <2>2 DEF FreeBlocks
<1>7. /\ TakeBlock(Unlisted(kfree, b), kblocks[b.page], b, s)
      /\ UNCHANGED pageVars
  BY <1>3, <1>5 DEF KmemAlloc
<1>8. Books(kblocks, nallocs, Unlisted(kfree, b), kowned, {b})
  <2>1. {} \cup {b} = {b}
    OBVIOUS
  <2>2. Books(kblocks, nallocs, Unlisted(kfree, b), kowned, {} \cup {b})
    BY <1>1, <1>6, BooksUnlisted
  <2>. QED
    BY <2>1, <2>2
<1>9. b.page \in DOMAIN kblocks
  BY <1>1, <1>6, CutFacts DEF Shared
<1>10. PICK first, rest, splits :
         /\ first = [b EXCEPT !.size = s]
         /\ rest = [b EXCEPT !.at = @ + s, !.size = @ - s]
         /\ splits = (b.size - s >= MinBlock)
  OBVIOUS
<1>11. DOMAIN nallocs = DOMAIN kblocks /\ \A p \in DOMAIN kblocks : nallocs[p] \in Nat
  BY <1>1, CountsNatural
<1>12. /\ kblocks' = With(kblocks, b.page, IF splits THEN Split(kblocks[b.page], b, s) ELSE kblocks[b.page])
       /\ kfree' = IF splits THEN Listed(Unlisted(kfree, b), rest) ELSE Unlisted(kfree, b)
       /\ nallocs' = With(nallocs, b.page, nallocs[b.page] + 1)
       /\ kowned' = kowned \cup {IF splits THEN first ELSE b}
  BY <1>7, <1>9, <1>10, <1>11 DEF TakeBlock
<1>13. Books(kblocks', nallocs', kfree', kowned', {})
  <2>1. s <= b.size /\ (splits <=> b.size - s >= MinBlock)
    <3>1. s <= b.size
      BY <1>2, <1>4, <1>6
    <3>2. splits <=> b.size - s >= MinBlock
      BY <1>10, Zenon
    <3>. QED
      BY <3>1, <3>2
  <2>2. Books(With(kblocks, b.page, IF splits THEN Split(kblocks[b.page], b, s) ELSE kblocks[b.page]),
              With(nallocs, b.page, nallocs[b.page] + 1),
              IF splits THEN Listed(Unlisted(kfree, b), rest) ELSE Unlisted(kfree, b),
              kowned \cup {IF splits THEN first ELSE b}, {})
    BY <1>8, <1>10, <2>1, BooksTaken
  <2>. QED
    BY <1>12, <2>2
<1>14. ASSUME NEW p \in DOMAIN kblocks' PROVE nallocs'[p] > 0 /\ KPage(p) \in powned'
  <2>1. /\ p \in DOMAIN kblocks /\ p \in DOMAIN nallocs \cup {b.page}
        /\ nallocs'[p] = IF p = b.page THEN nallocs[b.page] + 1 ELSE nallocs[p]
    BY <1>9, <1>11, <1>12 DEF With
  <2>2. powned' = powned
    BY <1>7 DEF pageVars
  <2>. QED
    BY <1>1, <1>9, <1>11, <2>1, <2>2
<1>. QED
  BY <1>13, <1>14 DEF KmemInv, KPage

LEMMA WithTwice ==
  ASSUME NEW f, NEW p, NEW v, NEW w
  PROVE  With(With(f, p, v), p, w) = With(f, p, w) /\ With(f, p, v)[p] = v
<1>1. DOMAIN With(f, p, v) = DOMAIN f \cup {p} /\ With(f, p, v)[p] = v
      /\ \A q \in DOMAIN f \ {p} : With(f, p, v)[q] = f[q]
  BY DEF With
<1>2. (DOMAIN f \cup {p}) \cup {p} = DOMAIN f \cup {p}
  OBVIOUS
<1>3. With(With(f, p, v), p, w)
        = [q \in DOMAIN With(f, p, v) \cup {p} |-> IF q = p THEN w ELSE With(f, p, v)[q]]
  BY DEF With
<1>4. With(With(f, p, v), p, w)
        = [q \in DOMAIN f \cup {p} |-> IF q = p THEN w ELSE With(f, p, v)[q]]
  BY <1>1, <1>2, <1>3
<1>5. With(f, p, w) = [q \in DOMAIN f \cup {p} |-> IF q = p THEN w ELSE f[q]]
  BY DEF With
<1>6. \A q \in DOMAIN f \cup {p} : (IF q = p THEN w ELSE With(f, p, v)[q]) = (IF q = p THEN w ELSE f[q])
  BY <1>1
<1>. QED
  BY <1>1, <1>4, <1>5, <1>6

LEMMA KmemInvAllocPage ==
  ASSUME KmemInv, NEW s \in KmemSizes, KmemAllocPage(s)
  PROVE  KmemInv'
<1>1. /\ Books(kblocks, nallocs, kfree, kowned, {}) /\ PageInv
      /\ \A p \in DOMAIN kblocks : nallocs[p] > 0 /\ KPage(p) \in powned
  BY DEF KmemInv
<1>2. 1 \in Nat \ {0} /\ PageAlloc(1)
  BY DEF KmemAllocPage
<1>3. PageInv' /\ TakenBlock(1) \in Block /\ PagesOf(TakenBlock(1)) \subseteq ListPages(plist)
  BY <1>1, <1>2, PageInvAlloc
<1>4. PICK p : p = TakenBlock(1).at
  OBVIOUS
<1>5. p \in Nat \ {0} /\ TakenBlock(1) = KPage(p) /\ p \in PagesOf(KPage(p))
  <2>1. TakenBlock(1).size = 1
    BY DEF TakenBlock
  <2>2. p \in Nat \ {0} /\ TakenBlock(1) = KPage(p)
    BY <1>3, <1>4, <2>1 DEF Block, KPage
  <2>. QED
    BY <2>2 DEF KPage, PagesOf
<1>6. p \notin DOMAIN kblocks
  <2>1. SUFFICES ASSUME KPage(p) \in powned PROVE FALSE
    BY <1>1
  <2>2. p \in OwnedPages /\ p \in ListPages(plist)
    BY <1>3, <1>5, <2>1 DEF OwnedPages
  <2>. QED
    BY <1>1, <2>2 DEF PageInv
<1>7. powned' = powned \cup {KPage(p)}
  BY <1>2, <1>5 DEF PageAlloc
<1>8. PICK b, c : b = [page |-> p, at |-> 0, size |-> PageUnits] /\ c = <<b>>
  OBVIOUS
<1>9. TakeBlock(kfree, c, b, s)
  BY <1>4, <1>8 DEF KmemAllocPage
<1>10. PICK first, rest, splits, m :
         /\ first = [b EXCEPT !.size = s]
         /\ rest = [b EXCEPT !.at = @ + s, !.size = @ - s]
         /\ splits = (b.size - s >= MinBlock)
         /\ m = IF splits THEN Split(c, b, s) ELSE c
  OBVIOUS
<1>11. DOMAIN nallocs = DOMAIN kblocks /\ \A q \in DOMAIN kblocks : nallocs[q] \in Nat
  BY <1>1, CountsNatural
<1>12. b.page = p /\ b.size = PageUnits
  BY <1>8
<1>13. /\ kblocks' = With(kblocks, p, m)
       /\ kfree' = IF splits THEN Listed(kfree, rest) ELSE kfree
       /\ nallocs' = With(nallocs, p, 0 + 1)
       /\ kowned' = kowned \cup {IF splits THEN first ELSE b}
  BY <1>6, <1>9, <1>10, <1>11, <1>12 DEF TakeBlock
<1>14. PICK k, n : k = With(kblocks, p, c) /\ n = With(nallocs, p, 0)
  OBVIOUS
<1>15. Books(k, n, kfree, kowned, {b})
  <2>1. Books(k, n, kfree, kowned, {} \cup {b})
    BY <1>1, <1>5, <1>6, <1>8, <1>14, BooksNewPage
  <2>2. {} \cup {b} = {b}
    OBVIOUS
  <2>. QED
    BY <2>1, <2>2
<1>16. k[p] = c /\ n[p] = 0 /\ With(k, p, m) = kblocks' /\ With(n, p, 0 + 1) = nallocs'
  BY <1>13, <1>14, WithTwice
<1>17. Books(kblocks', nallocs', kfree', kowned', {})
  <2>1. s <= b.size
    BY <1>12, KmemAssumption
  <2>2. splits <=> b.size - s >= MinBlock
    BY <1>10, Zenon
  <2>3. Books(With(k, b.page, IF splits THEN Split(k[b.page], b, s) ELSE k[b.page]),
              With(n, b.page, n[b.page] + 1),
              IF splits THEN Listed(kfree, rest) ELSE kfree,
              kowned \cup {IF splits THEN first ELSE b}, {})
    BY <1>10, <1>15, <2>1, <2>2, BooksTaken
  <2>4. (IF splits THEN Split(k[b.page], b, s) ELSE k[b.page]) = m
    BY <1>10, <1>12, <1>16
  <2>. QED
    BY <1>12, <1>13, <1>16, <2>3, <2>4
<1>18. ASSUME NEW q \in DOMAIN kblocks' PROVE nallocs'[q] > 0 /\ KPage(q) \in powned'
  <2>1. q \in DOMAIN kblocks \cup {p} /\ nallocs'[q] = IF q = p THEN 0 + 1 ELSE nallocs[q]
    BY <1>11, <1>13 DEF With
  <2>. QED
    BY <1>1, <1>7, <2>1
<1>. QED
  BY <1>3, <1>17, <1>18 DEF KmemInv, KPage

LEMMA KmemInvFree ==
  ASSUME KmemInv, NEW b \in kowned, KmemFree(b), PageInv'
  PROVE  KmemInv'
<1>1. /\ Books(kblocks, nallocs, kfree, kowned, {})
      /\ \A p \in DOMAIN kblocks : nallocs[p] > 0 /\ KPage(p) \in powned
  BY DEF KmemInv
<1>2. PICK p, n, l : p = b.page /\ n = [nallocs EXCEPT ![p] = @ - 1] /\ l = Listed(kfree, b)
  OBVIOUS
<1>3. /\ Books(kblocks, n, l, kowned \ {b}, {})
      /\ p \in DOMAIN kblocks /\ nallocs[p] \in Nat \ {0}
  <2>1. /\ Books(kblocks, [nallocs EXCEPT ![b.page] = @ - 1], kfree, kowned \ {b}, {} \cup {b})
        /\ b.page \in DOMAIN kblocks /\ nallocs[b.page] \in Nat \ {0}
    BY <1>1, BooksDisowned
  <2>2. b \in {} \cup {b} /\ ({} \cup {b}) \ {b} = {}
    OBVIOUS
  <2>3. Books(kblocks, n, kfree, kowned \ {b}, {} \cup {b})
    BY <1>2, <2>1
  <2>4. Books(kblocks, n, l, kowned \ {b}, ({} \cup {b}) \ {b})
    BY <1>2, <2>2, <2>3, BooksListed
  <2>. QED
    BY <1>2, <2>1, <2>2, <2>4
<1>4. DOMAIN nallocs = DOMAIN kblocks /\ \A q \in DOMAIN kblocks : nallocs[q] \in Nat
  BY <1>1, CountsNatural
<1>5. /\ DOMAIN n = DOMAIN kblocks /\ n[p] = nallocs[p] - 1
      /\ \A q \in DOMAIN kblocks \ {p} : n[q] = nallocs[q]
  BY <1>2, <1>3, <1>4
<1>6. kowned' = kowned \ {b}
  BY DEF KmemFree
<1>7. CASE nallocs[p] > 1
  <2>1. kfree' = l /\ nallocs' = n /\ kblocks' = kblocks /\ powned' = powned
    BY <1>2, <1>7 DEF KmemFree, pageVars
  <2>2. \A q \in DOMAIN kblocks' : nallocs'[q] > 0 /\ KPage(q) \in powned'
    BY <1>1, <1>3, <1>5, <1>7, <2>1
  <2>3. Books(kblocks', nallocs', kfree', kowned', {})
    BY <1>3, <1>6, <2>1
  <2>. QED
    BY <2>2, <2>3 DEF KmemInv, KPage
<1>8. CASE ~(nallocs[p] > 1)
  <2>1. /\ kfree' = UnlistAll(l, kblocks[p]) /\ nallocs' = Dropped(nallocs, p)
        /\ kblocks' = Dropped(kblocks, p) /\ powned' = powned \ {KPage(p)}
    BY <1>2, <1>8 DEF KmemFree, PageFree
  <2>2. n[p] = 0
    BY <1>3, <1>5, <1>8
  <2>3. Items(kblocks[p]) \subseteq FreeBlocks(l)
    <3>1. /\ Cut(kblocks) /\ Counted(kblocks, n, kowned \ {b})
          /\ Shared(kblocks, l, kowned \ {b}, {})
      BY <1>3 DEF Books
    <3>2. /\ IsFiniteSet(Items(kblocks[p]) \cap (kowned \ {b}))
          /\ Cardinality(Items(kblocks[p]) \cap (kowned \ {b})) = 0
      BY <1>3, <2>2, <3>1, CutFacts, FS_Subset DEF Counted
    <3>3. Items(kblocks[p]) \cap (kowned \ {b}) = {}
      BY <3>2, FS_EmptySet
    <3>4. Items(kblocks[p]) \subseteq AllBlocks(kblocks)
      BY <1>3, <3>1, CutFacts
    <3>. QED
      BY <3>1, <3>3, <3>4 DEF Shared
  <2>4. Books(kblocks, n, UnlistAll(l, kblocks[p]), kowned \ {b}, Items(kblocks[p]))
    BY <1>3, <2>3, BooksUnlistedAll
  <2>5. Books(Dropped(kblocks, p), Dropped(n, p), UnlistAll(l, kblocks[p]), kowned \ {b}, {})
    BY <1>3, <2>4, BooksDropped
  <2>6. Dropped(n, p) = Dropped(nallocs, p)
    BY <1>4, <1>5 DEF Dropped
  <2>7. Books(kblocks', nallocs', kfree', kowned', {})
    BY <1>6, <2>1, <2>5, <2>6
  <2>8. ASSUME NEW q \in DOMAIN kblocks' PROVE nallocs'[q] > 0 /\ KPage(q) \in powned'
    <3>1. q \in DOMAIN kblocks \ {p} /\ nallocs'[q] = nallocs[q]
      BY <1>4, <2>1 DEF Dropped
    <3>2. KPage(q) # KPage(p)
      BY <3>1 DEF KPage
    <3>. QED
      BY <1>1, <2>1, <3>1, <3>2
  <2>. QED
    BY <2>7, <2>8 DEF KmemInv, KPage
<1>. QED
  BY <1>7, <1>8

LEMMA KmemInvNext == KmemInv /\ [KmemNext]_kmemVars => KmemInv'
<1>. SUFFICES ASSUME KmemInv, [KmemNext]_kmemVars PROVE KmemInv'
  OBVIOUS
<1>1. PageInv'
  BY KmemUsesPages, PageInvNext DEF KmemInv
<1>2. ASSUME NEW s \in KmemSizes, KmemAlloc(s) PROVE KmemInv'
  BY <1>1, <1>2, KmemInvAlloc
<1>3. ASSUME NEW s \in KmemSizes, KmemAllocPage(s) PROVE KmemInv'
  BY <1>3, KmemInvAllocPage
<1>4. ASSUME NEW b \in kowned, KmemFree(b) PROVE KmemInv'
  BY <1>1, <1>4, KmemInvFree
<1>5. CASE PagesElsewhere
  <2>1. UNCHANGED <<kblocks, nallocs, kfree, kowned>>
    BY <1>5 DEF PagesElsewhere
  <2>2. \A p \in DOMAIN kblocks : KPage(p) \in powned'
    <3>1. CASE \E n \in 1..MaxPages : PageAlloc(n)
      BY <3>1 DEF KmemInv, PageAlloc
    <3>2. CASE \E b \in powned : b.at \notin DOMAIN kblocks /\ PageFree(b)
      <4>1. PICK b \in powned : b.at \notin DOMAIN kblocks /\ powned' = powned \ {b}
        BY <3>2 DEF PageFree
      <4>2. \A p : KPage(p).at = p
        BY DEF KPage
      <4>. QED
        BY <4>1, <4>2 DEF KmemInv
    <3>. QED
      BY <1>5, <3>1, <3>2 DEF PagesElsewhere
  <2>3. Books(kblocks', nallocs', kfree', kowned', {})
    BY <2>1 DEF KmemInv
  <2>. QED
    BY <1>1, <2>1, <2>2, <2>3 DEF KmemInv, KPage
<1>6. CASE UNCHANGED kmemVars
  BY <1>1, <1>6 DEF kmemVars, pageVars, KmemInv, KPage
<1>. QED
  BY <1>2, <1>3, <1>4, <1>5, <1>6 DEF KmemNext

LEMMA KmemInvExact == KmemInv => KmemBlocksExact
<1>. SUFFICES ASSUME KmemInv PROVE KmemBlocksExact
  OBVIOUS
<1>1. /\ Cut(kblocks) /\ BySize(kfree) /\ Counted(kblocks, nallocs, kowned)
      /\ Shared(kblocks, kfree, kowned, {})
      /\ \A p \in DOMAIN kblocks : nallocs[p] > 0 /\ KPage(p) \in powned
  BY DEF KmemInv, Books
<1>. DEFINE blocks(p) == ToSet(kblocks[p])
            free == UNION {ToSet(kfree[s]) : s \in DOMAIN kfree}
<1>2. ASSUME NEW p \in DOMAIN kblocks
      PROVE  /\ DOMAIN kblocks[p] = 1..Len(kblocks[p]) /\ blocks(p) = Items(kblocks[p])
             /\ \A i \in DOMAIN kblocks[p] :
                  kblocks[p][i].at + kblocks[p][i].size
                    = IF i = Len(kblocks[p]) THEN PageUnits ELSE kblocks[p][i + 1].at
  <2>1. Chain(kblocks[p], p)
    BY <1>1 DEF Cut
  <2>2. DOMAIN kblocks[p] = 1..Len(kblocks[p])
    BY <2>1, ChainFacts
  <2>3. blocks(p) = Items(kblocks[p])
    BY <2>2 DEF ToSet, Items
  <2>. QED
    BY <2>1, <2>2, <2>3 DEF Chain, Past
<1>3. ASSUME NEW s \in 1..PageUnits
      PROVE  ToSet(kfree[s]) = Items(kfree[s]) /\ IsInjective(kfree[s])
  <2>1. kfree[s] \in Seq(KBlock) /\ Distinct(kfree[s])
    BY <1>1 DEF BySize
  <2>2. DOMAIN kfree[s] = 1..Len(kfree[s])
    BY <2>1
  <2>. QED
    BY <2>1, <2>2 DEF ToSet, Items, Distinct, IsInjective
<1>4. DOMAIN kfree = 1..PageUnits
  BY <1>1 DEF BySize
<1>5. free = FreeBlocks(kfree)
  BY <1>3, <1>4 DEF FreeBlocks
<1>6. UNION {blocks(p) : p \in DOMAIN kblocks} = AllBlocks(kblocks)
  BY <1>2 DEF AllBlocks
<1>7. \A p \in DOMAIN kblocks : nallocs[p] = Cardinality(blocks(p) \cap kowned)
  BY <1>1, <1>2 DEF Counted
<1>8. kowned \cap free = {} /\ kowned \cup free = UNION {blocks(p) : p \in DOMAIN kblocks}
  <2>. HIDE DEF free, blocks
  <2>. QED
    BY <1>1, <1>5, <1>6 DEF Shared
<1>. QED
  BY <1>1, <1>2, <1>3, <1>4, <1>7, <1>8 DEF KmemBlocksExact

\* Whatever is allocated and freed, by kmem's callers and by others who take
\* pages: the blocks of a kernel page fill it without a gap, each is owned or once
\* in the free list of its size, and nallocs tells when the page can go.
THEOREM KmemRight == KmemSpec => []KmemBlocksExact
<1>. QED
  BY KmemInvInit, KmemInvNext, KmemInvExact, PTL DEF KmemSpec
-----------------------------------------------------------------------------
Seg == [at : Nat \ {0}, size : Nat \ {0}, mapped : BOOLEAN]

\* Segments that own their pages own different ones.
Singly(q) == \A i, j \in Owners(q) : i # j => BlockOf(q[i]) # BlockOf(q[j])

LEMMA OwnedByPosition ==
  ASSUME NEW q
  PROVE  /\ \A b : b \in OwnBlocks(q) <=> \E i \in Owners(q) : b = BlockOf(q[i])
         /\ \A i : i \in Owners(q) <=> i \in DOMAIN q /\ ~q[i].mapped
BY DEF OwnBlocks, Owners

\* A segment is put in front.
LEMMA OwnedMore ==
  ASSUME NEW q \in Seq(Seg), NEW s \in Seg,
         NEW B, B = IF s.mapped THEN {} ELSE {BlockOf(s)}
  PROVE  /\ <<s>> \o q \in Seq(Seg)
         /\ OwnBlocks(<<s>> \o q) = OwnBlocks(q) \cup B
         /\ Singly(q) /\ B \cap OwnBlocks(q) = {} => Singly(<<s>> \o q)
<1>1. PICK p : p = <<s>> \o q
  OBVIOUS
<1>2. /\ p \in Seq(Seg) /\ Len(q) \in Nat /\ DOMAIN q = 1..Len(q) /\ DOMAIN p = 1..(Len(q) + 1)
      /\ p[1] = s /\ \A i \in 1..Len(q) : p[i + 1] = q[i]
  <2>1. <<s>> \in Seq(Seg) /\ Len(<<s>>) = 1 /\ <<s>>[1] = s
    OBVIOUS
  <2>2. /\ p \in Seq(Seg) /\ Len(p) = 1 + Len(q)
        /\ \A i \in 1..Len(p) : p[i] = IF i <= 1 THEN <<s>>[i] ELSE q[i - 1]
    BY <1>1, <2>1, ConcatProperties
  <2>3. Len(q) \in Nat /\ DOMAIN q = 1..Len(q) /\ DOMAIN p = 1..(Len(q) + 1)
    BY <2>2
  <2>4. ASSUME NEW i \in 1..Len(q) PROVE p[i + 1] = q[i]
    <3>1. i + 1 \in 1..Len(p) /\ ~(i + 1 <= 1) /\ (i + 1) - 1 = i
      BY <2>2, <2>3
    <3>. QED
      BY <2>2, <3>1
  <2>5. p[1] = s
    BY <2>1, <2>2, <2>3
  <2>. QED
    BY <2>2, <2>3, <2>4, <2>5
<1>3. ASSUME NEW i \in Owners(q) PROVE i + 1 \in Owners(p) /\ p[i + 1] = q[i] /\ i + 1 # 1
  <2>1. i \in 1..Len(q) /\ ~q[i].mapped /\ i + 1 \in 1..(Len(q) + 1) /\ i + 1 # 1
    BY <1>2, OwnedByPosition
  <2>. QED
    BY <1>2, <2>1, OwnedByPosition
<1>4. 1 \in Owners(p) <=> ~s.mapped
  <2>1. 1 \in DOMAIN p /\ p[1] = s
    BY <1>2
  <2>. QED
    BY <2>1, OwnedByPosition
<1>5. ASSUME NEW i \in Owners(p), i # 1 PROVE i - 1 \in Owners(q) /\ p[i] = q[i - 1]
  <2>1. i \in 1..(Len(q) + 1) /\ ~p[i].mapped
    BY <1>2, OwnedByPosition
  <2>2. i - 1 \in 1..Len(q) /\ (i - 1) + 1 = i
    BY <1>2, <1>5, <2>1
  <2>3. p[i] = q[i - 1]
    BY <1>2, <2>2
  <2>. QED
    BY <1>2, <2>1, <2>2, <2>3, OwnedByPosition
<1>6. ~s.mapped <=> BlockOf(s) \in B
  OBVIOUS
<1>7. ASSUME NEW b PROVE b \in OwnBlocks(p) <=> b \in OwnBlocks(q) \cup B
  <2>1. ASSUME b \in OwnBlocks(p) PROVE b \in OwnBlocks(q) \cup B
    <3>1. PICK i \in Owners(p) : b = BlockOf(p[i])
      BY <2>1, OwnedByPosition
    <3>2. CASE i = 1
      BY <1>2, <1>4, <1>6, <3>1, <3>2
    <3>3. CASE i # 1
      BY <1>5, <3>1, <3>3, OwnedByPosition
    <3>. QED
      BY <3>2, <3>3
  <2>2. ASSUME b \in OwnBlocks(q) PROVE b \in OwnBlocks(p)
    <3>1. PICK i \in Owners(q) : b = BlockOf(q[i])
      BY <2>2, OwnedByPosition
    <3>. QED
      BY <1>3, <3>1, OwnedByPosition
  <2>3. ASSUME b \in B PROVE b \in OwnBlocks(p)
    <3>1. ~s.mapped /\ b = BlockOf(s)
      BY <2>3
    <3>. QED
      BY <1>2, <1>4, <3>1, OwnedByPosition
  <2>. QED
    BY <2>1, <2>2, <2>3
<1>8. ASSUME Singly(q), B \cap OwnBlocks(q) = {}, NEW i \in Owners(p), NEW j \in Owners(p), i # j
      PROVE  BlockOf(p[i]) # BlockOf(p[j])
  <2>1. \A k \in Owners(p) : k # 1 => BlockOf(p[k]) \in OwnBlocks(q)
    BY <1>5, OwnedByPosition
  <2>2. 1 \in Owners(p) => BlockOf(p[1]) \notin OwnBlocks(q)
    BY <1>2, <1>4, <1>6, <1>8
  <2>3. CASE i # 1 /\ j # 1
    <3>1. /\ i - 1 \in Owners(q) /\ p[i] = q[i - 1]
          /\ j - 1 \in Owners(q) /\ p[j] = q[j - 1]
      BY <1>5, <2>3
    <3>2. i - 1 # j - 1
      <4>1. i \in Int /\ j \in Int
        BY <1>2, OwnedByPosition
      <4>. QED
        BY <1>8, <4>1
    <3>. QED
      BY <1>8, <3>1, <3>2 DEF Singly
  <2>. QED
    BY <1>8, <2>1, <2>2, <2>3
<1>9. Singly(q) /\ B \cap OwnBlocks(q) = {} => Singly(p)
  BY <1>8 DEF Singly
<1>. QED
  BY <1>1, <1>2, <1>7, <1>9

\* The segment at i is taken out.
LEMMA OwnedLess ==
  ASSUME NEW q \in Seq(Seg), NEW i \in 1..Len(q), Singly(q)
  PROVE  /\ RemoveAt(q, i) \in Seq(Seg) /\ Singly(RemoveAt(q, i))
         /\ OwnBlocks(RemoveAt(q, i))
              = OwnBlocks(q) \ (IF q[i].mapped THEN {} ELSE {BlockOf(q[i])})
<1>1. PICK p : p = RemoveAt(q, i)
  OBVIOUS
<1>2. /\ p \in Seq(Seg) /\ Len(q) \in Nat /\ DOMAIN q = 1..Len(q) /\ DOMAIN p = 1..(Len(q) - 1)
      /\ \A j \in 1..(Len(q) - 1) : p[j] = IF j < i THEN q[j] ELSE q[j + 1]
  <2>1. /\ p \in Seq(Seg) /\ Len(p) = Len(q) - 1
        /\ \A j \in 1..(Len(q) - 1) : p[j] = IF j < i THEN q[j] ELSE q[j + 1]
    BY <1>1, RemoveAtFacts
  <2>2. Len(q) \in Nat /\ DOMAIN q = 1..Len(q) /\ DOMAIN p = 1..Len(p)
    BY <2>1
  <2>. QED
    BY <2>1, <2>2
<1>. DEFINE from(j) == IF j < i THEN j ELSE j + 1
<1>3. ASSUME NEW j \in Owners(p)
      PROVE  from(j) \in Owners(q) /\ p[j] = q[from(j)] /\ from(j) # i
  <2>1. j \in 1..(Len(q) - 1) /\ ~p[j].mapped
    BY <1>2, OwnedByPosition
  <2>2. from(j) \in 1..Len(q) /\ from(j) # i
    BY <1>2, <2>1
  <2>3. p[j] = q[from(j)]
    BY <1>2, <2>1
  <2>. QED
    BY <1>2, <2>1, <2>2, <2>3, OwnedByPosition
<1>4. ASSUME NEW j \in Owners(p), NEW k \in Owners(p), j # k PROVE from(j) # from(k)
  <2>1. j \in Int /\ k \in Int
    BY <1>2, OwnedByPosition
  <2>. QED
    BY <1>4, <2>1
<1>5. ASSUME NEW k \in Owners(q), k # i PROVE \E j \in Owners(p) : p[j] = q[k]
  <2>1. k \in 1..Len(q) /\ ~q[k].mapped
    BY <1>2, OwnedByPosition
  <2>2. PICK j : j = IF k < i THEN k ELSE k - 1
    OBVIOUS
  <2>3. j \in 1..(Len(q) - 1) /\ from(j) = k
    BY <1>2, <1>5, <2>1, <2>2
  <2>4. p[j] = q[k]
    BY <1>2, <2>3
  <2>5. j \in Owners(p)
    BY <1>2, <2>1, <2>3, <2>4, OwnedByPosition
  <2>. QED
    BY <2>4, <2>5
<1>. HIDE DEF from
<1>6. Singly(p)
  <2>1. ASSUME NEW j \in Owners(p), NEW k \in Owners(p), j # k PROVE BlockOf(p[j]) # BlockOf(p[k])
    BY <1>3, <1>4, <2>1 DEF Singly
  <2>. QED
    BY <2>1 DEF Singly
<1>7. i \in Owners(q) <=> ~q[i].mapped
  BY <1>2, OwnedByPosition
<1>8. ASSUME NEW b PROVE b \in OwnBlocks(p) <=> b \in OwnBlocks(q) /\ ~(~q[i].mapped /\ b = BlockOf(q[i]))
  <2>1. ASSUME b \in OwnBlocks(p) PROVE b \in OwnBlocks(q) /\ ~(~q[i].mapped /\ b = BlockOf(q[i]))
    <3>1. PICK j \in Owners(p) : b = BlockOf(p[j])
      BY <2>1, OwnedByPosition
    <3>2. from(j) \in Owners(q) /\ b = BlockOf(q[from(j)]) /\ from(j) # i
      BY <1>3, <3>1
    <3>. QED
      BY <1>7, <3>2, OwnedByPosition DEF Singly
  <2>2. ASSUME b \in OwnBlocks(q), ~(~q[i].mapped /\ b = BlockOf(q[i])) PROVE b \in OwnBlocks(p)
    <3>1. PICK k \in Owners(q) : b = BlockOf(q[k])
      BY <2>2, OwnedByPosition
    <3>2. k # i
      BY <1>7, <2>2, <3>1
    <3>. QED
      BY <1>5, <3>1, <3>2, OwnedByPosition
  <2>. QED
    BY <2>1, <2>2
<1>9. OwnBlocks(p) = OwnBlocks(q) \ (IF q[i].mapped THEN {} ELSE {BlockOf(q[i])})
  BY <1>8
<1>. QED
  BY <1>1, <1>2, <1>6, <1>9
-----------------------------------------------------------------------------
\* f[i] is what the page allocator has when i segments of q are gone.
Frees(f, x, q, n) == f = [i \in 0..n |-> IF i = 0 THEN x ELSE SegmentGoes(f[i - 1], q[i])]

LEMMA FreesExist ==
  ASSUME NEW x, NEW q, NEW n \in Nat
  PROVE  \E f : Frees(f, x, q, n)
<1>. DEFINE T == {k \in 0..n : \E f : Frees(f, x, q, k)}
<1>1. 0 \in T
  <2>. DEFINE f == [i \in 0..0 |-> x]
  <2>1. \A i \in 0..0 : i = 0
    OBVIOUS
  <2>2. [i \in 0..0 |-> IF i = 0 THEN x ELSE SegmentGoes(f[i - 1], q[i])] = [i \in 0..0 |-> x]
    BY <2>1
  <2>3. Frees(f, x, q, 0)
    BY <2>2 DEF Frees
  <2>. QED
    BY <2>3
<1>2. ASSUME NEW k \in 0..(n - 1), k \in T PROVE k + 1 \in T
  <2>1. PICK f : Frees(f, x, q, k)
    BY <1>2
  <2>2. f = [i \in 0..k |-> IF i = 0 THEN x ELSE SegmentGoes(f[i - 1], q[i])]
    BY <2>1 DEF Frees
  <2>. DEFINE step(g, i) == IF i = 0 THEN x ELSE SegmentGoes(g[i - 1], q[i])
              last == SegmentGoes(f[k], q[k + 1])
              g == [i \in 0..(k + 1) |-> IF i = k + 1 THEN last ELSE f[i]]
  <2>3. \A i \in 0..k : f[i] = step(f, i)
    BY <2>2
  <2>4. \A i \in 0..(k + 1) : g[i] = step(g, i)
    <3>1. ASSUME NEW i \in 0..k PROVE g[i] = step(g, i)
      <4>1. i \in 0..(k + 1) /\ i # k + 1 /\ (i # 0 => i - 1 \in 0..(k + 1) /\ i - 1 # k + 1)
        OBVIOUS
      <4>2. g[i] = f[i] /\ (i # 0 => g[i - 1] = f[i - 1])
        BY <4>1
      <4>. HIDE DEF g
      <4>. QED
        BY <2>3, <4>2
    <3>2. g[k + 1] = step(g, k + 1)
      <4>1. k \in 0..(k + 1) /\ k # k + 1 /\ k + 1 \in 0..(k + 1) /\ k + 1 # 0 /\ (k + 1) - 1 = k
        OBVIOUS
      <4>2. g[k + 1] = last /\ g[k] = f[k]
        BY <4>1
      <4>. HIDE DEF g
      <4>. QED
        BY <4>1, <4>2
    <3>. HIDE DEF g, step
    <3>. QED
      BY <3>1, <3>2
  <2>5. g = [i \in 0..(k + 1) |-> g[i]]
    OBVIOUS
  <2>6. g = [i \in 0..(k + 1) |-> step(g, i)]
    <3>. HIDE DEF g, step
    <3>. QED
      BY <2>4, <2>5
  <2>7. Frees(g, x, q, k + 1)
    BY <2>6 DEF Frees
  <2>. QED
    BY <2>7
<1>3. 0..n \subseteq T
  <2>. HIDE DEF T
  <2>. QED
    BY <1>1, <1>2, SetInduction
<1>. QED
  BY <1>3

\* The loop of SegmentsGo, unfolded.
FreesAll(f, q) ==
  /\ f[0] = [free |-> plist, used |-> used_size]
  /\ \A i \in 1..Len(q) : f[i] = SegmentGoes(f[i - 1], q[i])
  /\ plist' = f[Len(q)].free /\ used_size' = f[Len(q)].used

LEMMA SegmentsGoIs ==
  ASSUME NEW q, Len(q) \in Nat, SegmentsGo(q)
  PROVE  \E f : FreesAll(f, q)
<1>. DEFINE x == [free |-> plist, used |-> used_size]
            R(f) == f = [i \in 0..Len(q) |-> IF i = 0 THEN x ELSE SegmentGoes(f[i - 1], q[i])]
            after == CHOOSE f : R(f)
<1>1. plist' = after[Len(q)].free /\ used_size' = after[Len(q)].used
  BY DEF SegmentsGo
<1>2. \E f : R(f)
  <2>1. PICK f : Frees(f, x, q, Len(q))
    BY FreesExist
  <2>2. R(f)
    BY <2>1 DEF Frees
  <2>. QED
    BY <2>2
<1>3. R(after)
  <2>. HIDE DEF R
  <2>. QED
    BY <1>2
<1>. HIDE DEF after
<1>4. 0 \in 0..Len(q) /\ \A i \in 1..Len(q) : i \in 0..Len(q) /\ i # 0
  OBVIOUS
<1>5. after[0] = x /\ \A i \in 1..Len(q) : after[i] = SegmentGoes(after[i - 1], q[i])
  BY <1>3, <1>4
<1>. QED
  BY <1>1, <1>5 DEF FreesAll

\* The blocks that the first k segments of q own.
FirstOwn(q, k) == {BlockOf(q[i]) : i \in {j \in Owners(q) : j <= k}}

LEMMA FirstOwnGrows ==
  ASSUME NEW q \in Seq(Seg), NEW k \in 0..(Len(q) - 1), Singly(q)
  PROVE  /\ q[k + 1].mapped => FirstOwn(q, k + 1) = FirstOwn(q, k)
         /\ ~q[k + 1].mapped => /\ FirstOwn(q, k + 1) = FirstOwn(q, k) \cup {BlockOf(q[k + 1])}
                                /\ BlockOf(q[k + 1]) \notin FirstOwn(q, k)
                                /\ BlockOf(q[k + 1]) \in OwnBlocks(q)
<1>1. Len(q) \in Nat /\ DOMAIN q = 1..Len(q) /\ k + 1 \in 1..Len(q) /\ k \in Int
  OBVIOUS
<1>2. \A j : j \in Owners(q) => j \in Int /\ (j <= k + 1 <=> j <= k \/ j = k + 1)
  BY <1>1 DEF Owners
<1>3. ~(k + 1 <= k) /\ k + 1 <= k + 1
  BY <1>1
<1>4. k + 1 \in Owners(q) <=> ~q[k + 1].mapped
  BY <1>1 DEF Owners
<1>5. CASE q[k + 1].mapped
  <2>1. {j \in Owners(q) : j <= k + 1} = {j \in Owners(q) : j <= k}
    BY <1>2, <1>4, <1>5
  <2>. QED
    BY <1>5, <2>1 DEF FirstOwn
<1>6. CASE ~q[k + 1].mapped
  <2>1. {j \in Owners(q) : j <= k + 1} = {j \in Owners(q) : j <= k} \cup {k + 1}
    BY <1>2, <1>3, <1>4, <1>6
  <2>2. FirstOwn(q, k + 1) = FirstOwn(q, k) \cup {BlockOf(q[k + 1])}
    BY <2>1 DEF FirstOwn
  <2>3. BlockOf(q[k + 1]) \notin FirstOwn(q, k)
    <3>1. ASSUME NEW j \in Owners(q), j <= k PROVE BlockOf(q[j]) # BlockOf(q[k + 1])
      BY <1>3, <1>4, <1>6, <3>1 DEF Singly
    <3>. QED
      BY <3>1 DEF FirstOwn
  <2>4. BlockOf(q[k + 1]) \in OwnBlocks(q)
    BY <1>4, <1>6 DEF OwnBlocks
  <2>. QED
    BY <1>6, <2>2, <2>3, <2>4
<1>. QED
  BY <1>5, <1>6

\* Segments that go give back what they own, to the page.
LEMMA SegmentsGoFrees ==
  ASSUME PageInv, NEW q \in Seq(Seg), Singly(q), OwnBlocks(q) \subseteq powned, SegmentsGo(q)
  PROVE  /\ PageInv' /\ powned' = powned \ OwnBlocks(q)
         /\ vmowned' = vmowned \ OwnBlocks(q)
<1>1. Len(q) \in Nat /\ DOMAIN q = 1..Len(q) /\ \A i \in 1..Len(q) : q[i] \in Seg
  BY ElementOfSeq
<1>2. PICK f : FreesAll(f, q)
  BY <1>1, SegmentsGoIs
<1>3. powned' = powned \ OwnBlocks(q) /\ vmowned' = vmowned \ OwnBlocks(q)
  <2>1. {j \in DOMAIN q : FreesPages(q[j])} = Owners(q)
    BY DEF Owners, FreesPages
  <2>. QED
    BY <2>1 DEF SegmentsGo, OwnBlocks
<1>. DEFINE Good(k) == Holding(f[k].free, powned \ FirstOwn(q, k), f[k].used)
            T == {k \in 0..Len(q) : Good(k)}
<1>4. Good(0)
  <2>1. f[0].free = plist /\ f[0].used = used_size
    BY <1>2 DEF FreesAll
  <2>2. FirstOwn(q, 0) = {}
    BY <1>1 DEF FirstOwn, Owners
  <2>3. powned \ {} = powned
    OBVIOUS
  <2>. QED
    BY <2>1, <2>2, <2>3, PageInvHolds
<1>5. ASSUME NEW k \in 0..(Len(q) - 1), Good(k) PROVE Good(k + 1)
  <2>1. k + 1 \in 1..Len(q) /\ (k + 1) - 1 = k /\ q[k + 1] \in Seg
    BY <1>1
  <2>2. f[k + 1] = SegmentGoes(f[k], q[k + 1])
    BY <1>2, <2>1 DEF FreesAll
  <2>3. CASE q[k + 1].mapped
    <3>1. f[k + 1] = f[k]
      BY <2>2, <2>3 DEF SegmentGoes, FreesPages
    <3>2. FirstOwn(q, k + 1) = FirstOwn(q, k)
      BY <2>3, FirstOwnGrows
    <3>. QED
      BY <1>5, <3>1, <3>2
  <2>4. CASE ~q[k + 1].mapped
    <3>1. PICK b : b = BlockOf(q[k + 1])
      OBVIOUS
    <3>2. f[k + 1].free = PageFreed(f[k].free, b) /\ f[k + 1].used = f[k].used - b.size
      <4>1. b.size = q[k + 1].size
        BY <3>1 DEF BlockOf
      <4>2. f[k + 1] = [free |-> PageFreed(f[k].free, b), used |-> f[k].used - q[k + 1].size]
        BY <2>2, <2>4, <3>1 DEF SegmentGoes, FreesPages
      <4>. QED
        BY <4>1, <4>2
    <3>3. /\ FirstOwn(q, k + 1) = FirstOwn(q, k) \cup {b} /\ b \notin FirstOwn(q, k)
          /\ b \in OwnBlocks(q)
      BY <2>4, <3>1, FirstOwnGrows
    <3>4. PICK o : o = powned \ FirstOwn(q, k)
      OBVIOUS
    <3>5. b \in o /\ powned \ FirstOwn(q, k + 1) = o \ {b}
      BY <3>3, <3>4
    <3>6. Holding(PageFreed(f[k].free, b), o \ {b}, f[k].used - b.size)
      <4>1. Holding(f[k].free, o, f[k].used)
        BY <1>5, <3>4
      <4>. QED
        BY <3>5, <4>1, HoldingFree
    <3>. QED
      BY <3>2, <3>5, <3>6
  <2>. QED
    BY <2>3, <2>4
<1>6. Good(Len(q))
  <2>. HIDE DEF Good
  <2>1. 0 \in T /\ \A k \in 0..(Len(q) - 1) : k \in T => k + 1 \in T
    BY <1>1, <1>4, <1>5
  <2>2. 0..Len(q) \subseteq T
    <3>. HIDE DEF T
    <3>. QED
      BY <1>1, <2>1, SetInduction
  <2>. QED
    BY <1>1, <2>2
<1>7. FirstOwn(q, Len(q)) = OwnBlocks(q)
  <2>1. {j \in Owners(q) : j <= Len(q)} = Owners(q)
    BY <1>1 DEF Owners
  <2>. QED
    BY <2>1 DEF FirstOwn, OwnBlocks
<1>8. Holding(plist', powned', used_size')
  BY <1>2, <1>3, <1>6, <1>7 DEF FreesAll
<1>9. PageInv'
  BY <1>8 DEF PageInv, Holding, OwnedPages
<1>. QED
  BY <1>3, <1>9
-----------------------------------------------------------------------------
VmInv ==
  /\ PageInv
  /\ vmref \in [MapId -> Nat] /\ vmsegs \in [MapId -> Seq(Seg)]
  /\ SegmentsOwnPages

\* What a block is before it is in a list of segments.
LEMMA SegmentOf ==
  ASSUME NEW b \in Block, NEW mapped \in BOOLEAN
  PROVE  /\ Segment(b, mapped) \in Seg /\ BlockOf(Segment(b, mapped)) = b
         /\ Segment(b, mapped).mapped = mapped
BY DEF Segment, Seg, BlockOf, Block

\* One map gets the segments q, and with them what they own.
LEMMA OneMapChanges ==
  ASSUME VmInv, NEW m \in MapId, NEW q \in Seq(Seg), Singly(q),
         vmsegs' = [vmsegs EXCEPT ![m] = q],
         (OwnBlocks(q) \ OwnBlocks(vmsegs[m])) \cap vmowned = {},
         vmowned' = (vmowned \ OwnBlocks(vmsegs[m])) \cup OwnBlocks(q),
         vmowned' \subseteq powned', vmref' \in [MapId -> Nat],
         \A k \in MapId : vmref'[k] = 0 => (IF k = m THEN q ELSE vmsegs[k]) = <<>>
  PROVE  vmsegs' \in [MapId -> Seq(Seg)] /\ SegmentsOwnPages'
<1>1. /\ vmsegs \in [MapId -> Seq(Seg)]
      /\ \A k \in MapId : vmsegs'[k] = IF k = m THEN q ELSE vmsegs[k]
  BY DEF VmInv
<1>2. /\ vmowned = UNION {OwnBlocks(vmsegs[k]) : k \in MapId}
      /\ \A k, l \in MapId : k # l => OwnBlocks(vmsegs[k]) \cap OwnBlocks(vmsegs[l]) = {}
      /\ \A k \in MapId : Singly(vmsegs[k])
  BY DEF VmInv, SegmentsOwnPages, Singly
<1>3. vmsegs'[m] = q /\ \A k \in MapId \ {m} : vmsegs'[k] = vmsegs[k]
  BY <1>1
<1>4. ASSUME NEW k \in MapId \ {m}
      PROVE  /\ OwnBlocks(vmsegs[k]) \subseteq vmowned
             /\ OwnBlocks(vmsegs[k]) \cap OwnBlocks(vmsegs[m]) = {}
             /\ OwnBlocks(vmsegs[k]) \cap OwnBlocks(q) = {}
  <2>1. OwnBlocks(vmsegs[k]) \subseteq vmowned
    BY <1>2
  <2>2. OwnBlocks(vmsegs[k]) \cap OwnBlocks(vmsegs[m]) = {}
    BY <1>2
  <2>. QED
    BY <2>1, <2>2
<1>5. ASSUME NEW k \in MapId PROVE Singly(vmsegs'[k])
  <2>1. CASE k = m
    BY <1>3, <2>1
  <2>2. CASE k # m
    BY <1>2, <1>3, <2>2
  <2>. QED
    BY <2>1, <2>2
<1>6. ASSUME NEW k \in MapId, NEW l \in MapId, k # l
      PROVE  OwnBlocks(vmsegs'[k]) \cap OwnBlocks(vmsegs'[l]) = {}
  <2>1. CASE k = m
    BY <1>3, <1>4, <1>6, <2>1
  <2>2. CASE l = m
    BY <1>3, <1>4, <1>6, <2>2
  <2>3. CASE k # m /\ l # m
    BY <1>2, <1>3, <1>6, <2>3
  <2>. QED
    BY <2>1, <2>2, <2>3
<1>7. vmowned' = UNION {OwnBlocks(vmsegs'[k]) : k \in MapId}
  <2>1. ASSUME NEW b \in vmowned' PROVE \E k \in MapId : b \in OwnBlocks(vmsegs'[k])
    <3>1. CASE b \in OwnBlocks(q)
      BY <1>3, <3>1
    <3>2. CASE b \in vmowned \ OwnBlocks(vmsegs[m])
      <4>1. PICK k \in MapId : b \in OwnBlocks(vmsegs[k])
        BY <1>2, <3>2
      <4>2. k # m
        BY <3>2, <4>1
      <4>. QED
        BY <1>3, <4>1, <4>2
    <3>. QED
      BY <3>1, <3>2
  <2>2. ASSUME NEW k \in MapId, NEW b \in OwnBlocks(vmsegs'[k]) PROVE b \in vmowned'
    <3>1. CASE k = m
      BY <1>3, <2>2, <3>1
    <3>2. CASE k # m
      BY <1>3, <1>4, <2>2, <3>2
    <3>. QED
      BY <3>1, <3>2
  <2>. QED
    BY <2>1, <2>2
<1>8. ASSUME NEW k \in MapId, vmref'[k] = 0 PROVE vmsegs'[k] = <<>>
  BY <1>1, <1>8
<1>9. vmsegs' \in [MapId -> Seq(Seg)]
  BY <1>1
<1>. QED
  BY <1>5, <1>6, <1>7, <1>8, <1>9 DEF SegmentsOwnPages, Singly

LEMMA VmInvInit == VmInit => VmInv
<1>. SUFFICES ASSUME VmInit PROVE VmInv
  OBVIOUS
<1>1. /\ PageInit /\ vmref = [m \in MapId |-> 0] /\ vmsegs = [m \in MapId |-> <<>>]
      /\ vmowned = {}
  BY DEF VmInit
<1>2. vmref \in [MapId -> Nat] /\ vmsegs \in [MapId -> Seq(Seg)]
  BY <1>1
<1>3. \A m \in MapId : vmsegs[m] = <<>>
  BY <1>1
<1>4. Owners(<<>>) = {} /\ OwnBlocks(<<>>) = {}
  BY DEF Owners, OwnBlocks
<1>5. SegmentsOwnPages
  <2>1. UNION {OwnBlocks(vmsegs[m]) : m \in MapId} = {}
    BY <1>3, <1>4
  <2>. QED
    BY <1>1, <1>3, <1>4, <2>1 DEF SegmentsOwnPages
<1>. QED
  BY <1>1, <1>2, <1>5, PageInvInit DEF VmInv

\* The block b, taken by the page allocator, becomes a segment of m.
LEMMA SegmentComes ==
  ASSUME VmInv, PageInv', NEW m \in MapId, NEW b \in Block, vmref[m] > 0,
         PagesOf(b) \subseteq ListPages(plist), powned' = powned \cup {b},
         vmowned' = vmowned \cup {b}, vmref' = vmref, SegCreate(m, Segment(b, FALSE))
  PROVE  VmInv'
<1>1. PICK s : s = Segment(b, FALSE)
  OBVIOUS
<1>2. s \in Seg /\ BlockOf(s) = b /\ ~s.mapped
  BY <1>1, SegmentOf
<1>3. PICK q : q = <<s>> \o vmsegs[m]
  OBVIOUS
<1>4. /\ vmsegs[m] \in Seq(Seg) /\ Singly(vmsegs[m]) /\ OwnBlocks(vmsegs[m]) \subseteq vmowned
      /\ vmowned \subseteq powned /\ vmref \in [MapId -> Nat]
  BY DEF VmInv, SegmentsOwnPages, Singly
<1>5. b \notin powned
  <2>1. b.at \in PagesOf(b)
    BY BlockFacts
  <2>2. ListPages(plist) \cap OwnedPages = {}
    BY DEF VmInv, PageInv
  <2>. QED
    BY <2>1, <2>2 DEF OwnedPages
<1>6. q \in Seq(Seg) /\ OwnBlocks(q) = OwnBlocks(vmsegs[m]) \cup {b} /\ Singly(q)
  <2>1. PICK B : B = IF s.mapped THEN {} ELSE {BlockOf(s)}
    OBVIOUS
  <2>2. B = {b}
    BY <1>2, <2>1
  <2>3. /\ <<s>> \o vmsegs[m] \in Seq(Seg)
        /\ OwnBlocks(<<s>> \o vmsegs[m]) = OwnBlocks(vmsegs[m]) \cup B
        /\ Singly(vmsegs[m]) /\ B \cap OwnBlocks(vmsegs[m]) = {} => Singly(<<s>> \o vmsegs[m])
    BY <1>2, <1>4, <2>1, OwnedMore
  <2>. QED
    BY <1>3, <1>4, <1>5, <2>2, <2>3
<1>7. vmsegs' = [vmsegs EXCEPT ![m] = q]
  BY <1>1, <1>3 DEF SegCreate
<1>8. /\ (OwnBlocks(q) \ OwnBlocks(vmsegs[m])) \cap vmowned = {}
      /\ vmowned' = (vmowned \ OwnBlocks(vmsegs[m])) \cup OwnBlocks(q)
      /\ vmowned' \subseteq powned' /\ vmref' \in [MapId -> Nat]
  BY <1>4, <1>5, <1>6
<1>9. \A k \in MapId : vmref'[k] = 0 => (IF k = m THEN q ELSE vmsegs[k]) = <<>>
  <2>1. \A k \in MapId : vmref[k] = 0 => vmsegs[k] = <<>> /\ k # m
    BY DEF VmInv, SegmentsOwnPages
  <2>. QED
    BY <2>1
<1>. QED
  BY <1>6, <1>7, <1>8, <1>9, OneMapChanges DEF VmInv

LEMMA VmInvAllocate ==
  ASSUME VmInv, NEW m \in MapId, NEW n \in 1..MaxPages, VmAllocate(m, n)
  PROVE  VmInv'
<1>1. n \in Nat \ {0}
  BY PageAssumption
<1>2. PICK b : b = TakenBlock(n)
  OBVIOUS
<1>3. PageInv' /\ b \in Block /\ PagesOf(b) \subseteq ListPages(plist)
  BY <1>1, <1>2, PageInvAlloc DEF VmInv, VmAllocate
<1>4. /\ vmref[m] > 0 /\ vmref' = vmref /\ vmowned' = vmowned \cup {b}
      /\ SegCreate(m, Segment(b, FALSE)) /\ powned' = powned \cup {b}
  BY <1>2 DEF VmAllocate, PageAlloc
<1>. QED
  BY <1>3, <1>4, SegmentComes

LEMMA VmInvAllocateAt ==
  ASSUME VmInv, NEW m \in MapId, NEW b \in Block, VmAllocateAt(m, b)
  PROVE  VmInv'
<1>1. PageReserve(b) /\ PageInv
  BY DEF VmInv, VmAllocateAt
<1>2. PagesOf(b) \subseteq ListPages(plist) /\ powned' = powned \cup {b}
  BY <1>1, ReservedAscending DEF PageReserve, PageInv
<1>3. PageInv'
  BY <1>1, PageInvReserve
<1>4. /\ vmref[m] > 0 /\ vmref' = vmref /\ vmowned' = vmowned \cup {b}
      /\ SegCreate(m, Segment(b, FALSE))
  BY DEF VmAllocateAt
<1>. QED
  BY <1>2, <1>3, <1>4, SegmentComes

LEMMA VmInvMap ==
  ASSUME VmInv, NEW m \in MapId, NEW k \in MapId, NEW b \in Block, VmMap(m, k, b)
  PROVE  VmInv'
<1>1. PICK s : s = Segment(b, TRUE)
  OBVIOUS
<1>2. s \in Seg /\ s.mapped
  BY <1>1, SegmentOf
<1>3. PICK q : q = <<s>> \o vmsegs[m]
  OBVIOUS
<1>4. /\ vmsegs[m] \in Seq(Seg) /\ Singly(vmsegs[m]) /\ OwnBlocks(vmsegs[m]) \subseteq vmowned
      /\ vmowned \subseteq powned /\ vmref \in [MapId -> Nat]
  BY DEF VmInv, SegmentsOwnPages, Singly
<1>5. q \in Seq(Seg) /\ OwnBlocks(q) = OwnBlocks(vmsegs[m]) /\ Singly(q)
  <2>1. PICK B : B = IF s.mapped THEN {} ELSE {BlockOf(s)}
    OBVIOUS
  <2>2. B = {}
    BY <1>2, <2>1
  <2>3. /\ <<s>> \o vmsegs[m] \in Seq(Seg)
        /\ OwnBlocks(<<s>> \o vmsegs[m]) = OwnBlocks(vmsegs[m]) \cup B
        /\ Singly(vmsegs[m]) /\ B \cap OwnBlocks(vmsegs[m]) = {} => Singly(<<s>> \o vmsegs[m])
    BY <1>2, <1>4, <2>1, OwnedMore
  <2>. QED
    BY <1>3, <1>4, <2>2, <2>3
<1>6. vmsegs' = [vmsegs EXCEPT ![m] = q] /\ vmref[m] > 0
  BY <1>1, <1>3 DEF VmMap, SegCreate
<1>7. UNCHANGED <<pageVars, vmref, vmowned>>
  BY DEF VmMap
<1>8. /\ (OwnBlocks(q) \ OwnBlocks(vmsegs[m])) \cap vmowned = {}
      /\ vmowned' = (vmowned \ OwnBlocks(vmsegs[m])) \cup OwnBlocks(q)
      /\ vmowned' \subseteq powned' /\ vmref' \in [MapId -> Nat]
  BY <1>4, <1>5, <1>7 DEF pageVars
<1>9. \A l \in MapId : vmref'[l] = 0 => (IF l = m THEN q ELSE vmsegs[l]) = <<>>
  <2>1. \A l \in MapId : vmref[l] = 0 => vmsegs[l] = <<>> /\ l # m
    BY <1>6 DEF VmInv, SegmentsOwnPages
  <2>. QED
    BY <1>7, <2>1
<1>10. PageInv'
  BY <1>7 DEF VmInv, PageInv, OwnedPages, pageVars
<1>. QED
  BY <1>5, <1>6, <1>7, <1>8, <1>9, <1>10, OneMapChanges DEF VmInv

LEMMA VmInvFree ==
  ASSUME VmInv, NEW m \in MapId, NEW at, VmFree(m, at)
  PROVE  VmInv'
<1>1. PICK i : /\ i = SegLookup(m, [at |-> at, size |-> 1]) /\ i # 0
               /\ SegmentsGo(<<vmsegs[m][i]>>)
               /\ vmsegs' = [vmsegs EXCEPT ![m] = RemoveAt(@, i)] /\ vmref' = vmref
  BY DEF VmFree
<1>2. /\ vmsegs[m] \in Seq(Seg) /\ Singly(vmsegs[m]) /\ OwnBlocks(vmsegs[m]) \subseteq vmowned
      /\ vmowned \subseteq powned /\ vmref \in [MapId -> Nat] /\ PageInv
  BY DEF VmInv, SegmentsOwnPages, Singly
<1>3. i \in 1..Len(vmsegs[m])
  <2>. DEFINE including == {j \in DOMAIN vmsegs[m] :
                              PagesOf([at |-> at, size |-> 1]) \subseteq PagesOf(vmsegs[m][j])}
  <2>1. including # {} /\ i = CHOOSE j \in including : \A k \in including : j <= k
    BY <1>1 DEF SegLookup
  <2>2. DOMAIN vmsegs[m] = 1..Len(vmsegs[m]) /\ including \subseteq 1..Len(vmsegs[m])
    BY <1>2
  <2>3. \E j \in including : \A k \in including : j <= k
    <3>1. including \subseteq Nat
      BY <2>2
    <3>. HIDE DEF including
    <3>. QED
      BY <2>1, <3>1, NatMinimum
  <2>4. i \in including
    <3>. HIDE DEF including
    <3>. QED
      BY <2>1, <2>3
  <2>. QED
    BY <2>2, <2>4
<1>4. PICK s : s = vmsegs[m][i]
  OBVIOUS
<1>5. s \in Seg
  BY <1>2, <1>3, <1>4, ElementOfSeq
<1>6. PICK B : B = IF s.mapped THEN {} ELSE {BlockOf(s)}
  OBVIOUS
<1>7. PICK q : q = RemoveAt(vmsegs[m], i)
  OBVIOUS
<1>8. q \in Seq(Seg) /\ Singly(q) /\ OwnBlocks(q) = OwnBlocks(vmsegs[m]) \ B
  <2>1. /\ RemoveAt(vmsegs[m], i) \in Seq(Seg) /\ Singly(RemoveAt(vmsegs[m], i))
        /\ OwnBlocks(RemoveAt(vmsegs[m], i)) = OwnBlocks(vmsegs[m]) \
             (IF vmsegs[m][i].mapped THEN {} ELSE {BlockOf(vmsegs[m][i])})
    BY <1>2, <1>3, OwnedLess
  <2>. QED
    BY <1>4, <1>6, <1>7, <2>1
<1>9. PICK o : o = <<s>>
  OBVIOUS
<1>10. o \in Seq(Seg) /\ DOMAIN o = {1} /\ o[1] = s
  BY <1>5, <1>9
<1>11. OwnBlocks(o) = B /\ Singly(o)
  <2>1. Owners(o) = IF s.mapped THEN {} ELSE {1}
    BY <1>10 DEF Owners
  <2>2. OwnBlocks(o) = B
    BY <1>6, <1>10, <2>1 DEF OwnBlocks
  <2>3. Singly(o)
    BY <2>1 DEF Singly
  <2>. QED
    BY <2>2, <2>3
<1>12. B \subseteq OwnBlocks(vmsegs[m])
  <2>1. ~s.mapped => i \in Owners(vmsegs[m])
    BY <1>2, <1>3, <1>4 DEF Owners
  <2>. QED
    BY <1>4, <1>6, <2>1 DEF OwnBlocks
<1>13. PageInv' /\ powned' = powned \ B /\ vmowned' = vmowned \ B
  <2>1. SegmentsGo(o)
    BY <1>1, <1>4, <1>9
  <2>2. OwnBlocks(o) \subseteq powned
    BY <1>2, <1>11, <1>12
  <2>. QED
    BY <1>2, <1>10, <1>11, <2>1, <2>2, SegmentsGoFrees
<1>14. /\ (OwnBlocks(q) \ OwnBlocks(vmsegs[m])) \cap vmowned = {}
       /\ vmowned' = (vmowned \ OwnBlocks(vmsegs[m])) \cup OwnBlocks(q)
       /\ vmowned' \subseteq powned' /\ vmref' \in [MapId -> Nat]
  BY <1>1, <1>2, <1>8, <1>12, <1>13
<1>15. vmsegs' = [vmsegs EXCEPT ![m] = q]
  BY <1>1, <1>7
<1>16. \A k \in MapId : vmref'[k] = 0 => (IF k = m THEN q ELSE vmsegs[k]) = <<>>
  <2>1. \A k \in MapId : vmref[k] = 0 => vmsegs[k] = <<>>
    BY DEF VmInv, SegmentsOwnPages
  <2>2. vmsegs[m] # <<>>
    BY <1>3
  <2>. QED
    BY <1>1, <2>1, <2>2
<1>. QED
  BY <1>1, <1>2, <1>8, <1>13, <1>14, <1>15, <1>16, OneMapChanges DEF VmInv

LEMMA VmInvTerminate ==
  ASSUME VmInv, NEW m \in MapId, VmTerminate(m)
  PROVE  VmInv'
<1>1. /\ vmref[m] > 0 /\ vmref' = [vmref EXCEPT ![m] = @ - 1] /\ vmref \in [MapId -> Nat]
      /\ \A k \in MapId : vmref[k] = 0 => vmsegs[k] = <<>>
  BY DEF VmTerminate, VmInv, SegmentsOwnPages
<1>2. vmref' \in [MapId -> Nat] /\ vmref'[m] = vmref[m] - 1
      /\ \A k \in MapId : k # m => vmref'[k] = vmref[k]
  BY <1>1
<1>3. CASE vmref[m] > 1
  <2>1. UNCHANGED <<pageVars, vmsegs, vmowned>>
    BY <1>3 DEF VmTerminate
  <2>2. \A k \in MapId : vmref'[k] = 0 => vmsegs'[k] = <<>>
    <3>1. vmref'[m] # 0
      BY <1>1, <1>2, <1>3
    <3>. QED
      BY <1>1, <1>2, <2>1, <3>1
  <2>. QED
    BY <1>2, <2>1, <2>2 DEF VmInv, PageInv, OwnedPages, pageVars, SegmentsOwnPages
<1>4. CASE ~(vmref[m] > 1)
  <2>1. /\ vmsegs[m] \in Seq(Seg) /\ Singly(vmsegs[m]) /\ OwnBlocks(vmsegs[m]) \subseteq vmowned
        /\ vmowned \subseteq powned /\ PageInv
    BY DEF VmInv, SegmentsOwnPages, Singly
  <2>2. SegmentsGo(vmsegs[m]) /\ vmsegs' = [vmsegs EXCEPT ![m] = <<>>]
    BY <1>4 DEF VmTerminate
  <2>3. /\ PageInv' /\ powned' = powned \ OwnBlocks(vmsegs[m])
        /\ vmowned' = vmowned \ OwnBlocks(vmsegs[m])
    BY <2>1, <2>2, SegmentsGoFrees
  <2>4. <<>> \in Seq(Seg) /\ OwnBlocks(<<>>) = {} /\ Singly(<<>>)
    BY DEF OwnBlocks, Owners, Singly
  <2>5. PICK q : q = <<>>
    OBVIOUS
  <2>6. q \in Seq(Seg) /\ Singly(q) /\ OwnBlocks(q) = {} /\ vmsegs' = [vmsegs EXCEPT ![m] = q]
    BY <2>2, <2>4, <2>5
  <2>7. /\ (OwnBlocks(q) \ OwnBlocks(vmsegs[m])) \cap vmowned = {}
        /\ vmowned' = (vmowned \ OwnBlocks(vmsegs[m])) \cup OwnBlocks(q)
        /\ vmowned' \subseteq powned'
    BY <2>1, <2>3, <2>6
  <2>8. \A k \in MapId : vmref'[k] = 0 => (IF k = m THEN q ELSE vmsegs[k]) = <<>>
    BY <1>1, <1>2, <2>5
  <2>. QED
    BY <1>2, <2>3, <2>6, <2>7, <2>8, OneMapChanges DEF VmInv
<1>. QED
  BY <1>3, <1>4

LEMMA VmInvNext == VmInv /\ [VmNext]_<<pageVars, vmVars>> => VmInv'
<1>. SUFFICES ASSUME VmInv, [VmNext]_<<pageVars, vmVars>> PROVE VmInv'
  OBVIOUS
<1>1. ASSUME NEW m \in MapId, VmCreate(m) \/ VmReference(m) PROVE VmInv'
  <2>1. UNCHANGED <<pageVars, vmsegs, vmowned>> /\ vmref \in [MapId -> Nat]
    BY <1>1 DEF VmCreate, VmReference, VmInv
  <2>2. PICK n : n \in Nat \ {0} /\ vmref' = [vmref EXCEPT ![m] = n]
    <3>1. CASE VmCreate(m)
      <4>1. 1 \in Nat \ {0}
        OBVIOUS
      <4>. QED
        BY Zenon, <3>1, <4>1 DEF VmCreate
    <3>2. CASE VmReference(m)
      <4>1. vmref[m] + 1 \in Nat \ {0} /\ vmref' = [vmref EXCEPT ![m] = vmref[m] + 1]
        BY <2>1, <3>2 DEF VmReference
      <4>. QED
        BY <4>1
    <3>. QED
      BY <1>1, <3>1, <3>2
  <2>3. vmref' \in [MapId -> Nat] /\ \A k \in MapId : vmref'[k] = 0 => vmref[k] = 0
    BY <2>1, <2>2
  <2>. QED
    BY <2>1, <2>3 DEF VmInv, PageInv, OwnedPages, pageVars, SegmentsOwnPages
<1>2. ASSUME NEW m \in MapId, VmTerminate(m) PROVE VmInv'
  BY <1>2, VmInvTerminate
<1>3. ASSUME NEW m \in MapId, NEW n \in 1..MaxPages, VmAllocate(m, n) PROVE VmInv'
  BY <1>3, VmInvAllocate
<1>4. VmBlocks \subseteq Block
  <2>1. UsablePages \subseteq Nat \ {0} /\ 1..MaxPages \subseteq Nat \ {0}
    <3>1. \A b \in ToSet(Usable) : b \in Block
      BY PageAssumption DEF ToSet
    <3>2. \A b \in ToSet(Usable) : PagesOf(b) \subseteq Nat \ {0}
      BY <3>1, BlockFacts
    <3>3. 1..MaxPages \subseteq Nat \ {0}
      BY PageAssumption
    <3>. QED
      BY <3>2, <3>3 DEF UsablePages
  <2>. QED
    BY <2>1 DEF VmBlocks, Block
<1>5. ASSUME NEW m \in MapId, NEW b \in VmBlocks, VmAllocateAt(m, b) PROVE VmInv'
  BY <1>4, <1>5, VmInvAllocateAt
<1>6. ASSUME NEW m \in MapId, NEW k \in MapId, NEW b \in VmBlocks, VmMap(m, k, b) PROVE VmInv'
  BY <1>4, <1>6, VmInvMap
<1>7. ASSUME NEW m \in MapId, NEW at \in UsablePages, VmFree(m, at) PROVE VmInv'
  BY <1>7, VmInvFree
<1>8. CASE VmElsewhere
  <2>1. UNCHANGED vmVars
    BY <1>8 DEF VmElsewhere
  <2>2. PageInv' /\ vmowned \subseteq powned'
    <3>1. CASE PageAlloc(1)
      <4>1. 1 \in Nat \ {0}
        OBVIOUS
      <4>2. PageInv'
        BY <3>1, <4>1, PageInvAlloc DEF VmInv
      <4>. QED
        BY <3>1, <4>2 DEF PageAlloc, VmInv, SegmentsOwnPages
    <3>2. ASSUME NEW b \in powned \ vmowned, PageFree(b) PROVE PageInv' /\ vmowned \subseteq powned'
      <4>1. PageInv'
        BY <3>2, PageInvFree DEF VmInv
      <4>. QED
        BY <3>2, <4>1 DEF PageFree, VmInv, SegmentsOwnPages
    <3>. QED
      BY <1>8, <3>1, <3>2 DEF VmElsewhere
  <2>. QED
    BY <2>1, <2>2 DEF VmInv, SegmentsOwnPages, vmVars
<1>9. CASE UNCHANGED <<pageVars, vmVars>>
  BY <1>9 DEF VmInv, PageInv, OwnedPages, pageVars, SegmentsOwnPages, vmVars
<1>. QED
  BY <1>1, <1>2, <1>3, <1>5, <1>6, <1>7, <1>8, <1>9 DEF VmNext

\* Address spaces use the page allocator as it has to be used: its claims hold when
\* they and kmem.c are its callers.
THEOREM VmPagesRight == VmSpec => []PagesSharedOut
<1>1. VmInv => PagesSharedOut
  BY PageInvShares DEF VmInv
<1>. QED
  BY <1>1, VmInvInit, VmInvNext, PTL DEF VmSpec

\* Whatever tasks allocate, map from others, free and share, and whatever others
\* take from the page allocator: the segments that are not mapped own the pages
\* taken for them, one each, and vm_nommu.c frees them once.
THEOREM SegmentsRight == VmSpec => []SegmentsOwnPages
<1>1. VmInv => SegmentsOwnPages
  BY DEF VmInv
<1>. QED
  BY <1>1, VmInvInit, VmInvNext, PTL DEF VmSpec
=============================================================================

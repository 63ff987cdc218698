# Specifications of the Prex 0.9.0 kernel in libspmp3050

libspmp3050 ports the Prex microkernel to the SPMP3050 ARM chip and adds a small
boot loader. This directory holds TLA+ specifications of the newest kernel tree,
`src/prex-0.9.0`: of its scheduler and synchronization, its messages, timers,
exceptions, interrupt threads, memory and devices, of parts of its process and
file system servers, and of the boot loader's XMODEM receiver. TLC checks them on
small instances; nearly all of the invariants are also proved with TLAPS, for any values
of the constants (section 4).

Paths below are relative to `src/prex-0.9.0` unless they start with `src/`.

## 1. The system

### Components, their state and what makes them right

| component | state | operations | right when |
|---|---|---|---|
| run queues, `sys/kern/sched.c` | `runq[256]`, `maxpri`, `wakeq`, every event's sleep queue, per thread state, priority, policy, time slice, `resched`, lock count, sleep timer | lock, unlock, switch, sleep, wake, suspend, resume, start, stop, priority, policy, tick, yield | the one `sched_link` of a thread is in the queue its state names; the best runnable thread runs whenever the scheduler is unlocked |
| DPC queue, `sys/kern/sched.c` | `dpcq` | `sched_dpc`, `dpc_thread` | every request runs once; a request made while it runs is not lost |
| queues, `sys/lib/queue.c` | links | enqueue, dequeue, insert, remove | a ring |
| mutexes, `sys/sync/mutex.c` | holder, count, priority, sleep queue; per thread its mutexes and the one it waits for | init, destroy, lock, trylock, unlock, cancel, priority inheritance | exclusion, no lost waiter, no inversion, boosts end, deadlock is refused |
| semaphores, `sys/sync/sem.c` | value, references, sleep queue | init, destroy, wait, trywait, post | no lost wakeup, no use of a freed semaphore |
| condition variables, `sys/sync/cond.c` | event, signalled and waiting counts | wait, signal, broadcast | wait gives the mutex back and takes it again |
| messages, `sys/ipc/msg.c` | two queues per object; per thread `ipc_link`, `sendobj`, `recvobj`, `sender`, `receiver` | send, receive, reply, cancel, abort | each message is handled by one thread and answered once; nobody waits for a thread or an object that is gone |
| objects, `sys/ipc/object.c` | object list, names | create, destroy, look up | valid while used |
| threads, `sys/kern/thread.c` | thread list, suspend count, priority, the thread to free next | create, terminate, suspend, resume, schedparam | runs exactly when both suspend counts are 0 |
| tasks, `sys/kern/task.c` | task list, suspend count, resources | create, terminate, suspend, resume, capabilities | both suspend counts decide who runs; termination frees everything once |
| timers, `sys/kern/timer.c` | active and expired lists, tick counter | delay, alarm, periodic, wait for a period | expires on time, whatever the counter wraps to; every expired timer is called |
| exceptions, `sys/kern/exception.c` | handler, pending bits | install, raise, post, mark, wait, deliver | a handler that goes leaves nothing pending that would kill the task |
| interrupts, `sys/kern/irq.c` | request counts | attach, handler, interrupt thread | the thread runs once per request |
| pages, `sys/mem/page.c` | sorted list of free blocks | allocate, free, reserve | no overlap, no leak, neighbours joined |
| kernel memory, `sys/mem/kmem.c` | free lists by size, blocks of a page, allocation counts | allocate, free | blocks fill their pages; a page goes with its last block |
| address spaces, `sys/mem/vm_nommu.c` | maps, segments, references | create, share, end, allocate, free, map | each page in use has one owner, which frees it once |
| devices, `sys/kern/device.c` | list, names, references | create, destroy, open, close, I/O | not freed while used, freed after that |
| process server, `usr/server/proc` | process table, parents and children, vfork flags | fork, vfork, exec, exit, wait | every process has a parent that can wait for it; vfork() suspends the parent for as long as it should |
| exec server, `usr/server/exec` | none between requests | load a program into a new task | the old task goes or goes on |
| file system server, `usr/server/fs` | vnode table, locks, counts, descriptors, mounts, FIFO buffers | POSIX calls as messages | a path has one vnode, freed after its last use; blocked readers and writers are woken |
| power server, `usr/server/pow` | the policy | shut down, suspend | |
| boot loader, `src/cbl` | XMODEM receiver, flash | load a kernel | the received image is the sent one |

### How they interact

There is one CPU. Kernel code is preemptive and protected in two ways: the
scheduler lock (`sched_lock()`, a count in the running thread: interrupts come,
no other thread runs) and masked interrupts (`splhigh()`). Every system call of
`sync/` and `ipc/` takes the scheduler lock on entry, so it is atomic for other
threads up to the point where it sleeps; what it does after the sleep is a second
step, before which other threads and interrupts run. The interrupt entry code
takes the scheduler lock as well, and its release at the exit is where a wakeup
by the handler makes another thread run.

Sleeping objects are built on `sched_tsleep()`, `sched_wakeup()`,
`sched_wakeone()` and `sched_unsleep()`. A woken thread is first put on the wake
queue and becomes ready when the waker releases the scheduler. `sched_unsleep()` is
how time-outs, exceptions, `msg_reply()` and termination end a sleep: it takes the
thread out of the scheduler's queues, not out of the object's own list.
`thread_destroy()` calls `msg_cancel()`, `mutex_cancel()`, `timer_cancel()` and
`sched_stop()`, in this order.

Timers, exceptions and interrupts are the sources of those wakeups: a sleep with a
time-out starts a callout, whose function, called by the timer thread, ends the
sleep; `exception_post()` ends whatever sleep its target is in; an interrupt
handler wakes its interrupt thread or queues a DPC. Memory is in three layers:
`kmem.c` and `vm_nommu.c` take pages from `page.c` and give them back.

The servers are tasks. Clients reach them through stubs of the C library that
send a message and wait for the reply. The process server has one thread and never
sleeps in a request, so its requests are atomic; but `waitpid()` and exec are several
requests, and a stub does its `exception_wait()` after the reply. The file system
server has four threads (`CONFIG_FS_THREADS`) that meet at vnode locks, which are
mutexes of the kernel.

### What is hard here

A thread is woken and something happens before it runs: it is interrupted,
terminated, its mutex is taken or handed on, its object is destroyed, its priority
changes. Nearly every property below is about this window. The other hard parts
are the caches (`maxpri`, `resched`, `m->priority`, `mutex_waiting`) that several
routines keep up to date by hand, and links that are removed on the word of some
other field. In the servers it is the time between a check and the step it was for:
between a reply and a sleep, between unlocking a vnode and `cond_wait()`, between
the last `v_refcnt--` and the removal from the table. `PROJECT.json` lists the
hazards line by line.

## 2. Modules

| module | models | extends |
|---|---|---|
| `PrexQueue` | `sys/lib/queue.c` as sequences, for owners that never unlink twice | |
| `PrexLinks` | the same with the pointers, for owners that may | |
| `Sched` | `sys/kern/sched.c` | `PrexQueue` |
| `Semaphore` | a counting semaphore, as its users see it | |
| `Sem` | `sys/sync/sem.c`, which implements `Semaphore` | `PrexQueue` |
| `Mutex` | `sys/sync/mutex.c`, `thread_schedparam()` | `PrexQueue` |
| `Cond` | `sys/sync/cond.c`, on top of the mutexes | `Mutex` |
| `Ipc` | `sys/ipc/msg.c`, `sys/ipc/object.c` | `PrexQueue`, `PrexLinks` |
| `Timer` | `sys/kern/timer.c` | `PrexLinks` |
| `Deferred` | interrupt threads of `sys/kern/irq.c`, DPCs of `sys/kern/sched.c` | `PrexQueue` |
| `Task` | suspension in `sys/kern/task.c` and `sys/kern/thread.c` | |
| `Exception` | `sys/kern/exception.c` | |
| `Device` | `sys/kern/device.c` | |
| `Page` | `sys/mem/page.c` | |
| `Kmem` | `sys/mem/kmem.c` | `Page`, `PrexQueue` |
| `Vm` | `sys/mem/vm_nommu.c` | `Page` |
| `Proc` | `usr/server/proc` with the stubs `fork()`, `vfork()`, `waitpid()`, and the two halves of exec | `PrexQueue` |
| `Vnode` | `usr/server/fs/vfs`: path lookup, vnodes, open, close, stat, unlink | |
| `Fifo` | `usr/server/fs/fifofs/fifo_vnops.c` | |
| `Xmodem` | `src/cbl/xmodem.c` with the line and a sender | |
| `MCSched`, `MCSem`, `MCMutex`, `MCIpc` | values of the constants for TLC | the module named |
| `MCCondVnode` | one run for `Cond` with faults and for `Vnode` | both |
| `MCServices` | one run for small instances of `Cond`, `Timer`, `Deferred`, `Task`, `Exception`, `Device`, `Kmem`, `Vm`, `Fifo`, `Xmodem` and `Proc` | all of them |
| `PrexQueueProofs` | lemmas about `PrexQueue` and `PrexLinks`, remainders, induction | |
| `SchedProofs`, `SemProofs`, `IpcProofs`, `TimerProofs` | theorems | the module named, `PrexQueueProofs` |
| `MutexProofs` | theorems about `Mutex` and `Cond` | `Cond`, `PrexQueueProofs` |
| `ServicesProofs` | theorems about `Task`, `Exception`, `Deferred`, `Device`, `Page`, `Kmem` and `Vm` | those, `PrexQueueProofs` |
| `ServerProofs` | theorems about `Fifo`, `Proc`, `Vnode` and `Xmodem` | those, `PrexQueueProofs` |

A definition commented `mutant` is a wrong version of the one below it. No other
definition uses it; `PROJECT.json` names for every property of a passing run the
mutant with which TLC refutes the property, so that no property holds for want of
a way to fail.

### Sched

A variable per field or queue of `sched.c`; `pc[t]` says where `t` stands. A
routine that runs under the lock or with interrupts masked is one action.
`sched_unlock()` and `sched_tsleep()` are split where they can lose the CPU or take
an interrupt: `SchedUnlock` or `IsrExit`, rounds of `WakeqFlush`, then
`UnlockSwtch` and `UnlockAgain`, or `UnlockDone`; and `Tsleep`, `WakeqFlush`,
`TsleepSwtch`, `TsleepReturn`. `IsrEnter`, `Tick` and `IsrExit` are the interrupt
path of `bsp/hal/arm/arch/locore.S`; a handler may call `Wakeup` and `Wakeone`.
Callers are as general as the code's preconditions let them be (the routines that
require the scheduler lock are called with it, only threads call
`sched_unsleep()`, nobody suspends or stops the idle thread).

### Sem, Mutex, Cond and Ipc

These modules take from `Sched` that a call holding the scheduler lock is not
interleaved with other threads and that every woken thread has left `TS_SLEEP`
when another thread runs, so `sched_unsleep()` finds a thread asleep or does
nothing. Which runnable thread runs next is left open: the thread with the best
priority may be suspended or busy elsewhere, and this is more general than any
schedule. Priorities enter where the code compares them. A call is one action up to
its sleep (`SemSleep`, `LockWait`, `CondWait`, `Send`, `AwaitMessage`) and one after
it (`SemRetry` and `SemFail`, `LockReturn`, `SendReturn`, `ReceiveWoken` and
`ReceiveFails`). `cond_wait()` locks its mutex again after it has unlocked the
scheduler, so that is a call of its own (`RelockTaken`, `RelockWait`,
`RelockInvalid`).

`Semaphore` has the units and the threads that want one, no queue and no wakeups:
a post adds a unit, a wait takes one, when there is one, and a wait may fail.
`Sem!ImplementsSemaphore` maps to it the value and the set of threads inside
`sem_wait()`; a post with waiters is a post, the later retry of the woken
thread takes the unit, and everything about the queue and the references is a
stutter.

What the rest of the kernel does to these threads is a parameter: `Interruptible`
names the threads that exceptions reach (`exception_post()`), `Killable` those that
are terminated, `Repri` those whose priority is changed. The code goes wrong in
many combinations (section 5), and every run fixes the parameters for which its
properties do hold. The next-state relation of `Mutex` has its calls only; that of
`Cond` adds these three to the calls of both modules.

`Ipc` models links with pointers: `msg.c` unlinks threads that are out of their
queue already, which writes through the pointers they had. `Removed` and `Enqueued`
are the assignments of `queue.c`; a queue is what a walk along `next` finds.

### Timer, Deferred, Task, Exception and Device

Their routines lock the scheduler or mask interrupts and are one action each.
What they are split at: the timer thread opens interrupts between taking a timer off
the expired list and calling its function (`TimerThread`, `TimerCall`), the
interrupt thread and the DPC thread while they call a function (`IrqThread` is a
round of the loop, `DpcThread` and `DpcCall` are two), a call into a driver sleeps
(`DeviceOpen` or `DeviceCall`, and `DeviceReturn`), `exception_wait()` tests the handler before it locks
the scheduler (`ExcWait`, `ExcWaitSleep`). `Timer` keeps `texpire` and `lbolt` modulo
`Wrap` and compares them as `time_before()` does, through the sign of the difference.

### Page, Kmem and Vm

Addresses are page numbers, sizes are in pages, in `Kmem` in units of `ALIGN_SIZE`.
`page_alloc()` is first fit, `page_free()` joins neighbours, `page_reserve()` cuts.
`Kmem` and `Vm` use `PageAlloc`, `PageFree` and `PageReserve` as subactions, and in both
others take pages as well.

### Proc, Vnode, Fifo and Xmodem

`Proc`: a request to the process server is one action, since its single thread
answers one message at a time and is better than its clients. `Fork` is the request of
`fork()` and of `vfork()`, in which `vfork_start()` gets memory for the parent's stack or
not (`saved`); the child may run from then on, and the parent's `task_suspend()` is a step
of its own (`VforkSuspend`). `waitpid()` is a request (`Reap` or `WaitChecked`) and a sleep
(`WaitSleep`), ended by the SIGCHLD of a child; exec is `ExecStart`, which
suspends the old task, and `Exec`, the registration of the new one.

`Vnode`: `th[t]` is a request in progress: what it wants, the prefix of the path it
looks at, the vnodes it holds, the `vput()`s it still owes. Sections under `VNODE_LOCK`
are one action. `vput()` counts down without that lock, so its load and its store are
two (`PutLoad`, `PutStore`), and removes the vnode from the table in a third (`PutFree`).
Any set of paths that is a tree (`FileTree`) may exist, so a name is missing at the end
of a path or before it, or is a file where a directory is asked for (`Directory`).
`LockRefused` is the answer `EDEADLK` of `mutex_lock()`, in a circle of any number of
threads. A file whose `VOP_CLOSE()` has failed is still counted in `files`, and in
`unclosed`, since it keeps its reference (`CloseFails`).
`raced` names the first of six steps at which the server went wrong, five of them because
two threads met (section 5); from then on the modelled server stands still.

`Fifo`: `cond_wait()` is two steps, "going" with the vnode unlocked and "asleep".
`Xmodem`: the line is two sequences, one for each direction; a packet is garbled or
lost when it is sent, and what the receiver does with one is one action.

### History variables

Variables commented `history` are what an observer would write down, and no guard of
the code reads them. `depth`, `ownerref`, `destroys`, `progress`, `left`, `due`, `dowed`,
`dboot`, `trapped`, `powned`, `kowned`, `vmowned`, `vchild` and `xwritten` record what calls were
granted or still owe. `broken` records that memory was misused, after which the
modelled kernel stops, since what it does then depends on garbage; `raced` is the same
for the file system server. `astray` of `Mutex` records that `sched_wakeone()` has
returned another thread than the one it woke, which the run `mutex_handoff` shows to
happen; `MutexBooksRight`, `NoDeadlock`, `BoostEnds`, `BoostReachesBlockers`,
`LockTerminates` and `SignalReturns` speak of the time before that. `strayed`,
`abandoned`, `unseen` and `missed` name the wakeups of vfork, waitpid and FIFOs that the
code does give too early (the first) or lose, so that `VforkSuspends`, `WaitersMissOnly`
and `OnlyWindowMisses` say that there are no others: `abandoned` are the parents that
nobody resumes from `vfork()`.

### Abstracted everywhere

Error returns that change nothing (`EINVAL`, `EPERM`, `EFAULT` before any update), user
addresses, names, capabilities, limits on the number of objects, message bodies,
time accounting. A freed semaphore is not allocated again in `Sem` while a thread
still is inside it; a freed object may be created again at its address in `Ipc`, and a
device in `Device`. A semaphore of `Sem` is one structure, the threads of `Mutex` are
of one task, `Fifo` is one FIFO, `Exception` one task.

## 3. Runs

| run | instance | shows |
|---|---|---|
| `sched_all` | 2 threads and idle, priorities 0..2, quantum 2, 2 locks deep, all routines; 450 000 states | run, wake and sleep queues match the threads' states and only sleepers have a timer running, `maxpri` is the best, priority scheduling at every unlock |
| `sched_three` | 3 threads and idle; 53 000 states | place of a preempted thread, round robin, wakeups take effect |
| `mutex_locks` | 3 threads of distinct priorities, 2 mutexes, one of them locked 2 deep; 7 200 states | the books of holders, counts, lists and waiters; deadlock is refused; boosts reach every blocker and end; the best thread gets its mutex |
| `cond_vnode` | `Cond`: 2 threads, 2 mutexes, a condition variable; exceptions, termination, priority changes; 524 000 states. `Vnode`: 3 server threads, 2 vnodes beside the root, a file in a directory and a name that goes on behind the file, any of them missing; 373 000 states up to the order of the threads | what survives all the faults: a thread sleeps in one queue at most, no boost makes a thread worse. One vnode for a path, counted and locked by who uses it |
| `mutex_handoff` | 3 equal threads, 1 mutex | *violation*: the recorded holder sleeps on |
| `sem_calls` | 4 threads of 2 tasks, exceptions, time-outs, termination, one destroy per life of the semaphore; 36 000 states | references, lost wakeups; refinement of `Semaphore`, its liveness included |
| `sem_destroy` | 3 threads, two destroys | *violation*: freed under a woken waiter |
| `ipc_calls` | 2 clients, 2 servers, 2 objects, one server also a client; 51 000 states | senders and receivers match, no receiver idles beside a message, links stay sound, the best clients' calls return |
| `ipc_faults` | 2 clients, 2 servers that are interrupted and terminated, copies that fail, an object destroyed and created again; 472 000 states | no message is lost, no sender waits for a dead server, success means a reply |
| `ipc_late` | 2 clients, one interrupted, 1 server | *violation*: a send ends with success before its message was received |
| `services` | eleven components that share no state, one of them chosen in the initial state; 121 000 states | a property or two for each of them (below) |
| `timer_again` | the timers of `services`, with `timer_periodic()` for an active timer | *violation*: the timer list is broken |

The components of `services` and their properties:

| component | instance | properties |
|---|---|---|
| `Cond` | 3 threads of distinct priorities, 1 mutex, 1 condition variable | `SignalReturns`: the best signalled thread comes back with its mutex |
| `Timer` | 2 callouts, one of them an interrupt routine's, 1 periodic timer, delays up to 2, a counter that wraps at 6 | `Punctual`, `ExpiredAreCalled` |
| `Deferred` | 1 vector, 2 DPCs, up to 2 requests behind | `IstRequestsKept`, `DpcsKept` |
| `Task` | 2 tasks, 3 threads, counts up to 2 | `RunsOnlyResumed` |
| `Exception` | 2 threads, 2 exceptions | `PostsNeverKill` |
| `Device` | 2 devices, 2 names, 3 threads | `DeviceHeld` |
| `Kmem`, `Page` | 3 usable pages in two blocks with a hole; pages of 6 units, blocks of 2 and 3 | `KmemBlocksExact`, `PagesSharedOut` |
| `Vm`, `Page` | the same pages, 2 maps shared by up to 2 tasks, 2 segments each | `SegmentsOwnPages`, `PagesSharedOut` |
| `Fifo` | 2 readers, 1 writer, a buffer of 2, writes of up to 3 | `OnlyWindowMisses` |
| `Xmodem` | a file of 6 packets, sequence numbers modulo 4, 2 packets on the line | `XmodemInOrder` |
| `Proc` | init and 2 more processes, PIDs below 4, so that they run out | `FamilyTree`, `VforkSuspends`, `WaitersMissOnly` |

Bounds. Three priorities give better, equal and worse. Two threads and the idle
thread meet every pair of states in `sched.c`; a third is needed for order inside a
queue and for the choice among sleepers, which `sched_three` adds. Two mutexes make
a circle and a nested boost possible, three threads a chain and a choice among
waiters. `MaxLocks`, `MaxDepth`, `MaxDestroy`, `MaxReq`, `MaxSuspend`, `MaxRef`,
`MaxSegs`, `MaxOpen` and `MaxLine` bound counters in the guards: one level above the
first is where the nested branch differs from the outermost one. `MaxDepth` is given
for each mutex: a second mutex locked twice adds states and no new case, as the count
of one mutex is never compared with that of another. A semaphore value of 0, 1
and 2 covers empty, positive and full. `Wrap` is the least multiple of two for which a
delay and a tick the timer thread is late stay within half of the range, as any delay
does with 32 bits. In `Xmodem` the assumption `2 * MaxLine <= SeqNumbers` stands for
256 sequence numbers and a line that holds a few packets; beyond it the protocol
itself accepts an old packet. Three server threads make a circle of locks in which no two
wait for each other. Symmetry among the ordinary threads is used in `sched_all`, among
the server threads in `cond_vnode`: their properties do not name threads, and neither
run has a liveness property. The components other than `Sched`
may stop (a thread may wait for ever when nobody calls, a broken kernel stops), so
TLC's deadlock check is off there; deadlock among mutex users is the invariant
`NoDeadlock`.

Fairness. `Sched`: kernel code that holds the CPU goes on (`Switching`,
`SchedUnlock`), interrupt handlers return and the clock ticks; strong fairness,
since interrupts disable these steps again and again for a moment only. `Mutex` and
`Cond`: holders unlock and woken threads run, strongly for the unlocks, since a holder
sleeps or is raised in between. `Sem`: woken threads run, which is enough for the
fairness of `Semaphore` (a unit does not stay while threads wait, but for one unit per
terminated thread). `Ipc`: woken threads run, and servers receive and reply, as the
main loop of every server in `usr/server` does; strong for `Receive`, since a message
is there only at times. `SendReturns` and `LockTerminates` are about the best clients
and threads: a worse one can be overtaken for ever, as the code means it.

## 4. Proofs

`SchedProofs` proves for all values of the constants that satisfy `SchedAssumption`
(an idle thread among the threads, at least two priorities, a positive quantum):

- `TypeCorrect`: `TypeOK`, with the lock counts of threads inside the switch code;
- `QueuesCorrect`: `QueuesMatchStates`, which is `ThreadsAreQueued` and
  `TimeoutOnlyAsleep`: the queues and the sleep timers (`TimeoutCorrect`);
- `MaxpriCorrect`, `ReschedCorrect`: `MaxpriIsBest`, `ReschedCoversBetter`;
- `SchedulingCorrect`: `PriorityScheduling`;
- `PreemptionCorrect`: the action property `PreemptedStaysFirst`.

The invariant is built in layers, each inductive given the ones before:

1. `Typing` adds to the types that a thread inside `sched_unlock()` or
   `sched_tsleep()` holds the lock, and the interrupt handler one more. Without it
   a count could become negative.
2. `Linking` adds to `ThreadsAreQueued` what is known of the thread on the CPU: it
   is asleep only on its way through `sched_tsleep()`. This is why `wakeq_flush()`
   may skip it, and why `sched_swtch()` may put it back in a run queue without
   linking it twice.
3. `Choosing` is `MaxpriIsBest` and `ReschedCoversBetter`. The flag is only set when
   `maxpri` improves; the induction shows that a better thread behind an equally
   good `maxpri` finds the flag set.
4. `PriorityScheduling` follows at the step that releases the last lock: the wake
   queue is empty, the flag is clear, so `ReschedCoversBetter` says that nobody
   better is ready.

`TimeoutOnlyAsleep` is inductive beside the first two layers: a timer is started by a
thread that has just joined a sleep queue, and every step that takes a thread out of
one stops its timer.

`SemProofs` proves for every finite set of threads (`SemFinite`: the references
are counted) and all values of the other constants that satisfy `SemAssumption`, with
any threads interrupted, timed out and terminated:

- `TypeCorrect`, `QueueCorrect`: `TypeOK`, `QueueIsSleepers`;
- `WakeupsCorrect`: `NoLostWakeup`;
- `ReferencesCorrect`, `FreeCorrect`: `ReferencesAreCounted` and `NoUseAfterFree`,
  when `MaxDestroy <= 1`, which says that `sem_destroy()` succeeds once at most
  after each `sem_init()`. The run `sem_destroy` shows that the last one fails without it.
- `SemaphoreRefined`: `Sem` implements `Semaphore`: the initial states map to initial
  ones, every step to a step or a stutter. The fairness of `Semaphore` is
  model-checked (`ImplementsSemaphore`).

`Sleeping`, the types and the queue, is inductive by itself: every way out of
`sched_tsleep()` takes the thread off the queue. Given it, `NoLostWakeup` is
inductive: a post that adds a unit while somebody sleeps also adds one woken thread,
and a woken thread leaves by taking a unit, by finding none, or by being
terminated. `Counting` strengthens the claims about references: the semaphore is valid
exactly while its count is positive, and until it is destroyed the owner's reference is
among those counted. Then the references are the owner's, one for each thread inside
`sem_wait()` and at most one for each terminated thread, so the one that
`sem_destroy()` drops is the owner's, and no thread inside is left without one.

`MutexProofs` proves, for all finite sets of threads and of mutexes (`MutexFinite`), of
the mutex calls with condition variables, exceptions, terminations and priority changes
(`CondSpec`)

- `OneQueuePerSleeper`, `InheritanceOnlyRaises`: `OneSleepQueue` and `NeverBelowBase`,

and of the mutex calls alone (`Spec`), where priorities and threads stay as they are,

- `BooksAgree`, `InheritanceEnds`: `MutexBooksRight`, `BoostEnds`;
- `NoCircularWait`: `NoDeadlock`, with the end of the loop in `prio_inherit()`;
- `InheritanceReaches`: the action property `BoostReachesBlockers`.

These four speak of the time until `astray`, that is, until a hand-over to one of several
waiters in which the thread recorded is not the one woken; nothing is claimed of
boosts and circles after it.

`Basic` and `CondBasic` are the layer that every fault keeps: who sleeps is in the queue
of what it sleeps on, once, whatever ends the sleep. `Books` says of every mutex that it
is `Idle`, `Held` by one thread, or `Passing` to the thread that `mutex_unlock()` woke;
`MutexBooksRight` is not inductive without the third case, in which the mutex has left
the list of its old holder and is not yet in that of the new one. `Acyclic` says that no
set of threads waits within itself. It is kept because `mutex_lock()` looks along the
chain before it sleeps and because a mutex that changes hands gets a holder that does not
sleep; and since a chain without a circle has at most as many mutexes as there are, the
loop of `prio_inherit()` ends and has visited all of them, which is `BoostReachesBlockers`.

`IpcProofs` proves, for all finite sets of threads and objects (`IpcFinite`) whose links
are distinct (`IpcLinks`), under two hypotheses about who is disturbed:

- when the clients serve nobody and are neither interrupted nor terminated
  (`SteadyClients`), while any server may be, objects come and go and copies fail:
  `MessagesHandled`, `MessagesQueued` and `RepliesReal` (`HandledByLive`,
  `QueuedUntilReceived`, `SuccessMeansReplied`). The run `ipc_late` violates the last one
  with an interrupted client, so the hypothesis cannot be dropped.
- when nobody is interrupted or terminated (`Undisturbed`), but any thread may be client
  and server at once: `PartnersAgree` and `QueuesSound` (`PartnersMatch`, `LinksIntact`),
  and without copy faults `ReceiversAwake` (`NoIdleReceiver`). Section 5 says how an
  interrupted or terminated receiver breaks the last two.

`FaultInv` joins what a client is told (`Handled`, `Ended`) to what its handler holds
(`Handling`) and to the send queues, as rings of pointers; `Apart` says that the ruined
links of servers never lead into those of clients and send queues, which is why their
damage stays among them. `CallInv` has both queues of every object and the two
directions of the pairing. `NoIdle` counts: an object with listeners has at least as many
receivers on their way as messages.

`TimerProofs` proves, for every finite set of timers (`TimerFinite`) and any delays
shorter than half of the range of the tick counter (`TimerAssumption`; a wrap anywhere),
`TimersSorted`, `TimersPunctual` and `TimersCalled` (`TimerListSorted`, `Punctual`,
`ExpiredAreCalled`), when `timer_periodic()` is called only for timers that are not active
(`TimerOps = {}`). The run `timer_again` shows the lists broken otherwise. `TimerInv` says
for some set of expired timers that they are the second ring and the other active ones
the first, in the order of the ticks they have to go (`Lined`). `BeforeMeansSooner` is
the arithmetic: the signed difference of `time_before()` compares the ticks to go of any
two times less than half of the range ahead. One tick takes the same tick from all of
them, so the order stays; the timers the handler takes off are those with none to go,
and what it does to one is carried through its loop by induction (`TickAllStage`).

`ServerProofs` proves

- `WindowCorrect` (`OnlyWindowMisses`) for any readers and writers of a FIFO: `Waiting`
  adds that a thread between its unlock and its sleep misses what a sleeper would;
- `FamilyTreeRight`, `VforkSuspended`, `WaitersRight` (`FamilyTree`, `VforkSuspends`,
  `WaitersMissOnly`) for any set of processes: `Parents` adds to the tree that parents run and
  orphans are init's, `Watchful` that a thread on its way into the sleep of `waitpid()`
  is told of every zombie but the `unseen` ones. `VforkInv` is `Sharing`, that a child in
  the memory of its parent has a parent in `vfork()`, with the children `strayed` excepted,
  and `Vforking`, that a parent in `vfork()` has a child to wait for, with the parents
  `abandoned` excepted;
- `VnodesRight` (`VnodesCounted`) for any finite set of server threads (`VnodeFinite`), any
  vnodes and paths, until the first of the six steps is met. `VnodeInv` says at which
  place of the code a thread names which vnodes (`Placed`), that it has locked exactly
  those of `Mine`, none twice (`Locking`), and that a vnode whose path is not in the file system
  is `HalfMade`: some thread is about to ask for it or to put it (`Naming`). So a thread
  that finds a vnode and gets its lock finds a file that exists, which is what keeps
  `sys_open()` from opening a vanished one. The sum of the threads' references is the
  cardinality of a set of tokens, which one step changes for one thread
  (`TokensChange`); a count of zero or one then says who uses a vnode that goes
  (`NobodyUses`, `OnlyOneUses`);
- `XmodemCorrect` (`XmodemInOrder`) for a file of any length, any cycle of sequence
  numbers at least twice as long as the line (`XmodemAssumption`), and any losses: `Lead`
  bounds how far the sender can be ahead of a block that has not arrived, by the packets
  and ACKs on the line; below a whole cycle a sequence number names one block.

`ServicesProofs` has the modules that need little beside types:

- `SuspensionCorrect` (`RunsOnlyResumed` of `Task`): inductive with the types.
  A resume takes a thread out of `TS_SUSP` only when both counts reach zero; what a
  task resume takes off a thread's own count can only bring it closer.
- `PostsCorrect` (`PostsNeverKill` of `Exception`): inductive with the types of
  the pending bits; exceptions are posted only while there is a handler, and its
  removal clears the bits of every thread of the task.
- `RequestsCorrect` and `DpcsCorrect` (`IstRequestsKept`, `DpcsKept` of `Deferred`): the
  second needs `Queued`, that the DPCs in the queue are those marked
  `DPC_PENDING`. This is how `sched_dpc()` knows not to link one twice, and clearing the
  mark before the call and not after it is why a request made meanwhile is not lost.
- `DevicesCorrect` (`DeviceHeld` of `Device`): inductive with the types, for every
  finite set of threads (`DeviceFinite`), from what adding and removing one thread does
  to a cardinality.

- `PagesRight` (`PagesSharedOut` of `Page`) for any usable and reserved blocks of memory with
  which `page_init()` does not panic (`PageAssumption`), and any requests, releases and
  reservations. `PageInv` says that the list is `Ascending`: in order, and no two blocks
  adjoin. Between the insertion of `page_free()` and its two joins they may, at the positions
  `Ascending` is told of; that two joins are enough, and in this order, is
  `FreedAscending`. That the memory is right to begin with is an induction over the
  blocks `page_init()` is told of (`BootRight`). `KmemPagesRight` says the same of the
  allocator under `Kmem`, each of whose steps is one of `Page` or none.
- `KmemRight` (`KmemBlocksExact` of `Kmem`) for any memory and sizes. `Books` has the four
  books of the allocator, with room for the blocks in limbo, which a call has taken out of
  the free lists and not yet handed out or dropped: each page is `Cut` without gaps, free
  blocks are listed `BySize`, once, owned ones `Counted` in `nallocs`, and the free,
  the owned and those in limbo share out all blocks (`Shared`). A page that comes from
  the page allocator is not yet a kernel page, since those are owned there
  (`PageInv`). A page that goes takes all its blocks out of the lists, by
  induction over its chain (`BooksUnlistedAll`), and they are free, all of them, because
  `nallocs` counted the last owned one.
- `SegmentsRight` and `VmPagesRight` (`SegmentsOwnPages` of `Vm`, `PagesSharedOut`) for any
  maps, beside another user of the page allocator. `VmInv` needs nothing but types
  and `PageInv`: a block just taken is free, so no segment owns it; and that two segments
  never own one block is why the loop of `vm_terminate()` finds each of its blocks still
  owned when it frees it (`SegmentsGoFrees`, by induction over the loop).

`PrexQueueProofs` has the facts on which the others rest: what `Append`, `Tail`, `Without`
and the concatenation do to the items of a sequence without repetitions; what `enqueue()`,
`queue_remove()` and a walk do to a ring of pointers (`Ring`); remainders. The models walk
rings and chains with recursive functions. Induction is done with sets in place of
formulas: `SetInduction` says that a set of numbers that has 0 and with i also i + 1 has
all up to n, and is proved from the least element of a set; the set is then that of
the numbers for which the claim holds, and `Iterated`, `MeetsUnfolds`, `TickUnfolds`,
`BootUnfolds`, `UnlistAllIs` and `SegmentsGoIs` show in this way that the function which a recursive
definition chooses exists.

Only model-checked: liveness (`RoundRobin`, `WakeupsTakeEffect`, `LockTerminates`,
`SignalReturns`, `SendReturns`, the fairness in `ImplementsSemaphore`), which needs
fairness and ENABLED and so is out of the prover's reach. Every invariant and every action
property of a passing run is stated by a theorem.

## 5. What the code does not keep

Four runs show a disagreement between the code and its comments, in a small
instance that has it; `PROJECT.json` quotes the comments:

- `mutex_handoff`: `sched_wakeone()` returns the last thread its scan looked at
  (`sys/kern/sched.c:363`) instead of the one it woke, and `mutex_unlock()` records
  that thread as the holder.
- `sem_destroy`: `sem_destroy()` does not count a woken waiter as a waiter; a second
  call drops its reference.
- `ipc_late`: the reply to an interrupted `msg_send()` ends the next one.
- `timer_again`: `timer_periodic()` links an active timer a second time
  (`sys/kern/timer.c:290`).

Other places, which the parameters of the passing runs leave out, the history
variables name, or the properties allow for:

Mutexes and condition variables
- After a wrong hand-over (`astray`) two threads can hold a mutex once an exception
  ends a sleep, and three threads can wait for each other undetected.
- `mutex_cancel()` links a mutex into the heir's list, and the heir links it again
  (`sys/sync/mutex.c:342`, `:231`); an heir terminated before it runs leaves the other
  waiters asleep (`:338`). `mutex_locks` therefore has no termination.
- An interrupted thread keeps `mutex_waiting` until it runs; `prio_inherit()` can follow
  it to a mutex without holder (`:425`). Its fail-safe never fires (`:452`).
- `m->priority` is written only when the holder is worse than the waiter (`:443`), so
  an unlock can drop a priority another waiter needs; `mutex_setpri()` passes the
  priority on before it is changed (`:356`); `thread_schedparam()` recognises a boost
  by `priority != basepri` and loses the request made meanwhile (`sys/kern/thread.c:360`).
  `BoostReachesBlockers` is about the moment a thread falls asleep for this reason.
- `mutex_cleanup()` of a dying task frees mutexes before its threads are cancelled, which
  still point to them (`sys/sync/mutex.c:168`).
- `cond_wait()` returns `EINTR` without its mutex, and its caller's retry unlocks a mutex
  it does not hold (`sys/sync/cond.c:165`).

Semaphores, messages, scheduler
- A thread terminated between its wakeup and its turn takes the wakeup of a semaphore
  with it; `NoLostWakeup` allows for one unit per terminated thread.
- In `msg.c`, a sender that is interrupted or terminated after its message was received
  or replied to unlinks itself a second time (`sys/ipc/msg.c:147`, `:366`), and so does a
  receiver that `msg_send()` or `msg_cancel()` took off the queue before it is interrupted
  (`:239`) or terminated (`:373`). With two objects the second removal can break the queue
  of the other object, so `LinksIntact` is a property of `ipc_calls`; only servers
  are interrupted and terminated in `ipc_faults`. A message put back after a failed copy,
  or announced to a receiver that an exception has woken already, leaves another receiver
  asleep beside it (`:265`, `:135`), so `NoIdleReceiver` is a property of `ipc_calls` only.
  A received message is in no queue when its object goes, and its sender sleeps on
  (`:396`); a woken receiver reads the queue of an object destroyed before it ran
  (`:221`), which `broken` records.
- In `sched.c`, an equal thread that becomes ready while the run queues are empty
  displaces a running SCHED_FIFO thread (`sys/kern/sched.c:122`). `sched_stop()` takes a
  sleeping thread off its queue with interrupts on (`:485`): a wakeup from a handler before
  `queue_remove()` is one before the call, as the same `queue_remove()` then takes
  the thread off the wake queue; one in the middle of it would break a queue. `Stop` is
  one step, so the model does not have that.

Kernel services
- A thread resumed by hand under a suspended task stays in `TS_SUSP` after the task is
  resumed (`sys/kern/thread.c:288`); a thread created under a task that is suspended
  twice counts both (`:112`) and is resumed once. Both make a thread run too seldom, and
  `RunsOnlyResumed` is about too often.
- `exception_wait()` sleeps beside an exception that came after the handler was tested, and
  its `ASSERT` fails when the handler is removed between the wakeup and its turn; the thread
  `exception_post()` falls back to is the newest, its comment says the master thread.
- `timer_periodic()` allocates the size of a pointer for its timer (`sys/kern/timer.c:275`).
- A name stays taken while a destroyed device waits for its users, and a thread that is
  terminated inside a driver keeps its reference for ever; `DeviceHeld` counts it.
- In `vm_nommu.c`, an allocation at an unaligned address can miss its last page, a mapping
  may outlive the pages it shows, and `vm_map()` checks the limit of the target but
  charges the caller. The model allocates whole pages and has no limits.
- The page counts of `page_info()` subtract boot disk pages twice; the model has the list.

Servers
- In the process server, the exit or exec of any child ends the vfork of its parent
  (`strayed`). When `vfork_start()` gets no memory (`usr/server/proc/proc_fork.c:187`),
  `sys_fork()` does not look (`:152`), the stub suspends the parent
  (`usr/lib/posix/process/fork_nommu.c:142`), and nobody resumes it; the same when the child
  ends before that `task_suspend()`, as `task_resume()` then fails (`abandoned`), and
  `vfork_end()` has written the saved stack over that of a running parent. A
  failed exec leaves the old task suspended, and a vforking parent with it
  (`usr/server/exec/exec_execve.c:153`); the PID of a zombie may be given away; init gets no
  SIGCHLD for a zombie it adopts, and a SIGCHLD that comes between the request and
  the sleep of `waitpid()` is lost (`unseen`). `exception_wait()` returns `EINTR` when it
  succeeds, so a `waitpid()` that has slept returns no child and `EINTR`, after SIGCHLD as
  after any other exception (`usr/lib/posix/process/waitpid.c:75`), and only
  the next one finds the zombie. `Proc` has no failing exec, and its `fork()` is the one of
  a system with MMU; without, the stub returns `ENOSYS`.
- In fifofs, a wakeup between unlocking the vnode and `cond_wait()` is lost
  (`usr/server/fs/fifofs/fifo_vnops.c:479`, `missed`).
- In vfs, five windows between threads (`raced`): `vput()` counts down without
  `VNODE_LOCK`, against the comment at `usr/server/fs/vfs/vfs_vnode.c:55`, and a count is
  lost; a lookup finds a vnode whose count is zero before it is off the table; a lookup that
  fails takes a vnode away that another has found; `unlink()` looks at `vcount()` and then
  destroys a vnode that was found meanwhile; `unlink()` locks the file before the
  directory, a lookup the other way round, `mutex_lock()` returns `EDEADLK`, to the
  last of any number of threads in a circle, and nobody looks. A sixth step needs one
  thread: for a name in the middle of a path that is not a directory `namei()`
  puts both vnodes, returns 0 and sets no `*vpp`, and its callers use and put what that
  was (`usr/server/fs/vfs/vfs_lookup.c:115`). A component that `vn_lookup()` finds (`:106`)
  gets no such check; the lookup of the next name then fails in the file system.
- When `VOP_CLOSE()` fails, `sys_close()` keeps the reference to the vnode with a file
  whose count is zero, and a second close of it panics
  (`usr/server/fs/vfs/vfs_syscalls.c:165`, `unclosed`).

Boot loader
- `xmodemInFlush()` reads until no byte comes, with a read that waits for one, and
  never returns: the receiver survives lost and repeated packets and gets stuck at the
  first sequence number it does not expect. The transfer then never ends; what was
  written is in order.

## 6. Plan

Done: the modules of section 2 and the proofs of section 4.

Next, in this order:

1. Termination of a task with its clean-up order and the deferred deallocation, with
   `mutex_cleanup()`, `sem_cleanup()` and `cond_cleanup()`.
2. `Vnode`: descriptors shared by `dup()` and `fork()`, creation, mounting. `dup2()` of a
   descriptor to itself and the unlocked `f_count` are suspects.
3. Signals between processes, process groups and `kill()` in `Proc`; `exec` that fails.

### Not modelled

- Drivers, the hardware abstraction, `main()`, the system call tables: registers and
  tables, no protocol between actors that a model would add to. What `locore.S` does to the
  scheduler lock is in `Sched`.
- `vm.c`, page tables and copying on fork: not built for the SPMP3050, whose
  configuration (`conf/arm/spmp`) has no MMU.
- The C library and programs, most of them imported; of the library the stubs that
  `Proc` needs are modelled.
- The loaders of the exec server (file formats), ramfs, fatfs, arfs and devfs (data
  layouts under the vnode locks), the power server (one variable behind a message loop).
- The older kernel trees `src/prex` and `src/prex-mmu`, earlier versions of what
  `src/prex-0.9.0` holds, and host tools (`spload`, which loads code over USB, among
  them). Together with drivers, tables and imported
  code they are nearly all of the repository's lines, so the models stand for a
  small share of it: the part in which things happen in an order nobody fixed.

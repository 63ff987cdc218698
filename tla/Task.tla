-------------------------------- MODULE Task --------------------------------
(***************************************************************************)
(* Suspension of tasks and threads, sys/kern/task.c and sys/kern/thread.c: *)
(* both have a count, and a thread is stopped (TS_SUSP) by either.         *)
(*                                                                         *)
(* Every call holds the scheduler lock, so it is one step.  Who may call   *)
(* it (task_access()) is left out; a task is not resumed by itself.        *)
(***************************************************************************)
EXTENDS Integers, FiniteSets

CONSTANTS
  TaskId,      \* addresses of struct task
  TaskThread,  \* addresses of struct thread
  NoTask,      \* the NULL pointer
  MAXTHREADS,  \* of a task
  MaxSuspend   \* bound on the suspend counts

ASSUME TaskAssumption ==
  /\ NoTask \notin TaskId /\ MAXTHREADS \in Nat /\ MaxSuspend \in Nat

VARIABLES
  tasks,       \* the tasks on task_list
  taskof,      \* t->task, NoTask for a thread that does not exist
  tasksuscnt,  \* task->suscnt
  suscnt,      \* t->suscnt
  stopped      \* the threads in TS_SUSP

taskVars == <<tasks, taskof, tasksuscnt, suscnt, stopped>>

TaskInit ==
  /\ tasks = {}
  /\ taskof = [t \in TaskThread |-> NoTask]
  /\ tasksuscnt = [k \in TaskId |-> 0]
  /\ suscnt = [t \in TaskThread |-> 0]
  /\ stopped = {}

ThreadsOf(k) == {t \in TaskThread : taskof[t] = k}

\* What is left of the threads of S after sched_stop() and thread_deallocate().
Deallocate(S) ==
  /\ taskof' = [t \in TaskThread |-> IF t \in S THEN NoTask ELSE taskof[t]]
  /\ suscnt' = [t \in TaskThread |-> IF t \in S THEN 0 ELSE suscnt[t]]
  /\ stopped' = stopped \ S
-----------------------------------------------------------------------------
\* task_create(): without threads.
TaskCreate(k) ==
  /\ k \notin tasks
  /\ tasks' = tasks \cup {k}
  /\ tasksuscnt' = [tasksuscnt EXCEPT ![k] = 0]
  /\ UNCHANGED <<taskof, suscnt, stopped>>

\* task_terminate(), as far as threads are concerned.
TaskTerminate(k) ==
  /\ k \in tasks
  /\ tasks' = tasks \ {k}
  /\ tasksuscnt' = [tasksuscnt EXCEPT ![k] = 0]
  /\ Deallocate(ThreadsOf(k))

\* thread_create(): the thread waits for its thread_resume(), and for the task.
ThreadCreate(k, t) ==
  /\ k \in tasks /\ taskof[t] = NoTask
  /\ Cardinality(ThreadsOf(k)) < MAXTHREADS
  /\ taskof' = [taskof EXCEPT ![t] = k]
  /\ suscnt' = [suscnt EXCEPT ![t] = tasksuscnt[k] + 1]
  /\ stopped' = stopped \cup {t}
  /\ UNCHANGED <<tasks, tasksuscnt>>

\* thread_terminate().
ThreadTerminate(t) ==
  /\ taskof[t] # NoTask
  /\ Deallocate({t})
  /\ UNCHANGED <<tasks, tasksuscnt>>

\* thread_suspend().
ThreadSuspend(t) ==
  /\ taskof[t] # NoTask /\ suscnt[t] < MaxSuspend
  /\ suscnt' = [suscnt EXCEPT ![t] = @ + 1]
  /\ stopped' = IF suscnt[t] = 0 THEN stopped \cup {t} ELSE stopped
  /\ UNCHANGED <<tasks, taskof, tasksuscnt>>

\* The threads that thread_resume() of the threads of S sets going, when the
\* suspend count of their task is cnt.
GoesAtZero(S, cnt) == {t \in S : suscnt[t] = 1}                     \* mutant

Goes(S, cnt) == {t \in S : suscnt[t] = 1 /\ cnt = 0}

\* thread_resume(): EINVAL for a count of zero.
ThreadResume(t) ==
  /\ taskof[t] # NoTask /\ suscnt[t] > 0
  /\ suscnt' = [suscnt EXCEPT ![t] = @ - 1]
  /\ stopped' = stopped \ Goes({t}, tasksuscnt[taskof[t]])
  /\ UNCHANGED <<tasks, taskof, tasksuscnt>>

\* task_suspend(): thread_suspend() of every thread, the first time.
TaskSuspend(k) ==
  /\ k \in tasks /\ tasksuscnt[k] < MaxSuspend
  /\ tasksuscnt' = [tasksuscnt EXCEPT ![k] = @ + 1]
  /\ LET S == IF tasksuscnt[k] = 0 THEN ThreadsOf(k) ELSE {}
     IN  /\ suscnt' = [t \in TaskThread |-> IF t \in S THEN suscnt[t] + 1 ELSE suscnt[t]]
         /\ stopped' = stopped \cup {t \in S : suscnt[t] = 0}
  /\ UNCHANGED <<tasks, taskof>>

\* task_resume(): thread_resume() of every thread, the last time; it does
\* nothing to a thread whose own count is zero.
TaskResume(k) ==
  /\ k \in tasks /\ tasksuscnt[k] > 0
  /\ tasksuscnt' = [tasksuscnt EXCEPT ![k] = @ - 1]
  /\ LET S == IF tasksuscnt[k] = 1 THEN {t \in ThreadsOf(k) : suscnt[t] > 0} ELSE {}
     IN  /\ suscnt' = [t \in TaskThread |-> IF t \in S THEN suscnt[t] - 1 ELSE suscnt[t]]
         /\ stopped' = stopped \ Goes(S, 0)
  /\ UNCHANGED <<tasks, taskof>>

TaskNext ==
  \/ \E k \in TaskId : \/ TaskCreate(k) \/ TaskTerminate(k)
                       \/ TaskSuspend(k) \/ TaskResume(k)
                       \/ \E t \in TaskThread : ThreadCreate(k, t)
  \/ \E t \in TaskThread : ThreadTerminate(t) \/ ThreadSuspend(t) \/ ThreadResume(t)

TaskSpec == TaskInit /\ [][TaskNext]_taskVars
-----------------------------------------------------------------------------
TaskTypeOK ==
  /\ tasks \subseteq TaskId
  /\ taskof \in [TaskThread -> TaskId \cup {NoTask}]
  /\ tasksuscnt \in [TaskId -> Nat]
  /\ suscnt \in [TaskThread -> Nat]
  /\ stopped \subseteq TaskThread

\* "A thread in the task will begin to run only when both thread suspend count
\* and task suspend count become 0" (task_resume()), in whatever order threads
\* and tasks are suspended, resumed and created.
RunsOnlyResumed ==
  \A t \in TaskThread :
    taskof[t] # NoTask /\ (suscnt[t] > 0 \/ tasksuscnt[taskof[t]] > 0) => t \in stopped
=============================================================================

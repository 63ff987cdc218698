-------------------------------- MODULE Proc --------------------------------
(***************************************************************************)
(* The process server, usr/server/proc, and its clients' stubs in          *)
(* usr/lib/posix/process: fork, vfork, exec, exit and wait.                *)
(*                                                                         *)
(* The server is one thread and never sleeps in a request, and its         *)
(* priority is better than its clients', so a request is one step.  A      *)
(* client has one thread.  vfork() is two steps, the request and the       *)
(* parent's task_suspend(): the child runs at a worse priority, but a      *)
(* signal handler of the parent may sleep in between.  waitpid() is two,   *)
(* the request and exception_wait(); exec is two, the exec server suspends *)
(* the old task first and loads files, which sleeps.                       *)
(* Process groups, sessions and the terminal are left out.                 *)
(***************************************************************************)
EXTENDS Integers, Sequences, SequencesExt, PrexQueue

CONSTANTS
  Slot,      \* addresses of struct proc that malloc() returns
  initproc,  \* the slot of the init process
  NoProc,    \* the NULL pointer
  PID_MAX    \* process IDs are less

ASSUME ProcAssumption ==
  /\ initproc \notin Slot /\ NoProc \notin Slot \cup {initproc}
  /\ PID_MAX \in Nat /\ PID_MAX > 2

Process == Slot \cup {initproc}

VARIABLES
  p_stat,    \* "free" for a slot that is not used, "RUN", "ZOMB"
  p_parent,  \* NoProc for init, whose parent is the server itself
  children,  \* p_children, the newest first
  p_pid,     \* 0 in a free slot
  last_pid,  \* the PID previously allocated
  ptable,    \* processes in pid_table and task_table
  vforked,   \* processes with p_vforked
  invfork,   \* processes with p_invfork
  client,    \* what the task of a process does: "user"; "forked", past the
             \* request of vfork(), and "suspended" there; "check", past the
             \* request of waitpid(), and "asleep" there; "exec", suspended by
             \* the exec server, or "gone"
  vchild,    \* history: the child for whose end a process is in vfork()
  strayed,   \* history: children whose parent's vfork() another child ended
  abandoned, \* history: parents that nobody resumes: vfork_start() failed, or
             \* the child's end came before task_suspend()
  unseen     \* history: zombies that came when their parent was in "check", and
             \* those that init adopted when it was in "check" or "asleep"

procVars == <<p_stat, p_parent, children, p_pid, last_pid, ptable, vforked,
              invfork, client, vchild, strayed, abandoned, unseen>>

ProcInit ==
  /\ p_stat = [p \in Process |-> IF p = initproc THEN "RUN" ELSE "free"]
  /\ p_parent = [p \in Process |-> NoProc]
  /\ children = [p \in Process |-> <<>>]
  /\ p_pid = [p \in Process |-> IF p = initproc THEN 1 ELSE 0]
  /\ last_pid = 1 /\ ptable = {initproc}
  /\ vforked = {} /\ invfork = {}
  /\ client = [p \in Process |-> IF p = initproc THEN "user" ELSE "gone"]
  /\ vchild = [p \in Process |-> NoProc]
  /\ strayed = {} /\ abandoned = {} /\ unseen = {}
-----------------------------------------------------------------------------
NextPid(i) == IF i + 1 >= PID_MAX THEN 1 ELSE i + 1
PidsUsed == {p_pid[p] : p \in ptable}

\* pid_alloc(): the next one that p_find() does not find, unless that is the
\* last one allocated again; no element when it fails.
PidAlloc ==
  LET after[n \in 1..(PID_MAX - 2)] == NextPid(IF n = 1 THEN last_pid ELSE after[n - 1])
      unused == {n \in DOMAIN after : after[n] \notin PidsUsed}
  IN  {after[n] : n \in {k \in unused : \A j \in unused : k <= j}}

\* sys_fork() with newproc() by p, after which the stub lets the child run.  saved
\* is whether vfork_start() has memory for the parent's stack, which nobody asks.
Fork(p, c, vfork, saved) ==
  /\ client[p] = "user" /\ p_stat[c] = "free" /\ client[c] = "gone"
  /\ vfork => p \notin invfork
  /\ \E pid \in PidAlloc : p_pid' = [p_pid EXCEPT ![c] = pid] /\ last_pid' = pid
  /\ p_stat' = [p_stat EXCEPT ![c] = "RUN"]
  /\ p_parent' = [p_parent EXCEPT ![c] = p]
  /\ children' = [children EXCEPT ![p] = AtHead(c, @), ![c] = <<>>]
  /\ ptable' = ptable \cup {c}
  /\ vforked' = IF vfork /\ saved THEN vforked \cup {p} ELSE vforked
  /\ invfork' = IF vfork THEN invfork \cup {c} ELSE invfork
  /\ client' = [client EXCEPT ![p] = IF vfork THEN "forked" ELSE @, ![c] = "user"]
  /\ vchild' = IF vfork /\ saved THEN [vchild EXCEPT ![p] = c] ELSE vchild
  /\ abandoned' = IF vfork /\ ~saved THEN abandoned \cup {p} ELSE abandoned
  /\ UNCHANGED <<strayed, unseen>>

\* The last step of vfork(): task_suspend() of itself.
VforkSuspend(p) ==
  /\ client[p] = "forked"
  /\ client' = [client EXCEPT ![p] = "suspended"]
  /\ UNCHANGED <<p_stat, p_parent, children, p_pid, last_pid, ptable, vforked,
                 invfork, vchild, strayed, abandoned, unseen>>

\* vfork_end(parent) when the child p ends what vfork() waits for.  Its
\* task_resume() fails for a parent that is not suspended yet.
VforkEnd(p) ==
  LET parent == p_parent[p]
      ends == parent \in vforked
  IN  /\ vforked' = vforked \ {parent}
      /\ vchild' = IF ends THEN [vchild EXCEPT ![parent] = NoProc] ELSE vchild
      /\ strayed' = strayed \cup ({vchild[parent]} \ {p, NoProc})
      /\ abandoned' = IF ends /\ client[parent] = "forked"
                      THEN abandoned \cup {parent} ELSE abandoned

\* The parent's state after vfork_end().
Resumed(p) ==
  LET parent == p_parent[p]
  IN  IF parent \in vforked /\ client[parent] = "suspended" THEN "user" ELSE client[parent]

\* exec_execve() suspends the task that asked for it.
ExecStart(p) ==
  /\ client[p] = "user" /\ p # initproc
  /\ client' = [client EXCEPT ![p] = "exec"]
  /\ UNCHANGED <<p_stat, p_parent, children, p_pid, last_pid, ptable, vforked,
                 invfork, vchild, strayed, abandoned, unseen>>

ExecKeepsParent(p) ==                                               \* mutant
  /\ client[p] = "exec"
  /\ invfork' = invfork \ {p}
  /\ client' = [client EXCEPT ![p] = "user"]
  /\ UNCHANGED <<p_stat, p_parent, children, p_pid, last_pid, ptable, vforked, vchild,
                 strayed, abandoned, unseen>>

\* It has loaded the file: proc_exec(); the new task runs, the old one is gone.
\* (When loading fails the old task stays suspended.)
Exec(p) ==
  /\ client[p] = "exec"
  /\ invfork' = invfork \ {p}
  /\ VforkEnd(p)
  /\ client' = [client EXCEPT ![p] = "user", ![p_parent[p]] = Resumed(p)]
  /\ UNCHANGED <<p_stat, p_parent, children, p_pid, last_pid, ptable, unseen>>

OrphansLost(p) == [children EXCEPT ![p] = <<>>]                     \* mutant

\* The lists of children after the exit of p: its own go to init, one by one.
Orphans(p) ==
  [children EXCEPT ![p] = <<>>, ![initproc] = Reverse(children[p]) \o @]

Waits(p) == client[p] \in {"check", "asleep"}

\* sys_exit(), then task_terminate() by the server or by the client itself.
\* SIGCHLD ends the parent's exception_wait().
Exit(p) ==
  LET parent == p_parent[p]
      orphans == Items(children[p])
      woken == client[parent] = "asleep"
  IN  /\ client[p] = "user" /\ p # initproc
      /\ p_stat' = [p_stat EXCEPT ![p] = "ZOMB"]
      /\ ptable' = ptable \ {p}
      /\ p_parent' = [c \in Process |-> IF c \in orphans THEN initproc ELSE p_parent[c]]
      /\ children' = Orphans(p)
      /\ VforkEnd(p)
      /\ client' = [client EXCEPT ![p] = "gone",
                                  ![parent] = IF woken THEN "user" ELSE Resumed(p)]
      /\ unseen' = unseen \cup {c \in orphans : p_stat[c] = "ZOMB" /\ Waits(initproc)}
                          \cup {c \in {p} : client[parent] = "check"}
      /\ UNCHANGED <<p_pid, last_pid, invfork>>

\* The first child in the list that sys_waitpid() can report, if any.
Reported(p) ==
  LET zombies == {i \in DOMAIN children[p] : p_stat[children[p][i]] = "ZOMB"}
  IN  {children[p][i] : i \in {k \in zombies : \A j \in zombies : k <= j}}

\* sys_waitpid(-1) finds a zombie: cleanup().
Reap(p) ==
  /\ client[p] = "user"
  /\ \E z \in Reported(p) :
       /\ p_stat' = [p_stat EXCEPT ![z] = "free"]
       /\ p_pid' = [p_pid EXCEPT ![z] = 0]
       /\ p_parent' = [p_parent EXCEPT ![z] = NoProc]
       /\ children' = [children EXCEPT ![p] = Without(@, z)]
       /\ invfork' = invfork \ {z}
       /\ strayed' = strayed \ {z}
       /\ unseen' = unseen \ {z}
  /\ UNCHANGED <<last_pid, ptable, vforked, client, vchild, abandoned>>

WaitUnchecked(p) ==                                                 \* mutant
  /\ client[p] = "user" /\ children[p] # <<>>
  /\ client' = [client EXCEPT ![p] = "check"]
  /\ UNCHANGED <<p_stat, p_parent, children, p_pid, last_pid, ptable, vforked,
                 invfork, vchild, strayed, abandoned, unseen>>

\* It finds none: the stub calls exception_wait().
WaitChecked(p) ==
  /\ client[p] = "user" /\ children[p] # <<>> /\ Reported(p) = {}
  /\ client' = [client EXCEPT ![p] = "check"]
  /\ UNCHANGED <<p_stat, p_parent, children, p_pid, last_pid, ptable, vforked,
                 invfork, vchild, strayed, abandoned, unseen>>

WaitSleep(p) ==
  /\ client[p] = "check"
  /\ client' = [client EXCEPT ![p] = "asleep"]
  /\ UNCHANGED <<p_stat, p_parent, children, p_pid, last_pid, ptable, vforked,
                 invfork, vchild, strayed, abandoned, unseen>>

\* Any signal ends waitpid(), SIGCHLD too, and it returns no child and EINTR.
WaitInterrupted(p) ==
  /\ client[p] = "asleep"
  /\ client' = [client EXCEPT ![p] = "user"]
  /\ UNCHANGED <<p_stat, p_parent, children, p_pid, last_pid, ptable, vforked,
                 invfork, vchild, strayed, abandoned, unseen>>

ProcNext ==
  \E p \in Process :
    \/ \E c \in Slot, v \in BOOLEAN, s \in BOOLEAN : Fork(p, c, v, s)
    \/ VforkSuspend(p)
    \/ ExecStart(p) \/ Exec(p) \/ Exit(p) \/ Reap(p)
    \/ WaitChecked(p) \/ WaitSleep(p) \/ WaitInterrupted(p)

ProcSpec == ProcInit /\ [][ProcNext]_procVars
-----------------------------------------------------------------------------
\* Every process but init, dead or alive, is in the list of one parent, which
\* is alive, so that somebody can wait for it; the tables hold the processes
\* that live, and no two of those have the same ID.  (The ID of a zombie may be
\* given to another process.)
FamilyTree ==
  LET used == {p \in Process : p_stat[p] # "free"}
  IN  /\ \A p \in used \ {initproc} : p_stat[p_parent[p]] = "RUN"
      /\ \A p \in Process : /\ Distinct(children[p])
                            /\ Items(children[p]) = {c \in used : p_parent[c] = p}
      /\ ptable = {p \in Process : p_stat[p] = "RUN"}
      /\ IsInjective([p \in ptable |-> p_pid[p]])

InVfork(p) == client[p] \in {"forked", "suspended"}

\* "Suspend until child process calls exec() or exit()" (vfork()): a child that
\* has done neither shares the memory of a parent that is in vfork(), unless
\* another child has ended that (strayed); and a parent is in vfork() no longer
\* than such a child runs, unless it is one of those that are never resumed
\* (abandoned), which no child waits to resume.
VforkSuspends ==
  /\ \A c \in invfork \ strayed : p_stat[c] = "RUN" => InVfork(p_parent[c])
  /\ \A p \in Process :
       LET c == vchild[p]
       IN  /\ InVfork(p) <=> p \in vforked \cup abandoned
           /\ p \in vforked <=> c # NoProc
           /\ c # NoProc => /\ p_parent[c] = p /\ c \in invfork
                            /\ client[c] # "gone" /\ ~InVfork(c)
  /\ vforked \cap abandoned = {}

\* A parent sleeps in waitpid() beside a zombie child only if that exited between
\* the request and the sleep, or was adopted as a zombie by then: every other
\* one is found by the request or ends the sleep.
WaitersMissOnly ==
  \A p \in Process : client[p] = "asleep" => Reported(p) \subseteq unseen
=============================================================================

------------------------------ MODULE Exception ------------------------------
(***************************************************************************)
(* Exceptions of a task, sys/kern/exception.c: posted to one thread of the *)
(* task, waited for by exception_wait(), delivered to the handler when a   *)
(* thread leaves the kernel.                                               *)
(*                                                                         *)
(* The calls lock the scheduler, but exception_wait() looks for a handler  *)
(* before it does.  A thread that was woken is still on its way out of its *)
(* call when others run.                                                   *)
(***************************************************************************)
EXTENDS Integers, Sequences, SequencesExt

CONSTANTS
  ExcThread,  \* addresses of struct thread
  ExcNo       \* exception numbers

ASSUME ExceptionAssumption == ExcNo \subseteq Nat

VARIABLES
  threads,  \* task->threads, the newest first
  handler,  \* TRUE: a handler is installed, FALSE: EXC_DFL
  excbits,  \* t->excbits
  epc,      \* of each thread: "user"; "enter", past the test of the handler
            \* in exception_wait(); "wait", asleep there; "other", asleep
            \* elsewhere; "woken" from "wait"; "exit", about to leave the kernel
  trapped   \* history: exceptions that the hardware raised in t

excVars == <<threads, handler, excbits, epc, trapped>>

ExceptionInit ==
  /\ threads = <<>> /\ handler = FALSE
  /\ excbits = [t \in ExcThread |-> {}] /\ trapped = [t \in ExcThread |-> {}]
  /\ epc = [t \in ExcThread |-> "user"]

Live == ToSet(threads)
At(t, S) == t \in Live /\ epc[t] \in S
-----------------------------------------------------------------------------
\* thread_create(); thread_deallocate() clears excbits.
ExcThreadCreate(t) ==
  /\ t \notin Live
  /\ threads' = <<t>> \o threads
  /\ epc' = [epc EXCEPT ![t] = "user"]
  /\ UNCHANGED <<handler, excbits, trapped>>

Forget(S) ==
  /\ threads' = SelectSeq(threads, LAMBDA u : u \notin S)
  /\ excbits' = [u \in ExcThread |-> IF u \in S THEN {} ELSE excbits[u]]
  /\ trapped' = [u \in ExcThread |-> IF u \in S THEN {} ELSE trapped[u]]
  /\ epc' = [u \in ExcThread |-> IF u \in S THEN "user" ELSE epc[u]]

ExcThreadTerminate(t) == t \in Live /\ Forget({t}) /\ UNCHANGED handler

\* exception_setup() of a handler.
ExcInstall(t) ==
  /\ At(t, {"user"})
  /\ handler' = TRUE
  /\ UNCHANGED <<threads, excbits, epc, trapped>>

DiscardWaiting(u) == epc[u] = "wait"                                \* mutant

\* Whose pending exceptions exception_setup(EXC_DFL) discards.
Discards(u) == TRUE

\* exception_setup(EXC_DFL): everybody's exceptions are discarded, and those
\* who sleep in exception_wait() are woken.
ExcRemove(t) ==
  /\ At(t, {"user"}) /\ handler
  /\ handler' = FALSE
  /\ excbits' = [u \in ExcThread |-> IF Discards(u) THEN {} ELSE excbits[u]]
  /\ trapped' = [u \in ExcThread |-> IF Discards(u) THEN {} ELSE trapped[u]]
  /\ epc' = [u \in ExcThread |-> IF epc[u] = "wait" THEN "woken" ELSE epc[u]]
  /\ UNCHANGED threads

\* The thread exception_post() chooses: the first that waits for exceptions,
\* else the first of the task.
Target ==
  LET waiting == {i \in DOMAIN threads : epc[threads[i]] = "wait"}
  IN  IF waiting = {} THEN threads[1]
      ELSE threads[CHOOSE i \in waiting : \A j \in waiting : i <= j]

\* exception_post(), by another task, the kernel, a timer or the task itself:
\* the target leaves its sleep, whatever it sleeps for.
ExcPost(e) ==
  /\ handler /\ threads # <<>>
  /\ excbits' = [excbits EXCEPT ![Target] = @ \cup {e}]
  /\ epc' = [epc EXCEPT ![Target] = IF @ = "wait" THEN "woken"
                                    ELSE IF @ = "other" THEN "exit" ELSE @]
  /\ UNCHANGED <<threads, handler, trapped>>

\* exception_mark(), by a trap, whether there is a handler or not.
ExcMark(t, e) ==
  /\ At(t, {"user"})
  /\ excbits' = [excbits EXCEPT ![t] = @ \cup {e}]
  /\ trapped' = [trapped EXCEPT ![t] = @ \cup {e}]
  /\ epc' = [epc EXCEPT ![t] = "exit"]
  /\ UNCHANGED <<threads, handler>>

\* exception_wait() finds a handler ...
ExcWait(t) ==
  /\ At(t, {"user"}) /\ handler
  /\ epc' = [epc EXCEPT ![t] = "enter"]
  /\ UNCHANGED <<threads, handler, excbits, trapped>>

\* ... and sleeps, without a look at what is pending by now.
ExcWaitSleep(t) ==
  /\ At(t, {"enter"})
  /\ epc' = [epc EXCEPT ![t] = "wait"]
  /\ UNCHANGED <<threads, handler, excbits, trapped>>

\* The rest of exception_wait(): EINVAL, or a pending exception.
ExcWaitReturn(t) ==
  /\ At(t, {"woken"})
  /\ epc' = [epc EXCEPT ![t] = "exit"]
  /\ UNCHANGED <<threads, handler, excbits, trapped>>

\* Any other call that sleeps, and its end.
ExcSleep(t) ==
  /\ At(t, {"user"})
  /\ epc' = [epc EXCEPT ![t] = "other"]
  /\ UNCHANGED <<threads, handler, excbits, trapped>>
ExcWake(t) ==
  /\ At(t, {"other"})
  /\ epc' = [epc EXCEPT ![t] = "exit"]
  /\ UNCHANGED <<threads, handler, excbits, trapped>>

\* exception_deliver(), on the way out of a call or of an interrupt: the first
\* exception goes to the handler; without one the task is terminated.
ExcDeliver(t) ==
  /\ At(t, {"user", "exit"})
  /\ excbits[t] # {} \/ epc[t] = "exit"
  /\ IF excbits[t] # {} /\ ~handler THEN Forget(Live)
     ELSE /\ LET first == {e \in excbits[t] : \A f \in excbits[t] : e <= f}
             IN  /\ excbits' = [excbits EXCEPT ![t] = @ \ first]
                 /\ trapped' = [trapped EXCEPT ![t] = @ \ first]
          /\ epc' = [epc EXCEPT ![t] = "user"]
          /\ UNCHANGED threads
  /\ UNCHANGED handler

ExceptionNext ==
  \/ \E t \in ExcThread :
       \/ ExcThreadCreate(t) \/ ExcThreadTerminate(t) \/ ExcInstall(t) \/ ExcRemove(t)
       \/ ExcWait(t) \/ ExcWaitSleep(t) \/ ExcWaitReturn(t) \/ ExcSleep(t) \/ ExcWake(t)
       \/ ExcDeliver(t)
       \/ \E e \in ExcNo : ExcMark(t, e)
  \/ \E e \in ExcNo : ExcPost(e)

ExceptionSpec == ExceptionInit /\ [][ExceptionNext]_excVars
-----------------------------------------------------------------------------
\* "If handler is removed, all pending exceptions are discarded immediately"
\* (exception_setup()): without a handler nothing is pending but what the
\* hardware raised, so that no exception another thread posted, however late,
\* terminates the task.
PostsNeverKill ==
  ~handler => \A t \in ExcThread : excbits[t] \subseteq trapped[t]
=============================================================================

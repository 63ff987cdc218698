-------------------------------- MODULE Fifo --------------------------------
(***************************************************************************)
(* One FIFO of the file system server, usr/server/fs/fifofs: readers and   *)
(* writers that wait for each other in open(), read() and write().         *)
(*                                                                         *)
(* A call holds the lock of the vnode, and gives it up to wait.  It then   *)
(* locks another mutex and sleeps in cond_wait(): between the two others   *)
(* run, and their cond_broadcast() wakes only those who sleep by then.     *)
(* The bytes are counted, not kept.                                        *)
(***************************************************************************)
EXTENDS Integers, FiniteSets

CONSTANTS
  Reader,    \* threads that open the FIFO for reading
  Writer,    \* threads that open it for writing
  PIPE_BUF,  \* bytes it holds
  MaxWrite   \* the most a write() asks for

ASSUME FifoAssumption ==
  Reader \cap Writer = {} /\ PIPE_BUF \in Nat \ {0} /\ MaxWrite \in Nat \ {0}

VARIABLES
  fn_size,  \* bytes in the buffer
  fpc,      \* "closed", "open" in fifo_open(), "idle", "call" in fifo_read()
            \* or fifo_write()
  fwait,    \* "no"; "going", the vnode is unlocked; "asleep" in cond_wait();
            \* "woken", locks the vnode again
  todo,     \* the bytes a writer still has to write
  missed    \* history: threads that were "going" when the others were woken

fifoVars == <<fn_size, fpc, fwait, todo, missed>>

User == Reader \cup Writer

FifoInit ==
  /\ fn_size = 0 /\ missed = {}
  /\ fpc = [t \in User |-> "closed"] /\ fwait = [t \in User |-> "no"]
  /\ todo = [t \in Writer |-> 0]

\* fn_readers and fn_writers count those who opened or wait in open().
Opened(S) == {t \in S : fpc[t] # "closed"}
Peers(t) == IF t \in Reader THEN Writer ELSE Reader
Lesser(x, y) == IF x < y THEN x ELSE y
-----------------------------------------------------------------------------
\* The thread t waits, or goes on: w is what becomes of its wait, S are the
\* threads it wakes with cond_broadcast().
NoneWoken(t, S, w) ==                                               \* mutant
  /\ fwait' = [fwait EXCEPT ![t] = w]
  /\ missed' = missed \ {t}

Step(t, S, w) ==
  /\ fwait' = [u \in User |-> IF u = t THEN w
                              ELSE IF u \in S /\ fwait[u] = "asleep" THEN "woken"
                              ELSE fwait[u]]
  /\ missed' = (missed \cup {u \in S : fwait[u] = "going"}) \ {t}

\* fifo_open(): the first on one side wakes the other, and nobody goes on
\* without the other side.
FifoOpen(t) ==
  /\ fpc[t] = "closed"
  /\ LET mine == User \ Peers(t)
         first == Opened(mine) = {} /\ Opened(Peers(t)) # {}
         alone == Opened(Peers(t)) = {}
     IN  /\ Step(t, IF first THEN Peers(t) ELSE {}, IF alone THEN "going" ELSE "no")
         /\ fpc' = [fpc EXCEPT ![t] = IF alone THEN "open" ELSE "idle"]
  /\ UNCHANGED <<fn_size, todo>>

FifoOpenWoken(t) ==
  /\ fpc[t] = "open" /\ fwait[t] = "woken"
  /\ LET alone == Opened(Peers(t)) = {}
     IN  /\ Step(t, {}, IF alone THEN "going" ELSE "no")
         /\ fpc' = [fpc EXCEPT ![t] = IF alone THEN "open" ELSE "idle"]
  /\ UNCHANGED <<fn_size, todo>>

\* fifo_close(): the last on one side wakes the other.
FifoClose(t) ==
  /\ fpc[t] = "idle"
  /\ Step(t, IF Opened(User \ Peers(t)) = {t} THEN Peers(t) ELSE {}, "no")
  /\ fpc' = [fpc EXCEPT ![t] = "closed"]
  /\ UNCHANGED <<fn_size, todo>>

\* A call of t begins, or goes on when it was woken.
Proceeds(t) == fpc[t] = "idle" \/ (fpc[t] = "call" /\ fwait[t] = "woken")

\* fifo_read() of n bytes: wait for data while there are writers.
FifoRead(t, n) ==
  /\ Proceeds(t)
  /\ IF fn_size = 0 /\ Opened(Writer) # {}
     THEN Step(t, {}, "going") /\ fpc' = [fpc EXCEPT ![t] = "call"] /\ UNCHANGED fn_size
     ELSE /\ fn_size' = fn_size - Lesser(fn_size, n)
          /\ Step(t, IF fn_size = 0 THEN {} ELSE Writer, "no")
          /\ fpc' = [fpc EXCEPT ![t] = "idle"]
  /\ UNCHANGED todo

\* fifo_write(): as much as there is room for, and wait for readers to make
\* more, whether there are any or not.
FifoWrite(t, n) ==
  /\ Proceeds(t)
  /\ LET want == IF fpc[t] = "idle" THEN n ELSE todo[t]
         put == Lesser(PIPE_BUF - fn_size, want)
         more == want > put
     IN  /\ fn_size' = fn_size + put
         /\ todo' = [todo EXCEPT ![t] = want - put]
         /\ Step(t, IF put > 0 THEN Reader ELSE {}, IF more THEN "going" ELSE "no")
         /\ fpc' = [fpc EXCEPT ![t] = IF more THEN "call" ELSE "idle"]

\* cond_wait() at last.
FifoSleep(t) ==
  /\ fwait[t] = "going"
  /\ fwait' = [fwait EXCEPT ![t] = "asleep"]
  /\ UNCHANGED <<fn_size, fpc, todo, missed>>

FifoNext ==
  \E t \in User :
    \/ FifoOpen(t) \/ FifoOpenWoken(t) \/ FifoClose(t) \/ FifoSleep(t)
    \/ t \in Reader /\ \E n \in 1..PIPE_BUF : FifoRead(t, n)
    \/ t \in Writer /\ \E n \in 1..MaxWrite : FifoWrite(t, n)

FifoSpec == FifoInit /\ [][FifoNext]_fifoVars
-----------------------------------------------------------------------------
\* What a thread waits for has happened: somebody opened the other side, there
\* is data or no writer, there is room.
Waited(t) ==
  IF fpc[t] = "open" THEN Opened(Peers(t)) # {}
  ELSE IF t \in Reader THEN fn_size > 0 \/ Opened(Writer) = {}
  ELSE fn_size < PIPE_BUF

\* A thread sleeps beside what it waits for only if that came when it had
\* unlocked the vnode and was not asleep yet; every other wakeup reaches those
\* it is for, and every wait ends with one ("If the pipe is full, wait for
\* reads to deplete", fifo_write()).
OnlyWindowMisses == \A t \in User : fwait[t] = "asleep" /\ Waited(t) => t \in missed
=============================================================================

---------------------------- MODULE ServerProofs ----------------------------
(***************************************************************************)
(* Proofs about the servers and the boot loader: FIFOs (module Fifo), for  *)
(* any readers and writers; the processes of the process server (module    *)
(* Proc), for any number of them; the vnodes of the file system server     *)
(* (module Vnode), for any threads, vnodes and paths; the receiver of the  *)
(* boot loader (module Xmodem), for a file of any length.                  *)
(***************************************************************************)
EXTENDS Fifo, Proc, Vnode, Xmodem, PrexQueueProofs, FiniteSetTheorems

FifoTypeOK ==
  /\ fn_size \in 0..PIPE_BUF
  /\ fpc \in [User -> {"closed", "open", "idle", "call"}]
  /\ fwait \in [User -> {"no", "going", "asleep", "woken"}]
  /\ todo \in [Writer -> Nat]

\* A thread that is on its way to sleep misses the wakeups as a sleeper would
\* whom they did not reach; and only a call in progress waits.
Waiting ==
  /\ FifoTypeOK
  /\ \A t \in User : fpc[t] \in {"closed", "idle"} <=> fwait[t] = "no"
  /\ \A t \in User : fwait[t] \in {"going", "asleep"} /\ Waited(t) => t \in missed

LEMMA WaitingInit == FifoInit => Waiting
BY FifoAssumption DEF FifoInit, Waiting, FifoTypeOK

\* A step of t that wakes all of S for whom it does something.
LEMMA WaitingStep ==
  ASSUME Waiting, FifoTypeOK', NEW t \in User, NEW S,
         NEW w \in {"no", "going"}, Step(t, S, w),
         \A u \in User \ {t} : fpc'[u] = fpc[u],
         fpc'[t] \in {"closed", "idle"} <=> w = "no",
         w = "going" => ~Waited(t)',
         \A u \in User \ {t} : u \in S \/ fwait[u] = "no" \/ (Waited(u)' => Waited(u))
  PROVE  Waiting'
<1>1. fwait'[t] = w /\ \A u \in User \ {t} : fwait'[u] = IF u \in S /\ fwait[u] = "asleep" THEN "woken" ELSE fwait[u]
  BY DEF Step
<1>2. \A u \in User \ {t} : u \in missed' <=> u \in missed \/ (u \in S /\ fwait[u] = "going")
  BY DEF Step
<1>3. ASSUME NEW u \in User PROVE fpc'[u] \in {"closed", "idle"} <=> fwait'[u] = "no"
  BY <1>1 DEF Waiting
<1>4. ASSUME NEW u \in User, fwait'[u] \in {"going", "asleep"}, Waited(u)' PROVE u \in missed'
  BY <1>1, <1>2, <1>4 DEF Waiting
<1>. QED
  BY <1>3, <1>4 DEF Waiting

LEMMA WaitingNext == Waiting /\ [FifoNext]_fifoVars => Waiting'
<1>. SUFFICES ASSUME Waiting, [FifoNext]_fifoVars PROVE Waiting'
  OBVIOUS
<1>. USE FifoAssumption
<1>t. FifoTypeOK /\ \A t \in User : fpc[t] \in {"closed", "idle"} <=> fwait[t] = "no"
  BY DEF Waiting
<1>p. ASSUME NEW t \in User
      PROVE  \/ t \in Reader /\ t \notin Writer /\ Peers(t) = Writer /\ User \ Peers(t) = Reader
             \/ t \in Writer /\ t \notin Reader /\ Peers(t) = Reader /\ User \ Peers(t) = Writer
  <2>1. Reader \cap Writer = {}
    OBVIOUS
  <2>2. CASE t \in Reader
    BY <2>1, <2>2, Zenon DEF Peers, User
  <2>3. CASE t \notin Reader
    BY <2>1, <2>3, Zenon DEF Peers, User
  <2>. QED
    BY <2>2, <2>3
\* Opening, a thread is on the other side for those it does not wake already.
<1>1. ASSUME NEW t \in User, FifoOpen(t) PROVE Waiting'
  <2>. DEFINE mine == User \ Peers(t)
              alone == Opened(Peers(t)) = {}
              S == IF Opened(mine) = {} /\ ~alone THEN Peers(t) ELSE {}
              w == IF alone THEN "going" ELSE "no"
  <2>1. /\ fpc[t] = "closed" /\ Step(t, S, w) /\ fn_size' = fn_size /\ todo' = todo
        /\ fpc' = [fpc EXCEPT ![t] = IF alone THEN "open" ELSE "idle"]
    BY <1>1 DEF FifoOpen
  <2>2. FifoTypeOK'
    BY <2>1, <1>t DEF FifoTypeOK, Step
  <2>3. \A u \in User \ {t} : fpc'[u] = fpc[u]
    BY <2>1, <1>t DEF FifoTypeOK
  <2>4. Opened(Peers(t))' = Opened(Peers(t)) /\ Opened(mine)' = Opened(mine) \cup {t}
    BY <2>1, <1>p, <1>t DEF Opened, FifoTypeOK, Peers
  <2>5. w = "going" => ~Waited(t)'
    BY <2>1, <2>4, <1>t DEF Waited, FifoTypeOK, Peers
  <2>6. ASSUME NEW u \in User \ {t}, u \notin S, fwait[u] # "no", Waited(u)' PROVE Waited(u)
    <3>1. CASE u \in mine
      <4>1. Peers(u) = Peers(t)
        BY <3>1, <1>p
      <4>. QED
        BY <4>1, <3>1, <2>1, <2>3, <2>4, <2>6, <1>p DEF Waited, Opened, User
    <3>2. CASE u \in Peers(t)
      <4>1. Peers(u) = mine /\ u \in Opened(Peers(t))
        BY <3>2, <2>6, <1>p, <1>t DEF Opened
      <4>2. Opened(mine) # {}
        BY <4>1, <3>2, <2>6
      <4>. QED
        BY <4>1, <4>2, <3>2, <2>1, <2>3, <2>4, <2>6, <1>p DEF Waited
    <3>. QED
      BY <3>1, <3>2
  <2>. QED
    BY <2>1, <2>2, <2>3, <2>5, <2>6, WaitingStep, <1>t DEF FifoTypeOK
<1>2. ASSUME NEW t \in User, FifoOpenWoken(t) PROVE Waiting'
  <2>. DEFINE alone == Opened(Peers(t)) = {}
              w == IF alone THEN "going" ELSE "no"
  <2>1. /\ fpc[t] = "open" /\ Step(t, {}, w) /\ fn_size' = fn_size /\ todo' = todo
        /\ fpc' = [fpc EXCEPT ![t] = IF alone THEN "open" ELSE "idle"]
    BY <1>2 DEF FifoOpenWoken
  <2>2. FifoTypeOK'
    BY <2>1, <1>t DEF FifoTypeOK, Step
  <2>3. \A u \in User \ {t} : fpc'[u] = fpc[u]
    BY <2>1, <1>t DEF FifoTypeOK
  <2>4. \A Q \in SUBSET User : Opened(Q)' = Opened(Q)
    BY <2>1, <1>t DEF Opened, FifoTypeOK
  <2>5. w = "going" => ~Waited(t)'
    BY <2>1, <2>4, <1>p, <1>t DEF Waited, FifoTypeOK, User
  <2>6. \A u \in User \ {t} : Waited(u)' => Waited(u)
    BY <2>1, <2>3, <2>4, <1>p DEF Waited, User
  <2>. QED
    BY <2>1, <2>2, <2>3, <2>5, <2>6, WaitingStep, <1>t DEF FifoTypeOK
<1>3. ASSUME NEW t \in User, FifoClose(t) PROVE Waiting'
  <2>. DEFINE mine == User \ Peers(t)
              S == IF Opened(mine) = {t} THEN Peers(t) ELSE {}
  <2>1. /\ fpc[t] = "idle" /\ Step(t, S, "no") /\ fn_size' = fn_size /\ todo' = todo
        /\ fpc' = [fpc EXCEPT ![t] = "closed"]
    BY <1>3 DEF FifoClose
  <2>2. FifoTypeOK'
    BY <2>1, <1>t DEF FifoTypeOK, Step
  <2>3. \A u \in User \ {t} : fpc'[u] = fpc[u]
    BY <2>1, <1>t DEF FifoTypeOK
  <2>4. Opened(Peers(t))' = Opened(Peers(t)) /\ Opened(mine)' = Opened(mine) \ {t}
    BY <2>1, <1>p, <1>t DEF Opened, FifoTypeOK, Peers
  <2>5. t \in Opened(mine)
    BY <2>1, <1>p DEF Opened
  <2>6. ASSUME NEW u \in User \ {t}, u \notin S, Waited(u)' PROVE Waited(u)
    <3>1. CASE u \in mine
      <4>1. Peers(u) = Peers(t)
        BY <3>1, <1>p
      <4>. QED
        BY <4>1, <3>1, <2>1, <2>3, <2>4, <2>6, <1>p DEF Waited, Opened, User
    <3>2. CASE u \in Peers(t)
      <4>1. Peers(u) = mine /\ Opened(mine) # {t}
        BY <3>2, <2>6, <1>p
      <4>. QED
        BY <4>1, <3>2, <2>1, <2>3, <2>4, <2>5, <2>6, <1>p DEF Waited
    <3>. QED
      BY <3>1, <3>2
  <2>. QED
    BY <2>1, <2>2, <2>3, <2>6, WaitingStep, <1>t DEF FifoTypeOK
<1>4. ASSUME NEW t \in Reader, NEW n \in 1..PIPE_BUF, FifoRead(t, n) PROVE Waiting'
  <2>0. t \in User /\ fpc[t] \in {"idle", "call"} /\ todo' = todo
    BY <1>4 DEF FifoRead, Proceeds, User
  <2>1. CASE fn_size = 0 /\ Opened(Writer) # {}
    <3>1. Step(t, {}, "going") /\ fpc' = [fpc EXCEPT ![t] = "call"] /\ fn_size' = fn_size
      BY <2>1, <1>4 DEF FifoRead
    <3>2. FifoTypeOK'
      BY <3>1, <2>0, <1>t DEF FifoTypeOK, Step
    <3>3. \A u \in User \ {t} : fpc'[u] = fpc[u]
      BY <3>1, <1>t DEF FifoTypeOK
    <3>4. \A Q \in SUBSET User : Opened(Q)' = Opened(Q)
      BY <3>1, <2>0, <1>t DEF Opened, FifoTypeOK
    <3>5. ~Waited(t)'
      BY <3>1, <3>4, <2>0, <2>1, <1>t DEF Waited, FifoTypeOK, User
    <3>6. \A u \in User \ {t} : Waited(u)' => Waited(u)
      BY <3>1, <3>3, <3>4, <1>p DEF Waited, User
    <3>. QED
      BY <3>1, <3>2, <3>3, <3>5, <3>6, <2>0, WaitingStep, <1>t DEF FifoTypeOK
  <2>2. CASE ~(fn_size = 0 /\ Opened(Writer) # {})
    <3>. DEFINE S == IF fn_size = 0 THEN {} ELSE Writer
    <3>1. Step(t, S, "no") /\ fpc' = [fpc EXCEPT ![t] = "idle"]
          /\ fn_size' = fn_size - Lesser(fn_size, n)
      BY <2>2, <1>4 DEF FifoRead
    <3>2. fn_size' \in 0..PIPE_BUF /\ fn_size' <= fn_size /\ (fn_size = 0 => fn_size' = 0)
      BY <3>1, <1>t DEF FifoTypeOK, Lesser
    <3>3. FifoTypeOK'
      BY <3>1, <3>2, <2>0, <1>t DEF FifoTypeOK, Step
    <3>4. \A u \in User \ {t} : fpc'[u] = fpc[u]
      BY <3>1, <1>t DEF FifoTypeOK
    <3>5. \A Q \in SUBSET User : Opened(Q)' = Opened(Q)
      BY <3>1, <2>0, <1>t DEF Opened, FifoTypeOK
    <3>6. \A u \in User \ {t} : u \in S \/ (Waited(u)' => Waited(u))
      BY <3>2, <3>4, <3>5, <1>p, <1>t DEF Waited, User, FifoTypeOK
    <3>. QED
      BY <3>1, <3>3, <3>4, <3>6, <2>0, WaitingStep, <1>t DEF FifoTypeOK
  <2>. QED
    BY <2>1, <2>2
<1>5. ASSUME NEW t \in Writer, NEW n \in 1..MaxWrite, FifoWrite(t, n) PROVE Waiting'
  <2>. DEFINE want == IF fpc[t] = "idle" THEN n ELSE todo[t]
              put == Lesser(PIPE_BUF - fn_size, want)
              more == want > put
              S == IF put > 0 THEN Reader ELSE {}
              w == IF more THEN "going" ELSE "no"
  <2>0. t \in User /\ fpc[t] \in {"idle", "call"}
    BY <1>5 DEF FifoWrite, Proceeds, User
  <2>1. /\ fn_size' = fn_size + put /\ todo' = [todo EXCEPT ![t] = want - put]
        /\ Step(t, S, w) /\ fpc' = [fpc EXCEPT ![t] = IF more THEN "call" ELSE "idle"]
    BY <1>5 DEF FifoWrite
  <2>2. /\ want \in Nat /\ put \in Nat /\ want - put \in Nat /\ fn_size + put \in 0..PIPE_BUF
        /\ more => fn_size + put = PIPE_BUF
    BY <1>t DEF FifoTypeOK, Lesser
  <2>3. FifoTypeOK'
    <3>. HIDE DEF want, put
    <3>. QED
      BY <2>0, <2>1, <2>2, <1>t DEF FifoTypeOK, Step
  <2>4. \A u \in User \ {t} : fpc'[u] = fpc[u]
    BY <2>1, <1>t DEF FifoTypeOK
  <2>5. \A Q \in SUBSET User : Opened(Q)' = Opened(Q)
    BY <2>0, <2>1, <1>t DEF Opened, FifoTypeOK
  <2>6. w = "going" => ~Waited(t)'
    <3>. HIDE DEF want, put
    <3>. QED
      BY <2>0, <2>1, <2>2, <1>t DEF Waited, FifoTypeOK
  <2>7. \A u \in User \ {t} : u \in S \/ (Waited(u)' => Waited(u))
    <3>. HIDE DEF want, put
    <3>. QED
      BY <2>1, <2>2, <2>4, <2>5, <1>p, <1>t DEF Waited, User, FifoTypeOK
  <2>8. fpc'[t] \in {"closed", "idle"} <=> w = "no"
    <3>. HIDE DEF want, put
    <3>. QED
      BY <2>0, <2>1, <1>t DEF FifoTypeOK
  <2>9. w \in {"no", "going"}
    OBVIOUS
  <2>. HIDE DEF w, S
  <2>. QED
    BY <2>0, <2>1, <2>3, <2>4, <2>6, <2>7, <2>8, <2>9, WaitingStep
<1>6. ASSUME NEW t \in User, FifoSleep(t) PROVE Waiting'
  <2>1. /\ fwait[t] = "going" /\ fwait' = [fwait EXCEPT ![t] = "asleep"]
        /\ UNCHANGED <<fn_size, fpc, todo, missed>>
    BY <1>6 DEF FifoSleep
  <2>2. \A u \in User : Waited(u)' = Waited(u)
    BY <2>1 DEF Waited, Opened
  <2>. QED
    BY <2>1, <2>2 DEF Waiting, FifoTypeOK
<1>7. CASE UNCHANGED fifoVars
  BY <1>7 DEF fifoVars, Waiting, FifoTypeOK, Waited, Opened
<1>. QED
  BY <1>1, <1>2, <1>3, <1>4, <1>5, <1>6, <1>7 DEF FifoNext

LEMMA WaitingInvariant == FifoSpec => []Waiting
BY WaitingInit, WaitingNext, PTL DEF FifoSpec

\* Any number of readers and writers open, read, write and close: a thread sleeps
\* beside what it waits for only when that came in the window between
\* unlocking the vnode and cond_wait().
THEOREM WindowCorrect == FifoSpec => []OnlyWindowMisses
<1>1. Waiting => OnlyWindowMisses
  BY DEF Waiting, OnlyWindowMisses
<1>. QED
  BY <1>1, WaitingInvariant, PTL
-----------------------------------------------------------------------------
\* The process server.  Lists of children turned round keep their items.
LEMMA ReverseItems ==
  ASSUME NEW S, NEW q \in Seq(S)
  PROVE  /\ Reverse(q) \in Seq(S)
         /\ Items(Reverse(q)) = Items(q)
         /\ Distinct(q) => Distinct(Reverse(q))
<1>. DEFINE n == Len(q)
<1>1. n \in Nat /\ \A i \in 1..n : (n - i) + 1 \in 1..n /\ q[i] \in S
  BY LenProperties, ElementOfSeq
<1>2. Reverse(q) = [i \in 1..n |-> q[(n - i) + 1]]
  BY DEF Reverse
<1>3. Reverse(q) \in [1..n -> S]
  BY <1>1, <1>2
<1>4. Reverse(q) \in Seq(S) /\ Len(Reverse(q)) = n
  BY <1>1, <1>3, SeqDef, LenProperties
<1>. HIDE DEF n
<1>5. \A i \in 1..n : Reverse(q)[i] = q[(n - i) + 1]
  BY <1>2
<1>6. \A i \in 1..n : Reverse(q)[(n - i) + 1] = q[i]
  <2>1. \A i \in 1..n : (n - ((n - i) + 1)) + 1 = i
    BY <1>1
  <2>. QED
    BY <1>1, <1>5, <2>1
<1>7. Items(Reverse(q)) = Items(q)
  <2>1. Items(Reverse(q)) = {Reverse(q)[i] : i \in 1..n} /\ Items(q) = {q[i] : i \in 1..n}
    BY <1>4 DEF Items, n
  <2>. QED
    BY <1>1, <1>5, <1>6, <2>1
<1>8. ASSUME Distinct(q) PROVE Distinct(Reverse(q))
  BY <1>1, <1>4, <1>5, <1>8, SMTT(30) DEF Distinct, n
<1>. QED
  BY <1>4, <1>7, <1>8

ClientState == {"user", "forked", "suspended", "check", "asleep", "exec", "gone"}

ProcTypeOK ==
  /\ p_stat \in [Process -> {"free", "RUN", "ZOMB"}]
  /\ p_parent \in [Process -> Process \cup {NoProc}]
  /\ children \in [Process -> Seq(Process)]
  /\ DOMAIN p_pid = Process /\ p_pid = [p \in Process |-> p_pid[p]]
  /\ ptable \in SUBSET Process
  /\ vforked \in SUBSET Process
  /\ invfork \in SUBSET Process
  /\ client \in [Process -> ClientState]
  /\ vchild \in [Process -> Process \cup {NoProc}]

\* A process has a client while it runs and a parent while it is used, which is
\* another process.
Parents ==
  /\ ProcTypeOK
  /\ \A p \in Process : client[p] = "gone" <=> p_stat[p] # "RUN"
  /\ p_parent[initproc] = NoProc /\ p_stat[initproc] = "RUN" /\ client[initproc] # "exec"
  /\ \A p \in Process \ {initproc} : p_stat[p] # "free" =>
       p_parent[p] \in Process \ {p} /\ p_stat[p_parent[p]] = "RUN"

Tree == Parents /\ FamilyTree

LEMMA TreeInit == ProcInit => Tree
<1>. SUFFICES ASSUME ProcInit PROVE Tree
  OBVIOUS
<1>. USE ProcAssumption DEF ProcInit, Process
<1>1. <<>> \in Seq(Process) /\ Items(<<>>) = {} /\ Distinct(<<>>)
  BY NoItems, EmptySeq
<1>2. Parents
  BY <1>1 DEF Parents, ProcTypeOK, ClientState
<1>3. FamilyTree
  BY <1>1 DEF FamilyTree, IsInjective
<1>. QED
  BY <1>2, <1>3 DEF Tree

\* pid_alloc() does not give an ID that a process in the tables has.
LEMMA PidAllocFresh ==
  ASSUME NEW pid \in PidAlloc
  PROVE  \A p \in ptable : p_pid[p] # pid
BY DEF PidAlloc, PidsUsed

\* A parent and its child.
LEMMA ParentFacts ==
  ASSUME Tree, NEW p \in Process
  PROVE  /\ client[p] \notin {"gone"} => p_stat[p] = "RUN"
         /\ p # initproc /\ p_stat[p] # "free" =>
              /\ p_parent[p] \in Process /\ p_parent[p] # p
              /\ p_stat[p_parent[p]] = "RUN" /\ p \in Items(children[p_parent[p]])
         /\ \A c \in Items(children[p]) : /\ c \in Process \ {p, initproc}
                                          /\ p_stat[c] # "free" /\ p_parent[c] = p
         /\ children[p] \in Seq(Process) /\ Distinct(children[p])
         /\ p_stat[p] # "RUN" => Items(children[p]) = {}
<1>1. /\ children[p] \in Seq(Process) /\ Distinct(children[p])
      /\ Items(children[p]) = {c \in Process : p_stat[c] # "free" /\ p_parent[c] = p}
  BY DEF Tree, Parents, FamilyTree, ProcTypeOK
<1>2. ASSUME NEW c \in Items(children[p])
      PROVE  /\ c \in Process \ {p, initproc} /\ p_stat[p] = "RUN"
             /\ p_stat[c] # "free" /\ p_parent[c] = p
  BY <1>1, ProcAssumption DEF Tree, Parents, Process
<1>3. client[p] \notin {"gone"} => p_stat[p] = "RUN"
  BY DEF Tree, Parents
<1>4. p # initproc /\ p_stat[p] # "free" =>
        /\ p_parent[p] \in Process /\ p_parent[p] # p
        /\ p_stat[p_parent[p]] = "RUN" /\ p \in Items(children[p_parent[p]])
  BY DEF Tree, Parents, FamilyTree
<1>. QED
  BY <1>1, <1>2, <1>3, <1>4

LEMMA TreeFork ==
  ASSUME Tree, NEW p \in Process, NEW c \in Slot, NEW v \in BOOLEAN,
         NEW saved \in BOOLEAN, Fork(p, c, v, saved)
  PROVE  Tree'
<1>. USE DEF Tree
<1>t. ProcTypeOK /\ c \in Process /\ c # initproc
  BY ProcAssumption DEF Parents, Process
<1>1. /\ client[p] = "user" /\ p_stat[c] = "free" /\ client[c] = "gone"
      /\ p_stat' = [p_stat EXCEPT ![c] = "RUN"]
      /\ p_parent' = [p_parent EXCEPT ![c] = p]
      /\ children' = [children EXCEPT ![p] = AtHead(c, children[p]), ![c] = <<>>]
      /\ ptable' = ptable \cup {c}
      /\ vforked' = IF v /\ saved THEN vforked \cup {p} ELSE vforked
      /\ invfork' = IF v THEN invfork \cup {c} ELSE invfork
      /\ client' = [client EXCEPT ![p] = IF v THEN "forked" ELSE @, ![c] = "user"]
      /\ vchild' = IF v /\ saved THEN [vchild EXCEPT ![p] = c] ELSE vchild
  BY DEF Fork
<1>2. PICK pid \in PidAlloc : p_pid' = [p_pid EXCEPT ![c] = pid]
  BY DEF Fork
<1>3. p # c /\ p_stat[p] = "RUN" /\ c \notin ptable
  BY <1>1, <1>t DEF Parents, FamilyTree
<1>4. /\ children[p] \in Seq(Process) /\ Distinct(children[p]) /\ c \notin Items(children[p])
      /\ Items(children[c]) = {}
  BY <1>1, <1>t, ParentFacts
<1>5. /\ AtHead(c, children[p]) \in Seq(Process) /\ Distinct(AtHead(c, children[p]))
      /\ Items(AtHead(c, children[p])) = Items(children[p]) \cup {c}
  BY <1>4, <1>t, AtHeadItems
<1>6. ProcTypeOK'
  <2>1. children' \in [Process -> Seq(Process)]
    BY <1>1, <1>5, <1>t, EmptySeq DEF ProcTypeOK
  <2>2. client' \in [Process -> ClientState]
    BY <1>1, <1>t DEF ProcTypeOK, ClientState
  <2>3. DOMAIN p_pid' = Process /\ p_pid' = [q \in Process |-> p_pid'[q]]
    BY <1>2, <1>t DEF ProcTypeOK
  <2>4. /\ p_stat' \in [Process -> {"free", "RUN", "ZOMB"}]
        /\ p_parent' \in [Process -> Process \cup {NoProc}]
        /\ vchild' \in [Process -> Process \cup {NoProc}]
        /\ ptable' \in SUBSET Process /\ vforked' \in SUBSET Process
        /\ invfork' \in SUBSET Process
    BY <1>1, <1>t DEF ProcTypeOK
  <2>. QED
    BY <2>1, <2>2, <2>3, <2>4 DEF ProcTypeOK
<1>7. Parents'
  <2>1. /\ p_parent[initproc] = NoProc /\ p_stat[initproc] = "RUN" /\ client[initproc] # "exec"
        /\ initproc \in Process
    BY DEF Parents, Process
  <2>2. \A q \in Process : /\ p_stat'[q] = (IF q = c THEN "RUN" ELSE p_stat[q])
                           /\ p_parent'[q] = (IF q = c THEN p ELSE p_parent[q])
                           /\ client'[q] = "gone" <=> client[q] = "gone" /\ q # c
                           /\ client'[q] = "exec" <=> client[q] = "exec"
    BY <1>1, <1>3, <1>t DEF ProcTypeOK
  <2>3. \A q \in Process : client'[q] = "gone" <=> p_stat'[q] # "RUN"
    BY <2>2 DEF Parents
  <2>4. ASSUME NEW q \in Process \ {initproc}, p_stat'[q] # "free"
        PROVE  p_parent'[q] \in Process \ {q} /\ p_stat'[p_parent'[q]] = "RUN"
    BY <1>3, <2>2, <2>4 DEF Parents
  <2>. QED
    BY <1>6, <1>t, <2>1, <2>2, <2>3, <2>4 DEF Parents
<1>8. ASSUME NEW q \in Process
      PROVE  /\ Distinct(children'[q])
             /\ Items(children'[q]) = {d \in Process : p_stat'[d] # "free" /\ p_parent'[d] = q}
  <2>1. Items(children[q]) = {d \in Process : p_stat[d] # "free" /\ p_parent[d] = q}
        /\ Distinct(children[q])
    BY DEF FamilyTree
  <2>2. \A d \in Process : /\ p_stat'[d] # "free" <=> p_stat[d] # "free" \/ d = c
                           /\ d = c => p_parent'[d] = p
                           /\ d # c => p_parent'[d] = p_parent[d]
    BY <1>1, <1>t DEF ProcTypeOK
  <2>3. CASE q = p
    <3>1. children'[q] = AtHead(c, children[p])
      BY <1>1, <1>3, <1>t, <2>3 DEF ProcTypeOK
    <3>. QED
      BY <1>5, <1>t, <2>1, <2>2, <2>3, <3>1
  <2>4. CASE q = c
    <3>1. children'[q] = <<>> /\ Items(<<>>) = {} /\ Distinct(<<>>)
      BY <1>1, <1>3, <1>t, <2>4, NoItems, EmptySeq DEF ProcTypeOK
    <3>. QED
      BY <1>3, <1>4, <1>t, <2>1, <2>2, <2>4, <3>1
  <2>5. CASE q # p /\ q # c
    <3>1. children'[q] = children[q]
      BY <1>1, <1>t, <2>5 DEF ProcTypeOK
    <3>. QED
      BY <1>1, <1>t, <2>1, <2>2, <2>5, <3>1, ZenonT(30)
  <2>. QED
    BY <2>3, <2>4, <2>5
<1>9. ptable' = {q \in Process : p_stat'[q] = "RUN"}
  BY <1>1, <1>t DEF ProcTypeOK, FamilyTree
<1>10. IsInjective([q \in ptable' |-> p_pid'[q]])
  <2>1. \A q \in ptable : p_pid[q] # pid /\ q \in Process
    BY <1>t, PidAllocFresh DEF ProcTypeOK
  <2>2. \A q, r \in ptable : p_pid[q] = p_pid[r] => q = r
    BY DEF FamilyTree, IsInjective
  <2>3. p_pid'[c] = pid /\ \A q \in ptable : p_pid'[q] = p_pid[q]
    BY <1>2, <1>3, <1>t, <2>1 DEF ProcTypeOK
  <2>4. ASSUME NEW q \in ptable', NEW r \in ptable', p_pid'[q] = p_pid'[r] PROVE q = r
    BY <1>1, <2>1, <2>2, <2>3, <2>4
  <2>. QED
    BY <2>4 DEF IsInjective
<1>11. \A q \in {d \in Process : p_stat'[d] # "free"} \ {initproc} : p_stat'[p_parent'[q]] = "RUN"
  BY <1>7 DEF Parents
<1>. QED
  BY <1>7, <1>8, <1>9, <1>10, <1>11 DEF FamilyTree

\* A step that changes what clients do, and no more of the processes.
LEMMA TreeSame ==
  ASSUME Tree, UNCHANGED <<p_stat, p_parent, children, p_pid, ptable>>,
         client' \in [Process -> ClientState],
         vforked' \in SUBSET Process, invfork' \in SUBSET Process,
         vchild' \in [Process -> Process \cup {NoProc}],
         \A q \in Process : client'[q] = "gone" <=> client[q] = "gone",
         client'[initproc] # "exec"
  PROVE  Tree'
<1>1. ProcTypeOK'
  BY DEF Tree, Parents, ProcTypeOK
<1>2. Parents'
  BY <1>1 DEF Tree, Parents
<1>. QED
  BY <1>2 DEF Tree, FamilyTree

LEMMA TreeClient ==
  ASSUME Tree, NEW p \in Process, client[p] # "gone",
         NEW s \in ClientState \ {"gone"}, s = "exec" => p # initproc,
         client' = [client EXCEPT ![p] = s],
         UNCHANGED <<p_stat, p_parent, children, p_pid, ptable, vforked, invfork, vchild>>
  PROVE  Tree'
<1>1. /\ client' \in [Process -> ClientState] /\ client'[initproc] # "exec"
      /\ \A q \in Process : client'[q] = "gone" <=> client[q] = "gone"
  BY DEF Tree, Parents, ProcTypeOK, Process
<1>. QED
  BY <1>1, TreeSame DEF Tree, Parents, ProcTypeOK

\* vfork_end() by a child of parent.
LEMMA EndTypes ==
  ASSUME ProcTypeOK, NEW p \in Process, VforkEnd(p)
  PROVE  vforked' \in SUBSET Process /\ vchild' \in [Process -> Process \cup {NoProc}]
BY DEF ProcTypeOK, VforkEnd

LEMMA TreeExec ==
  ASSUME Tree, NEW p \in Process, Exec(p)
  PROVE  Tree'
<1>t. ProcTypeOK
  BY DEF Tree, Parents
<1>1. /\ client[p] = "exec" /\ invfork' = invfork \ {p} /\ VforkEnd(p)
      /\ client' = [client EXCEPT ![p] = "user", ![p_parent[p]] = Resumed(p)]
      /\ UNCHANGED <<p_stat, p_parent, children, p_pid, ptable>>
  BY DEF Exec
<1>2. p # initproc /\ p_stat[p] # "free"
  BY <1>1 DEF Tree, Parents
<1>3. PICK parent \in Process : parent = p_parent[p] /\ parent # p /\ client[parent] # "gone"
  BY <1>2, ParentFacts DEF Tree, Parents
<1>4. Resumed(p) \in {"user", client[parent]}
  BY <1>3 DEF Resumed
<1>5. /\ client' \in [Process -> ClientState] /\ client'[initproc] # "exec"
      /\ \A q \in Process : client'[q] = "gone" <=> client[q] = "gone"
  <2>1. client' = [client EXCEPT ![p] = "user", ![parent] = Resumed(p)]
    BY <1>1, <1>3
  <2>2. \A q \in Process : client'[q] = IF q = parent THEN Resumed(p)
                                        ELSE IF q = p THEN "user" ELSE client[q]
    BY <1>3, <1>t, <2>1 DEF ProcTypeOK
  <2>3. client[parent] \in ClientState /\ Resumed(p) # "gone"
        /\ (parent = initproc => Resumed(p) # "exec")
    BY <1>3, <1>4, <1>t DEF Tree, Parents, ProcTypeOK
  <2>4. client' \in [Process -> ClientState]
    BY <1>4, <1>t, <2>1, <2>3 DEF ProcTypeOK, ClientState
  <2>5. client[initproc] # "exec" /\ initproc \in Process
    BY DEF Tree, Parents, Process
  <2>. QED
    BY <1>1, <1>2, <1>3, <2>2, <2>3, <2>4, <2>5
<1>6. invfork' \in SUBSET Process
  BY <1>1, <1>t DEF ProcTypeOK
<1>. QED
  BY <1>1, <1>5, <1>6, <1>t, EndTypes, TreeSame

LEMMA TreeExit ==
  ASSUME Tree, NEW p \in Process, Exit(p)
  PROVE  Tree'
<1>t. ProcTypeOK /\ initproc \in Process
  BY DEF Tree, Parents, Process
<1>. DEFINE orphans == Items(children[p])
<1>1. /\ client[p] = "user" /\ p # initproc
      /\ p_stat' = [p_stat EXCEPT ![p] = "ZOMB"]
      /\ ptable' = ptable \ {p}
      /\ p_parent' = [c \in Process |-> IF c \in orphans THEN initproc ELSE p_parent[c]]
      /\ children' = [children EXCEPT ![p] = <<>>,
                                      ![initproc] = Reverse(children[p]) \o children[initproc]]
      /\ VforkEnd(p)
      /\ p_pid' = p_pid /\ invfork' = invfork
  <2>1. children' = [children EXCEPT ![p] = <<>>,
                                     ![initproc] = Reverse(children[p]) \o @]
    BY DEF Exit, Orphans
  <2>2. p # initproc
    BY DEF Exit
  <2>3. children' = [children EXCEPT ![p] = <<>>,
                                     ![initproc] = Reverse(children[p]) \o children[initproc]]
    BY <1>t, <2>1, <2>2 DEF ProcTypeOK
  <2>. QED
    BY <2>3 DEF Exit
<1>2. PICK parent \in Process, s \in {"user", client[p_parent[p]]} :
        /\ parent = p_parent[p] /\ parent # p /\ p_stat[parent] = "RUN"
        /\ client' = [client EXCEPT ![p] = "gone", ![parent] = s]
  <2>1. p_stat[p] = "RUN"
    BY <1>1 DEF Tree, Parents
  <2>2. p_parent[p] \in Process /\ p_parent[p] # p /\ p_stat[p_parent[p]] = "RUN"
    BY <1>1, <2>1, ParentFacts
  <2>3. (IF client[p_parent[p]] = "asleep" THEN "user" ELSE Resumed(p))
          \in {"user", client[p_parent[p]]}
    BY DEF Resumed
  <2>4. client' = [client EXCEPT ![p] = "gone", ![p_parent[p]] =
                     IF client[p_parent[p]] = "asleep" THEN "user" ELSE Resumed(p)]
    BY DEF Exit
  <2>. QED
    BY <2>2, <2>3, <2>4
<1>3. \A c \in orphans : c \in Process /\ c # p /\ c # initproc /\ p_stat[c] # "free" /\ p_parent[c] = p
  BY ParentFacts
<1>. DEFINE adopted == Reverse(children[p]) \o children[initproc]
<1>4. /\ adopted \in Seq(Process) /\ Distinct(adopted)
      /\ Items(adopted) = orphans \cup Items(children[initproc])
  <2>1. /\ children[p] \in Seq(Process) /\ Distinct(children[p])
        /\ children[initproc] \in Seq(Process) /\ Distinct(children[initproc])
    BY <1>t, ParentFacts
  <2>2. orphans \cap Items(children[initproc]) = {}
    BY <1>1, <1>3, <1>t, ParentFacts
  <2>3. /\ Reverse(children[p]) \in Seq(Process) /\ Distinct(Reverse(children[p]))
        /\ Items(Reverse(children[p])) = orphans
    BY <2>1, ReverseItems
  <2>. QED
    BY <2>1, <2>2, <2>3, ConcatItems
<1>. HIDE DEF adopted
<1>c. /\ children'[p] = <<>> /\ children'[initproc] = adopted
      /\ \A q \in Process \ {p, initproc} : children'[q] = children[q]
      /\ children' \in [Process -> Seq(Process)]
  BY <1>1, <1>4, <1>t, EmptySeq DEF ProcTypeOK, adopted
<1>. HIDE DEF orphans
<1>5. ProcTypeOK'
  <2>1. client' \in [Process -> ClientState]
    BY <1>2, <1>t DEF ProcTypeOK, ClientState
  <2>2. vforked' \in SUBSET Process /\ vchild' \in [Process -> Process \cup {NoProc}]
    BY <1>1, <1>t, EndTypes
  <2>3. /\ p_stat' \in [Process -> {"free", "RUN", "ZOMB"}]
        /\ p_parent' \in [Process -> Process \cup {NoProc}]
        /\ ptable' \in SUBSET Process /\ invfork' \in SUBSET Process
        /\ DOMAIN p_pid' = Process /\ p_pid' = [q \in Process |-> p_pid'[q]]
    BY <1>1, <1>t DEF ProcTypeOK
  <2>. QED
    BY <1>c, <2>1, <2>2, <2>3 DEF ProcTypeOK
<1>6. \A q \in Process : /\ p_stat'[q] = (IF q = p THEN "ZOMB" ELSE p_stat[q])
                         /\ p_parent'[q] = (IF q \in orphans THEN initproc ELSE p_parent[q])
  BY <1>1, <1>t DEF ProcTypeOK
<1>s. p_stat[p] = "RUN" /\ p_stat[initproc] = "RUN" /\ p_parent[initproc] = NoProc
      /\ client[initproc] # "exec"
  BY <1>1 DEF Tree, Parents
<1>7. Parents'
  <2>1. \A q \in Process : client'[q] = "gone" <=> p_stat'[q] # "RUN"
    <3>1. s # "gone"
      BY <1>2 DEF Tree, Parents
    <3>. QED
      BY <1>2, <1>6, <1>t, <3>1, ZenonT(30) DEF Tree, Parents, ProcTypeOK
  <2>2. p_parent'[initproc] = NoProc /\ p_stat'[initproc] = "RUN" /\ client'[initproc] # "exec"
    BY <1>1, <1>2, <1>3, <1>6, <1>s, <1>t DEF ProcTypeOK
  <2>3. ASSUME NEW q \in Process \ {initproc}, p_stat'[q] # "free"
        PROVE  p_parent'[q] \in Process \ {q} /\ p_stat'[p_parent'[q]] = "RUN"
    <3>1. p_stat[q] # "free"
      BY <1>6, <1>s, <2>3
    <3>2. p_parent[q] \in Process \ {q} /\ p_stat[p_parent[q]] = "RUN"
      BY <3>1 DEF Tree, Parents
    <3>3. q \notin orphans => p_parent[q] # p
      BY <3>1 DEF Tree, FamilyTree, orphans
    <3>. QED
      BY <1>1, <1>6, <1>s, <1>t, <3>2, <3>3
  <2>. QED
    BY <1>5, <2>1, <2>2, <2>3 DEF Parents
<1>8. ASSUME NEW q \in Process
      PROVE  /\ Distinct(children'[q])
             /\ Items(children'[q]) = {d \in Process : p_stat'[d] # "free" /\ p_parent'[d] = q}
  <2>1. Items(children[q]) = {d \in Process : p_stat[d] # "free" /\ p_parent[d] = q}
        /\ Distinct(children[q])
    BY DEF Tree, FamilyTree
  <2>2. orphans = {d \in Process : p_stat[d] # "free" /\ p_parent[d] = p}
    BY DEF Tree, FamilyTree, orphans
  <2>3. \A d \in Process : p_stat'[d] # "free" <=> p_stat[d] # "free"
    BY <1>6, <1>s
  <2>4. CASE q = p
    <3>1. children'[q] = <<>> /\ Items(<<>>) = {} /\ Distinct(<<>>)
      BY <1>c, <2>4, NoItems, EmptySeq
    <3>. QED
      BY <1>1, <1>6, <2>2, <2>3, <2>4, <3>1
  <2>5. CASE q = initproc
    BY <1>1, <1>4, <1>6, <1>c, <2>1, <2>2, <2>3, <2>5
  <2>6. CASE q # p /\ q # initproc
    BY <1>6, <1>c, <2>1, <2>2, <2>3, <2>6, ZenonT(30)
  <2>. QED
    BY <2>4, <2>5, <2>6
<1>9. ptable' = {q \in Process : p_stat'[q] = "RUN"}
  BY <1>1, <1>6 DEF Tree, FamilyTree
<1>10. IsInjective([q \in ptable' |-> p_pid'[q]])
  BY <1>1 DEF Tree, FamilyTree, IsInjective
<1>11. \A q \in {d \in Process : p_stat'[d] # "free"} \ {initproc} : p_stat'[p_parent'[q]] = "RUN"
  BY <1>7 DEF Parents
<1>. QED
  BY <1>7, <1>8, <1>9, <1>10, <1>11 DEF Tree, FamilyTree

LEMMA TreeReap ==
  ASSUME Tree, NEW p \in Process, Reap(p)
  PROVE  Tree'
<1>t. ProcTypeOK /\ initproc \in Process
  BY DEF Tree, Parents, Process
<1>1. PICK z \in Reported(p) :
        /\ p_stat' = [p_stat EXCEPT ![z] = "free"]
        /\ p_pid' = [p_pid EXCEPT ![z] = 0]
        /\ p_parent' = [p_parent EXCEPT ![z] = NoProc]
        /\ children' = [children EXCEPT ![p] = Without(children[p], z)]
        /\ invfork' = invfork \ {z}
        /\ UNCHANGED <<ptable, vforked, client, vchild>>
  BY DEF Reap
<1>2. z \in Items(children[p]) /\ p_stat[z] = "ZOMB"
  <2>1. children[p] \in Seq(Process) /\ DOMAIN children[p] = 1..Len(children[p])
    BY ParentFacts, LenProperties
  <2>. QED
    BY <2>1 DEF Reported, Items
<1>3. z \in Process /\ z # p /\ z # initproc /\ p_parent[z] = p /\ Items(children[z]) = {}
  BY <1>2, ParentFacts
<1>4. /\ Without(children[p], z) \in Seq(Process) /\ Distinct(Without(children[p], z))
      /\ Items(Without(children[p], z)) = Items(children[p]) \ {z}
  BY ParentFacts, WithoutItems
<1>5. ProcTypeOK'
  <2>1. DOMAIN p_pid' = Process /\ p_pid' = [q \in Process |-> p_pid'[q]]
    BY <1>1, <1>t DEF ProcTypeOK
  <2>2. children' \in [Process -> Seq(Process)]
    BY <1>1, <1>4, <1>t DEF ProcTypeOK
  <2>. QED
    BY <1>1, <1>t, <2>1, <2>2 DEF ProcTypeOK
<1>6. \A q \in Process : /\ p_stat'[q] = (IF q = z THEN "free" ELSE p_stat[q])
                         /\ p_parent'[q] = (IF q = z THEN NoProc ELSE p_parent[q])
                         /\ q # z => p_pid'[q] = p_pid[q]
                         /\ children'[q] = IF q = p THEN Without(children[p], z) ELSE children[q]
  BY <1>1, <1>t DEF ProcTypeOK
<1>7. Parents'
  <2>1. \A q \in Process : client'[q] = "gone" <=> p_stat'[q] # "RUN"
    BY <1>1, <1>2, <1>6 DEF Tree, Parents
  <2>2. p_parent'[initproc] = NoProc /\ p_stat'[initproc] = "RUN" /\ client'[initproc] # "exec"
    BY <1>1, <1>3, <1>6, <1>t DEF Tree, Parents
  <2>3. ASSUME NEW q \in Process \ {initproc}, p_stat'[q] # "free"
        PROVE  p_parent'[q] \in Process \ {q} /\ p_stat'[p_parent'[q]] = "RUN"
    BY <1>2, <1>6, <2>3 DEF Tree, Parents
  <2>. QED
    BY <1>5, <2>1, <2>2, <2>3 DEF Parents
<1>8. ASSUME NEW q \in Process
      PROVE  /\ Distinct(children'[q])
             /\ Items(children'[q]) = {d \in Process : p_stat'[d] # "free" /\ p_parent'[d] = q}
  <2>1. Items(children[q]) = {d \in Process : p_stat[d] # "free" /\ p_parent[d] = q}
        /\ Distinct(children[q])
    BY DEF Tree, FamilyTree
  <2>2. {d \in Process : p_stat'[d] # "free" /\ p_parent'[d] = q} = Items(children[q]) \ {z}
    BY <1>6, <2>1
  <2>3. CASE q = p
    BY <1>4, <1>6, <2>2, <2>3
  <2>4. CASE q # p
    <3>1. z \notin Items(children[q])
      BY <1>3, <2>1, <2>4
    <3>. QED
      BY <1>6, <2>1, <2>2, <2>4, <3>1
  <2>. QED
    BY <2>3, <2>4
<1>9. ptable' = {q \in Process : p_stat'[q] = "RUN"} /\ z \notin ptable
  BY <1>1, <1>2, <1>6 DEF Tree, FamilyTree
<1>10. IsInjective([q \in ptable' |-> p_pid'[q]])
  <2>1. \A q \in ptable : p_pid'[q] = p_pid[q] /\ ptable' = ptable
    BY <1>1, <1>6, <1>9, <1>t DEF ProcTypeOK
  <2>. QED
    BY <1>1, <2>1, SMTT(30) DEF Tree, FamilyTree, IsInjective
<1>11. \A q \in {d \in Process : p_stat'[d] # "free"} \ {initproc} : p_stat'[p_parent'[q]] = "RUN"
  BY <1>7 DEF Parents
<1>. QED
  BY <1>7, <1>8, <1>9, <1>10, <1>11 DEF Tree, FamilyTree

LEMMA TreeNext == Tree /\ [ProcNext]_procVars => Tree'
<1>. SUFFICES ASSUME Tree, [ProcNext]_procVars PROVE Tree'
  OBVIOUS
<1>t. client \in [Process -> ClientState]
  BY DEF Tree, Parents, ProcTypeOK
<1>1. CASE UNCHANGED procVars
  BY <1>1 DEF procVars, Tree, Parents, ProcTypeOK, FamilyTree
<1>2. ASSUME NEW p \in Process,
             ExecStart(p) \/ WaitChecked(p) \/ WaitSleep(p) \/ WaitInterrupted(p) \/ VforkSuspend(p)
      PROVE  Tree'
  <2>1. /\ client[p] # "gone"
        /\ \E s \in ClientState \ {"gone"} : /\ s = "exec" => p # initproc
                                             /\ client' = [client EXCEPT ![p] = s]
        /\ UNCHANGED <<p_stat, p_parent, children, p_pid, ptable, vforked, invfork, vchild>>
    BY <1>2 DEF ExecStart, WaitChecked, WaitSleep, WaitInterrupted, VforkSuspend, ClientState
  <2>. QED
    BY <2>1, TreeClient
<1>3. CASE ProcNext
  BY <1>2, <1>3, TreeFork, TreeExec, TreeExit, TreeReap DEF ProcNext
<1>. QED
  BY <1>1, <1>3

LEMMA TreeAlways == ProcSpec => []Tree
BY TreeInit, TreeNext, PTL DEF ProcSpec

\* Every process has one parent, which lives and lists it once; the tables hold
\* the living, under different IDs.
THEOREM FamilyTreeRight == ProcSpec => []FamilyTree
<1>1. Tree => FamilyTree
  BY DEF Tree
<1>. QED
  BY <1>1, TreeAlways, PTL
-----------------------------------------------------------------------------
\* What vfork() promises for the parent p.
Vforking(p) ==
  LET c == vchild[p]
  IN  /\ InVfork(p) <=> p \in vforked \cup abandoned
      /\ p \in vforked <=> c # NoProc
      /\ c # NoProc => /\ p_parent[c] = p /\ c \in invfork
                       /\ client[c] # "gone" /\ ~InVfork(c)
      /\ p \notin vforked \cap abandoned

\* And for the child c: while it runs its parent is in vfork(), and waits for it
\* unless it is abandoned.
Sharing(c) ==
  /\ c # initproc /\ p_stat[c] # "free"
  /\ c \notin strayed /\ p_stat[c] = "RUN" =>
       /\ InVfork(p_parent[c])
       /\ p_parent[c] \in vforked => vchild[p_parent[c]] = c

VforkInv == /\ \A p \in Process : Vforking(p)
            /\ \A c \in invfork : Sharing(c)

LEMMA VforkInvSuspends == Tree /\ VforkInv => VforkSuspends
<1>. SUFFICES ASSUME Tree, VforkInv PROVE VforkSuspends
  OBVIOUS
<1>1. vforked \cap abandoned = {}
  BY DEF VforkInv, Vforking, Tree, Parents, ProcTypeOK
<1>2. \A c \in invfork \ strayed : p_stat[c] = "RUN" => InVfork(p_parent[c])
  BY DEF VforkInv, Sharing
<1>3. \A p \in Process : Vforking(p)
  BY DEF VforkInv
<1>. QED
  BY <1>1, <1>2, <1>3, Zenon DEF VforkSuspends, Vforking

\* The parent of a child that uses its memory.
LEMMA SharingParent ==
  ASSUME Tree, VforkInv, NEW c \in invfork
  PROVE  c \in Process /\ c # initproc /\ p_parent[c] \in Process /\ p_parent[c] # c
<1>1. c \in Process /\ c # initproc /\ p_stat[c] # "free"
  BY DEF VforkInv, Sharing, Tree, Parents, ProcTypeOK
<1>. QED
  BY <1>1, ParentFacts

\* A step that changes nothing of vfork(), except for what a client does, which is
\* in vfork() or is not.
LEMMA VforkQuiet ==
  ASSUME Tree, VforkInv, NEW p \in Process, NEW s \in ClientState \ {"gone"},
         InVfork(p) <=> s \in {"forked", "suspended"}, client' = [client EXCEPT ![p] = s],
         UNCHANGED <<p_stat, p_parent, vforked, invfork, vchild, strayed, abandoned>>
  PROVE  VforkInv'
<1>t. ProcTypeOK
  BY DEF Tree, Parents
<1>1. \A q \in Process : /\ InVfork(q)' <=> InVfork(q)
                         /\ client'[q] = "gone" => client[q] = "gone"
  BY <1>t DEF ProcTypeOK, InVfork
<1>2. ASSUME NEW q \in Process PROVE Vforking(q)'
  <2>1. Vforking(q)
    BY DEF VforkInv
  <2>2. vchild[q] # NoProc => vchild[q] \in Process
    BY <1>t DEF ProcTypeOK
  <2>. QED
    BY <1>1, <2>1, <2>2 DEF Vforking
<1>3. ASSUME NEW c \in invfork' PROVE Sharing(c)'
  <2>1. Sharing(c) /\ p_parent[c] \in Process
    BY <1>3, SharingParent DEF VforkInv
  <2>. QED
    BY <1>1, <2>1 DEF Sharing
<1>. QED
  BY <1>2, <1>3 DEF VforkInv

\* The end of a vfork() of the parent of p, by exec or exit.
LEMMA VforkEnds ==
  ASSUME Tree, VforkInv, NEW p \in Process, p # initproc,
         client[p] \in {"user", "exec"}, VforkEnd(p),
         \/ invfork' = invfork \ {p} /\ p_stat' = p_stat
         \/ invfork' = invfork /\ p_stat' = [p_stat EXCEPT ![p] = "ZOMB"],
         NEW s \in {"user", "gone"}, NEW r \in {"user", client[p_parent[p]]},
         InVfork(p_parent[p]) => r = Resumed(p),
         client' = [client EXCEPT ![p] = s, ![p_parent[p]] = r],
         \A c \in Process : p_parent[c] # p => p_parent'[c] = p_parent[c]
  PROVE  VforkInv'
<1>t. ProcTypeOK
  BY DEF Tree, Parents
<1>1. PICK u \in Process : u = p_parent[p] /\ u # p /\ client[u] # "gone"
  <2>1. p_stat[p] # "free"
    BY DEF Tree, Parents
  <2>. QED
    BY <2>1, ParentFacts DEF Tree, Parents
<1>2. /\ vforked' = vforked \ {u}
      /\ vchild' = IF u \in vforked THEN [vchild EXCEPT ![u] = NoProc] ELSE vchild
      /\ strayed' = strayed \cup ({vchild[u]} \ {p, NoProc})
      /\ abandoned' = IF u \in vforked /\ client[u] = "forked"
                      THEN abandoned \cup {u} ELSE abandoned
  BY <1>1 DEF VforkEnd
<1>3. \A q \in Process : client'[q] = IF q = u THEN r ELSE IF q = p THEN s ELSE client[q]
  BY <1>1, <1>t DEF ProcTypeOK
<1>4. /\ Vforking(u) /\ Vforking(p) /\ ~InVfork(p) /\ p \notin vforked
      /\ InVfork(u) => r = IF u \in vforked /\ client[u] = "suspended" THEN "user" ELSE client[u]
  BY <1>1 DEF VforkInv, Vforking, InVfork, Resumed
<1>5. /\ \A q \in Process \ {u} : InVfork(q)' <=> InVfork(q)
      /\ InVfork(u)' <=> InVfork(u) /\ ~(u \in vforked /\ client[u] = "suspended")
  BY <1>1, <1>3, <1>4 DEF InVfork
<1>6. ASSUME NEW q \in Process PROVE Vforking(q)'
  <2>1. CASE q = u
    <3>1. vchild'[u] = NoProc /\ u \notin vforked'
      BY <1>2, <1>4, <1>t DEF Vforking, ProcTypeOK
    <3>2. InVfork(u)' <=> u \in abandoned'
      BY <1>2, <1>4, <1>5 DEF Vforking, InVfork
    <3>. QED
      BY <2>1, <3>1, <3>2 DEF Vforking
  <2>2. CASE q # u
    <3>1. Vforking(q) /\ vchild'[q] = vchild[q]
          /\ (q \in vforked' <=> q \in vforked) /\ (q \in abandoned' <=> q \in abandoned)
      BY <1>2, <1>t, <2>2 DEF VforkInv, ProcTypeOK
    <3>2. ASSUME NEW c \in Process, c = vchild[q], c # NoProc
          PROVE  p_parent'[c] = q /\ c \in invfork' /\ client'[c] # "gone" /\ ~InVfork(c)'
      <4>1. p_parent[c] = q /\ c \in invfork /\ client[c] # "gone" /\ ~InVfork(c) /\ q # p
        BY <1>4, <3>1, <3>2 DEF Vforking
      <4>2. c # p /\ p_parent'[c] = q /\ c \in invfork'
        BY <1>1, <2>2, <4>1
      <4>. QED
        BY <1>1, <1>3, <1>5, <4>1, <4>2
    <3>3. vchild[q] # NoProc => vchild[q] \in Process
      BY <1>t DEF ProcTypeOK
    <3>. QED
      BY <1>5, <2>2, <3>1, <3>2, <3>3 DEF Vforking
  <2>. QED
    BY <2>1, <2>2
<1>7. ASSUME NEW c \in invfork' PROVE Sharing(c)'
  <2>1. c \in invfork /\ Sharing(c) /\ c \in Process /\ c # initproc /\ p_parent[c] \in Process
    BY <1>7, SharingParent DEF VforkInv
  <2>2. p_stat'[c] # "free" /\ (p_stat'[c] = "RUN" => p_stat[c] = "RUN" /\ c # p)
    BY <1>7, <1>t, <2>1 DEF ProcTypeOK, Sharing
  <2>3. ASSUME c \notin strayed', p_stat'[c] = "RUN"
        PROVE  /\ InVfork(p_parent[c])' /\ p_parent'[c] = p_parent[c]
               /\ p_parent[c] \in vforked' => vchild'[p_parent[c]] = c
    <3>1. /\ InVfork(p_parent[c]) /\ c # p
          /\ p_parent[c] \in vforked => vchild[p_parent[c]] = c
      BY <1>2, <2>1, <2>2, <2>3 DEF Sharing
    <3>2. p_parent[c] # p /\ p_parent'[c] = p_parent[c]
      BY <1>4, <2>1, <3>1
    <3>3. CASE p_parent[c] = u
      <4>1. u \notin vforked
        BY <1>2, <2>3, <3>1, <3>3, ProcAssumption, <2>1 DEF Process
      <4>. QED
        BY <1>2, <1>5, <3>1, <3>2, <3>3, <4>1
    <3>4. CASE p_parent[c] # u
      BY <1>2, <1>5, <1>t, <2>1, <3>1, <3>2, <3>4 DEF ProcTypeOK
    <3>. QED
      BY <3>3, <3>4
  <2>. QED
    BY <2>1, <2>2, <2>3 DEF Sharing, InVfork
<1>. QED
  BY <1>6, <1>7 DEF VforkInv

LEMMA VforkForks ==
  ASSUME Tree, VforkInv, NEW p \in Process, NEW c \in Slot, NEW v \in BOOLEAN,
         NEW saved \in BOOLEAN, Fork(p, c, v, saved)
  PROVE  VforkInv'
<1>t. ProcTypeOK
  BY DEF Tree, Parents
<1>1. /\ client[p] = "user" /\ client[c] = "gone" /\ p_stat[c] = "free"
      /\ c \in Process /\ c # NoProc /\ c # initproc
      /\ v => p \notin invfork
      /\ p_stat' = [p_stat EXCEPT ![c] = "RUN"]
      /\ p_parent' = [p_parent EXCEPT ![c] = p]
      /\ vforked' = IF v /\ saved THEN vforked \cup {p} ELSE vforked
      /\ invfork' = IF v THEN invfork \cup {c} ELSE invfork
      /\ client' = [client EXCEPT ![p] = IF v THEN "forked" ELSE @, ![c] = "user"]
      /\ vchild' = IF v /\ saved THEN [vchild EXCEPT ![p] = c] ELSE vchild
      /\ abandoned' = IF v /\ ~saved THEN abandoned \cup {p} ELSE abandoned
      /\ strayed' = strayed
  BY ProcAssumption DEF Fork, Process
<1>2. /\ \A u \in Process : /\ p_stat'[u] = IF u = c THEN "RUN" ELSE p_stat[u]
                            /\ p_parent'[u] = IF u = c THEN p ELSE p_parent[u]
                            /\ vchild'[u] = IF u = p /\ v /\ saved THEN c ELSE vchild[u]
                            /\ client'[u] = IF u = c THEN "user"
                                            ELSE IF u = p /\ v THEN "forked" ELSE client[u]
  BY <1>1, <1>t DEF ProcTypeOK
<1>3. /\ p # c /\ ~InVfork(p) /\ ~InVfork(c) /\ c \notin invfork
      /\ p \notin vforked \cup abandoned /\ vchild[p] = NoProc
  BY <1>1 DEF VforkInv, Vforking, Sharing, InVfork
<1>4. \A u \in Process : InVfork(u)' <=> InVfork(u) \/ (u = p /\ v)
  BY <1>1, <1>2, <1>3 DEF InVfork
<1>5. ASSUME NEW q \in Process PROVE Vforking(q)'
  <2>1. CASE q = p /\ v /\ saved
    <3>1. /\ vchild'[q] = c /\ p_parent'[c] = q /\ client'[c] # "gone" /\ ~InVfork(c)'
          /\ InVfork(q)' /\ q \in vforked' /\ c \in invfork' /\ q \notin abandoned'
      BY <1>1, <1>2, <1>3, <1>4, <2>1
    <3>. QED
      BY <1>1, <3>1 DEF Vforking
  <2>2. CASE q = p /\ v /\ ~saved
    <3>1. vchild'[q] = NoProc /\ InVfork(q)' /\ q \notin vforked' /\ q \in abandoned'
      BY <1>1, <1>2, <1>3, <1>4, <2>2
    <3>. QED
      BY <3>1 DEF Vforking
  <2>3. CASE ~(q = p /\ v)
    <3>1. Vforking(q) /\ vchild'[q] = vchild[q]
          /\ (q \in vforked' <=> q \in vforked) /\ (q \in abandoned' <=> q \in abandoned)
      BY <1>1, <1>2, <2>3 DEF VforkInv
    <3>2. ASSUME NEW d \in Process, d = vchild[q], d # NoProc
          PROVE  p_parent'[d] = q /\ d \in invfork' /\ client'[d] # "gone" /\ ~InVfork(d)'
      <4>1. p_parent[d] = q /\ d \in invfork /\ client[d] # "gone" /\ ~InVfork(d)
        BY <3>1, <3>2 DEF Vforking
      <4>2. d # c /\ ~(d = p /\ v)
        BY <1>1, <4>1
      <4>. QED
        BY <1>1, <1>2, <1>4, <4>1, <4>2
    <3>3. vchild[q] # NoProc => vchild[q] \in Process
      BY <1>t DEF ProcTypeOK
    <3>. QED
      BY <1>4, <2>3, <3>1, <3>2, <3>3 DEF Vforking
  <2>. QED
    BY <2>1, <2>2, <2>3
<1>6. ASSUME NEW d \in invfork' PROVE Sharing(d)'
  <2>1. CASE d = c
    <3>1. v
      BY <1>1, <1>3, <1>6, <2>1
    <3>2. /\ p_stat'[d] = "RUN" /\ p_parent'[d] = p /\ InVfork(p)'
          /\ p \in vforked' => vchild'[p] = c
      BY <1>1, <1>2, <1>3, <1>4, <2>1, <3>1
    <3>. QED
      BY <1>1, <2>1, <3>2 DEF Sharing, InVfork
  <2>2. CASE d # c
    <3>1. d \in invfork /\ Sharing(d) /\ d \in Process /\ p_parent[d] \in Process
      BY <1>1, <1>6, <2>2, SharingParent DEF VforkInv
    <3>2. p_stat'[d] = p_stat[d] /\ p_parent'[d] = p_parent[d]
      BY <1>2, <2>2, <3>1
    <3>3. ASSUME d \notin strayed, p_stat[d] = "RUN"
          PROVE  /\ InVfork(p_parent[d])'
                 /\ p_parent[d] \in vforked' => vchild'[p_parent[d]] = d
      <4>1. InVfork(p_parent[d]) /\ (p_parent[d] \in vforked => vchild[p_parent[d]] = d)
        BY <3>1, <3>3 DEF Sharing
      <4>2. p_parent[d] # p
        BY <1>3, <4>1
      <4>3. PICK u \in Process : u = p_parent[d] /\ u = p_parent'[d]
        BY <3>1, <3>2
      <4>4. InVfork(u)' /\ (u \in vforked' => u \in vforked) /\ vchild'[u] = vchild[u]
        BY <1>1, <1>2, <1>4, <4>1, <4>2, <4>3
      <4>. QED
        BY <4>1, <4>3, <4>4 DEF InVfork
    <3>. QED
      BY <1>1, <3>1, <3>2, <3>3 DEF Sharing, InVfork
  <2>. QED
    BY <2>1, <2>2
<1>. QED
  BY <1>5, <1>6 DEF VforkInv

LEMMA VforkNext == Tree /\ VforkInv /\ [ProcNext]_procVars => VforkInv'
<1>. SUFFICES ASSUME Tree, VforkInv, [ProcNext]_procVars PROVE VforkInv'
  OBVIOUS
<1>t. ProcTypeOK
  BY DEF Tree, Parents
<1>1. CASE UNCHANGED procVars
  BY <1>1 DEF procVars, VforkInv, Vforking, Sharing, InVfork
<1>2. ASSUME NEW p \in Process,
             ExecStart(p) \/ WaitChecked(p) \/ WaitSleep(p) \/ WaitInterrupted(p) \/ VforkSuspend(p)
      PROVE  VforkInv'
  <2>1. /\ \E s \in ClientState \ {"gone"} : /\ InVfork(p) <=> s \in {"forked", "suspended"}
                                             /\ client' = [client EXCEPT ![p] = s]
        /\ UNCHANGED <<p_stat, p_parent, vforked, invfork, vchild, strayed, abandoned>>
    BY <1>2 DEF ExecStart, WaitChecked, WaitSleep, WaitInterrupted, VforkSuspend, ClientState, InVfork
  <2>. QED
    BY <2>1, VforkQuiet
<1>3. ASSUME NEW p \in Process, Exec(p) PROVE VforkInv'
  <2>1. /\ client[p] = "exec" /\ invfork' = invfork \ {p} /\ VforkEnd(p) /\ p # initproc
        /\ client' = [client EXCEPT ![p] = "user", ![p_parent[p]] = Resumed(p)]
        /\ p_parent' = p_parent /\ p_stat' = p_stat
    BY <1>3 DEF Exec, Tree, Parents
  <2>2. Resumed(p) \in {"user", client[p_parent[p]]}
    BY DEF Resumed
  <2>. QED
    BY <2>1, <2>2, VforkEnds
<1>4. ASSUME NEW p \in Process, Exit(p) PROVE VforkInv'
  <2>. DEFINE r == IF client[p_parent[p]] = "asleep" THEN "user" ELSE Resumed(p)
  <2>1. /\ client[p] = "user" /\ invfork' = invfork /\ VforkEnd(p) /\ p # initproc
        /\ p_stat' = [p_stat EXCEPT ![p] = "ZOMB"]
        /\ client' = [client EXCEPT ![p] = "gone", ![p_parent[p]] = r]
        /\ p_parent' = [c \in Process |-> IF c \in Items(children[p]) THEN initproc ELSE p_parent[c]]
    BY <1>4 DEF Exit
  <2>2. r \in {"user", client[p_parent[p]]} /\ (InVfork(p_parent[p]) => r = Resumed(p))
    BY DEF Resumed, InVfork
  <2>3. \A c \in Process : p_parent[c] # p => p_parent'[c] = p_parent[c]
    BY <2>1, ParentFacts
  <2>. HIDE DEF r
  <2>. QED
    BY <2>1, <2>2, <2>3, VforkEnds
<1>5. ASSUME NEW p \in Process, Reap(p) PROVE VforkInv'
  <2>1. PICK z \in Reported(p) :
          /\ p_stat' = [p_stat EXCEPT ![z] = "free"]
          /\ p_parent' = [p_parent EXCEPT ![z] = NoProc] /\ invfork' = invfork \ {z}
          /\ strayed' = strayed \ {z}
          /\ UNCHANGED <<vforked, client, vchild, abandoned>>
    BY <1>5 DEF Reap
  <2>2. p_stat[z] = "ZOMB" /\ z \in Process
    <3>1. children[p] \in Seq(Process) /\ DOMAIN children[p] = 1..Len(children[p])
      BY ParentFacts, LenProperties
    <3>2. z \in Items(children[p]) /\ p_stat[z] = "ZOMB"
      BY <3>1 DEF Reported, Items
    <3>. QED
      BY <3>2, ParentFacts
  <2>3. client[z] = "gone"
    BY <2>2 DEF Tree, Parents
  <2>4. ASSUME NEW q \in Process PROVE Vforking(q)'
    <3>1. Vforking(q)
      BY DEF VforkInv
    <3>2. vchild[q] # NoProc => vchild[q] \in Process /\ vchild[q] # z
      BY <1>t, <2>3, <3>1 DEF Vforking, ProcTypeOK
    <3>. QED
      BY <1>t, <2>1, <3>1, <3>2 DEF Vforking, ProcTypeOK, InVfork
  <2>5. ASSUME NEW c \in invfork' PROVE Sharing(c)'
    <3>1. c \in invfork /\ c # z /\ Sharing(c) /\ c \in Process
      BY <2>1, <2>5, SharingParent DEF VforkInv
    <3>2. p_stat'[c] = p_stat[c] /\ p_parent'[c] = p_parent[c]
      BY <1>t, <2>1, <3>1 DEF ProcTypeOK
    <3>. QED
      BY <2>1, <3>1, <3>2 DEF Sharing, InVfork
  <2>. QED
    BY <2>4, <2>5 DEF VforkInv
<1>6. CASE ProcNext
  BY <1>2, <1>3, <1>4, <1>5, <1>6, VforkForks DEF ProcNext
<1>. QED
  BY <1>1, <1>6

\* A child that shares its parent's memory finds that in vfork(), unless another
\* child has ended it; and a parent is in vfork() no longer than such a child
\* runs, unless nobody is left to resume it.
THEOREM VforkSuspended == ProcSpec => []VforkSuspends
<1>1. ProcInit => VforkInv
  BY ProcAssumption DEF ProcInit, VforkInv, Vforking, InVfork, Process
<1>. QED
  BY <1>1, TreeAlways, VforkNext, VforkInvSuspends, PTL DEF ProcSpec
-----------------------------------------------------------------------------
Zombies(p) == {c \in Items(children[p]) : p_stat[c] = "ZOMB"}

\* In waitpid(), after its request, a parent misses the zombies that it may miss.
Watchful == \A p \in Process : Waits(p) => Zombies(p) \subseteq unseen

\* sys_waitpid() reports a zombie when there is one.
LEMMA ReportsZombie ==
  ASSUME Tree, NEW p \in Process
  PROVE  Reported(p) \subseteq Zombies(p) /\ (Reported(p) = {} => Zombies(p) = {})
<1>. DEFINE dead == {i \in DOMAIN children[p] : p_stat[children[p][i]] = "ZOMB"}
<1>1. children[p] \in Seq(Process) /\ DOMAIN children[p] = 1..Len(children[p])
      /\ Len(children[p]) \in Nat
  BY ParentFacts, LenProperties
<1>2. Reported(p) = {children[p][i] : i \in {k \in dead : \A j \in dead : k <= j}}
  BY DEF Reported
<1>3. Reported(p) \subseteq Zombies(p)
  BY <1>1, <1>2 DEF Zombies, Items
<1>4. ASSUME Zombies(p) # {} PROVE Reported(p) # {}
  <2>1. dead # {} /\ dead \subseteq Nat
    BY <1>1, <1>4 DEF Zombies, Items
  <2>2. PICK k \in dead : \A j \in dead : k <= j
    BY <2>1, NatMinimum
  <2>. QED
    BY <1>2, <2>2
<1>. QED
  BY <1>3, <1>4

\* A step after which no more threads wait, beside p, who now does if s says so,
\* and the others have no more zombies.
LEMMA WatchfulKept ==
  ASSUME Tree, Watchful, NEW p \in Process,
         \A q \in Process \ {p} : Waits(q)' => Waits(q) /\ Zombies(q)' \ unseen' \subseteq Zombies(q) \ unseen,
         Waits(p)' => Zombies(p)' \subseteq unseen'
  PROVE  Watchful'
BY DEF Watchful

LEMMA WatchfulNext == Tree /\ Watchful /\ [ProcNext]_procVars => Watchful'
<1>. SUFFICES ASSUME Tree, Watchful, [ProcNext]_procVars PROVE Watchful'
  OBVIOUS
<1>t. ProcTypeOK
  BY DEF Tree, Parents
<1>1. CASE UNCHANGED procVars
  BY <1>1 DEF procVars, Watchful, Waits, Zombies
<1>2. ASSUME NEW p \in Process,
             ExecStart(p) \/ WaitChecked(p) \/ WaitSleep(p) \/ WaitInterrupted(p) \/ VforkSuspend(p)
      PROVE  Watchful'
  <2>1. UNCHANGED <<children, p_stat, unseen>> /\ \A q \in Process \ {p} : client'[q] = client[q]
    BY <1>2, <1>t DEF ExecStart, WaitChecked, WaitSleep, WaitInterrupted, VforkSuspend, ProcTypeOK
  <2>2. Waits(p)' => Waits(p) \/ Reported(p) = {}
    BY <1>2, <1>t DEF ExecStart, WaitChecked, WaitSleep, WaitInterrupted, VforkSuspend, ProcTypeOK, Waits
  <2>3. Zombies(p) = {} \/ Waits(p) => Zombies(p) \subseteq unseen
    BY DEF Watchful
  <2>4. \A q \in Process : Zombies(q)' = Zombies(q)
    BY <2>1 DEF Zombies
  <2>. QED
    BY <2>1, <2>2, <2>3, <2>4, ReportsZombie, WatchfulKept DEF Waits
<1>3. ASSUME NEW p \in Process, NEW c \in Slot, NEW v \in BOOLEAN, NEW saved \in BOOLEAN,
             Fork(p, c, v, saved)
      PROVE  Watchful'
  <2>1. /\ client[p] = "user" /\ client[c] = "gone" /\ c \in Process /\ p_stat[c] = "free"
        /\ p_stat' = [p_stat EXCEPT ![c] = "RUN"]
        /\ children' = [children EXCEPT ![p] = AtHead(c, @), ![c] = <<>>]
        /\ client' = [client EXCEPT ![p] = IF v THEN "forked" ELSE @, ![c] = "user"]
        /\ unseen' = unseen
    BY <1>3 DEF Fork, Process
  <2>2. ~Waits(p)' /\ ~Waits(c)'
    BY <1>t, <2>1 DEF ProcTypeOK, Waits
  <2>3. ASSUME NEW q \in Process \ {p}, Waits(q)' PROVE Waits(q) /\ Zombies(q)' = Zombies(q)
    <3>1. q # c /\ client'[q] = client[q] /\ children'[q] = children[q]
      BY <1>t, <2>1, <2>2, <2>3 DEF ProcTypeOK
    <3>2. \A d \in Items(children[q]) : d # c /\ p_stat'[d] = p_stat[d]
      BY <1>t, <2>1, ParentFacts DEF ProcTypeOK
    <3>. QED
      BY <2>3, <3>1, <3>2 DEF Waits, Zombies
  <2>. QED
    BY <2>1, <2>2, <2>3, WatchfulKept
<1>4. ASSUME NEW p \in Process, Exec(p) PROVE Watchful'
  <2>1. /\ UNCHANGED <<children, p_stat, unseen>>
        /\ client' = [client EXCEPT ![p] = "user", ![p_parent[p]] = Resumed(p)]
        /\ Resumed(p) \in {"user", client[p_parent[p]]}
    BY <1>4 DEF Exec, Resumed
  <2>2. ASSUME NEW q \in Process, Waits(q)' PROVE Waits(q)
    BY <1>t, <2>1, <2>2 DEF ProcTypeOK, Waits
  <2>3. \A q \in Process : Zombies(q)' = Zombies(q)
    BY <2>1 DEF Zombies
  <2>. QED
    BY <2>1, <2>2, <2>3 DEF Watchful
<1>5. ASSUME NEW p \in Process, Exit(p) PROVE Watchful'
  <2>. DEFINE orphans == Items(children[p])
              parent == p_parent[p]
              r == IF client[parent] = "asleep" THEN "user" ELSE Resumed(p)
  <2>1. /\ client[p] = "user" /\ p # initproc
        /\ p_stat' = [p_stat EXCEPT ![p] = "ZOMB"]
        /\ children' = Orphans(p)
        /\ client' = [client EXCEPT ![p] = "gone", ![parent] = r]
        /\ unseen' = unseen \cup {c \in orphans : p_stat[c] = "ZOMB" /\ Waits(initproc)}
                            \cup {c \in {p} : client[parent] = "check"}
    BY <1>5 DEF Exit
  <2>2. p_stat[p] = "RUN" /\ initproc \in Process
    BY <2>1 DEF Tree, Parents, Process
  <2>3. parent \in Process /\ parent # p
    BY <2>1, <2>2, ParentFacts
  <2>4. r \in {"user", client[parent]} /\ (client[parent] = "asleep" => r = "user")
    BY DEF Resumed
  <2>5. Tree'
    BY <1>5, TreeExit
  <2>. HIDE DEF r, parent, orphans
  <2>6. \A q \in Process : client'[q] = IF q = parent THEN r ELSE IF q = p THEN "gone" ELSE client[q]
    BY <1>t, <2>1, <2>3 DEF ProcTypeOK
  <2>7. ASSUME NEW q \in Process, Waits(q)'
        PROVE  Waits(q) /\ q # p /\ (q = parent => client[parent] = "check")
    BY <2>3, <2>4, <2>6, <2>7 DEF Waits
  <2>8. \A c \in Process : p_stat'[c] = IF c = p THEN "ZOMB" ELSE p_stat[c]
    BY <1>t, <2>1 DEF ProcTypeOK
  <2>9. ASSUME NEW q \in Process, Waits(q)', NEW c \in Zombies(q)' PROVE c \in unseen'
    <3>1. c \in Process /\ p_stat'[c] = "ZOMB" /\ c \in Items(children'[q])
          /\ c \in Items(children[q]) \cup (IF q = initproc THEN orphans ELSE {})
      <4>1. c \in Items(children'[q]) /\ p_stat'[c] = "ZOMB" /\ children'[q] \in Seq(Process)
        BY <2>5, <2>9 DEF Zombies, Tree, Parents, ProcTypeOK
      <4>2. CASE q = initproc
        <5>1. children[p] \in Seq(Process) /\ children[q] \in Seq(Process)
          BY ParentFacts
        <5>2. children' = [children EXCEPT ![p] = <<>>, ![initproc] = Reverse(children[p]) \o @]
          BY <2>1 DEF Orphans
        <5>3. children'[q] = Reverse(children[p]) \o children[q]
          BY <1>t, <2>1, <2>2, <4>2, <5>2 DEF ProcTypeOK
        <5>4. Items(children'[q]) = orphans \cup Items(children[q])
          BY <5>1, <5>3, ReverseItems, ConcatItems DEF orphans
        <5>. QED
          BY <4>1, <4>2, <5>4, NoItems
      <4>3. CASE q # initproc
        <5>1. children'[q] = children[q]
          BY <1>t, <2>1, <2>7, <2>9, <4>3 DEF Orphans, ProcTypeOK
        <5>. QED
          BY <4>1, <4>3, <5>1, NoItems
      <4>. QED
        BY <4>2, <4>3
    <3>2. CASE c = p
      <4>1. p \notin orphans
        BY ParentFacts DEF orphans
      <4>2. p \in Items(children[q])
        BY <3>1, <3>2, <4>1
      <4>3. q = parent
        BY <4>2, ParentFacts DEF parent
      <4>. QED
        BY <2>1, <2>7, <2>9, <3>2, <4>3
    <3>3. CASE c # p /\ c \in Items(children[q])
      BY <2>1, <2>7, <2>8, <2>9, <3>1, <3>3 DEF Watchful, Zombies
    <3>4. CASE c # p /\ q = initproc /\ c \in orphans
      BY <2>1, <2>7, <2>8, <2>9, <3>1, <3>4
    <3>. QED
      BY <3>1, <3>2, <3>3, <3>4
  <2>. QED
    BY <2>9 DEF Watchful
<1>6. ASSUME NEW p \in Process, Reap(p) PROVE Watchful'
  <2>1. PICK z \in Reported(p) :
          /\ client[p] = "user"
          /\ p_stat' = [p_stat EXCEPT ![z] = "free"]
          /\ children' = [children EXCEPT ![p] = Without(@, z)]
          /\ unseen' = unseen \ {z}
          /\ client' = client
    BY <1>6 DEF Reap
  <2>2. z \in Items(children[p])
    BY ReportsZombie DEF Zombies
  <2>3. ASSUME NEW q \in Process \ {p}
        PROVE  Zombies(q)' \ unseen' \subseteq Zombies(q) \ unseen
    <3>1. children'[q] = children[q] /\ \A c \in Items(children[q]) : c # z /\ p_stat'[c] = p_stat[c]
      BY <1>t, <2>1, <2>2, ParentFacts DEF ProcTypeOK
    <3>. QED
      BY <2>1, <3>1 DEF Zombies
  <2>. QED
    BY <2>1, <2>3, WatchfulKept DEF Waits
<1>7. CASE ProcNext
  BY <1>2, <1>3, <1>4, <1>5, <1>6, <1>7 DEF ProcNext
<1>. QED
  BY <1>1, <1>7

\* A parent that sleeps in waitpid() has no zombie but those that came between
\* its request and its sleep, or that init adopted.
THEOREM WaitersRight == ProcSpec => []WaitersMissOnly
<1>1. ProcInit => Watchful
  BY DEF ProcInit, Watchful, Waits, Process
<1>2. Tree /\ Watchful => WaitersMissOnly
  BY ReportsZombie DEF Watchful, WaitersMissOnly, Waits
<1>. QED
  BY <1>1, <1>2, TreeAlways, WatchfulNext, PTL DEF ProcSpec
-----------------------------------------------------------------------------
\* The places of s that hold a member of V, and how many there are.
Places(s, V) == {i \in 1..Len(s) : s[i] \in V}
Among(s, V) == Cardinality(Places(s, V))

LEMMA AmongType ==
  ASSUME NEW S, NEW s \in Seq(S), NEW V
  PROVE  /\ IsFiniteSet(Places(s, V))
         /\ Among(s, V) \in 0..Len(s)
<1>0. Len(s) \in Nat
  OBVIOUS
<1>1. IsFiniteSet(1..Len(s)) /\ Cardinality(1..Len(s)) = IF 1 > Len(s) THEN 0 ELSE Len(s) - 1 + 1
  BY <1>0, FS_Interval, SMT
<1>2. Places(s, V) \in SUBSET (1..Len(s))
  BY DEF Places
<1>3. IsFiniteSet(Places(s, V)) /\ Cardinality(Places(s, V)) <= Cardinality(1..Len(s))
  BY <1>1, <1>2, FS_Subset
<1>4. Cardinality(Places(s, V)) \in Nat
  BY <1>3, FS_CardinalityType
<1>. QED
  BY <1>0, <1>1, <1>3, <1>4 DEF Among

LEMMA AmongAppend ==
  ASSUME NEW S, NEW s \in Seq(S), NEW x \in S, NEW V
  PROVE  Among(Append(s, x), V) = Among(s, V) + IF x \in V THEN 1 ELSE 0
<1>1. /\ Len(Append(s, x)) = Len(s) + 1
      /\ \A i \in 1..Len(s) : Append(s, x)[i] = s[i]
      /\ Append(s, x)[Len(s) + 1] = x
  OBVIOUS
<1>2. Places(Append(s, x), V) = IF x \in V THEN Places(s, V) \cup {Len(s) + 1} ELSE Places(s, V)
  BY <1>1 DEF Places
<1>3. Len(s) + 1 \notin Places(s, V)
  BY DEF Places
<1>4. IsFiniteSet(Places(s, V)) /\ Among(s, V) \in Nat
  BY AmongType
<1>5. Cardinality(Places(s, V) \cup {Len(s) + 1}) = Cardinality(Places(s, V)) + 1
  BY <1>3, <1>4, FS_AddElement
<1>. QED
  BY <1>2, <1>4, <1>5 DEF Among

LEMMA AmongTail ==
  ASSUME NEW S, NEW s \in Seq(S), s # <<>>, NEW V
  PROVE  Among(s, V) = Among(Tail(s), V) + IF Head(s) \in V THEN 1 ELSE 0
<1>. DEFINE later == Places(s, V) \ {1}
            f == [i \in Places(Tail(s), V) |-> i + 1]
<1>1. /\ Tail(s) \in Seq(S) /\ Len(Tail(s)) = Len(s) - 1 /\ Len(s) \in Nat \ {0}
      /\ \A i \in 1..Len(Tail(s)) : Tail(s)[i] = s[i + 1]
  BY HeadTailProperties, EmptySeq
<1>2. f \in Bijection(Places(Tail(s), V), later)
  <2>1. \A i \in Places(Tail(s), V) : i \in 1..(Len(s) - 1) /\ s[i + 1] \in V
    BY <1>1 DEF Places
  <2>2. f \in [Places(Tail(s), V) -> later]
    BY <2>1, <1>1 DEF Places
  <2>3. \A i, j \in Places(Tail(s), V) : f[i] = f[j] => i = j
    BY <2>1
  <2>4. ASSUME NEW j \in later PROVE \E i \in Places(Tail(s), V) : f[i] = j
    <3>1. j \in 2..Len(s) /\ s[j] \in V
      BY <1>1 DEF Places
    <3>2. j - 1 \in Places(Tail(s), V) /\ (j - 1) + 1 = j
      BY <1>1, <3>1 DEF Places
    <3>. QED
      BY <3>2
  <2>. QED
    BY <2>2, <2>3, <2>4 DEF Bijection, Injection, IsInjective, Surjection
<1>3. Cardinality(later) = Among(Tail(s), V)
  <2>1. IsFiniteSet(Places(Tail(s), V))
    BY <1>1, AmongType
  <2>2. ExistsBijection(Places(Tail(s), V), later)
    BY <1>2, Zenon DEF ExistsBijection
  <2>. QED
    BY <2>1, <2>2, FS_Bijection, Zenon DEF Among
<1>4. IsFiniteSet(Places(s, V)) /\ (1 \in Places(s, V) <=> Head(s) \in V)
  <2>1. IsFiniteSet(Places(s, V))
    BY AmongType
  <2>2. Head(s) = s[1]
    OBVIOUS
  <2>. QED
    BY <1>1, <2>1, <2>2 DEF Places
<1>5. Among(s, V) \in Nat /\ Cardinality(later) = IF 1 \in Places(s, V) THEN Among(s, V) - 1 ELSE Among(s, V)
  BY <1>4, FS_RemoveElement, FS_CardinalityType DEF Among
<1>. QED
  BY <1>3, <1>4, <1>5
-----------------------------------------------------------------------------
\* An acknowledgement instead of the packet it is for.
LEMMA AckForPacket ==
  ASSUME NEW S, NEW s \in Seq(S), s # <<>>, NEW V, Head(s) \in V, NEW h \in Seq(BOOLEAN)
  PROVE  /\ Among(h, {TRUE}) \in Nat /\ Among(s, V) \in Nat
         /\ Among(Append(h, TRUE), {TRUE}) \in Nat /\ Among(Tail(s), V) \in Nat
         /\ Among(Append(h, TRUE), {TRUE}) + Among(Tail(s), V) = Among(h, {TRUE}) + Among(s, V)
<1>1. ASSUME NEW a \in BOOLEAN, NEW U, a \in U
      PROVE  Append(h, a) \in Seq(BOOLEAN) /\ Among(Append(h, a), U) = Among(h, U) + 1
  BY <1>1, AmongAppend
<1>2. TRUE \in BOOLEAN /\ TRUE \in {TRUE}
  OBVIOUS
<1>3. Append(h, TRUE) \in Seq(BOOLEAN) /\ Among(Append(h, TRUE), {TRUE}) = Among(h, {TRUE}) + 1
  BY <1>1, <1>2, Zenon
<1>4. Tail(s) \in Seq(S) /\ Among(s, V) = Among(Tail(s), V) + 1
  BY AmongTail, HeadTailProperties
<1>5. ASSUME NEW R, NEW r \in Seq(R), NEW U PROVE Among(r, U) \in Nat
  <2>1. Len(r) \in Nat
    OBVIOUS
  <2>. QED
    BY <2>1, AmongType
<1>6. Among(h, {TRUE}) \in Nat /\ Among(Append(h, TRUE), {TRUE}) \in Nat
  BY <1>3, <1>5, Zenon
<1>7. Among(Tail(s), V) \in Nat
  BY <1>4, <1>5
<1>. DEFINE before == Among(h, {TRUE})
            after == Among(Append(h, TRUE), {TRUE})
<1>8. before \in Nat /\ after \in Nat /\ after = before + 1
  BY <1>3, <1>6, Zenon
<1>. HIDE DEF before, after
<1>9. Among(s, V) \in Nat /\ after + Among(Tail(s), V) = before + Among(s, V)
  BY <1>4, <1>7, <1>8
<1>. QED
  BY <1>6, <1>7, <1>9, Zenon DEF before, after

XmodemTypeOK ==
  /\ seqnum \in 0..(SeqNumbers - 1)
  /\ swallows \in BOOLEAN
  /\ xwritten \in Seq(1..Blocks)
  /\ toboard \in Seq(0..(Blocks + 1))
  /\ tohost \in Seq(BOOLEAN)
  /\ sending \in 1..(Blocks + 1)

\* How far the ACKs can take the sender past block v, if v + 1 does not arrive:
\* each ACK on the line takes it one block on, and so does each packet up to v
\* that is still on its way to be acknowledged.
Lead(v) == (sending - v) + Among(tohost, {TRUE}) + Among(toboard, 1..v)

\* What is on the line came in order, from the last block written to the one
\* that is sent; a lead of a whole cycle is out of reach, so the number of a
\* packet tells which block it is.
Window ==
  LET w == Len(xwritten) IN
  /\ seqnum = (w + 1) % SeqNumbers
  /\ w <= sending
  /\ \A i \in 1..Len(toboard) : toboard[i] # 0 => w <= toboard[i] /\ toboard[i] <= sending
  /\ \A i, j \in 1..Len(toboard) : i < j /\ toboard[j] # 0 => toboard[i] <= toboard[j]
  /\ \A v \in w..(sending - 1) : Lead(v) < SeqNumbers

\* A receiver that swallows everything writes no more.
XmodemInv == XmodemTypeOK /\ XmodemInOrder /\ (~swallows => Window)

LEMMA XmodemInvInit == XmodemInit => XmodemInv
<1>. SUFFICES ASSUME XmodemInit PROVE XmodemInv
  OBVIOUS
<1>. USE XmodemAssumption
<1>1. xwritten = <<>> /\ Len(xwritten) = 0 /\ toboard = <<>> /\ Len(toboard) = 0 /\ sending = 1
  BY DEF XmodemInit
<1>2. XmodemTypeOK
  <2>1. seqnum \in 0..(SeqNumbers - 1)
    BY RemainderIs DEF XmodemInit
  <2>2. toboard \in Seq(0..(Blocks + 1)) /\ xwritten \in Seq(1..Blocks)
    BY <1>1
  <2>3. tohost \in Seq(BOOLEAN)
    <3>1. FALSE \in BOOLEAN
      OBVIOUS
    <3>2. \A x \in BOOLEAN : <<x>> \in Seq(BOOLEAN)
      OBVIOUS
    <3>. QED
      BY <3>1, <3>2, Zenon DEF XmodemInit
  <2>4. swallows \in BOOLEAN
    BY Zenon DEF XmodemInit
  <2>. QED
    BY <1>1, <2>1, <2>2, <2>3, <2>4 DEF XmodemTypeOK
<1>3. XmodemInOrder
  BY <1>1 DEF XmodemInOrder
<1>4. Among(tohost, {TRUE}) = 0 /\ Among(toboard, 1..0) = 0
  <2>1. tohost = <<FALSE>> /\ Len(tohost) = 1 /\ ~tohost[1]
    BY DEF XmodemInit
  <2>2. Places(tohost, {TRUE}) = {}
    <3>1. \A i \in 1..1 : i = 1
      OBVIOUS
    <3>. QED
      BY <2>1, <3>1, Zenon DEF Places
  <2>3. Places(toboard, 1..0) = {}
    BY <1>1 DEF Places
  <2>. QED
    BY <2>2, <2>3, FS_EmptySet, Zenon DEF Among
<1>5. Lead(0) = 1
  BY <1>1, <1>4 DEF Lead
<1>6. Window
  BY <1>1, <1>5 DEF XmodemInit, Window
<1>. QED
  BY <1>2, <1>3, <1>6 DEF XmodemInv

\* The counts that make the lead.
LEMMA LeadParts ==
  ASSUME XmodemTypeOK, NEW v
  PROVE  /\ tohost \in Seq(BOOLEAN) /\ Among(tohost, {TRUE}) \in 0..Len(tohost)
         /\ toboard \in Seq(0..(Blocks + 1)) /\ Among(toboard, 1..v) \in 0..Len(toboard)
<1>1. tohost \in Seq(BOOLEAN) /\ toboard \in Seq(0..(Blocks + 1))
  BY DEF XmodemTypeOK
<1>. QED
  BY <1>1, AmongType, Zenon

\* The packet that arrives.
LEMMA PacketArrives ==
  ASSUME XmodemTypeOK, toboard # <<>>
  PROVE  /\ Packet \in 0..(Blocks + 1) /\ Packet = toboard[1]
         /\ Len(toboard) \in Nat \ {0}
         /\ Tail(toboard) \in Seq(0..(Blocks + 1))
         /\ Len(Tail(toboard)) = Len(toboard) - 1
         /\ \A i \in 1..Len(Tail(toboard)) : Tail(toboard)[i] = toboard[i + 1]
<1>1. toboard \in Seq(0..(Blocks + 1))
  BY DEF XmodemTypeOK
<1>2. Head(toboard) = toboard[1] /\ Head(toboard) \in 0..(Blocks + 1) /\ Len(toboard) \in Nat \ {0}
  <2>1. Head(toboard) = toboard[1] /\ Len(toboard) \in Nat \ {0}
    BY <1>1, EmptySeq
  <2>2. toboard[1] \in 0..(Blocks + 1)
    <3>1. 1 \in 1..Len(toboard)
      BY <2>1
    <3>. QED
      BY <1>1, <3>1, ElementOfSeq
  <2>. QED
    BY <2>1, <2>2
<1>. QED
  BY <1>1, <1>2, HeadTailProperties DEF Packet

\* A packet of the file whose number is that of block b, the last one written or
\* the next one, is block b.
LEMMA NumberTells ==
  ASSUME XmodemTypeOK, Window, toboard # <<>>, IsData(Packet),
         NEW b \in {Len(xwritten), Len(xwritten) + 1},
         Packet % SeqNumbers = b % SeqNumbers
  PROVE  Packet = b
<1>. USE XmodemAssumption
<1>. DEFINE w == Len(xwritten)
<1>1. w \in Nat /\ b \in Int /\ Packet \in 1..Blocks /\ w <= Packet /\ Packet <= sending /\ w <= sending /\ sending \in Int
  <2>1. w \in Nat /\ sending \in Int /\ w <= sending
    BY DEF XmodemTypeOK, Window
  <2>2. Packet \in 1..Blocks /\ Packet # 0
    BY DEF IsData
  <2>3. 1 \in 1..Len(toboard) /\ Packet = toboard[1]
    BY PacketArrives
  <2>4. w <= Packet /\ Packet <= sending
    BY <2>2, <2>3 DEF Window
  <2>. QED
    BY <2>1, <2>2, <2>4
<1>2. sending - w < SeqNumbers
  <2>1. CASE w = sending
    BY <1>1, <2>1
  <2>2. CASE w # sending
    <3>1. Lead(w) < SeqNumbers
      BY <1>1, <2>2 DEF Window
    <3>2. Among(tohost, {TRUE}) \in Nat /\ Among(toboard, 1..w) \in Nat
      <4>1. \A S, s : s \in Seq(S) => Len(s) \in Nat
        BY LenProperties
      <4>2. /\ Len(tohost) \in Nat /\ Among(tohost, {TRUE}) \in 0..Len(tohost)
            /\ Len(toboard) \in Nat /\ Among(toboard, 1..w) \in 0..Len(toboard)
        BY <4>1, LeadParts, Zenon
      <4>3. \A k \in Nat : 0..k \subseteq Nat
        OBVIOUS
      <4>. QED
        BY <4>2, <4>3, Zenon
    <3>. QED
      BY <1>1, <3>1, <3>2 DEF Lead
  <2>. QED
    BY <2>1, <2>2
<1>3. Packet - b < SeqNumbers /\ b - Packet < SeqNumbers
  BY <1>1, <1>2
<1>4. SeqNumbers \in Nat \ {0} /\ Packet \in Int
  BY <1>1
<1>. QED
  BY <1>1, <1>3, <1>4, SameRemainder

\* A packet of the file that is acknowledged, and not followed in the line by an
\* earlier one: the lead beyond it is the same.
LEMMA LeadAcked ==
  ASSUME XmodemTypeOK, Window, toboard # <<>>, IsData(Packet),
         toboard' = Tail(toboard), tohost' = Append(tohost, TRUE), sending' = sending,
         NEW v \in Nat, Packet <= v
  PROVE  Lead(v)' = Lead(v)
<1>1. tohost \in Seq(BOOLEAN) /\ toboard \in Seq(0..(Blocks + 1)) /\ Packet \in 1..v
  BY DEF XmodemTypeOK, IsData
<1>. DEFINE a == Among(tohost, {TRUE})
            b == Among(toboard, 1..v)
            c == Among(tohost', {TRUE})
            d == Among(toboard', 1..v)
<1>2. a \in Nat /\ b \in Nat /\ c \in Nat /\ d \in Nat /\ c + d = a + b
  BY <1>1, AckForPacket, Zenon DEF Packet
<1>3. Lead(v)' = (sending - v) + c + d /\ Lead(v) = (sending - v) + a + b
  BY Zenon DEF Lead
<1>. HIDE DEF a, b, c, d
<1>4. sending \in Nat
  BY DEF XmodemTypeOK
<1>. QED
  BY <1>2, <1>3, <1>4

\* The receiver takes a packet of the file that is the last one written, or the
\* next one that is written now.
LEMMA WindowAcked ==
  ASSUME XmodemTypeOK, Window, toboard # <<>>, IsData(Packet),
         toboard' = Tail(toboard), tohost' = Append(tohost, TRUE), sending' = sending,
         Len(xwritten') = Packet, seqnum' = (Packet + 1) % SeqNumbers
  PROVE  Window'
<1>. USE XmodemAssumption
<1>1. Packet \in 1..Blocks /\ Len(xwritten') \in Nat /\ sending \in Nat
  BY DEF IsData, XmodemTypeOK
<1>2. /\ Packet = toboard[1] /\ Len(toboard) \in Nat \ {0}
      /\ Len(toboard') = Len(toboard) - 1
      /\ \A i \in 1..Len(toboard') : toboard'[i] = toboard[i + 1]
  BY PacketArrives
<1>3. /\ \A i \in 1..Len(toboard) : toboard[i] # 0 => toboard[i] <= sending
      /\ \A i, j \in 1..Len(toboard) : i < j /\ toboard[j] # 0 => toboard[i] <= toboard[j]
  BY DEF Window
<1>4. Len(xwritten') <= sending
  BY <1>1, <1>2, <1>3
<1>5. ASSUME NEW i \in 1..Len(toboard'), toboard'[i] # 0
      PROVE  Packet <= toboard'[i] /\ toboard'[i] <= sending
  <2>1. 1 \in 1..Len(toboard) /\ i + 1 \in 1..Len(toboard) /\ 1 < i + 1
    BY <1>2
  <2>. QED
    BY <1>2, <1>3, <1>5, <2>1
<1>6. ASSUME NEW i \in 1..Len(toboard'), NEW j \in 1..Len(toboard'), i < j, toboard'[j] # 0
      PROVE  toboard'[i] <= toboard'[j]
  <2>1. i + 1 \in 1..Len(toboard) /\ j + 1 \in 1..Len(toboard) /\ i + 1 < j + 1
    BY <1>2, <1>6
  <2>. QED
    BY <1>2, <1>3, <1>6, <2>1
<1>7. ASSUME NEW v \in Packet..(sending - 1) PROVE Lead(v)' < SeqNumbers
  <2>1. v \in Nat /\ Packet <= v /\ v \in Len(xwritten)..(sending - 1)
    <3>1. 1 \in 1..Len(toboard) /\ toboard[1] # 0
      BY <1>1, <1>2
    <3>2. Len(xwritten) <= Packet /\ Len(xwritten) \in Nat
      BY <1>2, <3>1 DEF Window, XmodemTypeOK
    <3>. QED
      BY <1>1, <3>2
  <2>2. Lead(v)' = Lead(v)
    BY <2>1, LeadAcked
  <2>3. Lead(v) < SeqNumbers
    BY <2>1 DEF Window
  <2>. QED
    BY <2>2, <2>3
<1>8. seqnum' = (Len(xwritten') + 1) % SeqNumbers
  OBVIOUS
<1>. QED
  BY <1>4, <1>5, <1>6, <1>7, <1>8 DEF Window

\* What comes on the line: nothing, or a packet garbled or sound.
LEMMA LineGrows ==
  ASSUME XmodemTypeOK, Window, sending' \in {sending, sending + 1}, sending' \in 1..(Blocks + 1),
         toboard' \in {toboard, Append(toboard, 0), Append(toboard, sending')}
  PROVE  /\ \A i \in 1..Len(toboard') :
              toboard'[i] # 0 => Len(xwritten) <= toboard'[i] /\ toboard'[i] <= sending'
         /\ \A i, j \in 1..Len(toboard') : i < j /\ toboard'[j] # 0 => toboard'[i] <= toboard'[j]
         /\ \A v \in 0..(sending' - 1) : Among(toboard', 1..v) = Among(toboard, 1..v)
<1>. USE XmodemAssumption
<1>0. sending' \in Nat
  OBVIOUS
<1>1. /\ toboard \in Seq(0..(Blocks + 1)) /\ Len(toboard) \in Nat /\ sending \in Nat
      /\ Len(xwritten) \in Nat /\ Len(xwritten) <= sending
  BY DEF XmodemTypeOK, Window
<1>2. \A i \in 1..Len(toboard) : toboard[i] \in 0..(Blocks + 1)
  BY <1>1, ElementOfSeq
<1>3. /\ \A i \in 1..Len(toboard) : toboard[i] # 0 => Len(xwritten) <= toboard[i] /\ toboard[i] <= sending
      /\ \A i, j \in 1..Len(toboard) : i < j /\ toboard[j] # 0 => toboard[i] <= toboard[j]
  BY DEF Window
<1>4. CASE toboard' = toboard
  BY <1>1, <1>2, <1>3, <1>4
<1>5. ASSUME NEW p \in {0, sending'}, toboard' = Append(toboard, p)
      PROVE  /\ \A i \in 1..Len(toboard') :
                  toboard'[i] # 0 => Len(xwritten) <= toboard'[i] /\ toboard'[i] <= sending'
             /\ \A i, j \in 1..Len(toboard') : i < j /\ toboard'[j] # 0 => toboard'[i] <= toboard'[j]
             /\ \A v \in 0..(sending' - 1) : Among(toboard', 1..v) = Among(toboard, 1..v)
  <2>1. /\ p \in 0..(Blocks + 1) /\ Len(toboard') = Len(toboard) + 1
        /\ \A i \in 1..Len(toboard) : toboard'[i] = toboard[i]
        /\ toboard'[Len(toboard) + 1] = p
    BY <1>1, <1>5
  <2>2. ASSUME NEW i \in 1..Len(toboard'), toboard'[i] # 0
        PROVE  Len(xwritten) <= toboard'[i] /\ toboard'[i] <= sending'
    <3>1. CASE i = Len(toboard) + 1
      BY <1>1, <2>1, <2>2, <3>1
    <3>2. CASE i # Len(toboard) + 1
      <4>1. i \in 1..Len(toboard)
        BY <1>1, <2>1, <3>2
      <4>. QED
        BY <1>1, <1>2, <1>3, <2>1, <2>2, <4>1
    <3>. QED
      BY <3>1, <3>2
  <2>3. ASSUME NEW i \in 1..Len(toboard'), NEW j \in 1..Len(toboard'), i < j, toboard'[j] # 0
        PROVE  toboard'[i] <= toboard'[j]
    <3>1. i \in 1..Len(toboard) /\ toboard[i] \in 0..(Blocks + 1) /\ toboard'[i] = toboard[i]
      BY <1>1, <1>2, <2>1, <2>3
    <3>2. CASE j = Len(toboard) + 1
      BY <1>1, <1>3, <2>1, <2>3, <3>1, <3>2, SMTT(30)
    <3>3. CASE j # Len(toboard) + 1
      <4>1. j \in 1..Len(toboard) /\ toboard'[j] = toboard[j]
        BY <1>1, <2>1, <3>3
      <4>. QED
        BY <1>3, <2>3, <3>1, <4>1
    <3>. QED
      BY <3>2, <3>3
  <2>4. ASSUME NEW v \in 0..(sending' - 1) PROVE Among(toboard', 1..v) = Among(toboard, 1..v)
    <3>1. p \notin 1..v
      <4>1. p = 0 \/ p = sending'
        OBVIOUS
      <4>2. v \in Nat /\ v < sending'
        <5>1. PICK n \in Nat : n = sending'
          BY <1>0
        <5>2. v \in 0..(n - 1)
          BY <5>1, Zenon
        <5>3. \A x \in 0..(n - 1) : x \in Nat /\ x < n
          OBVIOUS
        <5>. QED
          BY <5>1, <5>2, <5>3, Zenon
      <4>. QED
        BY <1>0, <4>1, <4>2
    <3>2. Among(toboard, 1..v) \in Nat
      BY <1>1, AmongType
    <3>3. Among(Append(toboard, p), 1..v) = Among(toboard, 1..v) + IF p \in 1..v THEN 1 ELSE 0
      BY <1>1, <2>1, AmongAppend
    <3>. QED
      BY <1>5, <3>1, <3>2, <3>3
  <2>. QED
    BY <2>2, <2>3, <2>4
<1>. QED
  BY <1>4, <1>5

\* The line to the board and the one to the host, typed.
LEMMA HostTypes ==
  ASSUME XmodemTypeOK, sending' \in 1..(Blocks + 1), sending' \in {sending, sending + 1},
         toboard' \in {toboard, Append(toboard, 0), Append(toboard, sending')},
         tohost' = tohost \/ (tohost # <<>> /\ tohost' = Tail(tohost)),
         UNCHANGED <<seqnum, swallows, xwritten>>
  PROVE  XmodemTypeOK'
<1>1. 0 \in 0..(Blocks + 1) /\ sending' \in 0..(Blocks + 1)
  BY XmodemAssumption
<1>2. toboard' \in Seq(0..(Blocks + 1))
  <2>1. toboard \in Seq(0..(Blocks + 1))
    BY DEF XmodemTypeOK
  <2>2. \A x \in 0..(Blocks + 1) : Append(toboard, x) \in Seq(0..(Blocks + 1))
    BY <2>1, AppendProperties
  <2>. QED
    BY <1>1, <2>1, <2>2
<1>3. tohost' \in Seq(BOOLEAN)
  <2>1. tohost \in Seq(BOOLEAN)
    BY DEF XmodemTypeOK
  <2>2. tohost # <<>> => Tail(tohost) \in Seq(BOOLEAN)
    BY <2>1, HeadTailProperties
  <2>. QED
    BY <2>1, <2>2, Zenon
<1>4. seqnum' \in 0..(SeqNumbers - 1) /\ swallows' \in BOOLEAN /\ xwritten' \in Seq(1..Blocks)
  BY Zenon DEF XmodemTypeOK
<1>. QED
  BY <1>2, <1>3, <1>4, Zenon DEF XmodemTypeOK

\* Of a line that is not empty one ACK less than before, if it is one.
LEMMA AckTaken ==
  ASSUME NEW h \in Seq(BOOLEAN), h # <<>>
  PROVE  /\ Among(h, {TRUE}) \in 0..Len(h) /\ Among(Tail(h), {TRUE}) \in Nat
         /\ Among(Tail(h), {TRUE}) <= Among(h, {TRUE})
         /\ Head(h) => Among(Tail(h), {TRUE}) = Among(h, {TRUE}) - 1
<1>. DEFINE a == Among(h, {TRUE})
            b == Among(Tail(h), {TRUE})
<1>1. a = b + IF Head(h) \in {TRUE} THEN 1 ELSE 0
  BY AmongTail, Zenon
<1>2. Tail(h) \in Seq(BOOLEAN) /\ Len(Tail(h)) \in Nat /\ Len(h) \in Nat
  BY HeadTailProperties
<1>3. a \in 0..Len(h) /\ b \in 0..Len(Tail(h))
  BY <1>2, AmongType, Zenon
<1>4. Head(h) => Head(h) \in {TRUE}
  BY HeadTailProperties, Zenon
<1>. HIDE DEF a, b
<1>. DEFINE one == IF Head(h) \in {TRUE} THEN 1 ELSE 0
<1>o. one = 1 \/ one = 0
  BY Zenon
<1>p. a = b + one
  BY <1>1
<1>. HIDE DEF one
<1>5. a \in Nat /\ b \in Nat /\ b <= a
  BY <1>p, <1>o, <1>2, <1>3
<1>6. Head(h) => b = a - 1
  <2>1. Head(h) => a = b + 1
    BY <1>1, <1>4, Zenon
  <2>2. a = b + 1 => b = a - 1
    BY <1>5
  <2>. QED
    BY <2>1, <2>2, Zenon
<1>. QED
  BY <1>3, <1>5, <1>6, Zenon DEF a, b

\* The sender goes on for an ACK: from where it was it can be taken as far as
\* the ACKs and packets on the two lines go, less than a cycle.
LEMMA WindowHostAcked ==
  ASSUME XmodemTypeOK, Window, HostAcked PROVE Window'
<1>. USE XmodemAssumption
<1>h. /\ sending <= Blocks /\ sending' = sending + 1 /\ sending \in 1..(Blocks + 1)
      /\ xwritten' = xwritten /\ seqnum' = seqnum
      /\ tohost # <<>> /\ tohost' = Tail(tohost) /\ Head(tohost)
      /\ Len(toboard) < MaxLine /\ Len(tohost) <= MaxLine
      /\ toboard' \in {toboard, Append(toboard, 0), Append(toboard, sending + 1)}
  BY Zenon DEF HostAcked, Sent, XmodemTypeOK
<1>r. sending \in 1..Blocks /\ sending' \in 1..(Blocks + 1)
  <2>1. sending \in 1..(Blocks + 1) /\ sending <= Blocks /\ sending' = sending + 1
    BY <1>h, Zenon
  <2>. QED
    BY <2>1
<1>1. /\ sending \in 1..Blocks /\ sending' = sending + 1 /\ sending' \in 1..(Blocks + 1)
      /\ xwritten' = xwritten /\ seqnum' = seqnum
      /\ Len(toboard) < MaxLine /\ Len(tohost) <= MaxLine
      /\ toboard' \in {toboard, Append(toboard, 0), Append(toboard, sending')}
  BY <1>h, <1>r, Zenon
<1>2. /\ \A i \in 1..Len(toboard') :
           toboard'[i] # 0 => Len(xwritten) <= toboard'[i] /\ toboard'[i] <= sending'
      /\ \A i, j \in 1..Len(toboard') : i < j /\ toboard'[j] # 0 => toboard'[i] <= toboard'[j]
      /\ \A v \in 0..(sending' - 1) : Among(toboard', 1..v) = Among(toboard, 1..v)
  BY <1>1, LineGrows
<1>3. Len(xwritten) \in Nat /\ Len(xwritten) <= sending
  BY DEF XmodemTypeOK, Window
<1>. DEFINE a == Among(tohost, {TRUE})
            c == Among(tohost', {TRUE})
<1>4. a \in 0..Len(tohost) /\ c \in Nat /\ c = a - 1
  <2>1. tohost \in Seq(BOOLEAN)
    BY DEF XmodemTypeOK
  <2>. QED
    BY <1>h, <2>1, AckTaken, Zenon
<1>. HIDE DEF a, c
<1>5. ASSUME NEW v \in Len(xwritten')..(sending' - 1) PROVE Lead(v)' < SeqNumbers
  <2>. DEFINE b == Among(toboard, 1..v)
  <2>0. v \in Nat /\ v \in 0..(sending' - 1)
    BY <1>1, <1>3
  <2>1. b \in 0..Len(toboard) /\ Len(toboard) \in Nat /\ Len(tohost) \in Nat
    <3>1. \A S, s : s \in Seq(S) => Len(s) \in Nat
      BY LenProperties
    <3>. QED
      BY <3>1, LeadParts, Zenon
  <2>2. Among(toboard', 1..v) = b
    BY <1>2, <2>0
  <2>3. Lead(v)' = (sending' - v) + c + b /\ Lead(v) = (sending - v) + a + b
    BY <2>2, Zenon DEF Lead, a, c
  <2>. HIDE DEF b
  <2>4. CASE v = sending
    BY <1>1, <1>4, <2>1, <2>3, <2>4
  <2>5. CASE v # sending
    <3>1. v \in Len(xwritten)..(sending - 1)
      BY <1>1, <1>3, <2>5
    <3>2. Lead(v) < SeqNumbers
      BY <3>1 DEF Window
    <3>. QED
      BY <1>1, <1>4, <2>0, <2>1, <2>3, <3>2
  <2>. QED
    BY <2>4, <2>5
<1>. QED
  BY <1>1, <1>2, <1>3, <1>5 DEF Window

LEMMA WindowHostRepeats ==
  ASSUME XmodemTypeOK, Window, HostRepeats PROVE Window'
<1>. USE XmodemAssumption
<1>1. /\ sending \in 1..(Blocks + 1) /\ sending' = sending
      /\ xwritten' = xwritten /\ seqnum' = seqnum
      /\ tohost' = tohost \/ (tohost # <<>> /\ tohost' = Tail(tohost))
      /\ toboard' \in {toboard, Append(toboard, 0), Append(toboard, sending')}
  BY DEF HostRepeats, Sent, XmodemTypeOK
<1>2. /\ \A i \in 1..Len(toboard') :
           toboard'[i] # 0 => Len(xwritten) <= toboard'[i] /\ toboard'[i] <= sending'
      /\ \A i, j \in 1..Len(toboard') : i < j /\ toboard'[j] # 0 => toboard'[i] <= toboard'[j]
      /\ \A v \in 0..(sending' - 1) : Among(toboard', 1..v) = Among(toboard, 1..v)
  BY <1>1, LineGrows
<1>3. Len(xwritten) \in Nat /\ Len(xwritten) <= sending
  BY DEF XmodemTypeOK, Window
<1>. DEFINE a == Among(tohost, {TRUE})
            c == Among(tohost', {TRUE})
<1>4. a \in Nat /\ c \in Nat /\ c <= a
  <2>1. tohost \in Seq(BOOLEAN) /\ a \in 0..Len(tohost)
    BY LeadParts
  <2>2. CASE tohost' = tohost
    BY <2>1, <2>2
  <2>3. CASE tohost # <<>> /\ tohost' = Tail(tohost)
    <3>1. a \in 0..Len(tohost) /\ c \in Nat /\ c <= a
      BY <2>1, <2>3, AckTaken, Zenon
    <3>. HIDE DEF a, c
    <3>. QED
      BY <3>1
  <2>. QED
    BY <1>1, <2>2, <2>3
<1>. HIDE DEF a, c
<1>5. ASSUME NEW v \in Len(xwritten')..(sending' - 1) PROVE Lead(v)' < SeqNumbers
  <2>. DEFINE b == Among(toboard, 1..v)
  <2>0. v \in Nat /\ v \in 0..(sending' - 1) /\ v \in Len(xwritten)..(sending - 1)
    BY <1>1, <1>3
  <2>1. b \in 0..Len(toboard) /\ Len(toboard) \in Nat
    BY LeadParts DEF XmodemTypeOK
  <2>2. Among(toboard', 1..v) = b
    BY <1>2, <2>0
  <2>3. Lead(v)' = (sending' - v) + c + b /\ Lead(v) = (sending - v) + a + b
    BY <2>2, Zenon DEF Lead, a, c
  <2>. HIDE DEF b
  <2>4. Lead(v) < SeqNumbers
    BY <2>0 DEF Window
  <2>. QED
    BY <1>1, <1>4, <2>0, <2>1, <2>3, <2>4
<1>. QED
  BY <1>1, <1>2, <1>3, <1>5 DEF Window

LEMMA XmodemInvNext == XmodemInv /\ [XmodemNext]_xmodemVars => XmodemInv'
<1>. SUFFICES ASSUME XmodemInv, [XmodemNext]_xmodemVars PROVE XmodemInv'
  OBVIOUS
<1>. USE XmodemAssumption
<1>0. XmodemTypeOK /\ XmodemInOrder /\ (~swallows => Window)
  BY DEF XmodemInv
<1>t. /\ xwritten \in Seq(1..Blocks) /\ tohost \in Seq(BOOLEAN) /\ sending \in 1..(Blocks + 1)
      /\ swallows \in BOOLEAN /\ seqnum \in 0..(SeqNumbers - 1) /\ toboard \in Seq(0..(Blocks + 1))
  BY <1>0, Zenon DEF XmodemTypeOK
<1>a. Append(tohost, TRUE) \in Seq(BOOLEAN)
  BY <1>t, AppendProperties
<1>b. toboard # <<>> => Tail(toboard) \in Seq(0..(Blocks + 1))
  BY <1>t, HeadTailProperties
<1>1. CASE XmodemWrites
  <2>1. /\ ~swallows /\ toboard # <<>> /\ toboard' = Tail(toboard) /\ sending' = sending
        /\ IsData(Packet) /\ Packet % SeqNumbers = seqnum
        /\ xwritten' = Append(xwritten, Packet) /\ seqnum' = (seqnum + 1) % SeqNumbers
        /\ tohost' = Append(tohost, TRUE) /\ swallows' = swallows
    BY <1>1, Zenon DEF XmodemWrites, Arrives, Answers, IsNext
  <2>2. Window
    BY <1>0, <2>1
  <2>. DEFINE w == Len(xwritten)
  <2>3. w \in Nat /\ seqnum = (w + 1) % SeqNumbers
    BY <1>t, <2>2 DEF Window
  <2>4. Packet = w + 1
    BY <1>0, <2>1, <2>2, <2>3, NumberTells
  <2>5. /\ Packet \in 1..Blocks /\ Len(xwritten') = w + 1 /\ xwritten' \in Seq(1..Blocks)
        /\ xwritten'[w + 1] = Packet /\ \A i \in 1..w : xwritten'[i] = xwritten[i]
    BY <1>t, <2>1 DEF IsData
  <2>6. seqnum' = (Packet + 1) % SeqNumbers
    <3>1. SeqNumbers \in Nat \ {0} /\ w + 1 \in Int /\ 1 \in Int
      BY <2>3
    <3>2. (((w + 1) % SeqNumbers) + 1) % SeqNumbers = ((w + 1) + 1) % SeqNumbers
      BY <3>1, RemainderPlus
    <3>. QED
      BY <2>1, <2>3, <2>4, <3>2
  <2>7. Window'
    BY <1>0, <2>1, <2>2, <2>4, <2>5, <2>6, WindowAcked
  <2>8. XmodemInOrder'
    <3>1. DOMAIN xwritten' = 1..(w + 1) /\ DOMAIN xwritten = 1..w
      BY <1>t, <2>5
    <3>2. ASSUME NEW i \in 1..(w + 1) PROVE xwritten'[i] = i
      <4>1. i = w + 1 \/ i \in 1..w
        BY <2>3
      <4>. QED
        BY <1>0, <2>4, <2>5, <3>1, <4>1 DEF XmodemInOrder
    <3>. QED
      BY <3>1, <3>2 DEF XmodemInOrder
  <2>9. seqnum' \in 0..(SeqNumbers - 1)
    <3>1. SeqNumbers \in Nat \ {0} /\ seqnum + 1 \in Int
      BY <1>t
    <3>. QED
      BY <2>1, <3>1, RemainderIs
  <2>10. XmodemTypeOK'
    BY <1>t, <1>a, <1>b, <2>1, <2>5, <2>9, Zenon DEF XmodemTypeOK
  <2>. QED
    BY <2>7, <2>8, <2>10 DEF XmodemInv
<1>2. CASE XmodemRepeated
  <2>1. /\ ~swallows /\ toboard # <<>> /\ toboard' = Tail(toboard) /\ sending' = sending
        /\ IsData(Packet) /\ Packet % SeqNumbers = (seqnum - 1) % SeqNumbers
        /\ xwritten' = xwritten /\ seqnum' = seqnum
        /\ tohost' = Append(tohost, TRUE) /\ swallows' = swallows
    BY <1>2, Zenon DEF XmodemRepeated, Arrives, Answers
  <2>2. Window
    BY <1>0, <2>1
  <2>. DEFINE w == Len(xwritten)
  <2>3. w \in Nat /\ seqnum = (w + 1) % SeqNumbers
    BY <1>t, <2>2 DEF Window
  <2>4. Packet % SeqNumbers = w % SeqNumbers
    <3>1. SeqNumbers \in Nat \ {0} /\ w + 1 \in Int /\ 0 - 1 \in Int
      BY <2>3
    <3>2. (((w + 1) % SeqNumbers) + (0 - 1)) % SeqNumbers = ((w + 1) + (0 - 1)) % SeqNumbers
      BY <3>1, RemainderPlus
    <3>3. seqnum + (0 - 1) = seqnum - 1 /\ (w + 1) + (0 - 1) = w
      BY <1>t, <2>3
    <3>. QED
      BY <2>1, <2>3, <3>2, <3>3
  <2>5. Packet = w
    BY <1>0, <2>1, <2>2, <2>4, NumberTells
  <2>6. Window'
    BY <1>0, <2>1, <2>2, <2>3, <2>5, WindowAcked
  <2>7. XmodemInOrder'
    BY <1>0, <2>1 DEF XmodemInOrder
  <2>8. XmodemTypeOK'
    BY <1>t, <1>a, <1>b, <2>1, Zenon DEF XmodemTypeOK
  <2>. QED
    BY <2>6, <2>7, <2>8 DEF XmodemInv
<1>3. CASE XmodemFlushes \/ XmodemSwallows
  <2>1. /\ swallows' = TRUE /\ toboard # <<>> /\ toboard' = Tail(toboard) /\ sending' = sending
        /\ xwritten' = xwritten /\ seqnum' = seqnum /\ tohost' = tohost
    BY <1>3, Zenon DEF XmodemFlushes, XmodemSwallows, Arrives
  <2>2. XmodemTypeOK' /\ XmodemInOrder'
    BY <1>0, <1>t, <1>b, <2>1, Zenon DEF XmodemTypeOK, XmodemInOrder
  <2>. QED
    BY <2>1, <2>2, Zenon DEF XmodemInv
<1>4. CASE HostAcked \/ HostRepeats
  <2>1. /\ sending' \in 1..(Blocks + 1) /\ sending' \in {sending, sending + 1}
        /\ toboard' \in {toboard, Append(toboard, 0), Append(toboard, sending')}
        /\ tohost' = tohost \/ (tohost # <<>> /\ tohost' = Tail(tohost))
        /\ UNCHANGED <<seqnum, swallows, xwritten>>
    <3>1. CASE HostRepeats
      BY <1>t, <3>1 DEF HostRepeats, Sent
    <3>2. CASE HostAcked
      <4>1. /\ sending <= Blocks /\ sending' = sending + 1 /\ sending \in 1..(Blocks + 1)
            /\ UNCHANGED <<seqnum, swallows, xwritten>>
            /\ tohost # <<>> /\ tohost' = Tail(tohost)
            /\ toboard' \in {toboard, Append(toboard, 0), Append(toboard, sending + 1)}
        BY <1>t, <3>2, Zenon DEF HostAcked, Sent
      <4>2. sending' \in 1..(Blocks + 1)
        BY <4>1
      <4>. QED
        BY <4>1, <4>2, Zenon
    <3>. QED
      BY <1>4, <3>1, <3>2
  <2>2. XmodemTypeOK'
    BY <1>0, <2>1, HostTypes
  <2>3. XmodemInOrder'
    BY <1>0, <2>1 DEF XmodemInOrder
  <2>4. ~swallows' => Window'
    BY <1>0, <1>4, <2>1, WindowHostAcked, WindowHostRepeats
  <2>. QED
    BY <2>2, <2>3, <2>4, Zenon DEF XmodemInv
<1>5. CASE UNCHANGED xmodemVars
  BY <1>0, <1>5, Zenon DEF XmodemInv, XmodemTypeOK, XmodemInOrder, Window, Lead, xmodemVars
<1>. QED
  BY <1>1, <1>2, <1>3, <1>4, <1>5, Zenon DEF XmodemNext

\* The receiver writes the blocks of the file in order, for any number of them and
\* any cycle of sequence numbers that is twice as long as the line.
THEOREM XmodemCorrect == XmodemSpec => []XmodemInOrder
<1>1. XmodemInv => XmodemInOrder
  BY DEF XmodemInv
<1>. QED
  BY XmodemInvInit, XmodemInvNext, <1>1, PTL DEF XmodemSpec
-----------------------------------------------------------------------------
\* What a thread works on, when the paths are in P.
Work(P) ==
  [pc : {"idle", "find", "lock", "dirlock", "look", "fs", "got"},
   op : {"stat", "open", "close", "unlink", "remove"},
   path : P, vp : Vnodes \cup {NoVnode}, dvp : Vnodes \cup {NoVnode},
   held : Vnodes \cup {NoVnode}, puts : Seq(Vnodes),
   put : {"load", "store", "free"}, n : Int]

\* What it has at which place of the code.
Placed(r) ==
  /\ r.vp # NoVnode <=> r.pc \in {"lock", "fs", "got"}
  /\ r.pc \in {"idle", "find", "got"} => r.dvp = NoVnode
  /\ r.pc \in {"dirlock", "look", "fs"} => r.dvp # NoVnode
  /\ r.held # NoVnode <=> r.op = "remove"
  /\ r.pc = "idle" => r.op = "stat"
  /\ r.puts # <<>> => r.pc \in {"idle", "look", "got"}
  /\ r.puts = <<>> => r.put = "load"

\* The vnodes it has locked.
HasVp(r) == r.pc \in {"fs", "got"}
HasDvp(r) == r.dvp # NoVnode /\ r.pc # "dirlock"
Mine(r) ==
  Items(r.puts) \cup (IF HasVp(r) THEN {r.vp} ELSE {}) \cup (IF HasDvp(r) THEN {r.dvp} ELSE {})
    \cup (IF r.held # NoVnode THEN {r.held} ELSE {})

\* It has none of them locked twice.
LockedOnce(r) ==
  /\ Distinct(r.puts)
  /\ HasVp(r) => r.vp \notin Items(r.puts) /\ r.vp # r.dvp /\ r.vp # r.held
  /\ HasDvp(r) => r.dvp \notin Items(r.puts) /\ r.dvp # r.held
  /\ r.held # NoVnode => r.held \notin Items(r.puts)

Locking ==
  /\ \A t \in FsThread : Placed(th[t]) /\ LockedOnce(th[t])
  /\ \A t \in FsThread : Mine(th[t]) \subseteq vn_table
  /\ \A t \in FsThread : \A v \in Vnodes : v_lock[v] = t <=> v \in Mine(th[t])

Counting ==
  /\ \A v \in vn_table : v_refcnt[v] = Uses(v) + Cardinality(References(v))
  /\ \A v \in Vnodes \ vn_table : files[v] = 0 /\ \A t \in FsThread : UsesOf(th[t], v) = 0

\* VOP_LOOKUP() has not found the path of v, or not yet.
HalfMade(r, v) ==
  \/ r.pc = "fs" /\ r.vp = v
  \/ r.puts # <<>> /\ Head(r.puts) = v

Naming ==
  /\ rootvp \in vn_table /\ v_path[rootvp] = "/"
  /\ \A v, w \in vn_table : v # w => v_path[v] # v_path[w]
  /\ \A v \in vn_table : files[v] > 0 => v_path[v] \in exists
  /\ \A v \in vn_table : v_path[v] \notin exists => \E t \in FsThread : HalfMade(th[t], v)
  /\ \A t \in FsThread : th[t].held # NoVnode => v_path[th[t].held] \notin Directory

Typing ==
  /\ vn_table \subseteq Vnodes /\ v_refcnt \in [Vnodes -> Int] /\ files \in [Vnodes -> Nat]
  /\ v_lock \in [Vnodes -> FsThread \cup {NoThread}]
  /\ \E P : v_path \in [Vnodes -> P] /\ th \in [FsThread -> Work(P)]

VnodeInv == raced = "no" => Typing /\ Locking /\ Counting /\ Naming
-----------------------------------------------------------------------------
\* u[t] tokens for each thread t.
Tokens(u) == UNION {{t} \X (1..u[t]) : t \in FsThread}
Uses0(u) == \A t \in FsThread : u[t] = 0

LEMMA TokensOfOne ==
  ASSUME NEW t, NEW n \in Nat
  PROVE  IsFiniteSet({t} \X (1..n)) /\ Cardinality({t} \X (1..n)) = n
<1>1. IsFiniteSet({t}) /\ Cardinality({t}) = 1
  BY FS_Singleton
<1>2. IsFiniteSet(1..n) /\ Cardinality(1..n) = n
  <2>1. IsFiniteSet(1..n) /\ Cardinality(1..n) = IF 1 > n THEN 0 ELSE n - 1 + 1
    BY FS_Interval
  <2>2. (IF 1 > n THEN 0 ELSE n - 1 + 1) = n
    OBVIOUS
  <2>. QED
    BY <2>1, <2>2
<1>3. /\ IsFiniteSet({t} \X (1..n))
      /\ Cardinality({t} \X (1..n)) = Cardinality({t}) * Cardinality(1..n)
  BY <1>1, <1>2, FS_Product
<1>4. 1 * n = n
  OBVIOUS
<1>. QED
  BY <1>1, <1>2, <1>3, <1>4

\* The tokens of the threads in S.
TokensIn(u, S) == UNION {{t} \X (1..u[t]) : t \in S}

LEMMA TokensFinite ==
  ASSUME NEW u \in [FsThread -> Nat], NEW S \in SUBSET FsThread
  PROVE  IsFiniteSet(TokensIn(u, S))
<1>. DEFINE T == {{t} \X (1..u[t]) : t \in S}
            f == [t \in S |-> {t} \X (1..u[t])]
<1>1. IsFiniteSet(S)
  BY VnodeFinite, FS_Subset
<1>2. f \in Surjection(S, T)
  BY DEF Surjection
<1>3. IsFiniteSet(T)
  BY <1>1, <1>2, FS_Surjection
<1>4. \A x \in T : IsFiniteSet(x)
  <2>1. ASSUME NEW t \in S PROVE IsFiniteSet({t} \X (1..u[t]))
    BY TokensOfOne
  <2>. QED
    BY <2>1
<1>5. IsFiniteSet(UNION T)
  <2>. HIDE DEF T
  <2>. QED
    BY <1>3, <1>4, FS_UNION
<1>. QED
  BY <1>5 DEF TokensIn

LEMMA TokensSplit ==
  ASSUME NEW u \in [FsThread -> Nat], NEW t \in FsThread
  PROVE  /\ Cardinality(TokensIn(u, FsThread \ {t})) \in Nat
         /\ Cardinality(Tokens(u)) = Cardinality(TokensIn(u, FsThread \ {t})) + u[t]
<1>. DEFINE A == TokensIn(u, FsThread \ {t})
            B == {t} \X (1..u[t])
<1>1. IsFiniteSet(A) /\ IsFiniteSet(B) /\ Cardinality(B) = u[t]
  BY TokensFinite, TokensOfOne
<1>2. Tokens(u) = A \cup B
  BY DEF Tokens, TokensIn
<1>3. A \cap B = {}
  BY DEF TokensIn
<1>4. Cardinality(A \cup B) = Cardinality(A) + Cardinality(B) - Cardinality(A \cap B)
  BY <1>1, FS_Union
<1>5. Cardinality(A) \in Nat /\ Cardinality(B) \in Nat /\ Cardinality(A \cap B) = 0
  BY <1>1, <1>3, FS_CardinalityType, FS_EmptySet
<1>. QED
  BY <1>1, <1>2, <1>4, <1>5

\* One thread gets more of them, or less.
LEMMA TokensChange ==
  ASSUME NEW u \in [FsThread -> Nat], NEW w \in [FsThread -> Nat], NEW t \in FsThread,
         \A s \in FsThread \ {t} : u[s] = w[s]
  PROVE  /\ Cardinality(Tokens(u)) \in Nat /\ Cardinality(Tokens(w)) \in Nat
         /\ Cardinality(Tokens(w)) - w[t] = Cardinality(Tokens(u)) - u[t]
<1>1. TokensIn(u, FsThread \ {t}) = TokensIn(w, FsThread \ {t})
  BY DEF TokensIn
<1>2. /\ Cardinality(TokensIn(u, FsThread \ {t})) \in Nat /\ u[t] \in Nat /\ w[t] \in Nat
      /\ Cardinality(Tokens(u)) = Cardinality(TokensIn(u, FsThread \ {t})) + u[t]
      /\ Cardinality(Tokens(w)) = Cardinality(TokensIn(u, FsThread \ {t})) + w[t]
  BY <1>1, TokensSplit
<1>. QED
  BY <1>2

LEMMA TokensNone ==
  ASSUME NEW u \in [FsThread -> Nat]
  PROVE  /\ Cardinality(Tokens(u)) \in Nat
         /\ Uses0(u) <=> Cardinality(Tokens(u)) = 0
<1>1. IsFiniteSet(Tokens(u)) /\ Cardinality(Tokens(u)) \in Nat
  <2>1. Tokens(u) = TokensIn(u, FsThread)
    BY DEF Tokens, TokensIn
  <2>. QED
    BY <2>1, TokensFinite, FS_CardinalityType
<1>2. Cardinality(Tokens(u)) = 0 <=> Tokens(u) = {}
  BY <1>1, FS_EmptySet
<1>3. ASSUME Uses0(u) PROVE Tokens(u) = {}
  <2>1. \A t \in FsThread : 1..u[t] = {}
    BY <1>3 DEF Uses0
  <2>. QED
    BY <2>1 DEF Tokens
<1>4. ASSUME Tokens(u) = {} PROVE Uses0(u)
  <2>1. ASSUME NEW t \in FsThread, u[t] # 0 PROVE FALSE
    <3>1. 1 \in 1..u[t]
      BY <2>1
    <3>2. <<t, 1>> \in Tokens(u)
      BY <3>1 DEF Tokens
    <3>. QED
      BY <1>4, <3>2
  <2>. QED
    BY <2>1 DEF Uses0
<1>. QED
  BY <1>1, <1>2, <1>3, <1>4

LEMMA TokensLast ==
  ASSUME NEW u \in [FsThread -> Nat], NEW t \in FsThread, Cardinality(Tokens(u)) = u[t]
  PROVE  \A s \in FsThread \ {t} : u[s] = 0
<1>1. PICK w : w = [u EXCEPT ![t] = 0]
  OBVIOUS
<1>2. w \in [FsThread -> Nat] /\ w[t] = 0 /\ \A s \in FsThread \ {t} : u[s] = w[s]
  BY <1>1
<1>3. Cardinality(Tokens(w)) - w[t] = Cardinality(Tokens(u)) - u[t] /\ Cardinality(Tokens(w)) \in Nat
  BY <1>2, TokensChange
<1>4. Cardinality(Tokens(w)) = 0
  BY <1>2, <1>3
<1>. QED
  BY <1>2, <1>4, TokensNone DEF Uses0
-----------------------------------------------------------------------------
\* What a thread has still to count down.
Owing(r) == Items(r.puts) \ (IF r.put = "free" THEN {Head(r.puts)} ELSE {})

LEMMA BitFacts == Bit(TRUE) = 1 /\ Bit(FALSE) = 0 /\ \A b \in BOOLEAN : Bit(b) \in Nat
BY DEF Bit

LEMMA TimesOnce ==
  ASSUME NEW S, NEW q \in Seq(S), Distinct(q), NEW v
  PROVE  Times(q, v) = Bit(v \in Items(q))
<1>. DEFINE A == {i \in DOMAIN q : q[i] = v}
<1>1. DOMAIN q = 1..Len(q)
  OBVIOUS
<1>2. CASE v \in Items(q)
  <2>1. PICK i \in 1..Len(q) : q[i] = v
    BY <1>2 DEF Items
  <2>2. A = {i}
    BY <1>1, <2>1 DEF Distinct
  <2>. QED
    BY <1>2, <2>2, FS_Singleton DEF Times, Bit
<1>3. CASE v \notin Items(q)
  <2>1. A = {}
    BY <1>1, <1>3 DEF Items
  <2>. QED
    BY <1>3, <2>1, FS_EmptySet DEF Times, Bit
<1>. QED
  BY <1>2, <1>3

LEMMA UsesAre ==
  ASSUME NEW P, NEW r \in Work(P), Placed(r), LockedOnce(r), NEW v
  PROVE  /\ UsesOf(r, v) = Bit(r.vp = v) + Bit(r.dvp = v) + Bit(r.held = v) + Bit(v \in Owing(r))
         /\ UsesOf(r, v) \in Nat
<1>1. r.puts \in Seq(Vnodes) /\ Distinct(r.puts) /\ (r.put = "free" => r.puts # <<>>)
  BY DEF Work, LockedOnce, Placed
<1>2. Owed(r) \in Seq(Vnodes) /\ Distinct(Owed(r)) /\ Items(Owed(r)) = Owing(r)
  <2>1. CASE r.put = "free"
    <3>1. /\ Tail(r.puts) \in Seq(Vnodes) /\ Items(Tail(r.puts)) = Items(r.puts) \ {Head(r.puts)}
          /\ Distinct(Tail(r.puts))
      BY <1>1, <2>1, DequeueItems
    <3>. QED
      BY <2>1, <3>1 DEF Owed, Owing
  <2>2. CASE r.put # "free"
    BY <1>1, <2>2 DEF Owed, Owing
  <2>. QED
    BY <2>1, <2>2
<1>3. Times(Owed(r), v) = Bit(v \in Owing(r))
  BY <1>2, TimesOnce
<1>4. UsesOf(r, v) = Bit(r.vp = v) + Bit(r.dvp = v) + Bit(r.held = v) + Bit(v \in Owing(r))
  BY <1>3 DEF UsesOf
<1>5. Bit(r.vp = v) \in Nat /\ Bit(r.dvp = v) \in Nat /\ Bit(r.held = v) \in Nat /\ Bit(v \in Owing(r)) \in Nat
  BY DEF Bit
<1>. QED
  BY <1>4, <1>5
-----------------------------------------------------------------------------
\* The uses that threads have of v.
UseMap(v) == [t \in FsThread |-> UsesOf(th[t], v)]

LEMMA ReferencesAre ==
  ASSUME NEW v
  PROVE  References(v) = Tokens(UseMap(v))
BY DEF References, Tokens, UseMap

LEMMA UseMapType ==
  ASSUME Typing, Locking, NEW v
  PROVE  /\ UseMap(v) \in [FsThread -> Nat]
         /\ \A t \in FsThread : UseMap(v)[t] = UsesOf(th[t], v)
<1>1. PICK P : th \in [FsThread -> Work(P)]
  BY DEF Typing
<1>2. ASSUME NEW t \in FsThread PROVE UsesOf(th[t], v) \in Nat
  <2>1. th[t] \in Work(P) /\ Placed(th[t]) /\ LockedOnce(th[t])
    BY <1>1 DEF Locking
  <2>. QED
    BY <2>1, UsesAre
<1>. QED
  BY <1>2 DEF UseMap

\* The thread t goes on with the work r.
Goes(t, r) == th' = [th EXCEPT ![t] = r]

LEMMA OthersStay ==
  ASSUME Typing, NEW t \in FsThread, NEW r, Goes(t, r)
  PROVE  th'[t] = r /\ \A s \in FsThread \ {t} : th'[s] = th[s]
BY DEF Typing, Goes

UsesEven(t, r, v) ==
  v_refcnt'[v] - Uses(v)' - UsesOf(r, v) = v_refcnt[v] - Uses(v) - UsesOf(th[t], v)

LEMMA UsesType ==
  ASSUME Typing, NEW v \in Vnodes
  PROVE  v_refcnt[v] \in Int /\ Uses(v) \in Nat
BY DEF Typing, Uses, Bit

LEMMA CountingStep ==
  ASSUME Typing, Locking, Counting, Typing', Locking', NEW t \in FsThread, NEW r, Goes(t, r),
         \A v \in vn_table' : IF v \in vn_table THEN UsesEven(t, r, v)
                              ELSE v_refcnt'[v] = Uses(v)' + UsesOf(r, v),
         \A v \in Vnodes \ vn_table' : /\ files'[v] = 0 /\ UsesOf(r, v) = 0
                                       /\ \A s \in FsThread \ {t} : UsesOf(th[s], v) = 0
  PROVE  Counting'
<1>1. th'[t] = r /\ \A s \in FsThread \ {t} : th'[s] = th[s]
  BY OthersStay
<1>2. ASSUME NEW v \in vn_table' PROVE v_refcnt'[v] = Uses(v)' + Cardinality(References(v)')
  <2>1. PICK u : u = UseMap(v)
    OBVIOUS
  <2>2. PICK w : w = UseMap(v)'
    OBVIOUS
  <2>3. u \in [FsThread -> Nat] /\ \A s \in FsThread : u[s] = UsesOf(th[s], v)
    BY <2>1, UseMapType
  <2>4. w \in [FsThread -> Nat] /\ \A s \in FsThread : w[s] = UsesOf(th'[s], v)
    <3>1. w = [s \in FsThread |-> UsesOf(th'[s], v)]
      BY <2>2 DEF UseMap, UsesOf, Owed
    <3>2. PICK P : th' \in [FsThread -> Work(P)]
      BY DEF Typing
    <3>3. ASSUME NEW s \in FsThread PROVE UsesOf(th'[s], v) \in Nat
      <4>1. th'[s] \in Work(P) /\ Placed(th'[s]) /\ LockedOnce(th'[s])
        BY <3>2 DEF Locking, Placed, LockedOnce
      <4>. QED
        BY <4>1, UsesAre
    <3>. QED
      BY <3>1, <3>3
  <2>5. \A s \in FsThread \ {t} : u[s] = w[s]
    BY <1>1, <2>3, <2>4
  <2>6. /\ Cardinality(Tokens(u)) \in Nat /\ Cardinality(Tokens(w)) \in Nat
        /\ Cardinality(Tokens(w)) - w[t] = Cardinality(Tokens(u)) - u[t]
    BY <2>3, <2>4, <2>5, TokensChange
  <2>7. References(v) = Tokens(u)
    BY <2>1, ReferencesAre
  <2>8. References(v)' = Tokens(w)
    <3>1. References(v)' = UNION {{s} \X (1..UsesOf(th'[s], v)) : s \in FsThread}
      BY DEF References, UsesOf, Owed
    <3>. QED
      BY <2>4, <3>1 DEF Tokens
  <2>9. v \in Vnodes /\ v_refcnt[v] \in Int /\ Uses(v) \in Nat
    BY UsesType DEF Typing
  <2>10. v_refcnt'[v] \in Int /\ Uses(v)' \in Nat
    BY <2>9 DEF Typing, Uses, Bit
  <2>11. w[t] = UsesOf(r, v) /\ u[t] = UsesOf(th[t], v) /\ w[t] \in Nat /\ u[t] \in Nat
    BY <1>1, <2>3, <2>4
  <2>12. CASE v \in vn_table
    <3>1. v_refcnt[v] = Uses(v) + Cardinality(Tokens(u))
      BY <2>7, <2>12 DEF Counting
    <3>2. v_refcnt'[v] - Uses(v)' - w[t] = v_refcnt[v] - Uses(v) - u[t]
      BY <2>11, <2>12 DEF UsesEven
    <3>. QED
      BY <2>6, <2>8, <2>9, <2>10, <2>11, <3>1, <3>2
  <2>13. CASE v \notin vn_table
    <3>1. \A s \in FsThread : u[s] = 0
      BY <2>3, <2>9, <2>13 DEF Counting
    <3>2. Cardinality(Tokens(u)) = 0 /\ u[t] = 0
      BY <2>3, <3>1, TokensNone DEF Uses0
    <3>3. v_refcnt'[v] = Uses(v)' + w[t]
      BY <2>11, <2>13
    <3>. QED
      BY <2>6, <2>8, <2>10, <2>11, <3>2, <3>3
  <2>. QED
    BY <2>12, <2>13
<1>3. ASSUME NEW v \in Vnodes \ vn_table'
      PROVE  files'[v] = 0 /\ \A s \in FsThread : UsesOf(th'[s], v) = 0
  BY <1>1
<1>. QED
  BY <1>2, <1>3 DEF Counting, UsesOf, Owed

\* A count of zero means that nobody has the vnode.
LEMMA NobodyUses ==
  ASSUME Typing, Locking, Counting, NEW v \in vn_table, v_refcnt[v] = 0
  PROVE  files[v] = 0 /\ v # rootvp /\ \A s \in FsThread : UsesOf(th[s], v) = 0
<1>1. v \in Vnodes /\ v_refcnt[v] = Uses(v) + Cardinality(References(v))
  BY DEF Typing, Counting
<1>2. PICK u : u = UseMap(v)
  OBVIOUS
<1>3. u \in [FsThread -> Nat] /\ \A s \in FsThread : u[s] = UsesOf(th[s], v)
  BY <1>2, UseMapType
<1>4. Cardinality(References(v)) \in Nat /\ (Cardinality(References(v)) = 0 => Uses0(u))
  BY <1>2, <1>3, ReferencesAre, TokensNone
<1>5. Uses(v) = 0 /\ Cardinality(References(v)) = 0
  BY <1>1, <1>4, UsesType
<1>6. files[v] = 0 /\ v # rootvp
  BY <1>1, <1>5 DEF Uses, Bit, Typing
<1>. QED
  BY <1>3, <1>4, <1>5, <1>6 DEF Uses0

\* A count of one is that of the thread that has it.
LEMMA OnlyOneUses ==
  ASSUME Typing, Locking, Counting, NEW v \in vn_table, v_refcnt[v] = 1,
         NEW t \in FsThread, UsesOf(th[t], v) > 0
  PROVE  /\ files[v] = 0 /\ v # rootvp /\ UsesOf(th[t], v) = 1
         /\ \A s \in FsThread \ {t} : UsesOf(th[s], v) = 0
<1>1. v \in Vnodes /\ v_refcnt[v] = Uses(v) + Cardinality(References(v))
  BY DEF Typing, Counting
<1>2. PICK u : u = UseMap(v)
  OBVIOUS
<1>3. u \in [FsThread -> Nat] /\ \A s \in FsThread : u[s] = UsesOf(th[s], v)
  BY <1>2, UseMapType
<1>4. /\ Cardinality(References(v)) = Cardinality(TokensIn(u, FsThread \ {t})) + u[t]
      /\ Cardinality(TokensIn(u, FsThread \ {t})) \in Nat
  BY <1>2, <1>3, ReferencesAre, TokensSplit
<1>5. Uses(v) = 0 /\ u[t] = 1 /\ Cardinality(References(v)) = u[t]
  <2>1. u[t] \in Nat /\ u[t] > 0 /\ Uses(v) \in Nat
    BY <1>1, <1>3, UsesType
  <2>. QED
    BY <1>1, <1>4, <2>1
<1>6. files[v] = 0 /\ v # rootvp
  BY <1>1, <1>5 DEF Uses, Bit, Typing
<1>7. \A s \in FsThread \ {t} : u[s] = 0
  BY <1>2, <1>3, <1>5, ReferencesAre, TokensLast
<1>. QED
  BY <1>3, <1>5, <1>6, <1>7
-----------------------------------------------------------------------------
LEMMA MineTyped ==
  ASSUME NEW P, NEW r \in Work(P), Placed(r)
  PROVE  Mine(r) \subseteq Vnodes
<1>1. Items(r.puts) \subseteq Vnodes
  BY NoItems DEF Work
<1>2. HasVp(r) => r.vp \in Vnodes
  BY DEF HasVp, Work, Placed
<1>3. HasDvp(r) => r.dvp \in Vnodes
  BY DEF HasDvp, Work, Placed
<1>. QED
  BY <1>1, <1>2, <1>3 DEF Mine, Work

LEMMA LockingStep ==
  ASSUME Typing, Locking, NEW t \in FsThread, NEW P, NEW r \in Work(P), Goes(t, r),
         Placed(r), LockedOnce(r), Mine(r) \subseteq vn_table',
         \A v \in Vnodes : v_lock'[v] = t <=> v \in Mine(r),
         \A v \in Vnodes : v_lock'[v] # v_lock[v] =>
           v_lock[v] \in {t, NoThread} /\ v_lock'[v] \in {t, NoThread},
         \A v \in vn_table \ vn_table' : v_lock[v] \in {t, NoThread}
  PROVE  Locking'
<1>1. th'[t] = r /\ \A s \in FsThread \ {t} : th'[s] = th[s]
  BY OthersStay
<1>2. NoThread \notin FsThread
  BY VnodeAssumption
<1>3. ASSUME NEW s \in FsThread
      PROVE  /\ Placed(th'[s]) /\ LockedOnce(th'[s]) /\ Mine(th'[s]) \subseteq vn_table'
             /\ \A v \in Vnodes : v_lock'[v] = s <=> v \in Mine(th'[s])
  <2>1. CASE s = t
    BY <1>1, <2>1
  <2>2. CASE s # t
    <3>1. th'[s] = th[s] /\ Placed(th[s]) /\ LockedOnce(th[s]) /\ Mine(th[s]) \subseteq vn_table
      BY <1>1, <2>2 DEF Locking
    <3>2. \A v \in Vnodes : v_lock[v] = s <=> v \in Mine(th[s])
      BY DEF Locking
    <3>3. \A v \in Vnodes : v_lock'[v] = s <=> v_lock[v] = s
      BY <1>2, <2>2
    <3>4. ASSUME NEW v \in Mine(th[s]) PROVE v \in vn_table'
      <4>1. v \in vn_table /\ v \in Vnodes
        BY <3>1 DEF Typing
      <4>2. v_lock[v] = s
        BY <3>2, <4>1
      <4>. QED
        BY <1>2, <2>2, <4>1, <4>2
    <3>. QED
      BY <3>1, <3>2, <3>3, <3>4
  <2>. QED
    BY <2>1, <2>2
<1>. QED
  BY <1>3 DEF Locking, Placed, LockedOnce, Mine, HasVp, HasDvp

\* Nothing happens to the names of vnodes.
LEMMA NamingStep ==
  ASSUME Typing, Naming, NEW t \in FsThread, NEW r, Goes(t, r),
         UNCHANGED <<vn_table, v_path, exists>>,
         \A v \in vn_table : HalfMade(th[t], v) => HalfMade(r, v) \/ v_path[v] \in exists,
         \A v \in vn_table : files'[v] > 0 => files[v] > 0 \/ v_path[v] \in exists,
         r.held # NoVnode => v_path[r.held] \notin Directory
  PROVE  Naming'
<1>1. th'[t] = r /\ \A s \in FsThread \ {t} : th'[s] = th[s]
  BY OthersStay
<1>2. ASSUME NEW v \in vn_table, v_path[v] \notin exists
      PROVE  \E s \in FsThread : HalfMade(th'[s], v)
  <2>1. PICK s \in FsThread : HalfMade(th[s], v)
    BY <1>2 DEF Naming
  <2>2. HalfMade(th'[s], v)
    BY <1>1, <1>2, <2>1
  <2>. QED
    BY <2>2
<1>3. \A s \in FsThread : th'[s].held # NoVnode => v_path[th'[s].held] \notin Directory
  BY <1>1 DEF Naming
<1>4. vn_table' = vn_table /\ v_path' = v_path /\ exists' = exists
  OBVIOUS
<1>5. \A v \in vn_table : files'[v] > 0 => v_path[v] \in exists
  BY DEF Naming
<1>. QED
  BY <1>2, <1>3, <1>4, <1>5 DEF Naming, HalfMade
-----------------------------------------------------------------------------
PathsIn(P) == v_path \in [Vnodes -> P] /\ th \in [FsThread -> Work(P)]

LEMMA WorkMore ==
  ASSUME NEW P, NEW Q, P \subseteq Q
  PROVE  Work(P) \subseteq Work(Q)
BY DEF Work

\* The vnodes that it names are active.
Known(r, V) ==
  /\ r.vp # NoVnode => r.vp \in V
  /\ r.dvp # NoVnode => r.dvp \in V
  /\ r.held # NoVnode => r.held \in V
  /\ Items(r.puts) \subseteq V

\* What there is to know of the work of a thread.
Doing(t, P, o) ==
  /\ o = th[t] /\ o \in Work(P) /\ Placed(o) /\ LockedOnce(o) /\ Known(o, vn_table)
  /\ \A v \in Vnodes : v_lock[v] = t <=> v \in Mine(o)
  /\ \A v \in Vnodes : /\ UsesOf(th[t], v) \in Nat
                       /\ UsesOf(th[t], v) = Bit(o.vp = v) + Bit(o.dvp = v) + Bit(o.held = v)
                                               + Bit(v \in Owing(o))

LEMMA WorkKnown ==
  ASSUME Typing, Locking, Counting, NEW P, PathsIn(P), NEW t \in FsThread
  PROVE  Doing(t, P, th[t])
<1>1. th[t] \in Work(P) /\ Placed(th[t]) /\ LockedOnce(th[t]) /\ Mine(th[t]) \subseteq vn_table
  BY DEF Locking, PathsIn
<1>2. ASSUME NEW v
      PROVE  /\ UsesOf(th[t], v) \in Nat
             /\ UsesOf(th[t], v) = Bit(th[t].vp = v) + Bit(th[t].dvp = v) + Bit(th[t].held = v)
                                     + Bit(v \in Owing(th[t]))
  BY <1>1, UsesAre
<1>3. ASSUME NEW v \in Vnodes, th[t].vp = v \/ th[t].dvp = v \/ th[t].held = v PROVE v \in vn_table
  <2>1. /\ Bit(th[t].vp = v) \in Nat /\ Bit(th[t].dvp = v) \in Nat /\ Bit(th[t].held = v) \in Nat
        /\ Bit(v \in Owing(th[t])) \in Nat
    BY DEF Bit
  <2>2. Bit(th[t].vp = v) = 1 \/ Bit(th[t].dvp = v) = 1 \/ Bit(th[t].held = v) = 1
    BY <1>3 DEF Bit
  <2>3. UsesOf(th[t], v) # 0
    BY <1>2, <2>1, <2>2
  <2>. QED
    BY <2>3 DEF Counting
<1>4. Items(th[t].puts) \subseteq vn_table
  BY <1>1 DEF Mine
<1>5. /\ th[t].vp \in Vnodes \cup {NoVnode} /\ th[t].dvp \in Vnodes \cup {NoVnode}
      /\ th[t].held \in Vnodes \cup {NoVnode}
  BY <1>1 DEF Work
<1>6. Known(th[t], vn_table)
  BY <1>3, <1>4, <1>5 DEF Known
<1>7. \A v \in Vnodes : v_lock[v] = t <=> v \in Mine(th[t])
  BY DEF Locking
<1>. QED
  BY <1>1, <1>2, <1>6, <1>7 DEF Doing

LEMMA KnownOnly ==
  ASSUME NEW P, NEW r \in Work(P), Placed(r), LockedOnce(r), NEW V, Known(r, V)
  PROVE  /\ Mine(r) \subseteq V
         /\ \A v \in Vnodes \ V : UsesOf(r, v) = 0
         /\ \A v \in Vnodes : UsesOf(r, v) = Bit(r.vp = v) + Bit(r.dvp = v) + Bit(r.held = v)
                                               + Bit(v \in Owing(r))
<1>1. Mine(r) \subseteq V
  BY DEF Mine, Known, HasVp, HasDvp, Placed
<1>2. NoVnode \notin Vnodes
  BY VnodeAssumption DEF Vnodes
<1>3. ASSUME NEW v \in Vnodes \ V PROVE UsesOf(r, v) = 0
  <2>1. r.vp # v /\ r.dvp # v /\ r.held # v /\ v \notin Owing(r)
    BY <1>2 DEF Known, Owing
  <2>2. Bit(r.vp = v) = 0 /\ Bit(r.dvp = v) = 0 /\ Bit(r.held = v) = 0 /\ Bit(v \in Owing(r)) = 0
    BY <2>1 DEF Bit
  <2>3. UsesOf(r, v) = Bit(r.vp = v) + Bit(r.dvp = v) + Bit(r.held = v) + Bit(v \in Owing(r))
    BY UsesAre
  <2>. QED
    BY <2>2, <2>3
<1>. QED
  BY <1>1, <1>3, UsesAre

VnodeParts == Typing /\ Locking /\ Counting /\ Naming

LEMMA TypingStep ==
  ASSUME Typing, NEW t \in FsThread, NEW P, PathsIn(P), NEW Q, P \subseteq Q, NEW r \in Work(Q),
         Goes(t, r), v_path' \in [Vnodes -> Q], vn_table' \subseteq Vnodes,
         v_refcnt' \in [Vnodes -> Int], files' \in [Vnodes -> Nat],
         v_lock' \in [Vnodes -> FsThread \cup {NoThread}]
  PROVE  Typing'
<1>1. th' \in [FsThread -> Work(Q)]
  BY WorkMore DEF PathsIn, Goes
<1>. QED
  BY <1>1 DEF Typing, Work, Vnodes

\* A step that takes no vnode off the table and adds none.
LEMMA ThreadStep ==
  ASSUME VnodeParts, NEW t \in FsThread, NEW P, PathsIn(P), NEW Q, P \subseteq Q,
         NEW r \in Work(Q), Goes(t, r), UNCHANGED <<vn_table, v_path, exists>>,
         v_refcnt' \in [Vnodes -> Int], files' \in [Vnodes -> Nat],
         v_lock' \in [Vnodes -> FsThread \cup {NoThread}],
         Placed(r), LockedOnce(r), Known(r, vn_table),
         \A v \in Vnodes : v_lock'[v] = t <=> v \in Mine(r),
         \A v \in Vnodes : v_lock'[v] # v_lock[v] =>
           v_lock[v] \in {t, NoThread} /\ v_lock'[v] \in {t, NoThread},
         \A v \in vn_table : UsesEven(t, r, v),
         \A v \in Vnodes \ vn_table : files'[v] = 0,
         \A v \in vn_table : HalfMade(th[t], v) => HalfMade(r, v) \/ v_path[v] \in exists,
         \A v \in vn_table : files'[v] > 0 => files[v] > 0 \/ v_path[v] \in exists,
         r.held # NoVnode => v_path[r.held] \notin Directory
  PROVE  VnodeParts'
<1>1. Typing /\ Locking /\ Counting /\ Naming
  BY DEF VnodeParts
<1>2. vn_table' = vn_table /\ v_path' = v_path /\ vn_table \subseteq Vnodes
  BY <1>1 DEF Typing
<1>3. Typing'
  <2>1. v_path' \in [Vnodes -> Q]
    BY <1>2 DEF PathsIn
  <2>. QED
    BY <1>1, <1>2, <2>1, TypingStep
<1>4. Mine(r) \subseteq vn_table /\ \A v \in Vnodes \ vn_table : UsesOf(r, v) = 0
  BY KnownOnly
<1>5. Locking'
  <2>1. Mine(r) \subseteq vn_table' /\ \A v \in vn_table \ vn_table' : v_lock[v] \in {t, NoThread}
    BY <1>2, <1>4
  <2>. QED
    BY <1>1, <2>1, LockingStep
<1>6. Counting'
  <2>1. \A v \in vn_table' : IF v \in vn_table THEN UsesEven(t, r, v)
                             ELSE v_refcnt'[v] = Uses(v)' + UsesOf(r, v)
    BY <1>2
  <2>2. \A v \in Vnodes \ vn_table' : /\ files'[v] = 0 /\ UsesOf(r, v) = 0
                                      /\ \A s \in FsThread \ {t} : UsesOf(th[s], v) = 0
    BY <1>1, <1>2, <1>4 DEF Counting
  <2>. QED
    BY <1>1, <1>3, <1>5, <2>1, <2>2, CountingStep
<1>7. Naming'
  BY <1>1, NamingStep
<1>. QED
  BY <1>3, <1>5, <1>6, <1>7 DEF VnodeParts
-----------------------------------------------------------------------------
LEMMA ItemsFew ==
  /\ Items(<<>>) = {} /\ Distinct(<<>>)
  /\ \A a \in Vnodes : <<a>> \in Seq(Vnodes) /\ Items(<<a>>) = {a} /\ Distinct(<<a>>) /\ <<a>> # <<>>
<1>1. Items(<<>>) = {} /\ Distinct(<<>>)
  BY DEF Items, Distinct
<1>2. ASSUME NEW a \in Vnodes
      PROVE  <<a>> \in Seq(Vnodes) /\ Items(<<a>>) = {a} /\ Distinct(<<a>>) /\ <<a>> # <<>>
  <2>1. Len(<<a>>) = 1 /\ <<a>>[1] = a /\ 1..1 = {1}
    OBVIOUS
  <2>. QED
    BY <2>1 DEF Items, Distinct
<1>. QED
  BY <1>1, <1>2

LEMMA ItemsPut ==
  ASSUME NEW q \in Seq(Vnodes), Distinct(q), NEW a \in Vnodes, a \notin Items(q)
  PROVE  /\ Append(q, a) \in Seq(Vnodes) /\ Items(Append(q, a)) = Items(q) \cup {a}
         /\ Distinct(Append(q, a)) /\ Append(q, a) # <<>>
         /\ q # <<>> => Head(Append(q, a)) = Head(q)
<1>1. Append(q, a) \in Seq(Vnodes) /\ Items(Append(q, a)) = Items(q) \cup {a} /\ Distinct(Append(q, a))
  BY EnqueueItems
<1>2. Append(q, a) # <<>>
  BY <1>1, NoItems
<1>3. ASSUME q # <<>> PROVE Head(Append(q, a)) = Head(q)
  <2>1. Len(q) >= 1 /\ Append(q, a)[1] = q[1] /\ Append(q, a) \in Seq(Vnodes)
    BY <1>3
  <2>. QED
    BY <2>1
<1>. QED
  BY <1>1, <1>2, <1>3

\* The parts of the work r.
Fields(r, pc, op, vp, dvp, held, q, put) ==
  /\ r.pc = pc /\ r.op = op /\ r.vp = vp /\ r.dvp = dvp /\ r.held = held /\ r.puts = q
  /\ r.put = put

LEMMA IdleIs ==
  /\ \A P : "/" \in P => Idle \in Work(P)
  /\ Fields(Idle, "idle", "stat", NoVnode, NoVnode, NoVnode, <<>>, "load")
<1>1. Fields(Idle, "idle", "stat", NoVnode, NoVnode, NoVnode, <<>>, "load")
  BY DEF Idle, Fields
<1>2. ASSUME NEW P, "/" \in P PROVE Idle \in Work(P)
  <2>1. <<>> \in Seq(Vnodes)
    OBVIOUS
  <2>. QED
    BY <1>2, <2>1 DEF Idle, Work
<1>. QED
  BY <1>1, <1>2

NullVnode == NoVnode \notin Vnodes

LEMMA NoVnodeNull == NullVnode
BY VnodeAssumption DEF Vnodes, NullVnode

LEMMA VnodePaths ==
  ASSUME Typing
  PROVE  \E P : PathsIn(P)
BY DEF Typing, PathsIn

\* A thread goes on, and no vnode changes.
LEMMA WorkStep ==
  ASSUME VnodeParts, NEW t \in FsThread, NEW P, PathsIn(P), NEW Q, P \subseteq Q,
         NEW r \in Work(Q), Goes(t, r),
         UNCHANGED <<vn_table, v_path, v_refcnt, v_lock, files, exists>>,
         Placed(r), LockedOnce(r), Known(r, vn_table), Mine(r) = Mine(th[t]),
         \A v \in vn_table : UsesOf(r, v) = UsesOf(th[t], v),
         \A v \in vn_table : HalfMade(th[t], v) => HalfMade(r, v) \/ v_path[v] \in exists,
         r.held # NoVnode => v_path[r.held] \notin Directory
  PROVE  VnodeParts'
<1>1. Typing /\ Locking /\ Counting /\ Doing(t, P, th[t])
  BY WorkKnown DEF VnodeParts
<1>2. /\ v_refcnt' \in [Vnodes -> Int] /\ files' \in [Vnodes -> Nat]
      /\ v_lock' \in [Vnodes -> FsThread \cup {NoThread}]
  BY <1>1 DEF Typing
<1>3. \A v \in Vnodes : v_lock'[v] = t <=> v \in Mine(r)
  BY <1>1 DEF Doing
<1>4. \A v \in vn_table : UsesEven(t, r, v)
  BY DEF UsesEven, Uses
<1>5. \A v \in Vnodes \ vn_table : files'[v] = 0
  BY <1>1 DEF Counting
<1>6. v_lock' = v_lock /\ files' = files
  OBVIOUS
<1>. QED
  BY <1>2, <1>3, <1>4, <1>5, <1>6, ThreadStep

LEMMA RequestKeeps ==
  ASSUME VnodeParts, NEW t \in FsThread, NEW op \in {"open", "stat", "unlink"}, NEW p \in Asked,
         Request(t, op, p)
  PROVE  VnodeParts'
<1>1. PICK P : PathsIn(P)
  BY VnodePaths DEF VnodeParts
<1>2. Doing(t, P, th[t]) /\ th[t].pc = "idle" /\ th[t].puts = <<>>
  BY <1>1, WorkKnown DEF VnodeParts, Request, Ready
<1>3. PICK Q : Q = P \cup {"/", p}
  OBVIOUS
<1>4. PICK r : r = [Idle EXCEPT !.pc = "find", !.op = op, !.path = p]
  OBVIOUS
<1>5. r \in Work(Q) /\ Fields(r, "find", op, NoVnode, NoVnode, NoVnode, <<>>, "load")
  <2>1. Idle \in Work(Q) /\ p \in Q
    BY <1>3, IdleIs
  <2>2. r \in Work(Q)
    BY <1>4, <2>1 DEF Work
  <2>3. Fields(r, "find", op, NoVnode, NoVnode, NoVnode, <<>>, "load")
    BY <1>4, <2>1, IdleIs DEF Work, Fields
  <2>. QED
    BY <2>2, <2>3
<1>6. Goes(t, r) /\ UNCHANGED <<vn_table, v_path, v_refcnt, v_lock, files, exists>>
  BY <1>4 DEF Request, Goes
<1>7. th[t].vp = NoVnode /\ th[t].dvp = NoVnode /\ th[t].held = NoVnode
  BY <1>2 DEF Doing, Placed
<1>8. Placed(r) /\ LockedOnce(r) /\ Known(r, vn_table)
  BY <1>5, ItemsFew DEF Fields, Placed, LockedOnce, Known, HasVp, HasDvp
<1>9. Mine(r) = Mine(th[t])
  BY <1>2, <1>5, <1>7 DEF Fields, Mine, HasVp, HasDvp
<1>10. ASSUME NEW v \in vn_table PROVE UsesOf(r, v) = UsesOf(th[t], v)
  BY <1>2, <1>5, <1>7 DEF Fields, UsesOf, Owed
<1>11. \A v \in vn_table : ~HalfMade(th[t], v)
  BY <1>2 DEF HalfMade
<1>12. P \subseteq Q /\ r \in Work(Q) /\ r.held = NoVnode
  BY <1>3, <1>5 DEF Fields
<1>. QED
  BY <1>1, <1>6, <1>8, <1>9, <1>10, <1>11, <1>12, WorkStep

LEMMA CloseKeeps ==
  ASSUME VnodeParts, NEW t \in FsThread, NEW v \in Vnodes, Close(t, v)
  PROVE  VnodeParts'
<1>1. PICK P : PathsIn(P)
  BY VnodePaths DEF VnodeParts
<1>2. Doing(t, P, th[t]) /\ th[t].pc = "idle" /\ th[t].puts = <<>>
  BY <1>1, WorkKnown DEF VnodeParts, Close, Ready
<1>3. files[v] \in Nat /\ files[v] > 0 /\ v \in vn_table /\ v_path[v] \in P
  BY <1>1 DEF VnodeParts, Counting, Typing, Close, PathsIn
<1>4. PICK Q : Q = P \cup {"/"}
  OBVIOUS
<1>5. PICK r : r = [Idle EXCEPT !.pc = "lock", !.op = "close", !.path = v_path[v], !.vp = v]
  OBVIOUS
<1>6. r \in Work(Q) /\ Fields(r, "lock", "close", v, NoVnode, NoVnode, <<>>, "load")
  <2>1. Idle \in Work(Q) /\ v_path[v] \in Q
    BY <1>3, <1>4, IdleIs
  <2>2. r \in Work(Q)
    BY <1>5, <2>1 DEF Work
  <2>3. Fields(r, "lock", "close", v, NoVnode, NoVnode, <<>>, "load")
    BY <1>5, <2>1, IdleIs DEF Work, Fields
  <2>. QED
    BY <2>2, <2>3
<1>7. /\ Goes(t, r) /\ UNCHANGED <<vn_table, v_path, v_refcnt, v_lock, exists>>
      /\ files' = [files EXCEPT ![v] = @ - 1]
  BY <1>5 DEF Close, Goes
<1>8. th[t].vp = NoVnode /\ th[t].dvp = NoVnode /\ th[t].held = NoVnode
  BY <1>2 DEF Doing, Placed
<1>9. Placed(r) /\ LockedOnce(r) /\ Known(r, vn_table)
  BY <1>3, <1>6, ItemsFew, NoVnodeNull DEF Fields, Placed, LockedOnce, Known, HasVp, HasDvp, NullVnode
<1>10. Mine(r) = Mine(th[t])
  BY <1>2, <1>6, <1>8 DEF Fields, Mine, HasVp, HasDvp
<1>11. ASSUME NEW w \in vn_table PROVE UsesEven(t, r, w)
  <2>1. /\ w \in Vnodes /\ w # NoVnode /\ files[w] \in Nat /\ v_refcnt[w] \in Int
        /\ v_refcnt'[w] = v_refcnt[w] /\ files \in [Vnodes -> Nat]
    BY <1>7, NoVnodeNull DEF VnodeParts, Typing, NullVnode
  <2>2. w \notin Owing(r) /\ w \notin Owing(th[t])
    BY <1>2, <1>6, ItemsFew DEF Fields, Owing
  <2>3. UsesOf(th[t], w) = 0
    BY <1>2, <1>8, <2>1, <2>2 DEF Doing, Bit
  <2>4. UsesOf(r, w) = Bit(v = w)
    BY <1>6, <1>9, <2>1, <2>2, KnownOnly DEF Fields, Bit
  <2>5. Uses(w)' = Uses(w) - Bit(v = w)
    BY <1>3, <1>7, <2>1 DEF Uses, Bit
  <2>6. Uses(w) \in Nat /\ Bit(v = w) \in Nat
    BY <2>1 DEF Uses, Bit
  <2>. QED
    BY <2>1, <2>3, <2>4, <2>5, <2>6 DEF UsesEven
<1>12. \A w \in vn_table : ~HalfMade(th[t], w)
  BY <1>2 DEF HalfMade
<1>13. /\ v_refcnt' \in [Vnodes -> Int] /\ files' \in [Vnodes -> Nat]
       /\ v_lock' \in [Vnodes -> FsThread \cup {NoThread}]
  BY <1>3, <1>7 DEF VnodeParts, Typing
<1>14. \A w \in Vnodes : v_lock'[w] = t <=> w \in Mine(r)
  BY <1>2, <1>7, <1>10 DEF Doing
<1>15. \A w \in Vnodes \ vn_table : files'[w] = 0
  BY <1>3, <1>7 DEF VnodeParts, Counting, Typing
<1>16. \A w \in vn_table : files'[w] > 0 => files[w] > 0
  BY <1>3, <1>7 DEF VnodeParts, Typing
<1>17. v_lock' = v_lock
  BY <1>7
<1>18. P \subseteq Q /\ r \in Work(Q) /\ r.held = NoVnode
  BY <1>4, <1>6 DEF Fields
<1>. QED
  BY <1>1, <1>7, <1>9, <1>11, <1>12, <1>13, <1>14, <1>15, <1>16, <1>17, <1>18, ThreadStep
\* It looks v up.
LEMMA UseStep ==
  ASSUME VnodeParts, NEW t \in FsThread, NEW P, PathsIn(P), NEW r \in Work(P), Goes(t, r),
         UNCHANGED <<vn_table, v_path, v_lock, files, exists>>, NEW v \in vn_table,
         v_refcnt' = [v_refcnt EXCEPT ![v] = @ + 1],
         Placed(r), LockedOnce(r), Known(r, vn_table), Mine(r) = Mine(th[t]),
         \A w \in vn_table : UsesOf(r, w) = UsesOf(th[t], w) + Bit(v = w),
         \A w \in vn_table : ~HalfMade(th[t], w),
         r.held # NoVnode => v_path[r.held] \notin Directory
  PROVE  VnodeParts'
<1>1. Typing /\ Locking /\ Counting /\ Doing(t, P, th[t]) /\ vn_table \subseteq Vnodes
  BY WorkKnown DEF VnodeParts, Typing
<1>2. /\ v_refcnt' \in [Vnodes -> Int] /\ files' \in [Vnodes -> Nat]
      /\ v_lock' \in [Vnodes -> FsThread \cup {NoThread}]
  BY <1>1 DEF Typing
<1>3. \A w \in Vnodes : v_lock'[w] = t <=> w \in Mine(r)
  BY <1>1 DEF Doing
<1>4. ASSUME NEW w \in vn_table PROVE UsesEven(t, r, w)
  <2>1. w \in Vnodes /\ v_refcnt[w] \in Int /\ Uses(w) \in Nat /\ UsesOf(th[t], w) \in Nat
    BY <1>1, UsesType DEF Doing
  <2>2. v_refcnt'[w] = v_refcnt[w] + Bit(v = w) /\ Bit(v = w) \in Nat
    BY <1>1, <2>1 DEF Bit, Typing
  <2>3. Uses(w)' = Uses(w)
    BY DEF Uses
  <2>. QED
    BY <2>1, <2>2, <2>3 DEF UsesEven
<1>5. \A w \in Vnodes \ vn_table : files'[w] = 0
  BY <1>1 DEF Counting
<1>6. v_lock' = v_lock /\ files' = files
  OBVIOUS
<1>. QED
  BY <1>2, <1>3, <1>4, <1>5, <1>6, ThreadStep

LEMMA FindKeeps ==
  ASSUME VnodeParts, NEW t \in FsThread, Find(t)
  PROVE  VnodeParts'
<1>1. PICK P : PathsIn(P)
  BY VnodePaths DEF VnodeParts
<1>2. PICK o : o = th[t]
  OBVIOUS
<1>3. Doing(t, P, o) /\ o.pc = "find" /\ o.puts = <<>>
  BY <1>1, <1>2, WorkKnown DEF VnodeParts, Find, Ready
<1>4. PICK v : /\ v \in vn_table /\ v_refcnt' = [v_refcnt EXCEPT ![v] = @ + 1]
               /\ \/ th' = [th EXCEPT ![t] = [@ EXCEPT !.pc = "dirlock", !.dvp = v]]
                  \/ th' = [th EXCEPT ![t] = [@ EXCEPT !.pc = "lock", !.vp = v]]
  <2>1. Cached(th[t].path) \subseteq vn_table /\ rootvp \in vn_table
    BY DEF Cached, VnodeParts, Naming
  <2>2. CASE Cached(th[t].path) = {}
    BY <2>1, <2>2 DEF Find
  <2>3. CASE Cached(th[t].path) # {}
    <3>1. PICK x : x = CHOOSE y \in Cached(th[t].path) : TRUE
      OBVIOUS
    <3>2. x \in vn_table
      BY <2>1, <2>3, <3>1
    <3>. QED
      BY <2>3, <3>1, <3>2 DEF Find
  <2>. QED
    BY <2>2, <2>3
<1>5. v \in Vnodes /\ o \in Work(P)
  BY <1>3, <1>4 DEF VnodeParts, Typing, Doing
<1>6. /\ o.vp = NoVnode /\ o.dvp = NoVnode /\ o.put = "load" /\ Placed(o)
      /\ o.held # NoVnode => o.held \in vn_table
  BY <1>3 DEF Doing, Placed, Known
<1>7. PICK r : /\ \/ r = [o EXCEPT !.pc = "dirlock", !.dvp = v]
                  \/ r = [o EXCEPT !.pc = "lock", !.vp = v]
               /\ Goes(t, r)
  <2>1. CASE th' = [th EXCEPT ![t] = [@ EXCEPT !.pc = "dirlock", !.dvp = v]]
    BY <1>2, <2>1 DEF Goes
  <2>2. CASE th' = [th EXCEPT ![t] = [@ EXCEPT !.pc = "lock", !.vp = v]]
    BY <1>2, <2>2 DEF Goes
  <2>. QED
    BY <1>4, <2>1, <2>2
<1>8. /\ r \in Work(P)
      /\ \/ Fields(r, "dirlock", o.op, NoVnode, v, o.held, <<>>, "load")
         \/ Fields(r, "lock", o.op, v, NoVnode, o.held, <<>>, "load")
  <2>1. r \in Work(P)
    BY <1>5, <1>7 DEF Work
  <2>2. \/ Fields(r, "dirlock", o.op, NoVnode, v, o.held, <<>>, "load")
        \/ Fields(r, "lock", o.op, v, NoVnode, o.held, <<>>, "load")
    BY <1>3, <1>5, <1>6, <1>7 DEF Work, Fields
  <2>. QED
    BY <2>1, <2>2
<1>9. Placed(r) /\ LockedOnce(r) /\ Known(r, vn_table)
  BY <1>3, <1>4, <1>5, <1>6, <1>8, ItemsFew, NoVnodeNull
     DEF Placed, LockedOnce, Known, HasVp, HasDvp, Fields, NullVnode
<1>10. Mine(r) = Mine(o)
  BY <1>3, <1>6, <1>8 DEF Mine, HasVp, HasDvp, Fields
<1>11. ASSUME NEW w \in vn_table PROVE UsesOf(r, w) = UsesOf(th[t], w) + Bit(v = w)
  <2>1. w \in Vnodes /\ w # NoVnode
    BY NoVnodeNull DEF VnodeParts, Typing, NullVnode
  <2>2. UsesOf(th[t], w) = Bit(o.held = w)
    BY <1>3, <1>6, <2>1, ItemsFew DEF Doing, Owing, Bit
  <2>3. UsesOf(r, w) = Bit(r.vp = w) + Bit(r.dvp = w) + Bit(r.held = w) + Bit(w \in Owing(r))
    BY <1>8, <1>9, <2>1, KnownOnly
  <2>4. UsesOf(r, w) = Bit(v = w) + Bit(o.held = w)
    BY <1>8, <2>1, <2>3, ItemsFew DEF Owing, Bit, Fields
  <2>. QED
    BY <2>2, <2>4 DEF Bit
<1>12. \A w \in vn_table : ~HalfMade(th[t], w)
  BY <1>2, <1>3 DEF HalfMade
<1>13. r.held # NoVnode => v_path[r.held] \notin Directory
  BY <1>2, <1>8 DEF VnodeParts, Naming, Fields
<1>14. UNCHANGED <<vn_table, v_path, v_lock, files, exists>> /\ Mine(r) = Mine(th[t])
  BY <1>2, <1>10 DEF Find
<1>. QED
  BY <1>1, <1>4, <1>7, <1>8, <1>9, <1>11, <1>12, <1>13, <1>14, UseStep

\* It locks v, for which it waited.
LEMMA LockStep ==
  ASSUME VnodeParts, NEW t \in FsThread, NEW P, PathsIn(P), NEW r \in Work(P), Goes(t, r),
         UNCHANGED <<vn_table, v_path, v_refcnt, files, exists>>, NEW v \in vn_table,
         v_lock[v] = NoThread, v_lock' = [v_lock EXCEPT ![v] = t],
         Placed(r), LockedOnce(r), Known(r, vn_table), Mine(r) = Mine(th[t]) \cup {v},
         \A w \in vn_table : UsesOf(r, w) = UsesOf(th[t], w),
         \A w \in vn_table : ~HalfMade(th[t], w),
         r.held # NoVnode => v_path[r.held] \notin Directory
  PROVE  VnodeParts'
<1>1. Typing /\ Locking /\ Counting /\ Doing(t, P, th[t]) /\ vn_table \subseteq Vnodes
  BY WorkKnown DEF VnodeParts, Typing
<1>2. /\ v_refcnt' \in [Vnodes -> Int] /\ files' \in [Vnodes -> Nat]
      /\ v_lock' \in [Vnodes -> FsThread \cup {NoThread}]
  BY <1>1 DEF Typing
<1>3. \A w \in Vnodes : v_lock'[w] = t <=> w \in Mine(r)
  BY <1>1 DEF Doing, Typing
<1>4. \A w \in vn_table : UsesEven(t, r, w)
  BY DEF UsesEven, Uses
<1>5. \A w \in Vnodes \ vn_table : files'[w] = 0
  BY <1>1 DEF Counting
<1>6. files' = files
  OBVIOUS
<1>7. \A w \in Vnodes : v_lock'[w] # v_lock[w] =>
        v_lock[w] \in {t, NoThread} /\ v_lock'[w] \in {t, NoThread}
  BY <1>1 DEF Typing
<1>. QED
  BY <1>2, <1>3, <1>4, <1>5, <1>6, <1>7, ThreadStep
\* The vnodes that t has, when it has v and the directory of v locked.
Held(o) == IF o.held # NoVnode THEN {o.held} ELSE {}

StepsTo(o, r, P) ==
  /\ r \in Work(P) /\ Placed(r) /\ LockedOnce(r) /\ Known(r, vn_table) /\ r.held = o.held
  /\ Mine(r) = {o.vp, o.dvp} \cup Held(o)
  /\ \A w \in vn_table : UsesOf(r, w) = UsesOf(o, w)

LEMMA SteppedIs ==
  ASSUME VnodeParts, NEW t \in FsThread, NEW P, NEW o, Doing(t, P, o), o.pc \in {"lock", "fs"},
         o.puts = <<>>, o.dvp # NoVnode, o.vp \notin {o.dvp, o.held}, th' = Stepped(t, o.vp)
  PROVE  \E r : StepsTo(o, r, P) /\ Goes(t, r)
<1>1. PICK v, d : v = o.vp /\ d = o.dvp
  OBVIOUS
<1>2. /\ o = th[t] /\ o \in Work(P) /\ Placed(o) /\ LockedOnce(o) /\ Known(o, vn_table)
      /\ vn_table \subseteq Vnodes
  BY DEF Doing, VnodeParts, Typing
<1>3. /\ v # NoVnode /\ v \in vn_table /\ d \in vn_table /\ o.put = "load" /\ d # NoVnode /\ v # d
      /\ v # o.held /\ d # o.held /\ v \in Vnodes /\ d \in Vnodes
  BY <1>1, <1>2 DEF Placed, Known, LockedOnce, HasDvp
<1>4. PICK r : /\ \/ r = [o EXCEPT !.pc = "got", !.vp = v, !.dvp = NoVnode, !.puts = <<d>>]
                  \/ r = [o EXCEPT !.pc = "look", !.vp = NoVnode, !.dvp = v, !.puts = <<d>>]
               /\ Goes(t, r)
  <2>1. CASE v_path[v] = th[t].path
    <3>1. th' = [th EXCEPT ![t] = [o EXCEPT !.pc = "got", !.vp = v, !.dvp = NoVnode, !.puts = <<d>>]]
      BY <1>1, <1>2, <2>1 DEF Stepped
    <3>. QED
      BY <3>1 DEF Goes
  <2>2. CASE v_path[v] # th[t].path
    <3>1. th' = [th EXCEPT ![t] = [o EXCEPT !.pc = "look", !.vp = NoVnode, !.dvp = v, !.puts = <<d>>]]
      BY <1>1, <1>2, <2>2 DEF Stepped
    <3>. QED
      BY <3>1 DEF Goes
  <2>. QED
    BY <2>1, <2>2
<1>5. r \in Work(P)
  <2>1. <<d>> \in Seq(Vnodes)
    BY <1>3, ItemsFew
  <2>. QED
    BY <1>2, <1>3, <1>4, <2>1 DEF Work
<1>6. \/ Fields(r, "got", o.op, v, NoVnode, o.held, <<d>>, "load")
      \/ Fields(r, "look", o.op, NoVnode, v, o.held, <<d>>, "load")
  BY <1>2, <1>3, <1>4 DEF Work, Fields
<1>7. Items(<<d>>) = {d} /\ Distinct(<<d>>) /\ <<d>> # <<>>
  BY <1>3, ItemsFew
<1>8. Placed(r)
  BY <1>2, <1>3, <1>6, <1>7 DEF Placed, Fields
<1>9. LockedOnce(r)
  BY <1>3, <1>6, <1>7 DEF LockedOnce, HasVp, HasDvp, Fields
<1>10. Known(r, vn_table)
  BY <1>2, <1>3, <1>6, <1>7 DEF Known, Fields
<1>11. Mine(r) = {v, d} \cup Held(o)
  BY <1>3, <1>6, <1>7 DEF Mine, HasVp, HasDvp, Fields, Held
<1>12. ASSUME NEW w \in vn_table PROVE UsesOf(r, w) = UsesOf(o, w)
  <2>1. w \in Vnodes /\ w # NoVnode
    BY <1>2, NoVnodeNull DEF NullVnode
  <2>2. UsesOf(o, w) = Bit(v = w) + Bit(d = w) + Bit(o.held = w)
    <3>1. w \notin Owing(o)
      BY ItemsFew DEF Owing
    <3>. QED
      BY <1>1, <1>2, <2>1, <3>1 DEF Doing, Bit
  <2>3. UsesOf(r, w) = Bit(r.vp = w) + Bit(r.dvp = w) + Bit(r.held = w) + Bit(w \in Owing(r))
    BY <1>5, <1>8, <1>9, <1>10, <2>1, KnownOnly
  <2>4. Owing(r) = {d}
    BY <1>6, <1>7 DEF Owing, Fields
  <2>5. UsesOf(r, w) = Bit(v = w) + Bit(o.held = w) + Bit(d = w)
    BY <1>6, <2>1, <2>3, <2>4 DEF Bit, Fields
  <2>. QED
    BY <2>2, <2>5 DEF Bit
<1>13. r.held = o.held
  BY <1>6 DEF Fields
<1>. QED
  BY <1>1, <1>4, <1>5, <1>8, <1>9, <1>10, <1>11, <1>12, <1>13 DEF StepsTo

LEMMA LockKeeps ==
  ASSUME VnodeParts, NEW t \in FsThread, Lock(t)
  PROVE  VnodeParts'
<1>1. PICK P : PathsIn(P)
  BY VnodePaths DEF VnodeParts
<1>2. PICK o, v : o = th[t] /\ v = o.vp
  OBVIOUS
<1>3. Doing(t, P, o) /\ o.pc = "lock" /\ o.puts = <<>> /\ v_lock[v] = NoThread
  BY <1>1, <1>2, WorkKnown DEF VnodeParts, Lock, Ready
<1>4. /\ v # NoVnode /\ v \in vn_table /\ v \in Vnodes /\ o \in Work(P) /\ o.put = "load"
      /\ Placed(o) /\ LockedOnce(o) /\ Known(o, vn_table)
  BY <1>2, <1>3 DEF VnodeParts, Typing, Doing, Placed, Known
<1>5. v \notin Mine(o)
  BY <1>3, <1>4, VnodeAssumption DEF Doing
<1>6. v # o.dvp /\ v # o.held
  BY <1>3, <1>4, <1>5 DEF Mine, HasDvp
<1>7. Mine(o) = (IF o.dvp # NoVnode THEN {o.dvp} ELSE {}) \cup Held(o)
  BY <1>3, ItemsFew DEF Mine, HasVp, HasDvp, Held
<1>8. \A w \in vn_table : ~HalfMade(th[t], w)
  BY <1>2, <1>3 DEF HalfMade
<1>9. /\ UNCHANGED <<vn_table, v_path, v_refcnt, files, exists>>
      /\ v_lock' = [v_lock EXCEPT ![v] = t]
  BY <1>2 DEF Lock
<1>10. CASE o.dvp = NoVnode
  <2>1. PICK r : r = [o EXCEPT !.pc = "got"]
    OBVIOUS
  <2>2. Goes(t, r)
    BY <1>2, <1>10, <2>1 DEF Goes, Lock
  <2>3. r \in Work(P) /\ Fields(r, "got", o.op, v, NoVnode, o.held, <<>>, "load")
    BY <1>2, <1>3, <1>4, <1>10, <2>1 DEF Work, Fields
  <2>4. Placed(r) /\ LockedOnce(r) /\ Known(r, vn_table)
    BY <1>2, <1>3, <1>4, <1>6, <1>10, <2>3, ItemsFew
       DEF Placed, LockedOnce, Known, HasVp, HasDvp, Fields
  <2>5. Mine(r) = Mine(th[t]) \cup {v}
    BY <1>2, <1>7, <1>10, <2>3, ItemsFew DEF Mine, HasVp, HasDvp, Fields, Held
  <2>6. \A w \in vn_table : UsesOf(r, w) = UsesOf(th[t], w)
    BY <1>2, <1>3, <1>4, <1>10, <2>3 DEF UsesOf, Owed, Fields
  <2>7. r.held # NoVnode => v_path[r.held] \notin Directory
    BY <1>2, <2>3 DEF VnodeParts, Naming, Fields
  <2>. QED
    BY <1>1, <1>3, <1>4, <1>8, <1>9, <2>2, <2>3, <2>4, <2>5, <2>6, <2>7, LockStep
<1>11. CASE o.dvp # NoVnode
  <2>1. th' = Stepped(t, o.vp)
    BY <1>2, <1>11 DEF Lock
  <2>2. PICK r : StepsTo(o, r, P) /\ Goes(t, r)
    BY <1>2, <1>3, <1>6, <1>11, <2>1, SteppedIs
  <2>3. Mine(r) = Mine(th[t]) \cup {v}
    BY <1>2, <1>7, <1>11, <2>2 DEF StepsTo
  <2>4. r.held # NoVnode => v_path[r.held] \notin Directory
    BY <1>2, <2>2 DEF VnodeParts, Naming, StepsTo
  <2>5. /\ r \in Work(P) /\ Placed(r) /\ LockedOnce(r) /\ Known(r, vn_table)
        /\ \A w \in vn_table : UsesOf(r, w) = UsesOf(th[t], w)
    BY <1>2, <2>2 DEF StepsTo
  <2>. QED
    BY <1>1, <1>3, <1>4, <1>8, <1>9, <2>2, <2>3, <2>4, <2>5, LockStep
<1>. QED
  BY <1>10, <1>11

LEMMA DirLockKeeps ==
  ASSUME VnodeParts, NEW t \in FsThread, DirLock(t)
  PROVE  VnodeParts'
<1>1. PICK P : PathsIn(P)
  BY VnodePaths DEF VnodeParts
<1>2. PICK o, v : o = th[t] /\ v = o.dvp
  OBVIOUS
<1>3. Doing(t, P, o) /\ o.pc = "dirlock" /\ o.puts = <<>> /\ v_lock[v] = NoThread
  BY <1>1, <1>2, WorkKnown DEF VnodeParts, DirLock, Ready
<1>4. /\ v # NoVnode /\ v \in vn_table /\ v \in Vnodes /\ o \in Work(P) /\ o.put = "load"
      /\ Placed(o) /\ LockedOnce(o) /\ Known(o, vn_table) /\ o.vp = NoVnode
  BY <1>2, <1>3 DEF VnodeParts, Typing, Doing, Placed, Known
<1>5. v \notin Mine(o)
  BY <1>3, <1>4, VnodeAssumption DEF Doing
<1>6. v # o.held
  BY <1>3, <1>4, <1>5 DEF Mine
<1>7. Mine(o) = Held(o)
  BY <1>3, ItemsFew DEF Mine, HasVp, HasDvp, Held
<1>8. \A w \in vn_table : ~HalfMade(th[t], w)
  BY <1>2, <1>3 DEF HalfMade
<1>9. /\ UNCHANGED <<vn_table, v_path, v_refcnt, files, exists>>
      /\ v_lock' = [v_lock EXCEPT ![v] = t]
  BY <1>2 DEF DirLock
<1>10. PICK r : r = [o EXCEPT !.pc = "look"]
  OBVIOUS
<1>11. Goes(t, r)
  BY <1>2, <1>10 DEF Goes, DirLock
<1>12. r \in Work(P) /\ Fields(r, "look", o.op, NoVnode, v, o.held, <<>>, "load")
  BY <1>2, <1>3, <1>4, <1>10 DEF Work, Fields
<1>13. Placed(r) /\ LockedOnce(r) /\ Known(r, vn_table)
  BY <1>2, <1>3, <1>4, <1>6, <1>12, ItemsFew DEF Placed, LockedOnce, Known, HasVp, HasDvp, Fields
<1>14. Mine(r) = Mine(th[t]) \cup {v}
  BY <1>2, <1>4, <1>7, <1>12, ItemsFew DEF Mine, HasVp, HasDvp, Fields, Held
<1>15. \A w \in vn_table : UsesOf(r, w) = UsesOf(th[t], w)
  BY <1>2, <1>3, <1>4, <1>12 DEF UsesOf, Owed, Fields
<1>16. r.held # NoVnode => v_path[r.held] \notin Directory
  BY <1>2, <1>12 DEF VnodeParts, Naming, Fields
<1>. QED
  BY <1>1, <1>3, <1>4, <1>8, <1>9, <1>11, <1>12, <1>13, <1>14, <1>15, <1>16, LockStep
\* A thread that is done with a request and has to put the vnodes of q.
DoneWith(r, q, Q, V) ==
  /\ r \in Work(Q) /\ Placed(r) /\ LockedOnce(r) /\ Known(r, V)
  /\ Fields(r, "idle", "stat", NoVnode, NoVnode, NoVnode, q, "load")
  /\ Mine(r) = Items(q)
  /\ \A w \in Vnodes : UsesOf(r, w) = Bit(w \in Items(q))

LEMMA PutsAre ==
  ASSUME NEW Q, "/" \in Q, NEW q \in Seq(Vnodes), Distinct(q), NEW V, Items(q) \subseteq V,
         NEW r, r = [Idle EXCEPT !.puts = q]
  PROVE  DoneWith(r, q, Q, V)
<1>1. r \in Work(Q)
  BY IdleIs DEF Work
<1>2. Fields(r, "idle", "stat", NoVnode, NoVnode, NoVnode, q, "load")
  <2>1. Idle \in Work(Q)
    BY IdleIs
  <2>. QED
    BY <2>1, IdleIs DEF Work, Fields
<1>3. Placed(r) /\ LockedOnce(r) /\ Known(r, V)
  BY <1>2 DEF Placed, LockedOnce, Known, HasVp, HasDvp, Fields
<1>4. Mine(r) = Items(q)
  BY <1>2 DEF Mine, HasVp, HasDvp, Fields
<1>5. ASSUME NEW w \in Vnodes PROVE UsesOf(r, w) = Bit(w \in Items(q))
  <2>1. UsesOf(r, w) = Bit(r.vp = w) + Bit(r.dvp = w) + Bit(r.held = w) + Bit(w \in Owing(r))
    BY <1>1, <1>3, UsesAre
  <2>2. Owing(r) = Items(q) /\ w # NoVnode
    BY <1>2, NoVnodeNull DEF Owing, Fields, NullVnode
  <2>. QED
    BY <1>2, <2>1, <2>2 DEF Fields, Bit
<1>. QED
  BY <1>1, <1>2, <1>3, <1>4, <1>5 DEF DoneWith

LEMMA PutKeeps ==
  ASSUME VnodeParts, NEW t \in FsThread, Put(t)
  PROVE  VnodeParts'
<1>1. PICK P : PathsIn(P)
  BY VnodePaths DEF VnodeParts
<1>2. PICK o, v : o = th[t] /\ v = o.vp
  OBVIOUS
<1>3. Doing(t, P, o) /\ o.pc = "got" /\ o.puts = <<>> /\ o.op # "remove"
  BY <1>1, <1>2, WorkKnown DEF VnodeParts, Put, Ready
<1>4. /\ v # NoVnode /\ v \in vn_table /\ v \in Vnodes /\ o.put = "load" /\ o.dvp = NoVnode
      /\ o.held = NoVnode /\ vn_table \subseteq Vnodes
  BY <1>2, <1>3 DEF VnodeParts, Typing, Doing, Placed, Known
<1>5. PICK Q : Q = P \cup {"/"}
  OBVIOUS
<1>6. PICK r : r = [Idle EXCEPT !.puts = <<v>>]
  OBVIOUS
<1>7. Goes(t, r) /\ UNCHANGED <<vn_table, v_path, v_refcnt, v_lock, files, exists>>
  BY <1>2, <1>6 DEF Put, Goes
<1>8. <<v>> \in Seq(Vnodes) /\ Items(<<v>>) = {v} /\ Distinct(<<v>>)
  BY <1>4, ItemsFew
<1>9. DoneWith(r, <<v>>, Q, vn_table)
  <2>1. "/" \in Q /\ Items(<<v>>) \subseteq vn_table
    BY <1>4, <1>5, <1>8
  <2>. QED
    BY <1>6, <1>8, <2>1, PutsAre
<1>10. /\ Placed(r) /\ LockedOnce(r) /\ Known(r, vn_table) /\ P \subseteq Q /\ r \in Work(Q)
       /\ r.held = NoVnode
  BY <1>5, <1>9 DEF DoneWith, Fields
<1>11. Mine(r) = Mine(th[t])
  BY <1>2, <1>3, <1>4, <1>8, <1>9, ItemsFew DEF DoneWith, Mine, HasVp, HasDvp
<1>12. ASSUME NEW w \in vn_table PROVE UsesOf(r, w) = UsesOf(th[t], w)
  <2>1. w \in Vnodes /\ w # NoVnode
    BY <1>4, NoVnodeNull DEF NullVnode
  <2>2. UsesOf(th[t], w) = Bit(v = w)
    <3>1. w \notin Owing(o)
      BY <1>3, ItemsFew DEF Owing
    <3>. QED
      BY <1>2, <1>3, <1>4, <2>1, <3>1 DEF Doing, Bit
  <2>3. UsesOf(r, w) = Bit(w \in {v})
    BY <1>8, <1>9, <2>1 DEF DoneWith
  <2>. QED
    BY <2>2, <2>3 DEF Bit
<1>13. \A w \in vn_table : ~HalfMade(th[t], w)
  BY <1>2, <1>3 DEF HalfMade
<1>. QED
  BY <1>1, <1>7, <1>10, <1>11, <1>12, <1>13, WorkStep

LEMMA UnlinkKeeps ==
  ASSUME VnodeParts, NEW t \in FsThread, Unlink(t)
  PROVE  VnodeParts'
<1>1. PICK P : PathsIn(P)
  BY VnodePaths DEF VnodeParts
<1>2. PICK o, v : o = th[t] /\ v = o.vp
  OBVIOUS
<1>3. Doing(t, P, o) /\ o.pc = "got" /\ o.puts = <<>> /\ o.op = "unlink" /\ v_path[v] \notin Directory
  BY <1>1, <1>2, WorkKnown DEF VnodeParts, Unlink, Ready, Busy
<1>4. /\ v # NoVnode /\ v \in vn_table /\ v \in Vnodes /\ o.put = "load" /\ o.dvp = NoVnode
      /\ o.held = NoVnode /\ vn_table \subseteq Vnodes
  BY <1>2, <1>3 DEF VnodeParts, Typing, Doing, Placed, Known
<1>5. PICK p : p = ParentOf[v_path[v]]
  OBVIOUS
<1>6. PICK Q : Q = P \cup {"/", p}
  OBVIOUS
<1>7. PICK r : r = [Idle EXCEPT !.pc = "find", !.op = "remove", !.held = v, !.path = p]
  OBVIOUS
<1>8. Goes(t, r) /\ UNCHANGED <<vn_table, v_path, v_refcnt, v_lock, files, exists>>
  BY <1>2, <1>5, <1>7 DEF Unlink, Goes
<1>9. r \in Work(Q) /\ Fields(r, "find", "remove", NoVnode, NoVnode, v, <<>>, "load")
  <2>1. Idle \in Work(Q) /\ p \in Q
    BY <1>6, IdleIs
  <2>2. r \in Work(Q)
    BY <1>4, <1>7, <2>1 DEF Work
  <2>3. Fields(r, "find", "remove", NoVnode, NoVnode, v, <<>>, "load")
    BY <1>7, <2>1, IdleIs DEF Work, Fields
  <2>. QED
    BY <2>2, <2>3
<1>10. Placed(r) /\ LockedOnce(r) /\ Known(r, vn_table) /\ P \subseteq Q
  BY <1>4, <1>6, <1>9, ItemsFew DEF Placed, LockedOnce, Known, HasVp, HasDvp, Fields
<1>11. Mine(r) = Mine(th[t])
  BY <1>2, <1>3, <1>4, <1>9, ItemsFew DEF Mine, HasVp, HasDvp, Fields
<1>12. ASSUME NEW w \in vn_table PROVE UsesOf(r, w) = UsesOf(th[t], w)
  <2>1. w \in Vnodes /\ w # NoVnode
    BY <1>4, NoVnodeNull DEF NullVnode
  <2>2. UsesOf(th[t], w) = Bit(v = w)
    <3>1. w \notin Owing(o)
      BY <1>3, ItemsFew DEF Owing
    <3>. QED
      BY <1>2, <1>3, <1>4, <2>1, <3>1 DEF Doing, Bit
  <2>3. UsesOf(r, w) = Bit(r.vp = w) + Bit(r.dvp = w) + Bit(r.held = w) + Bit(w \in Owing(r))
    BY <1>9, <1>10, <2>1, KnownOnly
  <2>4. w \notin Owing(r)
    BY <1>9, ItemsFew DEF Owing, Fields
  <2>5. UsesOf(r, w) = Bit(v = w)
    BY <1>9, <2>1, <2>3, <2>4 DEF Bit, Fields
  <2>. QED
    BY <2>2, <2>5
<1>13. \A w \in vn_table : ~HalfMade(th[t], w)
  BY <1>2, <1>3 DEF HalfMade
<1>14. v_path[r.held] \notin Directory
  BY <1>3, <1>9 DEF Fields
<1>. QED
  BY <1>1, <1>8, <1>9, <1>10, <1>11, <1>12, <1>13, <1>14, WorkStep

LEMMA PutLoadKeeps ==
  ASSUME VnodeParts, NEW t \in FsThread, PutLoad(t)
  PROVE  VnodeParts'
<1>1. PICK P : PathsIn(P)
  BY VnodePaths DEF VnodeParts
<1>2. PICK o, v : o = th[t] /\ v = Head(o.puts)
  OBVIOUS
<1>3. Doing(t, P, o) /\ o.puts # <<>> /\ o.put = "load"
  BY <1>1, <1>2, WorkKnown DEF VnodeParts, PutLoad, Putting
<1>4. /\ v \in Vnodes /\ o \in Work(P) /\ Placed(o) /\ LockedOnce(o) /\ Known(o, vn_table)
      /\ v_refcnt[v] \in Int
  <2>1. o.puts \in Seq(Vnodes)
    BY <1>3 DEF Doing, Work
  <2>. QED
    BY <1>2, <1>3, <2>1 DEF VnodeParts, Typing, Doing
<1>5. PICK r, n : r = [o EXCEPT !.put = "store", !.n = n] /\ n = v_refcnt[v]
  OBVIOUS
<1>6. Goes(t, r) /\ UNCHANGED <<vn_table, v_path, v_refcnt, v_lock, files, exists>>
  BY <1>2, <1>5 DEF PutLoad, Goes
<1>7. r \in Work(P) /\ Fields(r, o.pc, o.op, o.vp, o.dvp, o.held, o.puts, "store")
  BY <1>4, <1>5 DEF Work, Fields
<1>8. Placed(r) /\ LockedOnce(r) /\ Known(r, vn_table)
  BY <1>3, <1>4, <1>7 DEF Placed, LockedOnce, Known, HasVp, HasDvp, Fields
<1>9. Mine(r) = Mine(th[t])
  BY <1>2, <1>7 DEF Mine, HasVp, HasDvp, Fields
<1>10. \A w \in vn_table : UsesOf(r, w) = UsesOf(th[t], w)
  BY <1>2, <1>3, <1>7 DEF UsesOf, Owed, Fields
<1>11. \A w \in vn_table : HalfMade(th[t], w) => HalfMade(r, w)
  BY <1>2, <1>7 DEF HalfMade, Fields
<1>12. r.held # NoVnode => v_path[r.held] \notin Directory
  BY <1>2, <1>7 DEF VnodeParts, Naming, Fields
<1>. QED
  BY <1>1, <1>6, <1>7, <1>8, <1>9, <1>10, <1>11, <1>12, WorkStep
\* A file that is open is there, and so is one that a thread has locked and
\* that it neither looks for nor puts.
LEMMA GotExists ==
  ASSUME VnodeParts, NEW t \in FsThread, NEW P, NEW o, Doing(t, P, o), o.pc = "got", o.puts = <<>>
  PROVE  v_path[o.vp] \in exists
<1>1. SUFFICES ASSUME v_path[o.vp] \notin exists PROVE FALSE
  OBVIOUS
<1>2. o.vp \in vn_table /\ o.vp \in Vnodes /\ o.vp \in Mine(o)
  BY DEF Doing, Placed, Known, Mine, HasVp, VnodeParts, Typing
<1>3. PICK u \in FsThread : HalfMade(th[u], o.vp)
  BY <1>1, <1>2 DEF VnodeParts, Naming
<1>4. PICK P2 : PathsIn(P2)
  BY VnodePaths DEF VnodeParts
<1>5. Doing(u, P2, th[u])
  BY <1>4, WorkKnown DEF VnodeParts
<1>6. o.vp \in Mine(th[u])
  <2>1. CASE th[u].pc = "fs" /\ th[u].vp = o.vp
    BY <2>1 DEF Mine, HasVp
  <2>2. CASE th[u].puts # <<>> /\ Head(th[u].puts) = o.vp
    <3>1. th[u].puts \in Seq(Vnodes) /\ Distinct(th[u].puts)
      BY <1>5 DEF Doing, Work, LockedOnce
    <3>2. o.vp \in Items(th[u].puts)
      BY <2>2, <3>1, DequeueItems
    <3>. QED
      BY <3>2 DEF Mine
  <2>. QED
    BY <1>3, <2>1, <2>2 DEF HalfMade
<1>7. v_lock[o.vp] = u /\ v_lock[o.vp] = t
  BY <1>2, <1>5, <1>6 DEF Doing
<1>8. HalfMade(o, o.vp)
  BY <1>3, <1>7 DEF Doing
<1>. QED
  BY <1>8 DEF HalfMade

LEMMA OpenKeeps ==
  ASSUME VnodeParts, NEW t \in FsThread, Open(t)
  PROVE  VnodeParts'
<1>1. PICK P : PathsIn(P)
  BY VnodePaths DEF VnodeParts
<1>2. PICK o, v : o = th[t] /\ v = o.vp
  OBVIOUS
<1>3. Doing(t, P, o) /\ o.pc = "got" /\ o.puts = <<>> /\ o.op = "open"
  BY <1>1, <1>2, WorkKnown DEF VnodeParts, Open, Ready
<1>4. /\ v # NoVnode /\ v \in vn_table /\ v \in Vnodes /\ o.put = "load" /\ o.dvp = NoVnode
      /\ o.held = NoVnode /\ vn_table \subseteq Vnodes
  BY <1>2, <1>3 DEF VnodeParts, Typing, Doing, Placed, Known
<1>5. PICK Q : Q = P \cup {"/"}
  OBVIOUS
<1>6. PICK r : r = Idle
  OBVIOUS
<1>7. /\ Goes(t, r) /\ UNCHANGED <<vn_table, v_path, v_refcnt, exists>>
      /\ files' = [files EXCEPT ![v] = @ + 1] /\ v_lock' = [v_lock EXCEPT ![v] = NoThread]
  BY <1>2, <1>6 DEF Open, Goes
<1>8. /\ r \in Work(Q) /\ P \subseteq Q
      /\ Fields(r, "idle", "stat", NoVnode, NoVnode, NoVnode, <<>>, "load")
  BY <1>5, <1>6, IdleIs
<1>9. Placed(r) /\ LockedOnce(r) /\ Known(r, vn_table) /\ Mine(r) = {} /\ r.held = NoVnode
  BY <1>8, ItemsFew DEF Placed, LockedOnce, Known, Mine, HasVp, HasDvp, Fields
<1>10. Mine(o) = {v}
  BY <1>2, <1>3, <1>4, ItemsFew DEF Mine, HasVp, HasDvp
<1>11. files \in [Vnodes -> Nat] /\ v_lock \in [Vnodes -> FsThread \cup {NoThread}]
  BY DEF VnodeParts, Typing
<1>12. \A w \in Vnodes : v_lock'[w] = t <=> w \in Mine(r)
  BY <1>3, <1>4, <1>7, <1>9, <1>10, <1>11, VnodeAssumption DEF Doing
<1>13. \A w \in Vnodes : v_lock'[w] # v_lock[w] =>
         v_lock[w] \in {t, NoThread} /\ v_lock'[w] \in {t, NoThread}
  BY <1>3, <1>4, <1>7, <1>10, <1>11 DEF Doing
<1>14. ASSUME NEW w \in vn_table PROVE UsesEven(t, r, w)
  <2>1. /\ w \in Vnodes /\ w # NoVnode /\ v_refcnt[w] \in Int /\ Uses(w) \in Nat
        /\ v_refcnt'[w] = v_refcnt[w]
    BY <1>4, <1>7, NoVnodeNull, UsesType DEF VnodeParts, NullVnode
  <2>2. UsesOf(th[t], w) = Bit(v = w)
    <3>1. w \notin Owing(o)
      BY <1>3, ItemsFew DEF Owing
    <3>. QED
      BY <1>2, <1>3, <1>4, <2>1, <3>1 DEF Doing, Bit
  <2>3. UsesOf(r, w) = 0
    <3>1. UsesOf(r, w) = Bit(r.vp = w) + Bit(r.dvp = w) + Bit(r.held = w) + Bit(w \in Owing(r))
      BY <1>8, <1>9, <2>1, KnownOnly
    <3>2. w \notin Owing(r)
      BY <1>8, ItemsFew DEF Owing, Fields
    <3>. QED
      BY <1>8, <2>1, <3>1, <3>2 DEF Fields, Bit
  <2>4. Uses(w)' = Uses(w) + Bit(v = w) /\ Bit(v = w) \in Nat
    BY <1>7, <1>11, <2>1 DEF Uses, Bit
  <2>. QED
    BY <2>1, <2>2, <2>3, <2>4 DEF UsesEven
<1>15. \A w \in Vnodes \ vn_table : files'[w] = 0
  BY <1>4, <1>7, <1>11 DEF VnodeParts, Counting
<1>16. \A w \in vn_table : ~HalfMade(th[t], w)
  BY <1>2, <1>3 DEF HalfMade
<1>17. \A w \in vn_table : files'[w] > 0 => files[w] > 0 \/ v_path[w] \in exists
  <2>1. v_path[v] \in exists
    BY <1>2, <1>3, GotExists
  <2>. QED
    BY <1>4, <1>7, <1>11, <2>1
<1>18. /\ v_refcnt' \in [Vnodes -> Int] /\ files' \in [Vnodes -> Nat]
       /\ v_lock' \in [Vnodes -> FsThread \cup {NoThread}]
  BY <1>4, <1>7, <1>11 DEF VnodeParts, Typing
<1>. QED
  BY <1>1, <1>7, <1>8, <1>9, <1>12, <1>13, <1>14, <1>15, <1>16, <1>17, <1>18, ThreadStep

LEMMA CloseFailsKeeps ==
  ASSUME VnodeParts, NEW t \in FsThread, CloseFails(t)
  PROVE  VnodeParts'
<1>1. PICK P : PathsIn(P)
  BY VnodePaths DEF VnodeParts
<1>2. PICK o, v : o = th[t] /\ v = o.vp
  OBVIOUS
<1>3. Doing(t, P, o) /\ o.pc = "got" /\ o.puts = <<>> /\ o.op = "close"
  BY <1>1, <1>2, WorkKnown DEF VnodeParts, CloseFails, Ready
<1>4. /\ v # NoVnode /\ v \in vn_table /\ v \in Vnodes /\ o.put = "load" /\ o.dvp = NoVnode
      /\ o.held = NoVnode /\ vn_table \subseteq Vnodes
  BY <1>2, <1>3 DEF VnodeParts, Typing, Doing, Placed, Known
<1>5. PICK Q : Q = P \cup {"/"}
  OBVIOUS
<1>6. PICK r : r = Idle
  OBVIOUS
<1>7. /\ Goes(t, r) /\ UNCHANGED <<vn_table, v_path, v_refcnt, exists>>
      /\ files' = [files EXCEPT ![v] = @ + 1] /\ v_lock' = [v_lock EXCEPT ![v] = NoThread]
  BY <1>2, <1>6 DEF CloseFails, Goes
<1>8. /\ r \in Work(Q) /\ P \subseteq Q
      /\ Fields(r, "idle", "stat", NoVnode, NoVnode, NoVnode, <<>>, "load")
  BY <1>5, <1>6, IdleIs
<1>9. Placed(r) /\ LockedOnce(r) /\ Known(r, vn_table) /\ Mine(r) = {} /\ r.held = NoVnode
  BY <1>8, ItemsFew DEF Placed, LockedOnce, Known, Mine, HasVp, HasDvp, Fields
<1>10. Mine(o) = {v}
  BY <1>2, <1>3, <1>4, ItemsFew DEF Mine, HasVp, HasDvp
<1>11. files \in [Vnodes -> Nat] /\ v_lock \in [Vnodes -> FsThread \cup {NoThread}]
  BY DEF VnodeParts, Typing
<1>12. \A w \in Vnodes : v_lock'[w] = t <=> w \in Mine(r)
  BY <1>3, <1>4, <1>7, <1>9, <1>10, <1>11, VnodeAssumption DEF Doing
<1>13. \A w \in Vnodes : v_lock'[w] # v_lock[w] =>
         v_lock[w] \in {t, NoThread} /\ v_lock'[w] \in {t, NoThread}
  BY <1>3, <1>4, <1>7, <1>10, <1>11 DEF Doing
<1>14. ASSUME NEW w \in vn_table PROVE UsesEven(t, r, w)
  <2>1. /\ w \in Vnodes /\ w # NoVnode /\ v_refcnt[w] \in Int /\ Uses(w) \in Nat
        /\ v_refcnt'[w] = v_refcnt[w]
    BY <1>4, <1>7, NoVnodeNull, UsesType DEF VnodeParts, NullVnode
  <2>2. UsesOf(th[t], w) = Bit(v = w)
    <3>1. w \notin Owing(o)
      BY <1>3, ItemsFew DEF Owing
    <3>. QED
      BY <1>2, <1>3, <1>4, <2>1, <3>1 DEF Doing, Bit
  <2>3. UsesOf(r, w) = 0
    <3>1. UsesOf(r, w) = Bit(r.vp = w) + Bit(r.dvp = w) + Bit(r.held = w) + Bit(w \in Owing(r))
      BY <1>8, <1>9, <2>1, KnownOnly
    <3>2. w \notin Owing(r)
      BY <1>8, ItemsFew DEF Owing, Fields
    <3>. QED
      BY <1>8, <2>1, <3>1, <3>2 DEF Fields, Bit
  <2>4. Uses(w)' = Uses(w) + Bit(v = w) /\ Bit(v = w) \in Nat
    BY <1>7, <1>11, <2>1 DEF Uses, Bit
  <2>. QED
    BY <2>1, <2>2, <2>3, <2>4 DEF UsesEven
<1>15. \A w \in Vnodes \ vn_table : files'[w] = 0
  BY <1>4, <1>7, <1>11 DEF VnodeParts, Counting
<1>16. \A w \in vn_table : ~HalfMade(th[t], w)
  BY <1>2, <1>3 DEF HalfMade
<1>17. \A w \in vn_table : files'[w] > 0 => files[w] > 0 \/ v_path[w] \in exists
  <2>1. v_path[v] \in exists
    BY <1>2, <1>3, GotExists
  <2>. QED
    BY <1>4, <1>7, <1>11, <2>1
<1>18. /\ v_refcnt' \in [Vnodes -> Int] /\ files' \in [Vnodes -> Nat]
       /\ v_lock' \in [Vnodes -> FsThread \cup {NoThread}]
  BY <1>4, <1>7, <1>11 DEF VnodeParts, Typing
<1>. QED
  BY <1>1, <1>7, <1>8, <1>9, <1>12, <1>13, <1>14, <1>15, <1>16, <1>17, <1>18, ThreadStep

\* The vnodes of q are put, and the one that unlink has.
LEMMA FailedAre ==
  ASSUME VnodeParts, NEW t \in FsThread, NEW P, NEW o, Doing(t, P, o), NEW q \in Seq(Vnodes),
         q # <<>>, Distinct(q), Items(q) \subseteq vn_table, o.held \notin Items(q),
         th' = Failed(t, q), NEW Q, "/" \in Q
  PROVE  \E r, q2 : /\ Goes(t, r) /\ DoneWith(r, q2, Q, vn_table) /\ q2 # <<>>
                    /\ Items(q2) = Items(q) \cup Held(o) /\ Head(q2) = Head(q)
<1>1. o = th[t] /\ Known(o, vn_table) /\ vn_table \subseteq Vnodes
  BY DEF Doing, VnodeParts, Typing
<1>2. PICK q2 : q2 = IF o.held = NoVnode THEN q ELSE Append(q, o.held)
  OBVIOUS
<1>3. PICK r : r = [Idle EXCEPT !.puts = q2]
  OBVIOUS
<1>4. Goes(t, r)
  BY <1>1, <1>2, <1>3 DEF Failed, Goes
<1>5. /\ q2 \in Seq(Vnodes) /\ Distinct(q2) /\ Items(q2) = Items(q) \cup Held(o)
      /\ q2 # <<>> /\ Head(q2) = Head(q)
  <2>1. CASE o.held = NoVnode
    BY <1>2, <2>1 DEF Held
  <2>2. CASE o.held # NoVnode
    <3>1. o.held \in Vnodes
      BY <1>1, <2>2 DEF Known
    <3>. QED
      BY <1>2, <2>2, <3>1, ItemsPut DEF Held
  <2>. QED
    BY <2>1, <2>2
<1>6. Items(q2) \subseteq vn_table
  BY <1>1, <1>5 DEF Known, Held
<1>7. DoneWith(r, q2, Q, vn_table)
  BY <1>3, <1>5, <1>6, PutsAre
<1>. QED
  BY <1>4, <1>5, <1>7

\* So it goes on when it fails.
LEMMA FailStep ==
  ASSUME VnodeParts, NEW t \in FsThread, NEW P, PathsIn(P), NEW o, Doing(t, P, o),
         NEW q \in Seq(Vnodes), q # <<>>, Distinct(q), Items(q) \subseteq vn_table,
         o.held \notin Items(q), th' = Failed(t, q),
         UNCHANGED <<vn_table, v_path, v_refcnt, v_lock, files, exists>>,
         Mine(o) = Items(q) \cup Held(o),
         \A w \in vn_table : UsesOf(o, w) = Bit(w \in Items(q) \cup Held(o)),
         \A w \in vn_table : HalfMade(o, w) => w = Head(q)
  PROVE  VnodeParts'
<1>1. PICK Q : Q = P \cup {"/"}
  OBVIOUS
<1>2. PICK r, q2 : /\ Goes(t, r) /\ DoneWith(r, q2, Q, vn_table) /\ q2 # <<>>
                   /\ Items(q2) = Items(q) \cup Held(o) /\ Head(q2) = Head(q)
  <2>1. "/" \in Q
    BY <1>1
  <2>. QED
    BY <2>1, FailedAre
<1>3. o = th[t] /\ vn_table \subseteq Vnodes
  BY DEF Doing, VnodeParts, Typing
<1>4. /\ Placed(r) /\ LockedOnce(r) /\ Known(r, vn_table) /\ P \subseteq Q /\ r \in Work(Q)
      /\ r.held = NoVnode /\ r.puts = q2
  BY <1>1, <1>2 DEF DoneWith, Fields
<1>5. Mine(r) = Mine(th[t])
  BY <1>2, <1>3 DEF DoneWith
<1>6. \A w \in vn_table : UsesOf(r, w) = UsesOf(th[t], w)
  BY <1>2, <1>3 DEF DoneWith
<1>7. \A w \in vn_table : HalfMade(th[t], w) => HalfMade(r, w)
  BY <1>2, <1>3, <1>4 DEF HalfMade
<1>. QED
  BY <1>2, <1>4, <1>5, <1>6, <1>7, WorkStep

LEMMA FsKeeps ==
  ASSUME VnodeParts, NEW t \in FsThread, Fs(t), raced' = "no"
  PROVE  VnodeParts'
<1>1. PICK P : PathsIn(P)
  BY VnodePaths DEF VnodeParts
<1>2. PICK o, v, d : o = th[t] /\ v = o.vp /\ d = o.dvp
  OBVIOUS
<1>3. Doing(t, P, o) /\ o.pc = "fs" /\ o.puts = <<>>
  BY <1>1, <1>2, WorkKnown DEF VnodeParts, Fs, Ready
<1>4. /\ v # NoVnode /\ v \in vn_table /\ v \in Vnodes /\ o.put = "load" /\ d # NoVnode
      /\ d \in vn_table /\ d \in Vnodes /\ vn_table \subseteq Vnodes
      /\ v # d /\ v # o.held /\ d # o.held /\ Known(o, vn_table)
  BY <1>2, <1>3 DEF VnodeParts, Typing, Doing, Placed, Known, LockedOnce, HasVp, HasDvp
<1>5. UNCHANGED <<vn_table, v_path, v_refcnt, v_lock, files, exists>>
  BY DEF Fs
<1>6. Mine(o) = {v, d} \cup Held(o)
  BY <1>2, <1>3, <1>4, ItemsFew DEF Mine, HasVp, HasDvp, Held
<1>7. \A w \in vn_table : HalfMade(o, w) => w = v
  BY <1>2, <1>3 DEF HalfMade
<1>f. th' = IF v_path[v] \in exists THEN Stepped(t, v) ELSE Failed(t, <<v, d>>)
  BY <1>2 DEF Fs
<1>8. CASE v_path[v] \in exists
  <2>1. th' = Stepped(t, o.vp)
    BY <1>2, <1>8, <1>f
  <2>2. PICK r : StepsTo(o, r, P) /\ Goes(t, r)
    BY <1>2, <1>3, <1>4, <2>1, SteppedIs
  <2>3. Mine(r) = Mine(th[t]) /\ \A w \in vn_table : UsesOf(r, w) = UsesOf(th[t], w)
    BY <1>2, <1>6, <2>2 DEF StepsTo
  <2>4. r.held # NoVnode => v_path[r.held] \notin Directory
    BY <1>2, <2>2 DEF VnodeParts, Naming, StepsTo
  <2>5. r \in Work(P) /\ Placed(r) /\ LockedOnce(r) /\ Known(r, vn_table)
    BY <2>2 DEF StepsTo
  <2>6. \A w \in vn_table : HalfMade(th[t], w) => v_path[w] \in exists
    BY <1>2, <1>7, <1>8
  <2>. QED
    BY <1>1, <1>5, <2>2, <2>3, <2>4, <2>5, <2>6, WorkStep
<1>9. CASE v_path[v] \notin exists
  <2>1. PICK q : q = <<v, d>>
    OBVIOUS
  <2>2. th' = Failed(t, q)
    BY <1>9, <1>f, <2>1
  <2>3. /\ q \in Seq(Vnodes) /\ q # <<>> /\ Distinct(q) /\ Items(q) = {v, d} /\ Head(q) = v
    <3>1. <<v>> \in Seq(Vnodes) /\ Distinct(<<v>>) /\ Items(<<v>>) = {v} /\ <<v>> # <<>>
      BY <1>4, ItemsFew
    <3>2. q = Append(<<v>>, d) /\ Head(<<v>>) = v
      BY <2>1
    <3>3. d \notin Items(<<v>>)
      BY <1>4, <3>1
    <3>. QED
      BY <1>4, <3>1, <3>2, <3>3, ItemsPut
  <2>4. ASSUME NEW w \in vn_table PROVE UsesOf(o, w) = Bit(w \in Items(q) \cup Held(o))
    <3>1. w \in Vnodes /\ w # NoVnode
      BY <1>4, NoVnodeNull DEF NullVnode
    <3>2. w \notin Owing(o)
      BY <1>3, ItemsFew DEF Owing
    <3>3. UsesOf(o, w) = Bit(v = w) + Bit(d = w) + Bit(o.held = w)
      BY <1>2, <1>3, <3>1, <3>2 DEF Doing, Bit
    <3>4. w \in Items(q) \cup Held(o) <=> w = v \/ w = d \/ w = o.held
      BY <2>3, <3>1 DEF Held
    <3>. QED
      BY <1>4, <3>3, <3>4 DEF Bit
  <2>5. Items(q) \subseteq vn_table /\ o.held \notin Items(q) /\ Mine(o) = Items(q) \cup Held(o)
    BY <1>4, <1>6, <2>3
  <2>6. \A w \in vn_table : HalfMade(o, w) => w = Head(q)
    BY <1>7, <2>3
  <2>. QED
    BY <1>1, <1>3, <1>5, <2>2, <2>3, <2>4, <2>5, <2>6, FailStep
<1>. QED
  BY <1>8, <1>9
LEMMA LookKeeps ==
  ASSUME VnodeParts, NEW t \in FsThread, Look(t)
  PROVE  VnodeParts'
<1>1. PICK P : PathsIn(P)
  BY VnodePaths DEF VnodeParts
<1>2. PICK o, d, p : o = th[t] /\ d = o.dvp /\ p = Below(v_path[th[t].dvp], th[t].path)
  OBVIOUS
<1>3. Doing(t, P, o) /\ o.pc = "look" /\ o.puts = <<>>
  BY <1>1, <1>2, WorkKnown DEF VnodeParts, Look, Ready
<1>4. /\ o.vp = NoVnode /\ o.put = "load" /\ d # NoVnode /\ d \in vn_table /\ d \in Vnodes
      /\ d # o.held /\ vn_table \subseteq Vnodes /\ o \in Work(P) /\ Placed(o) /\ LockedOnce(o)
      /\ Known(o, vn_table)
  BY <1>2, <1>3 DEF VnodeParts, Typing, Doing, Placed, Known, LockedOnce, HasDvp
<1>5. Mine(o) = {d} \cup Held(o)
  BY <1>2, <1>3, <1>4, ItemsFew DEF Mine, HasVp, HasDvp, Held
<1>6. \A w \in vn_table : ~HalfMade(o, w)
  BY <1>3 DEF HalfMade
<1>7. ASSUME NEW w \in Vnodes PROVE UsesOf(o, w) = Bit(d = w) + Bit(o.held = w)
  <2>1. w # NoVnode /\ w \notin Owing(o)
    BY <1>3, NoVnodeNull, ItemsFew DEF NullVnode, Owing
  <2>. QED
    BY <1>2, <1>3, <1>4, <2>1 DEF Doing, Bit
<1>8. o.held # NoVnode => v_path[o.held] \notin Directory
  BY <1>2 DEF VnodeParts, Naming
<1>9. /\ UNCHANGED <<files, exists>>
      /\ \/ \E v \in Cached(p) :
              /\ v_refcnt' = [v_refcnt EXCEPT ![v] = @ + 1]
              /\ th' = [th EXCEPT ![t] = [@ EXCEPT !.pc = "lock", !.vp = v]]
              /\ UNCHANGED <<vn_table, v_path, v_lock>>
         \/ \E v \in VnodeId \ vn_table :
              /\ Cached(p) = {}
              /\ vn_table' = vn_table \cup {v}
              /\ v_path' = [v_path EXCEPT ![v] = p]
              /\ v_refcnt' = [v_refcnt EXCEPT ![v] = 1]
              /\ v_lock' = [v_lock EXCEPT ![v] = t]
              /\ th' = [th EXCEPT ![t] = [@ EXCEPT !.pc = "fs", !.vp = v]]
         \/ /\ th' = Failed(t, <<d>>)
            /\ UNCHANGED <<vn_table, v_path, v_refcnt, v_lock>>
  BY <1>2 DEF Look, CachedNow
<1>10. ASSUME NEW v \in Cached(p),
              v_refcnt' = [v_refcnt EXCEPT ![v] = @ + 1],
              th' = [th EXCEPT ![t] = [@ EXCEPT !.pc = "lock", !.vp = v]],
              UNCHANGED <<vn_table, v_path, v_lock>>
       PROVE  VnodeParts'
  <2>1. PICK r : r = [o EXCEPT !.pc = "lock", !.vp = v]
    OBVIOUS
  <2>2. v \in vn_table /\ v \in Vnodes /\ Goes(t, r)
    BY <1>2, <1>4, <1>10, <2>1 DEF Cached, Goes
  <2>3. r \in Work(P) /\ Fields(r, "lock", o.op, v, d, o.held, <<>>, "load")
    BY <1>2, <1>3, <1>4, <2>1, <2>2 DEF Work, Fields
  <2>4. Placed(r) /\ LockedOnce(r) /\ Known(r, vn_table)
    BY <1>3, <1>4, <2>2, <2>3, ItemsFew, NoVnodeNull
       DEF Placed, LockedOnce, Known, HasVp, HasDvp, Fields, NullVnode
  <2>5. Mine(r) = Mine(th[t])
    BY <1>2, <1>4, <1>5, <2>3, ItemsFew DEF Mine, HasVp, HasDvp, Fields, Held
  <2>6. ASSUME NEW w \in vn_table PROVE UsesOf(r, w) = UsesOf(th[t], w) + Bit(v = w)
    <3>1. w \in Vnodes
      BY <1>4
    <3>2. UsesOf(r, w) = Bit(r.vp = w) + Bit(r.dvp = w) + Bit(r.held = w) + Bit(w \in Owing(r))
      BY <2>3, <2>4, <3>1, KnownOnly
    <3>3. w \notin Owing(r)
      BY <2>3, ItemsFew DEF Owing, Fields
    <3>4. UsesOf(r, w) = Bit(v = w) + Bit(d = w) + Bit(o.held = w)
      BY <2>3, <3>2, <3>3 DEF Bit, Fields
    <3>5. UsesOf(th[t], w) = Bit(d = w) + Bit(o.held = w)
      BY <1>2, <1>7, <3>1
    <3>. QED
      BY <3>4, <3>5 DEF Bit
  <2>7. r.held # NoVnode => v_path[r.held] \notin Directory
    BY <1>8, <2>3 DEF Fields
  <2>8. UNCHANGED <<vn_table, v_path, v_lock, files, exists>>
    BY <1>9, <1>10
  <2>9. \A w \in vn_table : ~HalfMade(th[t], w)
    BY <1>2, <1>6
  <2>. QED
    BY <1>1, <1>10, <2>2, <2>3, <2>4, <2>5, <2>6, <2>7, <2>8, <2>9, UseStep
<1>11. ASSUME NEW v \in VnodeId \ vn_table, Cached(p) = {},
              vn_table' = vn_table \cup {v},
              v_path' = [v_path EXCEPT ![v] = p],
              v_refcnt' = [v_refcnt EXCEPT ![v] = 1],
              v_lock' = [v_lock EXCEPT ![v] = t],
              th' = [th EXCEPT ![t] = [@ EXCEPT !.pc = "fs", !.vp = v]]
       PROVE  VnodeParts'
  <2>1. PICK r : r = [o EXCEPT !.pc = "fs", !.vp = v]
    OBVIOUS
  <2>2. /\ v \in Vnodes /\ v \notin vn_table /\ v # NoVnode /\ v # rootvp /\ Goes(t, r)
        /\ files' = files /\ exists' = exists /\ v # d /\ v # o.held
    BY <1>2, <1>4, <1>9, <1>11, <2>1, VnodeAssumption DEF Goes, Vnodes, Known
  <2>3. r \in Work(P) /\ Fields(r, "fs", o.op, v, d, o.held, <<>>, "load")
    BY <1>2, <1>3, <1>4, <2>1, <2>2 DEF Work, Fields
  <2>4. /\ Typing /\ Locking /\ Counting /\ Naming /\ vn_table' = vn_table \cup {v}
        /\ v_path \in [Vnodes -> P] /\ v_refcnt \in [Vnodes -> Int]
        /\ v_lock \in [Vnodes -> FsThread \cup {NoThread}] /\ files \in [Vnodes -> Nat]
    BY <1>1, <1>11 DEF VnodeParts, PathsIn, Typing
  <2>5. PICK Q : Q = P \cup {p}
    OBVIOUS
  <2>6. P \subseteq Q /\ v_path' \in [Vnodes -> Q] /\ r \in Work(Q)
    BY <1>11, <2>2, <2>3, <2>4, <2>5, WorkMore
  <2>7. Typing'
    <3>1. /\ v_refcnt' \in [Vnodes -> Int] /\ files' \in [Vnodes -> Nat] /\ vn_table' \subseteq Vnodes
          /\ v_lock' \in [Vnodes -> FsThread \cup {NoThread}]
      BY <1>4, <1>11, <2>2, <2>4
    <3>. QED
      BY <1>1, <2>2, <2>4, <2>6, <3>1, TypingStep
  <2>8. Placed(r) /\ LockedOnce(r) /\ Known(r, vn_table')
    <3>1. Placed(r)
      BY <1>3, <1>4, <2>2, <2>3 DEF Placed, Fields
    <3>2. LockedOnce(r)
      BY <1>4, <2>2, <2>3, ItemsFew DEF LockedOnce, HasVp, HasDvp, Fields
    <3>3. Known(r, vn_table')
      BY <1>4, <2>3, <2>4, ItemsFew DEF Known, Fields
    <3>. QED
      BY <3>1, <3>2, <3>3
  <2>9. Mine(r) = Mine(o) \cup {v}
    BY <1>4, <1>5, <2>3, ItemsFew DEF Mine, HasVp, HasDvp, Fields, Held
  <2>10. v_lock[v] = NoThread
    <3>1. ASSUME NEW s \in FsThread, v_lock[v] = s PROVE FALSE
      BY <2>2, <2>4, <3>1 DEF Locking
    <3>. QED
      BY <2>2, <2>4, <3>1
  <2>11. Locking'
    <3>1. \A w \in Vnodes : v_lock'[w] = t <=> w \in Mine(r)
      BY <1>3, <1>11, <2>2, <2>4, <2>9 DEF Doing
    <3>2. \A w \in Vnodes : v_lock'[w] # v_lock[w] =>
            v_lock[w] \in {t, NoThread} /\ v_lock'[w] \in {t, NoThread}
      BY <1>11, <2>2, <2>4, <2>10
    <3>3. Mine(r) \subseteq vn_table' /\ \A w \in vn_table \ vn_table' : v_lock[w] \in {t, NoThread}
      BY <1>4, <1>5, <2>4, <2>9 DEF Held, Known
    <3>. QED
      BY <2>2, <2>3, <2>4, <2>8, <3>1, <3>2, <3>3, LockingStep
  <2>12. ASSUME NEW w \in Vnodes
         PROVE  UsesOf(r, w) = Bit(v = w) + Bit(d = w) + Bit(o.held = w)
    <3>1. UsesOf(r, w) = Bit(r.vp = w) + Bit(r.dvp = w) + Bit(r.held = w) + Bit(w \in Owing(r))
      BY <2>3, <2>8, KnownOnly
    <3>2. w \notin Owing(r)
      BY <2>3, ItemsFew DEF Owing, Fields
    <3>. QED
      BY <2>3, <3>1, <3>2 DEF Bit, Fields
  <2>13. Counting'
    <3>1. ASSUME NEW w \in vn_table'
          PROVE  IF w \in vn_table THEN UsesEven(t, r, w)
                 ELSE v_refcnt'[w] = Uses(w)' + UsesOf(r, w)
      <4>1. CASE w \in vn_table
        <5>1. w # v /\ w \in Vnodes /\ v_refcnt'[w] = v_refcnt[w]
          BY <1>4, <1>11, <2>2, <2>4, <4>1
        <5>2. UsesOf(r, w) = UsesOf(th[t], w)
          BY <1>2, <1>7, <2>12, <5>1 DEF Bit
        <5>3. Uses(w)' = Uses(w)
          BY <2>2 DEF Uses
        <5>. QED
          BY <4>1, <5>1, <5>2, <5>3 DEF UsesEven
      <4>2. CASE w \notin vn_table
        <5>1. w = v /\ v_refcnt'[v] = 1 /\ files[v] = 0
          BY <1>11, <2>2, <2>4, <4>2 DEF Counting
        <5>2. UsesOf(r, v) = 1
          BY <2>2, <2>12 DEF Bit
        <5>3. Uses(v)' = 0
          BY <2>2, <5>1 DEF Uses, Bit
        <5>. QED
          BY <4>2, <5>1, <5>2, <5>3
      <4>. QED
        BY <4>1, <4>2
    <3>2. ASSUME NEW w \in Vnodes \ vn_table'
          PROVE  /\ files'[w] = 0 /\ UsesOf(r, w) = 0
                 /\ \A s \in FsThread \ {t} : UsesOf(th[s], w) = 0
      BY <2>2, <2>3, <2>4, <2>8, <3>2, KnownOnly DEF Counting
    <3>. QED
      BY <2>2, <2>4, <2>7, <2>11, <3>1, <3>2, CountingStep
  <2>14. th'[t] = r /\ \A s \in FsThread \ {t} : th'[s] = th[s]
    BY <2>2, <2>4, OthersStay
  <2>15. Naming'
    <3>1. rootvp \in vn_table' /\ v_path'[rootvp] = "/"
      BY <1>4, <1>11, <2>2, <2>4 DEF Naming, Vnodes
    <3>2. v_path'[v] = p /\ \A w \in vn_table : v_path'[w] = v_path[w] /\ v_path[w] # p
      BY <1>4, <1>11, <2>2, <2>4 DEF Cached
    <3>3. \A x, y \in vn_table' : x # y => v_path'[x] # v_path'[y]
      BY <2>4, <3>2 DEF Naming
    <3>4. \A w \in vn_table' : files'[w] > 0 => v_path'[w] \in exists'
      <4>1. files[v] = 0
        BY <2>2, <2>4 DEF Counting
      <4>. QED
        BY <2>2, <2>4, <3>2, <4>1 DEF Naming
    <3>5. ASSUME NEW w \in vn_table', v_path'[w] \notin exists'
          PROVE  \E s \in FsThread : HalfMade(th'[s], w)
      <4>1. CASE w = v
        <5>1. HalfMade(r, v)
          BY <2>3 DEF HalfMade, Fields
        <5>. QED
          BY <2>14, <4>1, <5>1
      <4>2. CASE w # v
        <5>1. PICK s \in FsThread : HalfMade(th[s], w)
          BY <2>2, <2>4, <3>2, <3>5, <4>2 DEF Naming
        <5>2. s # t
          BY <1>2, <1>6, <2>4, <4>2, <5>1
        <5>. QED
          BY <2>14, <5>1, <5>2
      <4>. QED
        BY <4>1, <4>2
    <3>6. ASSUME NEW s \in FsThread, th'[s].held # NoVnode PROVE v_path'[th'[s].held] \notin Directory
      <4>1. th'[s].held = th[s].held
        BY <1>2, <2>3, <2>14 DEF Fields
      <4>2. th[s].held \in vn_table
        <5>1. Doing(s, P, th[s])
          BY <1>1, <2>4, WorkKnown
        <5>. QED
          BY <3>6, <4>1, <5>1 DEF Doing, Known
      <4>. QED
        BY <2>4, <3>2, <3>6, <4>1, <4>2 DEF Naming
    <3>. QED
      BY <3>1, <3>3, <3>4, <3>5, <3>6 DEF Naming, HalfMade
  <2>. QED
    BY <2>7, <2>11, <2>13, <2>15 DEF VnodeParts
<1>12. ASSUME th' = Failed(t, <<d>>), UNCHANGED <<vn_table, v_path, v_refcnt, v_lock>>
       PROVE  VnodeParts'
  <2>1. PICK q : q = <<d>>
    OBVIOUS
  <2>2. q \in Seq(Vnodes) /\ q # <<>> /\ Distinct(q) /\ Items(q) = {d}
    BY <1>4, <2>1, ItemsFew
  <2>3. /\ Items(q) \subseteq vn_table /\ o.held \notin Items(q) /\ th' = Failed(t, q)
        /\ UNCHANGED <<vn_table, v_path, v_refcnt, v_lock, files, exists>>
        /\ Mine(o) = Items(q) \cup Held(o)
    BY <1>4, <1>5, <1>9, <1>12, <2>1, <2>2
  <2>4. ASSUME NEW w \in vn_table PROVE UsesOf(o, w) = Bit(w \in Items(q) \cup Held(o))
    <3>1. w \in Vnodes /\ w # NoVnode
      BY <1>4, NoVnodeNull DEF NullVnode
    <3>2. w \in Items(q) \cup Held(o) <=> w = d \/ w = o.held
      BY <2>2, <3>1 DEF Held
    <3>3. UsesOf(o, w) = Bit(d = w) + Bit(o.held = w)
      BY <1>7, <3>1
    <3>. QED
      BY <1>4, <3>2, <3>3 DEF Bit
  <2>. QED
    BY <1>1, <1>3, <1>6, <2>2, <2>3, <2>4, FailStep
<1>. QED
  BY <1>9, <1>10, <1>11, <1>12
LEMMA PutStoreKeeps ==
  ASSUME VnodeParts, NEW t \in FsThread, PutStore(t), raced' = "no"
  PROVE  VnodeParts'
<1>1. PICK P : PathsIn(P)
  BY VnodePaths DEF VnodeParts
<1>2. PICK o, v, n : o = th[t] /\ v = Head(o.puts) /\ n = o.n - 1
  OBVIOUS
<1>3. Doing(t, P, o) /\ o.puts # <<>> /\ o.put = "store"
  BY <1>1, <1>2, WorkKnown DEF VnodeParts, PutStore, Putting
<1>4. /\ o \in Work(P) /\ Placed(o) /\ LockedOnce(o) /\ Known(o, vn_table) /\ vn_table \subseteq Vnodes
      /\ o.puts \in Seq(Vnodes) /\ Distinct(o.puts) /\ o.n \in Int
  BY <1>3 DEF VnodeParts, Typing, Doing, Work, LockedOnce
<1>5. /\ v \in Items(o.puts) /\ Tail(o.puts) \in Seq(Vnodes) /\ Distinct(Tail(o.puts))
      /\ Items(Tail(o.puts)) = Items(o.puts) \ {v}
  BY <1>2, <1>3, <1>4, DequeueItems
<1>6. v \in vn_table /\ v \in Vnodes /\ v \in Mine(o) /\ v_lock[v] = t
  BY <1>3, <1>4, <1>5 DEF Known, Mine, Doing
<1>7. /\ v_refcnt' = [v_refcnt EXCEPT ![v] = n] /\ v_refcnt[v] = o.n
      /\ n > 0 => v_path[v] \in exists
      /\ UNCHANGED <<vn_table, v_path, files, exists>>
  BY <1>2 DEF PutStore
<1>8. /\ v_refcnt \in [Vnodes -> Int] /\ files \in [Vnodes -> Nat] /\ n \in Int
      /\ v_lock \in [Vnodes -> FsThread \cup {NoThread}]
  BY <1>2, <1>4 DEF VnodeParts, Typing
<1>9. v_refcnt'[v] = v_refcnt[v] - 1 /\ \A w \in vn_table \ {v} : v_refcnt'[w] = v_refcnt[w]
  BY <1>2, <1>4, <1>6, <1>7, <1>8
<1>10. v_refcnt' \in [Vnodes -> Int] /\ files' = files
  BY <1>7, <1>8
<1>11. \A w \in Vnodes \ vn_table : files'[w] = 0
  BY <1>10 DEF VnodeParts, Counting
<1>12. o.held # NoVnode => v_path[o.held] \notin Directory
  BY <1>2 DEF VnodeParts, Naming
<1>13. Owing(o) = Items(o.puts) /\ o.pc \in {"idle", "look", "got"}
  BY <1>3, <1>4 DEF Owing, Placed
<1>14. ASSUME NEW r \in Work(P), Placed(r), LockedOnce(r), Known(r, vn_table),
              r.vp = o.vp, r.dvp = o.dvp, r.held = o.held, Owing(r) = Items(o.puts) \ {v},
              NEW w \in vn_table
       PROVE  UsesEven(t, r, w)
  <2>1. w \in Vnodes /\ Uses(w)' = Uses(w) /\ Uses(w) \in Nat /\ v_refcnt[w] \in Int
    BY <1>4, <1>10, UsesType DEF VnodeParts, Uses
  <2>2. UsesOf(th[t], w) = Bit(o.vp = w) + Bit(o.dvp = w) + Bit(o.held = w) + Bit(w \in Items(o.puts))
    BY <1>3, <1>13, <2>1 DEF Doing
  <2>3. UsesOf(r, w) = Bit(o.vp = w) + Bit(o.dvp = w) + Bit(o.held = w)
                         + Bit(w \in Items(o.puts) \ {v})
    BY <1>14, <2>1, KnownOnly
  <2>4. UsesOf(th[t], w) = UsesOf(r, w) + Bit(w = v)
    <3>1. Bit(w \in Items(o.puts)) = Bit(w \in Items(o.puts) \ {v}) + Bit(w = v)
      BY <1>5 DEF Bit
    <3>2. /\ Bit(o.vp = w) \in Nat /\ Bit(o.dvp = w) \in Nat /\ Bit(o.held = w) \in Nat
          /\ Bit(w \in Items(o.puts) \ {v}) \in Nat /\ Bit(w = v) \in Nat
      BY DEF Bit
    <3>. QED
      BY <2>2, <2>3, <3>1, <3>2
  <2>5. v_refcnt'[w] = v_refcnt[w] - Bit(w = v)
    BY <1>9, <2>1 DEF Bit
  <2>6. UsesOf(th[t], w) \in Nat /\ UsesOf(r, w) \in Nat /\ Bit(w = v) \in Nat
    <3>1. UsesOf(r, w) \in Nat
      BY <1>14, UsesAre
    <3>. QED
      BY <1>3, <2>1, <3>1 DEF Doing, Bit
  <2>. QED
    BY <2>1, <2>4, <2>5, <2>6 DEF UsesEven
<1>15. CASE n > 0
  <2>1. PICK r, q, z : r = [o EXCEPT !.puts = q, !.put = "load", !.n = z] /\ q = Tail(o.puts) /\ z = 0
    OBVIOUS
  <2>2. Goes(t, r) /\ v_lock' = [v_lock EXCEPT ![v] = NoThread]
    <3>1. /\ th' = [th EXCEPT ![t] = [th[t] EXCEPT !.puts = Tail(th[t].puts), !.put = "load", !.n = 0]]
          /\ v_lock' = [v_lock EXCEPT ![v] = NoThread]
      BY <1>2, <1>15 DEF PutStore
    <3>2. [th[t] EXCEPT !.puts = Tail(th[t].puts), !.put = "load", !.n = 0] = r
      BY <1>2, <2>1
    <3>3. th' = [th EXCEPT ![t] = r]
      BY <1>2, <3>1, <3>2
    <3>. QED
      BY <3>1, <3>3 DEF Goes
  <2>3. r \in Work(P) /\ Fields(r, o.pc, o.op, o.vp, o.dvp, o.held, Tail(o.puts), "load")
    <3>1. q \in Seq(Vnodes) /\ z \in Int
      BY <1>5, <2>1
    <3>2. r = [o EXCEPT !.puts = q, !.put = "load", !.n = z]
      BY <2>1
    <3>3. r \in Work(P)
      BY <1>4, <3>1, <3>2 DEF Work
    <3>4. Fields(r, o.pc, o.op, o.vp, o.dvp, o.held, q, "load")
      BY <1>4, <3>2 DEF Work, Fields
    <3>. QED
      BY <2>1, <3>3, <3>4
  <2>4. Placed(r)
    BY <1>3, <1>4, <2>3 DEF Placed, Fields
  <2>5. LockedOnce(r)
    BY <1>4, <1>5, <2>3 DEF LockedOnce, HasVp, HasDvp, Fields
  <2>6. Known(r, vn_table)
    BY <1>4, <1>5, <2>3 DEF Known, Fields
  <2>7. Mine(r) = Mine(o) \ {v}
    <3>1. /\ HasVp(o) => v # o.vp
          /\ HasDvp(o) => v # o.dvp
          /\ o.held # NoVnode => v # o.held
      BY <1>4, <1>5 DEF LockedOnce
    <3>. QED
      BY <1>5, <2>3, <3>1 DEF Mine, HasVp, HasDvp, Fields
  <2>8. Owing(r) = Items(o.puts) \ {v}
    BY <1>5, <2>3 DEF Owing, Fields
  <2>9. \A w \in vn_table : UsesEven(t, r, w)
    BY <1>14, <2>3, <2>4, <2>5, <2>6, <2>8 DEF Fields
  <2>10. /\ \A w \in Vnodes : v_lock'[w] = t <=> w \in Mine(r)
         /\ \A w \in Vnodes : v_lock'[w] # v_lock[w] =>
              v_lock[w] \in {t, NoThread} /\ v_lock'[w] \in {t, NoThread}
    BY <1>3, <1>6, <1>8, <2>2, <2>7, VnodeAssumption DEF Doing
  <2>11. \A w \in vn_table : HalfMade(th[t], w) => v_path[w] \in exists
    BY <1>2, <1>7, <1>13, <1>15 DEF HalfMade
  <2>12. r.held # NoVnode => v_path[r.held] \notin Directory
    BY <1>12, <2>3 DEF Fields
  <2>13. v_lock' \in [Vnodes -> FsThread \cup {NoThread}] /\ files' \in [Vnodes -> Nat]
    BY <1>8, <1>10, <2>2
  <2>. QED
    BY <1>1, <1>7, <1>10, <1>11, <2>2, <2>3, <2>4, <2>5, <2>6, <2>9, <2>10, <2>11, <2>12, <2>13,
       ThreadStep
<1>16. CASE ~(n > 0)
  <2>1. PICK r, z : r = [o EXCEPT !.put = "free", !.n = z] /\ z = 0
    OBVIOUS
  <2>2. Goes(t, r) /\ v_lock' = v_lock
    BY <1>2, <1>16, <2>1 DEF PutStore, Goes
  <2>3. r \in Work(P) /\ Fields(r, o.pc, o.op, o.vp, o.dvp, o.held, o.puts, "free")
    <3>1. z \in Int
      BY <2>1
    <3>2. r = [o EXCEPT !.put = "free", !.n = z]
      BY <2>1
    <3>3. r \in Work(P)
      BY <1>4, <3>1, <3>2 DEF Work
    <3>4. Fields(r, o.pc, o.op, o.vp, o.dvp, o.held, o.puts, "free")
      BY <1>4, <3>2 DEF Work, Fields
    <3>. QED
      BY <3>3, <3>4
  <2>4. Placed(r)
    BY <1>3, <1>4, <2>3 DEF Placed, Fields
  <2>5. LockedOnce(r)
    BY <1>4, <2>3 DEF LockedOnce, HasVp, HasDvp, Fields
  <2>6. Known(r, vn_table)
    BY <1>4, <2>3 DEF Known, Fields
  <2>7. Mine(r) = Mine(o)
    BY <2>3 DEF Mine, HasVp, HasDvp, Fields
  <2>8. Owing(r) = Items(o.puts) \ {v}
    BY <1>2, <2>3 DEF Owing, Fields
  <2>9. \A w \in vn_table : UsesEven(t, r, w)
    BY <1>14, <2>3, <2>4, <2>5, <2>6, <2>8 DEF Fields
  <2>10. \A w \in Vnodes : v_lock'[w] = t <=> w \in Mine(r)
    BY <1>3, <2>2, <2>7 DEF Doing
  <2>11. \A w \in vn_table : HalfMade(th[t], w) => HalfMade(r, w)
    BY <1>2, <2>3 DEF HalfMade, Fields
  <2>12. r.held # NoVnode => v_path[r.held] \notin Directory
    BY <1>12, <2>3 DEF Fields
  <2>13. v_lock' \in [Vnodes -> FsThread \cup {NoThread}] /\ files' \in [Vnodes -> Nat]
    BY <1>8, <1>10, <2>2
  <2>. QED
    BY <1>1, <1>7, <1>10, <1>11, <2>2, <2>3, <2>4, <2>5, <2>6, <2>9, <2>10, <2>11, <2>12, <2>13,
       ThreadStep
<1>. QED
  BY <1>15, <1>16

LEMMA NumberZero == 0 \in Int
OBVIOUS

LEMMA CountsKept ==
  ASSUME NEW c \in [Vnodes -> Int], NEW v, NEW n \in Int
  PROVE  [c EXCEPT ![v] = n] \in [Vnodes -> Int]
OBVIOUS

LEMMA NoneOfFour ==
  ASSUME NEW a \in Nat, NEW b \in Nat, NEW c \in Nat, NEW d \in Nat, a + b + c + d = 0
  PROVE  a = 0 /\ b = 0 /\ c = 0 /\ d = 0
OBVIOUS

\* Who has no use of a vnode does not name it.
LEMMA UsesNone ==
  ASSUME NEW s, NEW P, NEW o, Doing(s, P, o), NEW v \in Vnodes, UsesOf(th[s], v) = 0
  PROVE  o.vp # v /\ o.dvp # v /\ o.held # v /\ v \notin Owing(o)
<1>1. Bit(o.vp = v) + Bit(o.dvp = v) + Bit(o.held = v) + Bit(v \in Owing(o)) = 0
  BY DEF Doing
<1>2. /\ Bit(o.vp = v) \in Nat /\ Bit(o.dvp = v) \in Nat
      /\ Bit(o.held = v) \in Nat /\ Bit(v \in Owing(o)) \in Nat
  BY DEF Bit
<1>3. /\ Bit(o.vp = v) = 0 /\ Bit(o.dvp = v) = 0 /\ Bit(o.held = v) = 0
      /\ Bit(v \in Owing(o)) = 0
  BY <1>1, <1>2, NoneOfFour
<1>. QED
  BY <1>3 DEF Bit

\* A vnode that only t has locked and nobody else uses is freed.
LEMMA FreeStep ==
  ASSUME VnodeParts, NEW t \in FsThread, NEW P, PathsIn(P), NEW Q, P \subseteq Q, "" \in Q,
         NEW r \in Work(Q), Goes(t, r), NEW v \in vn_table, Freed(v), files' = files,
         v \in Mine(th[t]), v # rootvp, files[v] = 0,
         \A s \in FsThread \ {t} : UsesOf(th[s], v) = 0,
         Placed(r), LockedOnce(r), Known(r, vn_table \ {v}), Mine(r) = Mine(th[t]) \ {v},
         \A w \in vn_table \ {v} : UsesOf(r, w) = UsesOf(th[t], w),
         \A w \in vn_table \ {v} : ~HalfMade(th[t], w),
         r.held # NoVnode => r.held = th[t].held,
         exists' \subseteq exists, exists \ {v_path[v]} \subseteq exists'
  PROVE  VnodeParts'
<1>1. /\ Typing /\ Locking /\ Counting /\ Naming /\ Doing(t, P, th[t]) /\ vn_table \subseteq Vnodes
      /\ v \in Vnodes
  BY WorkKnown DEF VnodeParts, Typing
<1>2. /\ v_path \in [Vnodes -> P] /\ v_refcnt \in [Vnodes -> Int] /\ files \in [Vnodes -> Nat]
      /\ v_lock \in [Vnodes -> FsThread \cup {NoThread}]
  BY <1>1 DEF Typing, PathsIn
<1>3. /\ vn_table' = vn_table \ {v}
      /\ v_path' = [v_path EXCEPT ![v] = ""]
      /\ v_refcnt' = [v_refcnt EXCEPT ![v] = 0]
      /\ v_lock' = [v_lock EXCEPT ![v] = NoThread]
  BY DEF Freed
<1>4. Typing'
  <2>1. v_path' \in [Vnodes -> Q]
    BY <1>2, <1>3
  <2>2. v_refcnt' \in [Vnodes -> Int] /\ files' \in [Vnodes -> Nat]
    <3>1. PICK z : z = 0
      OBVIOUS
    <3>2. v_refcnt' = [v_refcnt EXCEPT ![v] = z]
      BY Zenon, <1>3, <3>1
    <3>3. z \in Int
      BY <3>1, NumberZero
    <3>4. v_refcnt' \in [Vnodes -> Int]
      BY <1>2, <3>2, <3>3, CountsKept
    <3>. QED
      BY <1>2, <3>4
  <2>3. v_lock' \in [Vnodes -> FsThread \cup {NoThread}] /\ vn_table' \subseteq Vnodes
    BY <1>1, <1>2, <1>3
  <2>. QED
    BY <1>1, <2>1, <2>2, <2>3, TypingStep
<1>5. v_lock[v] = t
  BY <1>1 DEF Doing
<1>6. Mine(r) \subseteq vn_table \ {v} /\ \A w \in Vnodes \ (vn_table \ {v}) : UsesOf(r, w) = 0
  BY KnownOnly
<1>7. Locking'
  <2>1. \A w \in Vnodes : v_lock'[w] = t <=> w \in Mine(r)
    BY <1>1, <1>2, <1>3, VnodeAssumption DEF Doing
  <2>2. \A w \in Vnodes : v_lock'[w] # v_lock[w] =>
          v_lock[w] \in {t, NoThread} /\ v_lock'[w] \in {t, NoThread}
    BY <1>2, <1>3, <1>5
  <2>3. Mine(r) \subseteq vn_table' /\ \A w \in vn_table \ vn_table' : v_lock[w] \in {t, NoThread}
    BY <1>3, <1>5, <1>6
  <2>. QED
    BY <1>1, <2>1, <2>2, <2>3, LockingStep
<1>8. Counting'
  <2>1. ASSUME NEW w \in vn_table'
        PROVE  IF w \in vn_table THEN UsesEven(t, r, w)
               ELSE v_refcnt'[w] = Uses(w)' + UsesOf(r, w)
    <3>1. w \in vn_table \ {v} /\ v_refcnt'[w] = v_refcnt[w] /\ UsesOf(r, w) = UsesOf(th[t], w)
      BY <1>1, <1>2, <1>3
    <3>2. Uses(w)' = Uses(w)
      BY DEF Uses
    <3>. QED
      BY <3>1, <3>2 DEF UsesEven
  <2>2. \A w \in Vnodes \ vn_table' : /\ files'[w] = 0 /\ UsesOf(r, w) = 0
                                      /\ \A s \in FsThread \ {t} : UsesOf(th[s], w) = 0
    BY <1>1, <1>3, <1>6 DEF Counting
  <2>. QED
    BY <1>1, <1>4, <1>7, <2>1, <2>2, CountingStep
<1>9. th'[t] = r /\ \A s \in FsThread \ {t} : th'[s] = th[s]
  BY <1>1, OthersStay
<1>10. Naming'
  <2>1. \A w \in vn_table' : w \in vn_table /\ w # v /\ v_path'[w] = v_path[w]
    BY <1>1, <1>2, <1>3
  <2>2. rootvp \in vn_table' /\ v_path'[rootvp] = "/"
    BY <1>1, <1>3, <2>1 DEF Naming
  <2>3. \A x, y \in vn_table' : x # y => v_path'[x] # v_path'[y]
    BY <1>1, <2>1 DEF Naming
  <2>4. \A w \in vn_table' : v_path[w] # v_path[v]
    BY <1>1, <2>1 DEF Naming
  <2>5. \A w \in vn_table' : files'[w] > 0 => v_path'[w] \in exists'
    BY <1>1, <2>1, <2>4 DEF Naming
  <2>6. ASSUME NEW w \in vn_table', v_path'[w] \notin exists'
        PROVE  \E s \in FsThread : HalfMade(th'[s], w)
    <3>1. w \in vn_table \ {v} /\ v_path[w] \notin exists
      BY <2>1, <2>4, <2>6
    <3>2. PICK s \in FsThread : HalfMade(th[s], w)
      BY <1>1, <3>1 DEF Naming
    <3>3. s # t
      BY <3>1, <3>2
    <3>. QED
      BY <1>9, <3>2, <3>3
  <2>7. ASSUME NEW s \in FsThread, th'[s].held # NoVnode
        PROVE  v_path'[th'[s].held] \notin Directory
    <3>1. th'[s].held = th[s].held
      BY <1>9, <2>7
    <3>2. th[s].held \in vn_table /\ th[s].held \in Vnodes
      <4>1. Doing(s, P, th[s])
        BY <1>1, WorkKnown
      <4>. QED
        BY <1>1, <2>7, <3>1, <4>1 DEF Doing, Known
    <3>3. th[s].held # v
      <4>1. CASE s = t
        BY <1>9, <2>7, <3>1, <4>1 DEF Known
      <4>2. CASE s # t
        <5>1. UsesOf(th[s], v) = 0 /\ Doing(s, P, th[s])
          BY <1>1, <4>2, WorkKnown
        <5>2. PICK o : o = th[s]
          OBVIOUS
        <5>3. Doing(s, P, o)
          BY <5>1, <5>2
        <5>4. o.held # v
          BY <1>1, <5>1, <5>3, UsesNone
        <5>. QED
          BY <5>2, <5>4
      <4>. QED
        BY <4>1, <4>2
    <3>. QED
      BY <1>1, <1>2, <1>3, <2>7, <3>1, <3>2, <3>3 DEF Naming
  <2>. QED
    BY <2>2, <2>3, <2>5, <2>6, <2>7 DEF Naming, HalfMade
<1>. QED
  BY <1>4, <1>7, <1>8, <1>10 DEF VnodeParts

LEMMA RemoveFileKeeps ==
  ASSUME VnodeParts, NEW t \in FsThread, RemoveFile(t), raced' = "no"
  PROVE  VnodeParts'
<1>1. PICK P : PathsIn(P)
  BY VnodePaths DEF VnodeParts
<1>2. PICK o, v, x : o = th[t] /\ v = o.held /\ x = o.vp
  OBVIOUS
<1>3. Doing(t, P, o) /\ o.pc = "got" /\ o.puts = <<>> /\ o.op = "remove"
  BY <1>1, <1>2, WorkKnown DEF VnodeParts, RemoveFile, Ready
<1>4. /\ v # NoVnode /\ v \in vn_table /\ x # NoVnode /\ x \in vn_table /\ x \in Vnodes /\ v \in Vnodes
      /\ x # v /\ o.put = "load" /\ o.dvp = NoVnode /\ vn_table \subseteq Vnodes
  BY <1>2, <1>3 DEF VnodeParts, Typing, Doing, Placed, Known, LockedOnce, HasVp
<1>5. /\ Freed(v) /\ files' = files /\ exists' = exists \ {v_path[v]} /\ v_refcnt[v] = 1
      /\ th' = [th EXCEPT ![t] = [Idle EXCEPT !.puts = <<x>>]]
  BY <1>2 DEF RemoveFile
<1>6. ASSUME NEW w \in Vnodes PROVE UsesOf(th[t], w) = Bit(w = x) + Bit(w = v)
  <2>1. w # NoVnode /\ w \notin Owing(o)
    BY <1>3, NoVnodeNull, ItemsFew DEF NullVnode, Owing
  <2>2. Bit(o.vp = w) = Bit(w = x) /\ Bit(o.held = w) = Bit(w = v) /\ Bit(o.dvp = w) = 0
    BY <1>2, <1>4, <2>1 DEF Bit
  <2>3. Bit(w \in Owing(o)) = 0 /\ Bit(w = x) \in Nat /\ Bit(w = v) \in Nat
    BY <2>1 DEF Bit
  <2>4. UsesOf(th[t], w) = Bit(o.vp = w) + Bit(o.dvp = w) + Bit(o.held = w) + Bit(w \in Owing(o))
    BY <1>3 DEF Doing
  <2>. QED
    BY <2>2, <2>3, <2>4
<1>7. UsesOf(th[t], v) > 0
  <2>1. Bit(v = x) = 0 /\ Bit(v = v) = 1
    BY <1>4 DEF Bit
  <2>2. UsesOf(th[t], v) = Bit(v = x) + Bit(v = v)
    BY <1>4, <1>6
  <2>. QED
    BY <2>1, <2>2
<1>8. files[v] = 0 /\ v # rootvp /\ \A s \in FsThread \ {t} : UsesOf(th[s], v) = 0
  BY <1>4, <1>5, <1>7, OnlyOneUses DEF VnodeParts
<1>9. PICK Q : Q = P \cup {"/", ""}
  OBVIOUS
<1>10. PICK r : r = [Idle EXCEPT !.puts = <<x>>]
  OBVIOUS
<1>11. <<x>> \in Seq(Vnodes) /\ Distinct(<<x>>) /\ Items(<<x>>) = {x}
  BY <1>4, ItemsFew
<1>12. DoneWith(r, <<x>>, Q, vn_table \ {v})
  <2>1. "/" \in Q /\ Items(<<x>>) \subseteq vn_table \ {v}
    BY <1>4, <1>9, <1>11
  <2>. QED
    BY <1>10, <1>11, <2>1, PutsAre
<1>13. /\ Placed(r) /\ LockedOnce(r) /\ Known(r, vn_table \ {v}) /\ P \subseteq Q /\ r \in Work(Q)
       /\ r.held = NoVnode /\ "" \in Q /\ Goes(t, r)
  BY <1>5, <1>9, <1>10, <1>12 DEF DoneWith, Fields, Goes
<1>14. Mine(th[t]) = {x, v}
  BY <1>2, <1>3, <1>4, ItemsFew DEF Mine, HasVp, HasDvp
<1>15. v \in Mine(th[t]) /\ Mine(r) = Mine(th[t]) \ {v}
  BY <1>4, <1>11, <1>12, <1>14 DEF DoneWith
<1>16. ASSUME NEW w \in vn_table \ {v} PROVE UsesOf(r, w) = UsesOf(th[t], w)
  <2>1. w \in Vnodes /\ UsesOf(r, w) = Bit(w \in {x})
    BY <1>4, <1>11, <1>12 DEF DoneWith
  <2>2. UsesOf(th[t], w) = Bit(w = x) + Bit(w = v)
    BY <1>6, <2>1
  <2>. QED
    BY <2>1, <2>2 DEF Bit
<1>17. \A w \in vn_table \ {v} : ~HalfMade(th[t], w)
  BY <1>2, <1>3 DEF HalfMade
<1>18. exists' \subseteq exists /\ exists \ {v_path[v]} \subseteq exists'
  BY <1>5
<1>. QED
  BY <1>1, <1>4, <1>5, <1>8, <1>13, <1>15, <1>16, <1>17, <1>18, FreeStep

LEMMA PutFreeKeeps ==
  ASSUME VnodeParts, NEW t \in FsThread, PutFree(t), raced' = "no"
  PROVE  VnodeParts'
<1>1. PICK P : PathsIn(P)
  BY VnodePaths DEF VnodeParts
<1>2. PICK o, v, q : o = th[t] /\ v = Head(o.puts) /\ q = Tail(o.puts)
  OBVIOUS
<1>3. Doing(t, P, o) /\ o.puts # <<>> /\ o.put = "free"
  BY <1>1, <1>2, WorkKnown DEF VnodeParts, PutFree, Putting
<1>4. /\ o \in Work(P) /\ Placed(o) /\ LockedOnce(o) /\ Known(o, vn_table) /\ vn_table \subseteq Vnodes
      /\ o.puts \in Seq(Vnodes) /\ Distinct(o.puts)
  BY <1>3 DEF VnodeParts, Typing, Doing, Work, LockedOnce
<1>5. v \in Items(o.puts) /\ q \in Seq(Vnodes) /\ Distinct(q) /\ Items(q) = Items(o.puts) \ {v}
  BY <1>2, <1>3, <1>4, DequeueItems
<1>6. v \in vn_table /\ v \in Vnodes /\ v \in Mine(th[t])
  BY <1>2, <1>4, <1>5 DEF Known, Mine
<1>7. /\ Freed(v) /\ files' = files /\ exists' = exists /\ v_refcnt[v] = 0
      /\ th' = [th EXCEPT ![t] = [@ EXCEPT !.puts = q, !.put = "load"]]
  BY <1>2 DEF PutFree
<1>8. files[v] = 0 /\ v # rootvp /\ \A s \in FsThread : UsesOf(th[s], v) = 0
  BY <1>6, <1>7, NobodyUses DEF VnodeParts
<1>9. PICK Q : Q = P \cup {""}
  OBVIOUS
<1>10. PICK r : r = [o EXCEPT !.puts = q, !.put = "load"]
  OBVIOUS
<1>11. Goes(t, r)
  BY <1>2, <1>7, <1>10 DEF Goes
<1>12. r \in Work(P) /\ Fields(r, o.pc, o.op, o.vp, o.dvp, o.held, q, "load")
  <2>1. r \in Work(P)
    BY <1>4, <1>5, <1>10 DEF Work
  <2>2. Fields(r, o.pc, o.op, o.vp, o.dvp, o.held, q, "load")
    BY <1>4, <1>5, <1>10 DEF Work, Fields
  <2>. QED
    BY <2>1, <2>2
<1>13. r \in Work(Q) /\ P \subseteq Q /\ "" \in Q
  BY <1>9, <1>12, WorkMore
<1>14. o.vp # v /\ o.dvp # v /\ o.held # v
  <2>1. UsesOf(th[t], v) = 0
    BY <1>8
  <2>. QED
    BY <1>3, <1>6, <2>1, UsesNone
<1>15. Placed(r)
  BY <1>3, <1>4, <1>12 DEF Placed, Fields
<1>16. LockedOnce(r)
  BY <1>4, <1>5, <1>12 DEF LockedOnce, HasVp, HasDvp, Fields
<1>17. Known(r, vn_table \ {v})
  BY <1>4, <1>5, <1>12, <1>14 DEF Known, Fields
<1>18. Mine(r) = Mine(th[t]) \ {v}
  BY <1>2, <1>5, <1>12, <1>14 DEF Mine, HasVp, HasDvp, Fields
<1>19. \A w \in vn_table \ {v} : UsesOf(r, w) = UsesOf(th[t], w)
  BY <1>2, <1>3, <1>12 DEF UsesOf, Owed, Fields
<1>20. \A w \in vn_table \ {v} : ~HalfMade(th[t], w)
  BY <1>2, <1>3, <1>4 DEF HalfMade, Placed
<1>21. r.held = th[t].held /\ exists' \subseteq exists /\ exists \ {v_path[v]} \subseteq exists'
  BY <1>2, <1>7, <1>12 DEF Fields
<1>. QED
  BY <1>1, <1>6, <1>7, <1>8, <1>11, <1>13, <1>15, <1>16, <1>17, <1>18, <1>19, <1>20, <1>21, FreeStep
-----------------------------------------------------------------------------
LEMMA VnodeInvInit == VnodeInit => VnodeInv
<1>. SUFFICES ASSUME VnodeInit PROVE VnodeParts
  BY DEF VnodeInv, VnodeParts
<1>1. /\ vn_table = {rootvp} /\ rootvp \in Vnodes /\ "/" \in Directory /\ "/" \in exists
      /\ v_path[rootvp] = "/" /\ \A v \in Vnodes : v_lock[v] = NoThread /\ files[v] = 0
      /\ v_refcnt[rootvp] = 1 /\ \A t \in FsThread : th[t] = Idle
  BY VnodeAssumption DEF VnodeInit, FileTree, Vnodes
<1>2. Typing
  <2>1. th \in [FsThread -> Work({"/", ""})]
    BY IdleIs DEF VnodeInit
  <2>2. v_path \in [Vnodes -> {"/", ""}]
    BY DEF VnodeInit
  <2>3. \E P : v_path \in [Vnodes -> P] /\ th \in [FsThread -> Work(P)]
    BY <2>1, <2>2
  <2>4. /\ v_refcnt \in [Vnodes -> Int] /\ files \in [Vnodes -> Nat] /\ vn_table \subseteq Vnodes
        /\ v_lock \in [Vnodes -> FsThread \cup {NoThread}]
    <3>1. v_refcnt \in [Vnodes -> Int]
      <4>1. PICK a, b : a = 1 /\ b = 0
        OBVIOUS
      <4>2. a \in Int /\ b \in Int
        BY <4>1
      <4>3. v_refcnt = [v \in Vnodes |-> IF v = rootvp THEN a ELSE b]
        BY Zenon, <4>1 DEF VnodeInit
      <4>. QED
        BY <4>2, <4>3
    <3>2. files \in [Vnodes -> Nat]
      BY DEF VnodeInit
    <3>3. v_lock \in [Vnodes -> FsThread \cup {NoThread}]
      BY DEF VnodeInit
    <3>. QED
      BY <1>1, <3>1, <3>2, <3>3
  <2>. QED
    BY <2>3, <2>4 DEF Typing
<1>3. Placed(Idle) /\ LockedOnce(Idle) /\ Mine(Idle) = {}
  BY IdleIs, ItemsFew DEF Placed, LockedOnce, Mine, HasVp, HasDvp, Fields
<1>4. Locking
  <2>1. \A t \in FsThread : Placed(th[t]) /\ LockedOnce(th[t]) /\ Mine(th[t]) = {}
    BY <1>1, <1>3
  <2>2. \A t \in FsThread : \A v \in Vnodes : v_lock[v] # t
    BY <1>1, VnodeAssumption
  <2>. QED
    BY <2>1, <2>2 DEF Locking
<1>5. ASSUME NEW t \in FsThread, NEW v \in Vnodes PROVE UsesOf(th[t], v) = 0
  <2>1. UsesOf(th[t], v) = Bit(Idle.vp = v) + Bit(Idle.dvp = v) + Bit(Idle.held = v)
                             + Bit(v \in Owing(Idle))
    <3>1. Idle \in Work({"/"})
      BY IdleIs
    <3>. QED
      BY <1>1, <1>3, <3>1, UsesAre
  <2>2. v # Idle.vp /\ v # Idle.dvp /\ v # Idle.held /\ v \notin Owing(Idle)
    BY IdleIs, NoVnodeNull, ItemsFew DEF Fields, NullVnode, Owing
  <2>. QED
    BY <2>1, <2>2 DEF Bit
<1>6. Counting
  <2>1. ASSUME NEW v \in vn_table PROVE v_refcnt[v] = Uses(v) + Cardinality(References(v))
    <3>1. v = rootvp /\ v \in Vnodes /\ v_refcnt[v] = 1 /\ files[v] = 0
      BY <1>1
    <3>2. Uses(v) = 1
      BY <3>1 DEF Uses, Bit
    <3>3. PICK u : u = UseMap(v)
      OBVIOUS
    <3>4. u \in [FsThread -> Nat] /\ \A t \in FsThread : u[t] = UsesOf(th[t], v)
      BY <1>2, <1>4, <3>3, UseMapType
    <3>5. Cardinality(References(v)) = 0
      BY <1>5, <3>1, <3>3, <3>4, ReferencesAre, TokensNone DEF Uses0
    <3>. QED
      BY <3>1, <3>2, <3>5
  <2>. QED
    BY <1>1, <1>5, <2>1 DEF Counting
<1>7. Naming
  BY <1>1, IdleIs DEF Naming, Fields
<1>. QED
  BY <1>2, <1>4, <1>6, <1>7 DEF VnodeParts

LEMMA VnodeInvNext == VnodeInv /\ [VnodeNext]_vnodeVars => VnodeInv'
<1>. SUFFICES ASSUME VnodeInv, [VnodeNext]_vnodeVars, raced' = "no" PROVE VnodeParts'
  BY DEF VnodeInv, VnodeParts, Typing, Locking, Counting, Naming
<1>1. CASE UNCHANGED vnodeVars
  <2>1. VnodeParts
    BY <1>1 DEF VnodeInv, VnodeParts, vnodeVars
  <2>2. Typing' /\ Naming'
    BY <1>1, <2>1 DEF VnodeParts, vnodeVars, Typing, Naming, HalfMade
  <2>3. Locking'
    BY <1>1, <2>1 DEF VnodeParts, vnodeVars, Locking, Placed, LockedOnce, Mine, HasVp, HasDvp
  <2>4. Counting'
    BY <1>1, <2>1 DEF VnodeParts, vnodeVars, Counting, Uses, References, UsesOf, Owed
  <2>. QED
    BY <2>2, <2>3, <2>4 DEF VnodeParts
<1>2. ASSUME NEW t \in FsThread,
             \/ \E op \in {"open", "stat", "unlink"}, p \in Asked : Request(t, op, p)
             \/ \E v \in Vnodes : Close(t, v)
             \/ Find(t) \/ Lock(t) \/ DirLock(t) \/ LockRefused(t) \/ Look(t) \/ Fs(t)
             \/ Open(t) \/ Put(t) \/ CloseFails(t) \/ Unlink(t) \/ RemoveFile(t)
             \/ PutLoad(t) \/ PutStore(t) \/ PutFree(t)
      PROVE  VnodeParts'
  <2>3. ~LockRefused(t)
    BY DEF LockRefused
  <2>1. raced = "no"
    BY <1>2, <2>3 DEF Request, Close, Find, Lock, DirLock, Look, Fs, Open, Put, CloseFails,
                      Unlink, RemoveFile, PutLoad, PutStore, PutFree, Ready, Putting
  <2>2. VnodeParts
    BY <2>1 DEF VnodeInv, VnodeParts
  <2>4. ASSUME NEW op \in {"open", "stat", "unlink"}, NEW p \in Asked, Request(t, op, p)
        PROVE  VnodeParts'
    BY <2>2, <2>4, RequestKeeps
  <2>5. ASSUME NEW v \in Vnodes, Close(t, v) PROVE VnodeParts'
    BY <2>2, <2>5, CloseKeeps
  <2>6. CASE Find(t)
    BY <2>2, <2>6, FindKeeps
  <2>7. CASE Lock(t)
    BY <2>2, <2>7, LockKeeps
  <2>8. CASE DirLock(t)
    BY <2>2, <2>8, DirLockKeeps
  <2>9. CASE Look(t)
    BY <2>2, <2>9, LookKeeps
  <2>10. CASE Fs(t)
    BY <2>2, <2>10, FsKeeps
  <2>11. CASE Open(t)
    BY <2>2, <2>11, OpenKeeps
  <2>12. CASE Put(t)
    BY <2>2, <2>12, PutKeeps
  <2>13. CASE Unlink(t)
    BY <2>2, <2>13, UnlinkKeeps
  <2>14. CASE RemoveFile(t)
    BY <2>2, <2>14, RemoveFileKeeps
  <2>15. CASE PutLoad(t)
    BY <2>2, <2>15, PutLoadKeeps
  <2>16. CASE PutStore(t)
    BY <2>2, <2>16, PutStoreKeeps
  <2>17. CASE PutFree(t)
    BY <2>2, <2>17, PutFreeKeeps
  <2>18. CASE CloseFails(t)
    BY <2>2, <2>18, CloseFailsKeeps
  <2>. QED
    BY <1>2, <2>3, <2>4, <2>5, <2>6, <2>7, <2>8, <2>9, <2>10, <2>11, <2>12, <2>13, <2>14, <2>15,
       <2>16, <2>17, <2>18
<1>. QED
  BY <1>1, <1>2 DEF VnodeNext

LEMMA VnodeInvCounted == VnodeInv => VnodesCounted
<1>. SUFFICES ASSUME VnodeParts PROVE raced = "no" => VnodesCounted
  BY DEF VnodeInv, VnodeParts, VnodesCounted
<1>1. ASSUME NEW v \in vn_table, NEW t \in FsThread, v_lock[v] = t
      PROVE  UsesOf(th[t], v) > 0 \/ (th[t].puts # <<>> /\ v = Head(th[t].puts))
  <2>1. PICK P : PathsIn(P)
    BY VnodePaths DEF VnodeParts
  <2>2. PICK o : o = th[t]
    OBVIOUS
  <2>3. Doing(t, P, o) /\ v \in Vnodes
    BY <2>1, <2>2, WorkKnown DEF VnodeParts, Typing
  <2>4. v \in Mine(o)
    BY <1>1, <2>3 DEF Doing
  <2>5. CASE o.puts # <<>> /\ v = Head(o.puts)
    BY <2>2, <2>5
  <2>6. CASE ~(o.puts # <<>> /\ v = Head(o.puts))
    <3>1. v \in Owing(o) \/ v = o.vp \/ v = o.dvp \/ v = o.held
      <4>1. CASE v \in Items(o.puts)
        <5>1. o.puts # <<>>
          BY <4>1, ItemsFew
        <5>. QED
          BY <2>6, <4>1, <5>1 DEF Owing
      <4>2. CASE v \notin Items(o.puts)
        BY <2>4, <4>2 DEF Mine
      <4>. QED
        BY <4>1, <4>2
    <3>2. UsesOf(th[t], v) # 0
      BY <2>3, <3>1, UsesNone
    <3>3. UsesOf(th[t], v) \in Nat
      BY <2>3 DEF Doing
    <3>. QED
      BY <3>2, <3>3
  <2>. QED
    BY <2>5, <2>6
<1>. QED
  BY <1>1 DEF VnodeParts, Counting, Naming, VnodesCounted

\* Until the first of the six steps that raced names, a path has one vnode, its
\* count is the number of open files, of those that failed to close and of
\* threads that use it, and who has it locked uses it: the work of namei(),
\* vn_lookup(), vput() and sys_unlink(), for any threads, vnodes and files.
THEOREM VnodesRight == VnodeSpec => []VnodesCounted
<1>1. VnodeInit => VnodeInv
  BY VnodeInvInit
<1>2. VnodeInv /\ [VnodeNext]_vnodeVars => VnodeInv'
  BY VnodeInvNext
<1>3. VnodeInv => VnodesCounted
  BY VnodeInvCounted
<1>. QED
  BY <1>1, <1>2, <1>3, PTL DEF VnodeSpec
=============================================================================

----------------------------- MODULE MCCondVnode -----------------------------
(***************************************************************************)
(* Condition variables with faults, and vnodes: two components that share  *)
(* no state and whose invariants are checked in one run.  Which of them    *)
(* runs is chosen at the start.  Nothing names the server threads, so they *)
(* are symmetric.                                                          *)
(***************************************************************************)
EXTENDS Cond, Vnode, TLC

CONSTANTS a, b, m1, m2, cv, d1, d2, t1, t2, t3

VARIABLE service

\* a before b, and m1 is locked twice by its holder.
DistinctPri == [t \in Thread |-> IF t = a THEN 0 ELSE 1]
OneTwice == [x \in MutexId |-> IF x = m1 THEN 2 ELSE 1]

\* "f" is a file in the directory "d", and "g" a name that goes on behind it.
MCParentOf == [d |-> "/", f |-> "d", g |-> "f"]
ServerThreads == Permutations(FsThread)

BothInit ==
  /\ CondInit /\ VnodeInit
  /\ service = "vnode" \/ (service = "cond" /\ exists = {"/"})

BothNext ==
  /\ UNCHANGED service
  /\ \/ service = "cond" /\ CondNext /\ UNCHANGED vnodeVars
     \/ service = "vnode" /\ VnodeNext /\ UNCHANGED cvars

BothSpec == BothInit /\ [][BothNext]_<<service, cvars, vnodeVars>>
=============================================================================

------------------------------ MODULE MCMutex ------------------------------
(* Small instances of Mutex for TLC. *)
EXTENDS Mutex

CONSTANTS a, b, c, d, m, n

\* Base priorities: all equal, or a before b before c.
EqualPri == [t \in Thread |-> 1]
DistinctPri == [t \in Thread |-> IF t = a THEN 0 ELSE IF t = b THEN 1 ELSE 2]

\* Only m is locked twice by its holder, or none is.
OneTwice == [x \in MutexId |-> IF x = m THEN 2 ELSE 1]
AllOnce == [x \in MutexId |-> 1]
=============================================================================

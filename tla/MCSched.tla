------------------------------ MODULE MCSched ------------------------------
(* Small instances of Sched for TLC. *)
EXTENDS Sched, TLC

CONSTANTS idle, a, b, c

\* The threads other than the idle thread are interchangeable.
Symmetry == Permutations(Thread \ {Idle})

\* Threads are created with any attributes; or c is better than a and b, which
\* share the CPU.
AnyAttributes == [t \in Thread |-> (0..(MINPRI - 1)) \X Policy]
OneBetter == [t \in Thread |-> IF t = c THEN {<<0, "FIFO">>} ELSE {<<1, "RR">>}]
=============================================================================

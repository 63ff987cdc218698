------------------------------- MODULE MCIpc -------------------------------
(* Small instances of Ipc for TLC. *)
EXTENDS Ipc

CONSTANTS a, b, s1, s2, o1, o2

\* a is better than b, s1 better than s2.
MCPriority == [t \in Thread |-> IF t \in {a, s1} THEN 1 ELSE 2]
EqualPriority == [t \in Thread |-> 1]
=============================================================================
